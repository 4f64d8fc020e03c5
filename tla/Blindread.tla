------------------------------ MODULE Blindread ------------------------------
(***************************************************************************)
(* The blindread driver (bdev/blindread/blindread.c): it reads a range of  *)
(* a device in chunks and counts the blocks that cannot be read.  Its      *)
(* argument is [size:]device[@addr].  No device has an mmapro function.    *)
(*                                                                         *)
(* dev.of is the device, dev.addr where to start, dev.size the number of   *)
(* blocks if one is given.                                                 *)
(***************************************************************************)
EXTENDS BlockDevice

CONSTANTS
    BlindSize,   \* blocks of the device
    BlindChunk   \* chunk_size to start with (128)

VARIABLES dev, st

End == RangeEnd(dev.of, dev.addr, dev.size)

Init ==
    \E of \in Devices(BlindSize), addr \in 0..BlindSize + 1, size \in Sizes(BlindSize) :
      /\ dev = [driver |-> "blindread", of |-> of, addr |-> addr, size |-> size]
      /\ st = [pc |-> "start", addr |-> addr, chunk |-> BlindChunk, errors |-> 0]

Start ==
    /\ st.pc = "start"
    /\ st' = [st EXCEPT !.pc = IF RangeRefused(dev.of, dev.addr, dev.size)
                               THEN "refused" ELSE "read"]
    /\ UNCHANGED dev

\* One turn of the loop.  A read that stops short has found a block that
\* fails: it is counted and skipped.
ReadChunk ==
    /\ st.pc = "read" /\ st.addr < End
    /\ LET left  == End - st.addr
           chunk == IF left < st.chunk THEN left ELSE st.chunk
           r     == Delivered(Read(dev.of, st.addr, chunk))
       IN  st' = IF r = chunk
                 THEN [st EXCEPT !.chunk = chunk, !.addr = @ + r]
                 ELSE [st EXCEPT !.chunk = chunk, !.addr = @ + r + 1, !.errors = @ + 1]
    /\ UNCHANGED dev

Finish ==
    /\ st.pc = "read" /\ st.addr >= End
    /\ st' = [st EXCEPT !.pc = "done"]
    /\ UNCHANGED dev

Next == Start \/ ReadChunk \/ Finish
Halted == st.pc \in {"done", "refused"}

\* The number reported is the number of bad blocks in the range.
Right ==
    st.pc = "done" =>
      st.errors = Cardinality({b \in dev.of.bad : b >= dev.addr /\ b < End})
=============================================================================
