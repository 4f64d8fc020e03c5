-------------------------------- MODULE Loop --------------------------------
(***************************************************************************)
(* The loop driver (bdev/loop/loop.c): a file as a device.  All accesses   *)
(* share one file descriptor and thus one position, which a lock guards.   *)
(*                                                                         *)
(* dev.file is the file, dev.whole whether a file has the whole argument   *)
(* for its name, dev.suffix whether the argument ends in " --read-write",  *)
(* dev.odd whether the size is not a multiple of the block size; dev.op    *)
(* what each thread does.  A block has <<its number, who wrote it>> for    *)
(* contents.                                                               *)
(***************************************************************************)
EXTENDS BlockDevice, Sequences

CONSTANTS
    LoopSize,      \* blocks of the file
    LoopThreads    \* threads that use the device

VARIABLES dev, st

Ops == [kind : {"read", "write"}, first : 0..LoopSize - 1, num : 1..2]

Init ==
    \E file \in Devices(LoopSize), whole, suffix, odd \in BOOLEAN, op \in [LoopThreads -> Ops] :
      /\ Cardinality(file.bad) <= 1
      /\ dev = [driver |-> "loop", of |-> file, whole |-> whole, suffix |-> suffix,
                odd |-> odd, op |-> op]
      /\ st = [pc |-> "open", mode |-> "none", lock |-> {}, pos |-> 0,
               content |-> [b \in 0..LoopSize - 1 |-> <<b, "disk">>],
               thr |-> [t \in LoopThreads |-> [pc |-> "call", ret |-> 0, data |-> <<>>]]]

\* bdev_init: the whole argument is tried as the name of a file first, to be
\* read only; without the suffix the rest is opened for writing, too.
Open ==
    /\ st.pc = "open"
    /\ st' = [st EXCEPT
         !.mode = IF dev.whole THEN "ro" ELSE IF dev.suffix THEN "rw" ELSE "none",
         !.pc   = IF dev.odd \/ ~(dev.whole \/ dev.suffix) THEN "failed" ELSE "use"]
    /\ UNCHANGED dev

Thr(t) == st.thr[t]
Op(t)  == dev.op[t]

\* An access that leaves the device fails before it takes the lock.
Call(t) ==
    /\ st.pc = "use" /\ Thr(t).pc = "call"
    /\ st' = [st EXCEPT !.thr[t].pc =
                IF Op(t).first + Op(t).num > dev.of.size THEN "done" ELSE "lock"]
    /\ UNCHANGED dev

Lock(t) ==
    /\ Thr(t).pc = "lock" /\ st.lock = {}
    /\ st' = [st EXCEPT !.lock = {t}, !.thr[t].pc = "seek"]
    /\ UNCHANGED dev

Seek(t) ==
    /\ Thr(t).pc = "seek"
    /\ st' = [st EXCEPT !.pos = Op(t).first, !.thr[t].pc = "transfer"]
    /\ UNCHANGED dev

\* read or write where the position is; it stops before a block that fails.
Transfer(t) ==
    /\ Thr(t).pc = "transfer"
    /\ LET r  == UpToBad(dev.of, st.pos, Op(t).num)
           ok == Op(t).kind = "read" \/ st.mode = "rw"
           n  == IF ok THEN r ELSE 0
           at == st.pos..st.pos + n - 1
       IN  st' = [st EXCEPT !.pos = @ + n,
             !.content = IF Op(t).kind = "read" THEN @ ELSE
                [b \in DOMAIN @ |-> IF b \in at THEN <<Op(t).first + b - st.pos, t>> ELSE @[b]],
             !.thr[t] = [pc |-> "unlock", ret |-> n,
                data |-> IF Op(t).kind = "read"
                         THEN [k \in 1..n |-> st.content[st.pos + k - 1]] ELSE <<>>]]
    /\ UNCHANGED dev

Unlock(t) ==
    /\ Thr(t).pc = "unlock"
    /\ st' = [st EXCEPT !.lock = {}, !.thr[t].pc = "done"]
    /\ UNCHANGED dev

Next == Open \/ \E t \in LoopThreads : Call(t) \/ Lock(t) \/ Seek(t) \/ Transfer(t) \/ Unlock(t)
Halted == st.pc = "failed" \/ \A t \in LoopThreads : Thr(t).pc = "done"

\* Every thread gets the blocks it asked for, a write changes its own blocks,
\* and only if the device was opened for writing.
Right ==
    /\ \A t \in LoopThreads, k \in 1..2 :
         k \in DOMAIN Thr(t).data => Thr(t).data[k][1] = Op(t).first + k - 1
    /\ \A b \in DOMAIN st.content :
         /\ st.content[b][1] = b
         /\ st.content[b][2] # "disk" =>
              dev.suffix /\ ~dev.whole /\ Op(st.content[b][2]).kind = "write"
=============================================================================
