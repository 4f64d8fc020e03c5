-------------------------------- MODULE Dump --------------------------------
(***************************************************************************)
(* The dump driver (bdev/dump/dump.c): it copies a range of a device to a  *)
(* file ([size:]device[@addr]>file) or a file over a range of a device     *)
(* (...<file) in chunks.                                                   *)
(*                                                                         *)
(* dev.of is the device, dev.addr and dev.size the range, dev.toFile the   *)
(* direction, dev.fileLen the blocks the file has (or has room for), with  *)
(* part of one more if dev.odd.  st.file is what was written to the file,  *)
(* as numbers of blocks; st.written maps blocks of the device to the       *)
(* blocks of the file they were overwritten with.                          *)
(***************************************************************************)
EXTENDS BlockDevice, Sequences

CONSTANTS
    DumpSize,    \* blocks of the device
    DumpChunk    \* chunk_size to start with (128)

VARIABLES dev, st

End == RangeEnd(dev.of, dev.addr, dev.size)

Init ==
    \E of \in Devices(DumpSize), addr \in 0..DumpSize + 1, size \in Sizes(DumpSize),
       toFile, odd \in BOOLEAN, n \in 0..DumpSize :
      /\ dev = [driver |-> "dump", of |-> of, addr |-> addr, size |-> size,
                toFile |-> toFile, fileLen |-> n, odd |-> odd]
      /\ st = [pc |-> "start", addr |-> addr, chunk |-> DumpChunk, pos |-> 0, errors |-> 0,
               file |-> <<>>, written |-> [b \in 0..DumpSize - 1 |-> -1]]

Start ==
    /\ st.pc = "start"
    /\ st' = [st EXCEPT !.pc = IF RangeRefused(dev.of, dev.addr, dev.size)
                               THEN "refused" ELSE "copy"]
    /\ UNCHANGED dev

Chunk == IF End - st.addr < st.chunk THEN End - st.addr ELSE st.chunk

\* Device to file: an incomplete read or write ends it.
CopyToFile ==
    /\ st.pc = "copy" /\ dev.toFile /\ st.addr < End
    /\ LET r    == Read(dev.of, st.addr, Chunk)
           room == dev.fileLen - Len(st.file)
           w    == IF Chunk < room THEN Chunk ELSE room
       IN  \/ r # Chunk /\ st' = [st EXCEPT !.pc = "failed"]
           \/ /\ r = Chunk
              /\ st' = [st EXCEPT !.chunk = Chunk,
                   !.file = @ \o [k \in 1..w |-> st.addr + k - 1],
                   !.addr = IF w = Chunk THEN @ + r ELSE @,
                   !.pc   = IF w = Chunk THEN "copy" ELSE "failed"]
    /\ UNCHANGED dev

\* File to device: a short read makes the chunks shorter from then on; the
\* end of the file, or part of a block, ends it; what the device does not
\* take is counted as one error, and one block of the device is skipped.
CopyFromFile ==
    /\ st.pc = "copy" /\ ~dev.toFile /\ st.addr < End
    /\ LET rest == dev.fileLen - st.pos
           got  == IF rest < Chunk THEN rest ELSE Chunk
           part == rest < Chunk /\ dev.odd
           w    == Delivered(Write(dev.of, st.addr, got))
       IN  \/ (part \/ got = 0) /\ st' = [st EXCEPT !.pc = "failed"]
           \/ /\ ~(part \/ got = 0)
              /\ st' = [st EXCEPT !.chunk = got, !.pos = @ + got,
                   !.written = [b \in DOMAIN @ |->
                      IF b \in st.addr..st.addr + w - 1 THEN st.pos + b - st.addr ELSE @[b]],
                   !.addr   = IF w = got THEN @ + w ELSE @ + w + 1,
                   !.errors = IF w = got THEN @ ELSE @ + 1]
    /\ UNCHANGED dev

Finish ==
    /\ st.pc = "copy" /\ st.addr >= End
    /\ st' = [st EXCEPT !.pc = "done"]
    /\ UNCHANGED dev

Next == Start \/ CopyToFile \/ CopyFromFile \/ Finish
Halted == st.pc \in {"done", "failed", "refused"}

\* The file is a beginning of the range, and all of it if nothing failed; the
\* device gets every block of the file at its own place if it takes them all.
Right ==
    /\ \A k \in 1..Len(st.file) : st.file[k] = dev.addr + k - 1
    /\ st.errors = 0 => \A b \in DOMAIN st.written : st.written[b] \in {-1, b - dev.addr}
    /\ st.pc = "done" /\ dev.toFile => Len(st.file) = End - dev.addr
    /\ st.pc = "done" /\ ~dev.toFile /\ st.errors = 0 =>
         \A b \in dev.addr..End - 1 : st.written[b] = b - dev.addr
=============================================================================
