--------------------------- MODULE DeviceCompare ---------------------------
(***************************************************************************)
(* The dc driver (bdev/dc/dc.c): it compares devices block by block.  Runs *)
(* of cs blocks are read from each device and compared at once; a run that *)
(* cannot be read or is not equal is halved, down to one block.            *)
(*                                                                         *)
(* dev.of are the devices from their offsets on, dev.content the contents  *)
(* of their blocks, dev.max the blocks to compare.  st.buf are the buffers *)
(* of the devices, st.reported the blocks reported with the devices in     *)
(* groups of equal contents.                                               *)
(***************************************************************************)
EXTENDS BlockDevice, Sequences

CONSTANTS
    NumCompared,   \* devices to compare
    CompareSize,   \* blocks of the longest
    CompareChunk,  \* chunk_size (128)
    Contents,      \* contents of a block; a block of zeros is "zero"
    MayFail        \* bound: the devices that have bad blocks; the others may be shorter

VARIABLES dev, st

Which == 1..NumCompared
MaxBlocks(of, size) ==
    LET max == CHOOSE s \in {of[i].size : i \in Which} : \A i \in Which : s >= of[i].size
    IN  IF size # {} /\ (CHOOSE n \in size : TRUE) < max THEN CHOOSE n \in size : TRUE ELSE max

Init ==
    \E of \in [Which -> UNION {Devices(s) : s \in {CompareSize - 1, CompareSize}}],
       size \in {{}, {1}} :
    \E content \in [Which -> [0..CompareSize - 1 -> Contents]] :
      /\ \A i \in Which : IF i \in MayFail THEN of[i].size = CompareSize
                                          ELSE of[i].bad = {} /\ ~of[i].stacked
      /\ \A i \in Which : \A b \in of[i].bad \cup (of[i].size..CompareSize - 1) :
           content[i][b] = "zero"
      /\ dev = [driver |-> "dc", of |-> of, content |-> content,
                max |-> MaxBlocks(of, size)]
      /\ st = [pc |-> "size", addr |-> 0, cs |-> 0, loaded |-> 0, at |-> 0, i |-> 1,
               ignore |-> {}, reported |-> <<>>,
               buf |-> [i \in Which |-> [k \in 0..CompareChunk - 1 |-> "zero"]]]

Ended(i) == st.addr >= dev.of[i].size

\* The length of a run is random; it is cut where a device ends, and devices
\* that have ended are ignored from then on.
ChooseSize ==
    /\ st.pc = "size" /\ st.addr < dev.max
    /\ \E random \in 1..CompareChunk :
         LET lens == {random} \cup {dev.of[i].size - st.addr : i \in {j \in Which : ~Ended(j)}}
         IN  st' = [st EXCEPT !.pc = "read", !.i = 1,
                      !.ignore = @ \cup {i \in Which : Ended(i)},
                      !.cs = CHOOSE n \in lens : \A m \in lens : n <= m]
    /\ UNCHANGED dev

\* What a read of device i puts into its buffer: what can be read, and the
\* rest of it stays.
Loaded(i, r) ==
    [k \in DOMAIN st.buf[i] |->
       IF k < r THEN dev.content[i][st.addr + k] ELSE st.buf[i][k]]

\* Variant: the buffer of a block that fails keeps what it had.
LeftAsItWas == [st EXCEPT !.i = @ + 1]

\* A block that cannot be read counts as zeros.
TakenAsZeros == [st EXCEPT !.i = @ + 1, !.buf[st.i][0] = "zero"]

\* A run is read from one device; if that fails, half of it is tried, and one
\* block that fails counts as zeros.
ReadDevice ==
    /\ st.pc = "read" /\ st.i <= NumCompared
    /\ LET r == Read(dev.of[st.i], st.addr, st.cs)
       IN  \/ Ended(st.i) /\ st' = [st EXCEPT !.i = @ + 1]
           \/ /\ ~Ended(st.i) /\ r = st.cs
              /\ st' = [st EXCEPT !.i = @ + 1, !.buf[st.i] = Loaded(st.i, r)]
           \/ /\ ~Ended(st.i) /\ r # st.cs /\ st.cs # 1
              /\ st' = [st EXCEPT !.cs = @ \div 2, !.buf[st.i] = Loaded(st.i, r)]
           \/ /\ ~Ended(st.i) /\ r # st.cs /\ st.cs = 1
              /\ st' = TakenAsZeros
    /\ UNCHANGED dev

\* The first device that has not ended is compared with the others.
AllRead ==
    /\ st.pc = "read" /\ st.i > NumCompared
    /\ st' = [st EXCEPT !.pc = "compare", !.loaded = st.cs, !.at = 0]
    /\ UNCHANGED dev

Compared == Which \ st.ignore
EqualRun == \A i, j \in Compared :
    \A k \in st.at..st.at + st.cs - 1 : st.buf[i][k] = st.buf[j][k]
Groups == {{j \in Compared : st.buf[j][st.at] = st.buf[i][st.at]} : i \in Compared}

\* The largest power of two that is not larger than what is left.
NextSize(left) ==
    LET powers == {0} \cup {2^e : e \in 0..CompareChunk}
    IN  CHOOSE p \in powers : p <= left /\ \A q \in powers : q <= left => q <= p

Advance ==
    LET left == st.loaded - st.cs
    IN  [st EXCEPT !.addr = @ + st.cs, !.at = @ + st.cs, !.loaded = left,
                   !.cs = NextSize(left), !.pc = IF left = 0 THEN "size" ELSE "compare"]

CompareEqual == st.pc = "compare" /\ EqualRun /\ st' = Advance /\ UNCHANGED dev
CompareHalf ==
    /\ st.pc = "compare" /\ ~EqualRun /\ st.cs > 1
    /\ st' = [st EXCEPT !.cs = @ \div 2]
    /\ UNCHANGED dev
Report ==
    /\ st.pc = "compare" /\ ~EqualRun /\ st.cs = 1
    /\ st' = [Advance EXCEPT !.reported = Append(@, <<st.addr, Groups>>)]
    /\ UNCHANGED dev

Finish ==
    /\ st.pc = "size" /\ st.addr >= dev.max
    /\ st' = [st EXCEPT !.pc = "done"]
    /\ UNCHANGED dev

Next == \/ ChooseSize \/ ReadDevice \/ AllRead
        \/ CompareEqual \/ CompareHalf \/ Report \/ Finish
Halted == st.pc = "done"

\* The groups of devices with the same contents of block b, as far as they have it.
TrueGroups(b) ==
    LET has == {i \in Which : b < dev.of[i].size}
    IN  {{j \in has : dev.content[j][b] = dev.content[i][b]} : i \in has}

\* At the end exactly the blocks that differ are reported, in order, with the
\* devices grouped as they agree, and nothing of the range was left out.
Right ==
    st.pc = "done" =>
      /\ st.addr >= dev.max
      /\ \A k \in DOMAIN st.reported :
           /\ st.reported[k][2] = TrueGroups(st.reported[k][1])
           /\ k > 1 => st.reported[k - 1][1] < st.reported[k][1]
      /\ {st.reported[k][1] : k \in DOMAIN st.reported} =
           {b \in 0..st.addr - 1 : Cardinality(TrueGroups(b)) > 1}
=============================================================================
