------------------------------- MODULE Mirror -------------------------------
(***************************************************************************)
(* A read from the mirror driver (bdev/mirror/mirror.c).  The first mirror *)
(* is asked for everything that is left; where it stops the others are     *)
(* asked for one block, and the first one again as soon as there is        *)
(* progress.  Blocks may go bad while the read goes on.                    *)
(*                                                                         *)
(* The -1 of a mirror that is stacked on a cache is taken for a number of  *)
(* blocks and for progress: the read goes back by one block, in the buffer *)
(* too, and one more is left to read.  st.minus says that this happened;   *)
(* the read may never end then, or go on before the caller's buffer, and   *)
(* what falls outside of the buffer is not kept here.                      *)
(*                                                                         *)
(* dev.of are the mirrors, dev.first and dev.num the blocks asked for;     *)
(* st.data[i] is <<block, mirror>> that buffer slot i was filled from.     *)
(***************************************************************************)
EXTENDS BlockDevice, Sequences

CONSTANTS
    NumMirrors,   \* mirrors of a device
    MirrorSize,   \* blocks of the longest mirror
    MaxDecay,     \* bound: blocks that go bad during the read
    MaxDrift      \* bound: blocks before the device where a read may arrive

VARIABLES dev, st

\* mirror_init: the device ends where the shortest mirror does.
SizeOf(of) ==
    CHOOSE s \in {of[m].size : m \in DOMAIN of} : \A m \in DOMAIN of : s <= of[m].size

Init ==
    \E of \in [1..NumMirrors -> UNION {Devices(s) : s \in {MirrorSize - 1, MirrorSize}}],
       first \in 0..MirrorSize, num \in 1..MirrorSize :
      /\ dev = [driver |-> "mirror", of |-> of, first |-> first, num |-> num]
      /\ st = [pc |-> "start", i |-> 0, first |-> first, num |-> num,
               ret |-> 0, minus |-> FALSE,
               data |-> [k \in 1..num |-> <<>>], decays |-> 0]

\* The range is cut at the end of the device.  The message of the error has
\* a name that was never set: printing it may end the program.
Start ==
    /\ st.pc = "start"
    /\ LET size == SizeOf(dev.of)
           out  == st.first + st.num > size
       IN  \/ ~out /\ st' = [st EXCEPT !.pc = "ask", !.i = 1]
           \/ out /\ st' = [st EXCEPT !.pc = "crashed"]
           \/ /\ out
              /\ IF st.first < size
                 THEN st' = [st EXCEPT !.pc = "ask", !.i = 1, !.num = size - st.first]
                 ELSE st' = [st EXCEPT !.pc = "done"]
    /\ UNCHANGED dev

\* What is left after the mirror asked has answered r.
Deliver(r) ==
    LET slot == st.first - dev.first
    IN  [st EXCEPT
          !.data = [k \in DOMAIN @ |-> IF k \in slot + 1..slot + r
                                       THEN <<dev.first + k - 1, st.i>> ELSE @[k]],
          !.ret = @ + r, !.num = @ - r, !.first = @ + r, !.minus = @ \/ r = -1]

\* Variant: after progress the other mirrors are asked in turn, too.
NextInTurn(r) == st.i + 1

\* Variant: the first mirror is asked again without progress.
NextFirst(r) == IF st.i > 1 THEN 1 ELSE st.i + 1

\* The mirror to ask after one that has answered r.
NextMirror(r) == IF st.i > 1 /\ r # 0 THEN 1 ELSE st.i + 1

\* One turn of the loop over the mirrors.
AskMirror ==
    /\ st.pc = "ask" /\ st.first > -MaxDrift
    /\ LET r == Read(dev.of[st.i], st.first, IF st.i = 1 THEN st.num ELSE 1)
           next == NextMirror(r)
           over == r = st.num \/ next > NumMirrors
       IN  st' = [Deliver(r) EXCEPT !.i = next, !.pc = IF over THEN "done" ELSE "ask"]
    /\ UNCHANGED dev

\* A block of a mirror goes bad.
Decay ==
    /\ st.pc = "ask" /\ st.decays < MaxDecay
    /\ \E m \in 1..NumMirrors, b \in 0..MirrorSize - 1 :
         /\ CanRead(dev.of[m], b)
         /\ dev' = [dev EXCEPT !.of[m].bad = @ \cup {b}]
    /\ st' = [st EXCEPT !.decays = @ + 1]

Step == Start \/ AskMirror
Next == Step \/ Decay
Halted == st.pc \in {"done", "crashed"}

\* The blocks returned are those asked for, from a mirror that has them, and
\* the read ends early only at a block that no mirror has (any more), unless
\* a mirror answered -1.
Right ==
    st.pc = "done" /\ ~st.minus =>
      /\ \A k \in 1..st.ret : /\ Len(st.data[k]) = 2
                              /\ st.data[k][1] = dev.first + k - 1
                              /\ st.data[k][1] < dev.of[st.data[k][2]].size
      /\ dev.first + st.ret < SizeOf(dev.of) /\ st.ret < dev.num =>
           \A m \in 1..NumMirrors : ~CanRead(dev.of[m], dev.first + st.ret)
      /\ st.ret <= dev.num
=============================================================================
