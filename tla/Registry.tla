------------------------------ MODULE Registry ------------------------------
(***************************************************************************)
(* The registry of block devices (bdev/bdev.c, bdev/bdev.sh), the program  *)
(* that fills it argument by argument (main.c), and the drivers as far as  *)
(* they use it: loop, mirror, dos and cache, which register devices, and   *)
(* the tools (blindread, dc, dump, fs), which only use them.               *)
(*                                                                         *)
(* st.list is the array of the registered devices, a device a record of    *)
(* the id of its name and of the devices it is stacked on; st.heap maps    *)
(* the id of a name to its text and to how often it was freed.  A text is  *)
(* a sequence: <<"a", 1>> is "a1", <<"a", ".", 1>> is "a.1".               *)
(***************************************************************************)
EXTENDS Integers, Sequences, FiniteSets

CONSTANTS
    MaxArgs,   \* bound: arguments of the program
    NumParts   \* entries of a partition table (4)

VARIABLES dev, st

Texts == {<<"a">>, <<"b">>, <<"a", 2>>}
Args == [driver : {"loop", "tool"}, name : Texts, of : {<<>>}]
          \cup [driver : {"mirror"}, name : {<<"b">>}, of : Texts \X Texts]
          \cup [driver : {"dos"}, name : {<<"a">>}, of : {<<t>> : t \in Texts}]
          \cup [driver : {"dmcrypt"}, name : {<<"b">>}, of : {<<<<"a">>>>}]
          \cup [driver : {"cache"}, name : Texts, of : {<<>>}]

Init ==
    /\ dev = [driver |-> "main"]
    /\ st = [pc |-> "argument", args |-> 0, drivers |-> {}, list |-> <<>>, heap |-> <<>>,
             arg |-> [driver |-> "none", name |-> <<>>, of |-> <<>>],
             num |-> 0, parts |-> {}, regs |-> <<>>, below |-> 0, error |-> FALSE,
             twice |-> FALSE]

TextOf(s, d) == s.heap[s.list[d].name].text
\* bdev_lookup_bdev: the first device with that name, or 0.
Lookup(s, text) ==
    LET found == {d \in DOMAIN s.list : TextOf(s, d) = text}
    IN  IF found = {} THEN 0 ELSE CHOOSE d \in found : \A e \in found : d <= e

\* A name comes from the heap and goes back to it.
New(s, text) == [s EXCEPT !.heap = Append(@, [text |-> text, frees |-> 0])]
Free(s, n)   == [s EXCEPT !.heap[n].frees = @ + 1, !.twice = @ \/ s.heap[n].frees > 0]

\* bdev_register_bdev frees the name if it is taken.
Register(s, n, of, id) ==
    IF Lookup(s, s.heap[n].text) # 0 THEN Free(s, n)
    ELSE [s EXCEPT !.list = Append(@, [name |-> n, of |-> of, id |-> id])]
Registered(s, n) == \E d \in DOMAIN s.list : s.list[d].name = n

\* bdev_deregister_bdev: the last device is moved to where this one was.
Deregister(s, d) ==
    LET last == Len(s.list)
        f    == Free(s, s.list[d].name)
    IN  [f EXCEPT !.list = SubSeq([s.list EXCEPT ![d] = s.list[last]], 1, last - 1)]

\* bdev_destroy, as bdev.sh generates it, frees the name once more.
Destroy(s, d) == LET n == s.list[d].name IN Free(Deregister(s, d), n)

\* Variant: the new name is not looked up.
RenameAnyway(s, d, n) == [Free(s, s.list[d].name) EXCEPT !.list[d].name = n]

\* bdev_rename_bdev.
Rename(s, d, n) ==
    IF Lookup(s, s.heap[n].text) # 0 THEN Free(s, n)
    ELSE [Free(s, s.list[d].name) EXCEPT !.list[d].name = n]

\* What init returned, to main.
Return(s, ok) == [s EXCEPT !.pc = IF ok THEN "argument" ELSE "exit"]
Go(s) == st' = s /\ UNCHANGED dev

\* main takes an argument apart; what cannot be parsed ends the program.
Argument ==
    /\ st.pc = "argument" /\ st.args < MaxArgs
    /\ \/ \E a \in Args :
            Go([st EXCEPT !.pc = "driver", !.arg = a, !.args = @ + 1])
       \/ Go([st EXCEPT !.pc = "exit"])

\* A driver that is not known is loaded, and registers itself when it is.
FindDriver ==
    /\ st.pc = "driver"
    /\ \/ st.arg.driver \in st.drivers /\ Go([New(st, st.arg.name) EXCEPT !.pc = "init"])
       \/ /\ st.arg.driver \notin st.drivers
          /\ \/ Go([New(st, st.arg.name) EXCEPT !.pc = "init", !.drivers = @ \cup {st.arg.driver}])
             \/ Go([st EXCEPT !.pc = "exit"])

Name == Len(st.heap)
Id   == st.args
Starts(driver) == st.pc = "init" /\ st.arg.driver = driver

\* loop: if the device cannot be registered, the name is freed here, too.
InitLoop ==
    /\ Starts("loop")
    /\ LET s == Register(st, Name, {}, <<Id, 0>>)
       IN  \/ Registered(s, Name) /\ Go(Return(s, TRUE))
           \/ ~Registered(s, Name) /\ Go(Return(Free(s, Name), FALSE))
           \/ Go(Return(Free(st, Name), FALSE))        \* the file cannot be opened

\* mirror: all mirrors are looked up, then it is registered like a loop device.
InitMirror ==
    /\ Starts("mirror")
    /\ LET mirrors == {Lookup(st, st.arg.of[k]) : k \in 1..2}
           s == Register(st, Name, {st.list[d].id : d \in mirrors}, <<Id, 0>>)
       IN  \/ 0 \in mirrors /\ Go(Return(Free(st, Name), FALSE))
           \/ 0 \notin mirrors /\ Registered(s, Name) /\ Go(Return(s, TRUE))
           \/ 0 \notin mirrors /\ ~Registered(s, Name) /\ Go(Return(Free(s, Name), FALSE))

\* A tool frees or forgets its name, and is done before init returns.
InitTool ==
    /\ Starts("tool")
    /\ \/ Go(Return(st, Lookup(st, st.arg.name) # 0))
       \/ Go(Return(Free(st, Name), TRUE))

\* dmcrypt: the device, the algorithms and the key are looked for, and what
\* is missing ends the program; a name that is taken was freed already.
InitDmCrypt ==
    /\ Starts("dmcrypt")
    /\ LET d == Lookup(st, st.arg.of[1])
           s == Register(st, Name, {st.list[e].id : e \in {d} \ {0}}, <<Id, 0>>)
       IN  \/ Go(Return(st, FALSE))
           \/ d # 0 /\ Go(Return(s, Registered(s, Name)))

\* dos: the table is read; there is a partition for every entry in use.
InitDos ==
    /\ Starts("dos")
    /\ LET d == Lookup(st, st.arg.of[1])
       IN  \/ Go(Return(Free(st, Name), FALSE))      \* not found, or not readable
           \/ /\ d # 0
              /\ \E parts \in SUBSET (1..NumParts) :
                   Go([st EXCEPT !.pc = "dos", !.num = 1, !.parts = parts,
                                 !.regs = [i \in 1..NumParts |-> 0],
                                 !.below = d, !.error = FALSE])

DosPartition ==
    /\ st.pc = "dos" /\ st.num <= NumParts
    /\ IF st.num \in st.parts
       THEN LET n == Len(st.heap) + 1
                s == Register(New(st, Append(st.arg.name, st.num)), n,
                              {st.list[st.below].id}, <<Id, st.num>>)
            IN  Go([s EXCEPT !.num = @ + 1, !.error = @ \/ ~Registered(s, n),
                             !.regs[st.num] = IF Registered(s, n) THEN n ELSE 0])
       ELSE Go([st EXCEPT !.num = @ + 1])

\* Without an error that was all; else the partitions are destroyed again.
DosDone ==
    /\ st.pc = "dos" /\ st.num > NumParts
    /\ Go(IF st.error THEN [st EXCEPT !.pc = "undo", !.num = 1] ELSE Return(st, TRUE))

DosUndo ==
    /\ st.pc = "undo"
    /\ IF st.num > NumParts THEN Go(Return(st, FALSE))
       ELSE IF st.regs[st.num] = 0 THEN Go([st EXCEPT !.num = @ + 1])
       ELSE LET d == CHOOSE e \in DOMAIN st.list : st.list[e].name = st.regs[st.num]
            IN  Go([Destroy(st, d) EXCEPT !.num = @ + 1])

\* cache: the device of that name gives its name to the cache.
InitCache ==
    /\ Starts("cache")
    /\ LET d == Lookup(st, st.arg.name)
       IN  \/ Go(Return(Free(st, Name), FALSE))      \* not found, or no cache files
           \/ d # 0 /\ Go([st EXCEPT !.pc = "rename", !.num = 1, !.below = d,
                                     !.regs = <<Name, 0>>])

\* The next free name with a number; a name that is taken is freed by
\* bdev_rename_bdev and by the loop.
CacheRename ==
    /\ st.pc = "rename"
    /\ LET n == Len(st.heap) + 1
           s == Rename(New(st, st.arg.name \o <<".", st.num>>), st.below, n)
       IN  IF s.list[st.below].name = n
           THEN Go([s EXCEPT !.pc = "top", !.num = 1])
           ELSE Go([Free(s, n) EXCEPT !.num = @ + 1])

CacheRegister ==
    /\ st.pc = "top"
    /\ LET n == st.regs[1]
           s == Register(st, n, {st.list[st.below].id}, <<Id, 0>>)
       IN  IF Registered(s, n) THEN Go(Return(s, TRUE)) ELSE Go(Return(Free(s, n), FALSE))

\* A name freed twice is found out by free, sooner or later.
Abort == st.twice /\ st.pc \notin {"exit", "aborted"} /\ Go([st EXCEPT !.pc = "aborted"])

Quit == st.pc = "argument" /\ st.args = MaxArgs /\ Go([st EXCEPT !.pc = "exit"])

Next == \/ Argument \/ FindDriver \/ InitLoop \/ InitMirror \/ InitTool \/ InitDmCrypt
        \/ InitDos \/ DosPartition \/ DosDone \/ DosUndo
        \/ InitCache \/ CacheRename \/ CacheRegister \/ Abort \/ Quit
Halted == st.pc \in {"exit", "aborted"}

\* Names of registered devices are alive and differ, devices are stacked on
\* registered devices, and a dos_init that failed leaves no partition behind.
Right ==
    /\ \A d, e \in DOMAIN st.list :
         /\ st.heap[st.list[d].name].frees = 0
         /\ d # e => TextOf(st, d) # TextOf(st, e) /\ st.list[d].id # st.list[e].id
    /\ \A d \in DOMAIN st.list : st.list[d].of \subseteq {st.list[e].id : e \in DOMAIN st.list}
    /\ st.pc = "exit" /\ st.arg.driver = "dos" /\ st.error =>
         \A d \in DOMAIN st.list : st.list[d].id[1] # st.args
=============================================================================
