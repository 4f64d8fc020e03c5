------------------------------ MODULE CacheDev ------------------------------
(***************************************************************************)
(* The cache driver (bdev/cache/cache.c).  A run of the program reads the  *)
(* blocks it needs from the data file that an earlier run left, and writes *)
(* the blocks it reads, in the order of their first use, to a new data     *)
(* file for the next one.  The info file beside it says which block is     *)
(* where, and how often it was read.                                       *)
(*                                                                         *)
(* A file is a pair <<what, age>>; "cur" are the files without suffix,     *)
(* which somebody puts into place between two runs (Promote, Touch: not in *)
(* the program).  All of bdev_init, every file operation and every access  *)
(* may be interrupted by a crash of the program; the files stay.           *)
(***************************************************************************)
EXTENDS Integers, Sequences, FiniteSets, SequencesExt

CONSTANTS Blocks,
          Readers, Writers, \* the threads that access the device
          MAX_BLOCKS_CACHED,
          MaxWrites,        \* bound: no more writes when a block had so many
          MaxAccesses       \* bound: reads in one run that are counted

ASSUME CacheDevAssumption ==
    /\ {"free", "populate"} \cap (Readers \cup Writers) = {}
    /\ MAX_BLOCKS_CACHED \in Nat \ {0}
    /\ MaxWrites \in Nat /\ MaxAccesses \in Nat

VARIABLES
    backing,         \* what a block of the backing device holds, a version
    dir, file,       \* the files that exist, and what is in each
    up,              \* where bdev_init is; "down", "up"
    pop,             \* the thread that populates the block lookup set
    oldInfo, oldFile,\* what was in the old files when they were opened
    hasNew,          \* new.info_fd and new.data_fd are not -1
    lock,            \* private->lock: the client that holds it, or a string
    ble,             \* block_lookup_set
    old, new,        \* old.data, new.data
    pos,             \* the position in the old data file
    next_read_index, num_blocks_cached,
    pc, blk, val,    \* of a client: where it is, its block, its buffer
    seen,            \* the versions its block had since it began to read
    shaky,           \* a read of a data file failed in some run
    failed           \* the program died of an access through -1

disk == <<backing, dir, file, shaky>>
init == <<up, pop, oldInfo, oldFile>>
mem  == <<hasNew, ble, old, new, pos, next_read_index, num_blocks_cached>>
cl   == <<pc, blk, val, seen>>
Clients == Readers \cup Writers
vars == <<disk, init, mem, lock, cl, failed>>

Age == {"cur", "old", "new"}
Pair(a) == {<<"info", a>>, <<"data", a>>}
Content(b) == [block |-> b, ver |-> backing[b]]
NoData == [ver |-> -1]
NotLookedUp == [known |-> FALSE, old |-> 0, new |-> 0]

\* What is in memory when the program starts; indices count from 1, and 0 is
\* the -1 of old_entry and new_entry.
Cleared ==
    /\ hasNew' = FALSE /\ lock' = "free" /\ old' = <<>> /\ new' = <<>>
    /\ ble' = [b \in Blocks |-> NotLookedUp]
    /\ pos' = 1 /\ next_read_index' = 1 /\ num_blocks_cached' = 0
    /\ pop' = "none" /\ oldInfo' = <<>> /\ oldFile' = <<>>
    /\ pc' = [c \in Clients |-> "idle"] /\ blk' = [c \in Clients |-> "none"]
    /\ val' = [c \in Clients |-> NoData] /\ seen' = [c \in Clients |-> {}]

Init ==
    /\ backing = [b \in Blocks |-> 0]
    /\ dir \in {{}, Pair("cur")}
    /\ file = [f \in {"info", "data"} \X Age |-> <<>>]
    /\ up = "down" /\ pop = "none" /\ oldInfo = <<>> /\ oldFile = <<>>
    /\ hasNew = FALSE /\ lock = "free" /\ old = <<>> /\ new = <<>>
    /\ ble = [b \in Blocks |-> NotLookedUp]
    /\ pos = 1 /\ next_read_index = 1 /\ num_blocks_cached = 0
    /\ pc = [c \in Clients |-> "idle"]
    /\ blk = [c \in Clients |-> "none"]
    /\ val = [c \in Clients |-> NoData] /\ seen = [c \in Clients |-> {}]
    /\ shaky = FALSE /\ failed = FALSE

(***************************************************************************)
(* The directory.                                                          *)
(***************************************************************************)
Rename(what, from, to) ==
    IF <<what, from>> \in dir
    THEN /\ dir' = (dir \ {<<what, from>>}) \cup {<<what, to>>}
         /\ file' = [file EXCEPT ![<<what, to>>] = file[<<what, from>>],
                                 ![<<what, from>>] = <<>>]
    ELSE UNCHANGED <<dir, file>>         \* ENOENT counts as success

\* What takes the files of S out of the directory leaves the opened ones alone.
Unlink(S) ==
    /\ dir' = dir \ S
    /\ file' = [f \in DOMAIN file |-> IF f \in S THEN <<>> ELSE file[f]]

\* Not in the program: somebody puts the new files into the place of the
\* current ones, or empty ones for a first run.
Promote ==
    /\ up = "down" /\ Pair("new") \subseteq dir
    /\ dir' = (dir \ Pair("new")) \cup Pair("cur")
    /\ file' = [f \in DOMAIN file |->
                  CASE f[2] = "cur" -> file[<<f[1], "new">>]
                    [] f[2] = "new" -> <<>>
                    [] OTHER -> file[f]]
    /\ UNCHANGED <<backing, shaky, init, mem, lock, cl, failed>>

Touch ==
    /\ up = "down" /\ dir = {}
    /\ dir' = Pair("cur")
    /\ UNCHANGED <<backing, file, shaky, init, mem, lock, cl, failed>>

(***************************************************************************)
(* bdev_init.  up is the file operation that comes next.                   *)
(***************************************************************************)
Exit == up' = "down" /\ Cleared

RenameInfo ==
    /\ up = "down"
    /\ \/ Rename("info", "cur", "old") /\ up' = "renameData"
       \/ <<"info", "cur">> \in dir /\ up' = "renameFailed" /\ UNCHANGED <<dir, file>>
    /\ UNCHANGED <<backing, shaky, pop, oldInfo, oldFile, mem, lock, cl, failed>>

\* Variant: a start goes on after it could not rename one of the files.
RenameAnyway ==
    /\ up \in {"renameData", "renameFailed"}
    /\ up' = "open"
    /\ Rename("data", "cur", "old") \/ UNCHANGED <<dir, file>>
    /\ UNCHANGED <<backing, shaky, pop, oldInfo, oldFile, mem, lock, cl, failed>>

RenameData ==
    /\ up \in {"renameData", "renameFailed"}
    /\ \/ /\ Rename("data", "cur", "old")
          /\ IF up = "renameData"
             THEN up' = "open" /\ UNCHANGED <<pop, oldInfo, oldFile, mem, lock, cl>>
             ELSE Exit
       \/ /\ <<"data", "cur">> \in dir /\ Exit
          /\ UNCHANGED <<dir, file>>
    /\ UNCHANGED <<backing, shaky, failed>>

\* Both files or none.
Open ==
    /\ up = "open"
    /\ IF Pair("old") \cap dir \in {{}, Pair("old")}
       THEN /\ up' = "unlinkInfo"
            /\ pop' = IF Pair("old") \subseteq dir THEN "opened" ELSE "none"
            /\ oldInfo' = file[<<"info", "old">>]
            /\ oldFile' = file[<<"data", "old">>]
            /\ UNCHANGED <<mem, lock, cl>>
       ELSE Exit
    /\ UNCHANGED <<disk, failed>>

\* The new files are removed and made again; whatever fails, the driver goes
\* on without them.
UnlinkNew ==
    /\ up \in {"unlinkInfo", "unlinkData"}
    /\ \/ /\ Unlink({<<IF up = "unlinkInfo" THEN "info" ELSE "data", "new">>})
          /\ up' = IF up = "unlinkInfo" THEN "unlinkData" ELSE "createInfo"
       \/ up' = "register" /\ UNCHANGED <<dir, file>>
    /\ UNCHANGED <<backing, shaky, pop, oldInfo, oldFile, mem, lock, cl, failed>>

CreateNew ==
    /\ up \in {"createInfo", "createData"}
    /\ \/ /\ dir' = dir \cup {<<IF up = "createInfo" THEN "info" ELSE "data", "new">>}
          /\ up' = IF up = "createInfo" THEN "createData" ELSE "register"
          /\ hasNew' = (up = "createData")
          /\ UNCHANGED file
       \/ /\ Unlink({<<"info", "new">>}) \/ UNCHANGED <<dir, file>>
          /\ up' = "register" /\ UNCHANGED hasNew
    /\ UNCHANGED <<backing, shaky, pop, oldInfo, oldFile, ble, old, new, pos,
                   next_read_index, num_blocks_cached, lock, cl, failed>>

\* The lock is taken for the thread that populates the lookup set, which there
\* is only with an old info file.
Register ==
    /\ up = "register" /\ up' = "up"
    /\ lock' = "populate"
    /\ pop' = IF pop = "opened" THEN "running" ELSE "none"
    /\ UNCHANGED <<disk, oldInfo, oldFile, mem, cl, failed>>

(***************************************************************************)
(* do_populate_block_lookup_set: an entry that the crash of its writer cut *)
(* in two is left out; if the file cannot be read, the lock stays.         *)
(***************************************************************************)
WholeEntries ==
    IF oldInfo # <<>> /\ oldInfo[Len(oldInfo)].accesses = 0
    THEN SubSeq(oldInfo, 1, Len(oldInfo) - 1) ELSE oldInfo

Populate ==
    /\ pop = "running" /\ pop' = "none"
    /\ \/ /\ old' = [i \in 1..Len(WholeEntries) |->
                       [block |-> WholeEntries[i].block, data |-> NoData,
                        accesses |-> WholeEntries[i].accesses]]
          /\ ble' = [b \in Blocks |->
                       IF \E i \in DOMAIN WholeEntries : WholeEntries[i].block = b
                       THEN [known |-> TRUE, new |-> 0,
                             old |-> CHOOSE i \in DOMAIN WholeEntries : WholeEntries[i].block = b]
                       ELSE NotLookedUp]
          /\ lock' = "free"
       \/ UNCHANGED <<old, ble, lock>>
    /\ UNCHANGED <<disk, up, oldInfo, oldFile, hasNew, new, pos,
                   next_read_index, num_blocks_cached, cl, failed>>

(***************************************************************************)
(* access_one_block, to read.                                              *)
(***************************************************************************)
CanRun(c, label) == up = "up" /\ ~failed /\ pc[c] = label
Accesses == FoldSeq(LAMBDA e, n : e.accesses + n, 0, new)

Read(c, b) ==
    /\ CanRun(c, "idle") /\ Accesses < MaxAccesses
    /\ pc' = [pc EXCEPT ![c] = "lock"] /\ blk' = [blk EXCEPT ![c] = b]
    /\ seen' = [seen EXCEPT ![c] = {backing[b]}]
    /\ val' = [val EXCEPT ![c] = NoData]
    /\ UNCHANGED <<disk, init, mem, lock, failed>>

Lock(c) ==
    /\ CanRun(c, "lock") /\ lock = "free" /\ lock' = c
    /\ pc' = [pc EXCEPT ![c] = "get"]
    /\ UNCHANGED <<disk, init, mem, blk, val, seen, failed>>

Entry(c) == ble[blk[c]]
Goto(c, label) == pc' = [pc EXCEPT ![c] = label] /\ UNCHANGED <<lock, blk, seen>>

\* Variant: an error path that goes around the unlock.
OutLocked(c) ==
    /\ pc' = [pc EXCEPT ![c] = "idle"] /\ UNCHANGED lock
    /\ blk' = [blk EXCEPT ![c] = "none"] /\ val' = [val EXCEPT ![c] = NoData]
    /\ seen' = [seen EXCEPT ![c] = {}]

\* Label out, and back to the caller.
Out(c) ==
    /\ lock' = "free" /\ pc' = [pc EXCEPT ![c] = "idle"]
    /\ blk' = [blk EXCEPT ![c] = "none"] /\ val' = [val EXCEPT ![c] = NoData]
    /\ seen' = [seen EXCEPT ![c] = {}]

FromBacking(c) ==
    \/ Goto(c, "data") /\ val' = [val EXCEPT ![c] = Content(blk[c])]
    \/ Out(c)                            \* the backing device cannot read it

\* The block is not in the set: it gets an entry if the new files are there.
GetMissing(c) ==
    /\ CanRun(c, "get") /\ ~Entry(c).known
    /\ \/ /\ hasNew /\ Goto(c, "data")
          /\ val' = [val EXCEPT ![c] = Content(blk[c])]
          /\ ble' = [ble EXCEPT ![blk[c]].known = TRUE]
       \/ Out(c) /\ UNCHANGED ble
    /\ UNCHANGED <<disk, init, hasNew, old, new, pos, next_read_index,
                   num_blocks_cached, failed>>

\* The block is in the old data, perhaps still in the file only.
GetOld(c) ==
    /\ CanRun(c, "get") /\ Entry(c).known /\ Entry(c).old # 0
    /\ LET e == old[Entry(c).old]
       IN  \/ e.accesses = 0 /\ failed' = TRUE    \* old_entry is -1 when it is used
              /\ UNCHANGED <<lock, cl>>
           \/ e.accesses # 0 /\ Goto(c, IF e.data = NoData THEN "ahead" ELSE "copy")
              /\ UNCHANGED <<val, failed>>
    /\ UNCHANGED <<disk, init, mem>>

\* The code seeks to the entry that failed, and goes on to the next one.
SeekAfterError == next_read_index

\* The loop that reads the data file ahead: a read may fail, and does beyond the
\* end of the file.
ReadAhead(c) ==
    /\ CanRun(c, "ahead")
    /\ IF num_blocks_cached < MAX_BLOCKS_CACHED /\ next_read_index <= Len(old)
       THEN /\ next_read_index' = next_read_index + 1
            /\ \/ /\ pos <= Len(oldFile) /\ pos' = pos + 1
                  /\ old' = [old EXCEPT ![next_read_index].data = oldFile[pos]]
                  /\ num_blocks_cached' = num_blocks_cached + 1 /\ UNCHANGED shaky
               \/ /\ old' = [old EXCEPT ![next_read_index].accesses = 0]
                  /\ pos' = SeekAfterError /\ UNCHANGED num_blocks_cached
                  /\ shaky' = (shaky \/ pos <= Len(oldFile))
            /\ UNCHANGED cl
       ELSE /\ Goto(c, "copy")
            /\ UNCHANGED <<shaky, old, pos, next_read_index, num_blocks_cached, val>>
    /\ UNCHANGED <<backing, dir, file, init, hasNew, ble, new, lock, failed>>

\* What is still not in memory is read from the backing device.
GetCopy(c) ==
    /\ CanRun(c, "copy")
    /\ LET i    == Entry(c).old
           last == old[i].accesses = 1
       IN  IF old[i].data = NoData THEN FromBacking(c) /\ UNCHANGED <<old, ble, num_blocks_cached>>
           ELSE /\ val' = [val EXCEPT ![c] = old[i].data] /\ Goto(c, "data")
                /\ old' = [old EXCEPT ![i].accesses = @ - 1, ![i].data = IF last THEN NoData ELSE @]
                /\ ble' = IF last THEN [ble EXCEPT ![blk[c]].old = 0] ELSE ble
                /\ num_blocks_cached' = IF last THEN num_blocks_cached - 1 ELSE num_blocks_cached
    /\ UNCHANGED <<disk, init, hasNew, new, pos, next_read_index, failed>>

\* The old data is used up, or there was none.
GetUsedUp(c) ==
    /\ CanRun(c, "get") /\ Entry(c).known /\ Entry(c).old = 0
    /\ FromBacking(c)
    /\ UNCHANGED <<disk, init, mem, failed>>

\* If a write to one of the new files fails, both are given up, whether or not
\* they can be removed.
GiveUpNew == (\E S \in SUBSET Pair("new") : Unlink(S)) /\ hasNew' = FALSE

\* Variant: a block that came from the old file is not written to the new one.
StoreUnlessOld(c) ==
    /\ CanRun(c, "data")
    /\ Goto(c, "block") /\ UNCHANGED <<dir, val, hasNew>>
    /\ IF Entry(c).new # 0 THEN UNCHANGED <<file, ble, new>>
       ELSE /\ ble' = [ble EXCEPT ![blk[c]].new = Len(new) + 1]
            /\ new' = Append(new, [block |-> blk[c], accesses |-> 0])
            /\ file' = IF hasNew /\ Entry(c).old = 0
                       THEN [file EXCEPT ![<<"data", "new">>] = Append(@, val[c])] ELSE file
    /\ UNCHANGED <<backing, shaky, init, old, pos, next_read_index,
                   num_blocks_cached, failed>>

StoreData(c) ==
    /\ CanRun(c, "data")
    /\ Goto(c, "block") /\ UNCHANGED val
    /\ IF Entry(c).new # 0 THEN UNCHANGED <<dir, file, hasNew, ble, new>>
       ELSE /\ ble' = [ble EXCEPT ![blk[c]].new = Len(new) + 1]
            /\ new' = Append(new, [block |-> blk[c], accesses |-> 0])
            /\ \/ /\ hasNew /\ UNCHANGED <<dir, hasNew>>
                  /\ file' = [file EXCEPT ![<<"data", "new">>] = Append(@, val[c])]
               \/ hasNew /\ GiveUpNew
               \/ ~hasNew /\ UNCHANGED <<dir, file, hasNew>>
    /\ UNCHANGED <<backing, shaky, init, old, pos, next_read_index,
                   num_blocks_cached, failed>>

\* The first half of a new entry of the info file.
StoreBlock(c) ==
    /\ CanRun(c, "block")
    /\ LET i == Entry(c).new
           first == hasNew /\ new[i].accesses = 0
       IN \/ /\ first /\ Goto(c, "count") /\ UNCHANGED <<dir, hasNew, val>>
             /\ file' = [file EXCEPT ![<<"info", "new">>] =
                           Append(@, [block |-> blk[c], accesses |-> 0])]
          \/ first /\ GiveUpNew /\ Out(c)
          \/ ~first /\ Goto(c, "count") /\ UNCHANGED <<dir, file, hasNew, val>>
    /\ UNCHANGED <<backing, shaky, init, ble, old, new, pos, next_read_index,
                   num_blocks_cached, failed>>

StoreCount(c) ==
    /\ CanRun(c, "count") /\ Out(c)
    /\ LET i == Entry(c).new IN
       /\ new' = [new EXCEPT ![i].accesses = @ + 1]
       /\ \/ /\ hasNew
             /\ file' = [file EXCEPT ![<<"info", "new">>][i].accesses = new[i].accesses + 1]
             /\ UNCHANGED <<dir, hasNew>>
          \/ hasNew /\ GiveUpNew
          \/ ~hasNew /\ UNCHANGED <<dir, file, hasNew>>
    /\ UNCHANGED <<backing, shaky, init, ble, old, pos, next_read_index,
                   num_blocks_cached, failed>>

(***************************************************************************)
(* access_one_block, to write: without the lock, and the caches stay.      *)
(***************************************************************************)
Write(c, b) ==
    /\ CanRun(c, "idle") /\ \A d \in Blocks : backing[d] < MaxWrites
    /\ backing' = [backing EXCEPT ![b] = @ + 1]
    /\ pc' = [pc EXCEPT ![c] = "unlinkInfo"]
    /\ seen' = [d \in Clients |-> IF blk[d] = b
                                  THEN seen[d] \cup {backing[b] + 1} ELSE seen[d]]
    /\ UNCHANGED <<dir, file, shaky, init, mem, lock, blk, val, failed>>

UnlinkOld(c) ==
    /\ pc[c] \in {"unlinkInfo", "unlinkData"} /\ ~failed
    /\ \/ Unlink({<<IF pc[c] = "unlinkInfo" THEN "info" ELSE "data", "old">>})
       \/ UNCHANGED <<dir, file>>       \* an error is ignored
    /\ pc' = [pc EXCEPT ![c] = IF @ = "unlinkInfo" THEN "unlinkData" ELSE "idle"]
    /\ UNCHANGED <<backing, shaky, init, mem, lock, blk, val, seen, failed>>

\* The program ends, at any point; also the normal end of a run.
Crash ==
    /\ up # "down" /\ Exit /\ failed' = FALSE
    /\ UNCHANGED disk

Next ==
    \/ Promote \/ Touch \/ RenameInfo \/ RenameData \/ Open \/ UnlinkNew
    \/ CreateNew \/ Register \/ Populate \/ Crash
    \/ \E c \in Readers :
         \/ \E b \in Blocks : Read(c, b)
         \/ Lock(c) \/ GetMissing(c) \/ GetOld(c) \/ ReadAhead(c) \/ GetCopy(c) \/ GetUsedUp(c)
         \/ StoreData(c) \/ StoreBlock(c) \/ StoreCount(c)
    \/ \E c \in Writers : (\E b \in Blocks : Write(c, b)) \/ UnlinkOld(c)

Spec == Init /\ [][Next]_vars

(***************************************************************************)
(* Properties.                                                             *)
(***************************************************************************)
InfoEntry == [block : Blocks, accesses : Nat]
DataEntry == [block : Blocks, ver : Nat]

\* The state has the expected shape: the lookup set points into the lists, the
\* lists have the block they are looked up for, and a client that holds the
\* lock is between taking it and label out.
TypeOK ==
    /\ dir \subseteq {"info", "data"} \X Age
    /\ \A a \in Age : /\ file[<<"info", a>>] \in Seq(InfoEntry)
                      /\ file[<<"data", a>>] \in Seq(DataEntry)
    /\ next_read_index \in 1..Len(old) + 1 /\ num_blocks_cached \in 0..MAX_BLOCKS_CACHED
    /\ \A b \in Blocks : /\ ble[b].old # 0 => old[ble[b].old].block = b
                         /\ ble[b].new # 0 => new[ble[b].new].block = b
    /\ \A c \in Clients : (lock = c) <=> pc[c] \in {"get", "ahead", "copy", "data", "block", "count"}
    /\ lock \in {"free", "populate"} \cup Clients

\* The info file that is read at a start belongs to the data file that is read
\* with it: entry by entry they name the same block, whatever run wrote them,
\* wherever it stopped and wherever an earlier start stopped (bdev_init 254-332,
\* the order of the writes 586, 608, 623).
FilesAgree ==
    up = "up" /\ ~shaky =>
        \A i \in DOMAIN WholeEntries :
            /\ i \in DOMAIN oldFile
            /\ oldFile[i].block = WholeEntries[i].block

\* While no read of a data file failed, a client that reads a block gets what
\* was once in that block, never the contents of another (access_one_block).
ReadsTheBlock ==
    ~shaky => \A c \in Clients : val[c] # NoData => val[c].block = blk[c]

\* The access through index -1 (527, 528) only happens after a read of a data
\* file failed: an entry that is used up or has no data is not looked up again.
NoBadIndex == ~shaky => ~failed

\* While no read of a data file failed, the old data is served right: a client
\* gets its own block, and the program does not die of an access through index
\* -1 (access_one_block 523-566).
OldDataServes == ReadsTheBlock /\ NoBadIndex

\* The files of an earlier run are never refused because one is missing, unless
\* a block was written: a crash or a failed rename between the two files is
\* made good by the next start (264-306).
StartsAgain ==
    up = "open" /\ (\A b \in Blocks : backing[b] = 0) =>
        Pair("old") \cap dir \in {{}, Pair("old")}

\* The comment at line 473: a block that is written has to leave the cache.  A
\* client that reads gets what the block holds, or held during its call.
ReadsCurrent ==
    \A c \in Clients : val[c] # NoData /\ val[c].block = blk[c] => val[c].ver \in seen[c]
=============================================================================
