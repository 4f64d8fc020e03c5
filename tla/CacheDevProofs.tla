--------------------------- MODULE CacheDevProofs ---------------------------
(***************************************************************************)
(* Proofs about CacheDev for any blocks, clients and limits, any number of *)
(* runs, and a crash, a failed operation or a failed read at any place.    *)
(*                                                                         *)
(* The inductive invariant IInv has three parts: DiskInv says of every     *)
(* pair of files in the directory that it belongs together, wherever a     *)
(* start stopped between its two renames; MemInv is about the lists in     *)
(* memory, the lookup set that points into them and the client that holds  *)
(* the lock; LinkInv ties the lists to the files they came from and to the *)
(* files they are written to.  On top of it, CountInv says that what is    *)
(* looked up has accesses left.                                            *)
(***************************************************************************)
EXTENDS CacheDev, FiniteSetTheorems, TLAPS

(***************************************************************************)
(* Types.                                                                  *)
(***************************************************************************)
Files == {"info", "data"} \X Age
Info(a) == file[<<"info", a>>]
Data(a) == file[<<"data", a>>]
Has(what, a) == <<what, a>> \in dir
OldEntry == [block : Blocks, data : DataEntry \cup {NoData}, accesses : Nat]
\* Where a client is that holds the lock, and one that removes the old files.
Holding == {"get", "ahead", "copy", "data", "block", "count"}
Unlinking == {"unlinkInfo", "unlinkData"}

DirType ==
    /\ dir \subseteq Files
    /\ file \in [Files -> Seq(InfoEntry) \cup Seq(DataEntry)]
    /\ \A a \in Age : Info(a) \in Seq(InfoEntry) /\ Data(a) \in Seq(DataEntry)
    /\ \A f \in Files : f \notin dir => file[f] = <<>>

DiskType == DirType /\ backing \in [Blocks -> Nat] /\ shaky \in BOOLEAN

InitType ==
    /\ up \in {"down", "renameData", "renameFailed", "open", "unlinkInfo", "unlinkData",
               "createInfo", "createData", "register", "up"}
    /\ pop \in {"none", "opened", "running"}
    /\ oldInfo \in Seq(InfoEntry) /\ oldFile \in Seq(DataEntry)
    /\ hasNew \in BOOLEAN

MemType ==
    /\ ble \in [Blocks -> [known : BOOLEAN, old : Nat, new : Nat]]
    /\ old \in Seq(OldEntry) /\ new \in Seq(InfoEntry)
    /\ pos \in Nat \ {0} /\ next_read_index \in 1..Len(old) + 1
    /\ num_blocks_cached \in 0..MAX_BLOCKS_CACHED

ClientType ==
    /\ pc \in [Clients -> Holding \cup Unlinking \cup {"idle", "lock"}]
    /\ blk \in [Clients -> Blocks \cup {"none"}]
    /\ val \in [Clients -> DataEntry \cup {NoData}]
    /\ lock \in {"free", "populate"} \cup Clients
    /\ \A c \in Clients : /\ (lock = c) <=> pc[c] \in Holding
                          /\ pc[c] \in Holding \cup {"lock"} => blk[c] \in Blocks
                          /\ pc[c] = "data" => val[c] # NoData

(***************************************************************************)
(* The lists in memory.                                                    *)
(***************************************************************************)
\* What is in memory while the program is down.
MemCleared ==
    /\ old = <<>> /\ new = <<>> /\ ble = [b \in Blocks |-> NotLookedUp]
    /\ pos = 1 /\ next_read_index = 1 /\ num_blocks_cached = 0

\* The lists stay empty until the lookup set has been populated: the lock is
\* taken before the device is registered, and only then can it be read.
Started ==
    /\ up # "up" => /\ MemCleared /\ lock = "free"
                    /\ \A c \in Clients : pc[c] = "idle" /\ val[c] = NoData
    /\ lock = "populate" => MemCleared
    /\ pop = "running" => lock = "populate"

\* An entry of the lookup set is about the block it is looked up for.
Lookup ==
    /\ \A b \in Blocks : /\ ble[b].old # 0 => /\ ble[b].old \in DOMAIN old
                                              /\ old[ble[b].old].block = b
                         /\ ble[b].new # 0 => /\ ble[b].new \in DOMAIN new
                                              /\ new[ble[b].new].block = b
    /\ \A i \in DOMAIN new : ble[new[i].block].new = i

\* num_blocks_cached counts the old blocks in memory, and they are among those
\* that have been read.
InMemory == {i \in DOMAIN old : old[i].data # NoData}
Counted ==
    /\ num_blocks_cached = Cardinality(InMemory)
    /\ \A i \in DOMAIN old : i >= next_read_index => old[i].data = NoData

\* The entries through which the client with the lock goes on are there.
Holder == \A c \in Clients :
    /\ pc[c] \in {"ahead", "copy"} =>
         /\ Entry(c).old # 0
         /\ LET e == old[Entry(c).old]
            IN  e.accesses # 0 \/ (e.data = NoData /\ Entry(c).old < next_read_index)
    /\ pc[c] \in {"block", "count"} => Entry(c).new # 0

(***************************************************************************)
(* The directory, and how far bdev_init got.                               *)
(***************************************************************************)
UpPlace ==
    /\ up = "renameData" => ~Has("info", "cur")
    /\ up = "renameFailed" => Has("info", "cur")
    /\ up \notin {"down", "renameData", "renameFailed"} =>
         ~Has("info", "cur") /\ ~Has("data", "cur")
    /\ up = "unlinkData" => ~Has("info", "new")
    /\ up = "createInfo" => ~Has("info", "new") /\ ~Has("data", "new")
    /\ up = "createData" => /\ Has("info", "new") /\ Info("new") = <<>>
                            /\ ~Has("data", "new")

\* No block is twice in an info file.
Once(s) == \A i, j \in DOMAIN s : s[i].block = s[j].block => i = j
FilesOnce == \A a \in Age : Once(Info(a))
BlocksOnce == Once(oldInfo) /\ FilesOnce

\* Every entry of an info file has its block at the same place of the data file.
Agree(i, d) == \A k \in DOMAIN i : k \in DOMAIN d /\ d[k].block = i[k].block
\* While the new files are written, and after both, one or none of a pair was
\* renamed: the info file and the data file that the next start takes together.
PairsAgree == ~shaky =>
    /\ Has("info", "new") /\ Has("data", "new") => Agree(Info("new"), Data("new"))
    /\ Has("info", "cur") /\ Has("data", "cur") => Agree(Info("cur"), Data("cur"))
    /\ ~Has("info", "cur") /\ Has("data", "cur") => Agree(Info("old"), Data("cur"))
    /\ Has("info", "cur") /\ ~Has("data", "cur") => Agree(Info("cur"), Data("old"))
    /\ ~Has("info", "cur") /\ ~Has("data", "cur") /\ Has("info", "old") /\ Has("data", "old") =>
         Agree(Info("old"), Data("old"))

Unwritten == \A b \in Blocks : backing[b] = 0
\* What the next start needs is there: a pair that was half renamed has its other
\* half, and before the first write nobody removes an old file.
Restarts ==
    /\ ~Has("info", "cur") /\ Has("data", "cur") => Has("info", "old")
    /\ Has("info", "cur") /\ ~Has("data", "cur") => Has("data", "old")
    /\ Unwritten => /\ \A c \in Clients : pc[c] \notin Unlinking
                    /\ ~Has("info", "cur") /\ ~Has("data", "cur") =>
                         (Has("info", "old") <=> Has("data", "old"))

DiskInv == DiskType /\ UpPlace /\ BlocksOnce /\ PairsAgree /\ Restarts

(***************************************************************************)
(* The new files follow the new list.  An entry is fresh until its first   *)
(* access has been counted, and only the client with the lock has one;     *)
(* while it is at "block", its data is written and its info entry not yet. *)
(***************************************************************************)
Fresh(i) == new[i].accesses = 0
Writing == lock \in Clients /\ pc[lock] = "block" /\ Fresh(Entry(lock).new)
NewFiles == hasNew =>
    /\ up \in {"register", "up"} /\ Pair("new") \subseteq dir
    /\ Len(Data("new")) = Len(new)
    /\ \A i \in DOMAIN Info("new") : Info("new")[i].block = new[i].block
    /\ Len(Info("new")) = IF Writing THEN Len(new) - 1 ELSE Len(new)
    /\ Writing => Entry(lock).new = Len(new)
    /\ \A i \in DOMAIN new : Fresh(i) => /\ lock \in Clients /\ pc[lock] \in {"block", "count"}
                                         /\ Entry(lock).new = i

NewData == ~shaky /\ hasNew => \A i \in DOMAIN new : Data("new")[i].block = new[i].block

\* The old files are open, or the lists came from them.
Opened == {"unlinkInfo", "unlinkData", "createInfo", "createData", "register", "up"}
\* What was read from the old files is what belongs to the entry: the file is
\* read in the order of its entries, and pos keeps pace with next_read_index.
OldData == ~shaky =>
    /\ up \in Opened => Agree(oldInfo, oldFile)
    /\ pos = next_read_index
    /\ Len(old) <= Len(WholeEntries)
    /\ \A i \in DOMAIN old : /\ old[i].block = WholeEntries[i].block
                             /\ old[i].data # NoData => old[i].data.block = old[i].block

MemInv ==
    /\ MemType /\ ClientType /\ Started /\ Lookup /\ Counted /\ Holder /\ ReadsTheBlock
LinkInv == InitType /\ NewFiles /\ NewData /\ OldData

\* DiskInv, MemInv and LinkInv together.
IInv ==
    /\ DiskType /\ InitType /\ MemType /\ ClientType
    /\ Started /\ Lookup /\ Counted /\ Holder /\ UpPlace
    /\ NewFiles /\ BlocksOnce /\ PairsAgree /\ NewData /\ OldData
    /\ ReadsTheBlock /\ Restarts

(***************************************************************************)
(* The start.                                                              *)
(***************************************************************************)

\* A buffer with data is not an empty one.
LEMMA NoDataApart ==
    ASSUME NEW e \in DataEntry
    PROVE  e # NoData
BY SMT DEF DataEntry, NoData

LEMMA InitOK == Init => IInv
<1> SUFFICES ASSUME Init PROVE IInv
  OBVIOUS
<1>0. \A a \in Age : Info(a) = <<>> /\ Data(a) = <<>>
  BY DEF Init, Info, Data, Age
<1>1. DiskType
  <2>1. file \in [Files -> Seq(InfoEntry) \cup Seq(DataEntry)] /\ \A f \in Files : file[f] = <<>>
    BY DEF Init, Files
  <2>2. dir \subseteq Files
    BY DEF Init, Files, Age, Pair
  <2>3. backing \in [Blocks -> Nat] /\ shaky \in BOOLEAN
    BY DEF Init
  <2>4. <<>> \in Seq(InfoEntry) /\ <<>> \in Seq(DataEntry)
    OBVIOUS
  <2> HIDE DEF Files
  <2> QED BY <2>1, <2>2, <2>3, <2>4, <1>0 DEF DiskType, DirType
<1>2. InitType /\ MemType /\ Started
  <2>1. InitType
    <3>1. hasNew \in BOOLEAN
      BY DEF Init
    <3>2. oldInfo \in Seq(InfoEntry) /\ oldFile \in Seq(DataEntry)
      BY DEF Init
    <3> QED BY <3>1, <3>2 DEF Init, InitType
  <2>2. MemType
    <3>1. ble \in [Blocks -> [known : BOOLEAN, old : Nat, new : Nat]]
      BY DEF Init, NotLookedUp
    <3>2. old \in Seq(OldEntry) /\ new \in Seq(InfoEntry) /\ Len(old) = 0
      BY DEF Init
    <3>3. /\ pos \in Nat \ {0} /\ next_read_index \in 1..Len(old) + 1
          /\ num_blocks_cached \in 0..MAX_BLOCKS_CACHED
      BY <3>2, CacheDevAssumption DEF Init, CacheDevAssumption
    <3> QED BY <3>1, <3>2, <3>3 DEF MemType
  <2>3. Started
    BY DEF Init, Started, MemCleared
  <2> QED BY <2>1, <2>2, <2>3
<1>3. ClientType
  BY CacheDevAssumption DEF Init, ClientType, Holding, Unlinking, Clients, CacheDevAssumption
<1>4. Lookup /\ Holder /\ UpPlace /\ NewFiles
  BY DEF Init, Lookup, Holder, UpPlace, NewFiles, NotLookedUp
<1>5. Counted
  <2>1. InMemory = {}
    BY DEF Init, InMemory
  <2> QED BY <2>1, FS_EmptySet DEF Init, Counted
<1>6. BlocksOnce
  BY <1>0 DEF Init, BlocksOnce, FilesOnce, Once
<1>7. PairsAgree /\ NewData
  BY <1>0 DEF Init, PairsAgree, NewData, Agree, Has, Pair, Age
<1>8. OldData
  BY DEF Init, OldData, Agree, Opened, WholeEntries
<1>9. ReadsTheBlock /\ Restarts
  <2>1. ReadsTheBlock
    BY DEF Init, ReadsTheBlock
  <2>2. \A a \in {"old", "cur"} : Has("info", a) <=> Has("data", a)
    BY DEF Init, Has, Pair
  <2>3. \A c \in Clients : pc[c] \notin Unlinking
    BY DEF Init, Unlinking
  <2> QED BY <2>1, <2>2, <2>3 DEF Restarts
<1> QED BY <1>1, <1>2, <1>3, <1>4, <1>5, <1>6, <1>7, <1>8, <1>9 DEF IInv

(***************************************************************************)
(* The files in the directory.                                             *)
(***************************************************************************)

\* What unlinking some files does, and what renaming one does.
LEMMA UnlinkEffect ==
    ASSUME DirType, NEW S, S \subseteq Files, Unlink(S)
    PROVE  /\ DirType'
           /\ \A f \in Files : /\ f \in dir' <=> f \in dir /\ f \notin S
                               /\ file'[f] = IF f \in S THEN <<>> ELSE file[f]
<1>1. \A f \in Files : /\ f \in dir' <=> f \in dir /\ f \notin S
                       /\ file'[f] = IF f \in S THEN <<>> ELSE file[f]
  BY DEF Unlink, DirType
<1>2. <<>> \in Seq(InfoEntry) /\ <<>> \in Seq(DataEntry)
  OBVIOUS
<1>3. dir' \subseteq Files
  BY DEF Unlink, DirType
<1>4. file' \in [Files -> Seq(InfoEntry) \cup Seq(DataEntry)]
  <2>1. DOMAIN file = Files
    BY DEF DirType
  <2> QED BY <1>1, <1>2, <2>1 DEF Unlink, DirType
<1>5. \A a \in Age : file'[<<"info", a>>] \in Seq(InfoEntry) /\ file'[<<"data", a>>] \in Seq(DataEntry)
  <2>1. \A a \in Age : <<"info", a>> \in Files /\ <<"data", a>> \in Files
    BY DEF Files
  <2> HIDE DEF Files
  <2> QED BY <1>1, <1>2, <2>1 DEF DirType, Info, Data
<1>6. \A f \in Files : f \notin dir' => file'[f] = <<>>
  BY <1>1 DEF DirType
<1> QED BY <1>1, <1>3, <1>4, <1>5, <1>6 DEF DirType, Info, Data

LEMMA RenameEffect ==
    ASSUME DirType, NEW what \in {"info", "data"}, Rename(what, "cur", "old")
    PROVE  /\ DirType'
           /\ <<what, "cur">> \notin dir'
           /\ <<what, "old">> \in dir' <=> <<what, "cur">> \in dir \/ <<what, "old">> \in dir
           /\ file'[<<what, "old">>] = IF <<what, "cur">> \in dir THEN file[<<what, "cur">>]
                                                                  ELSE file[<<what, "old">>]
           /\ file'[<<what, "cur">>] = <<>>
           /\ \A f \in Files \ {<<what, "cur">>, <<what, "old">>} :
                file'[f] = file[f] /\ (f \in dir' <=> f \in dir)
<1>0. /\ <<what, "cur">> \in Files /\ <<what, "old">> \in Files
      /\ <<what, "cur">> # <<what, "old">>
      /\ \A a \in Age : <<"info", a>> \in Files /\ <<"data", a>> \in Files
      /\ <<>> \in Seq(InfoEntry) /\ <<>> \in Seq(DataEntry)
  BY DEF Files, Age
<1>1. CASE <<what, "cur">> \notin dir
  <2>1. dir' = dir /\ file' = file
    BY <1>1 DEF Rename
  <2>2. DirType'
    BY <2>1 DEF DirType, Info, Data
  <2> QED BY <1>0, <1>1, <2>1, <2>2 DEF DirType
<1>2. CASE <<what, "cur">> \in dir
  <2>1. /\ dir' = (dir \ {<<what, "cur">>}) \cup {<<what, "old">>}
        /\ file' = [file EXCEPT ![<<what, "old">>] = file[<<what, "cur">>],
                                ![<<what, "cur">>] = <<>>]
    BY <1>2 DEF Rename
  <2>2. file \in [Files -> Seq(InfoEntry) \cup Seq(DataEntry)] /\ dir \subseteq Files
    BY DEF DirType
  <2>3. /\ file' \in [Files -> Seq(InfoEntry) \cup Seq(DataEntry)]
        /\ file'[<<what, "old">>] = file[<<what, "cur">>]
        /\ file'[<<what, "cur">>] = <<>>
        /\ \A f \in Files \ {<<what, "cur">>, <<what, "old">>} : file'[f] = file[f]
    BY <1>0, <2>1, <2>2
  <2>4. /\ dir' \subseteq Files /\ <<what, "cur">> \notin dir' /\ <<what, "old">> \in dir'
        /\ \A f \in Files \ {<<what, "cur">>, <<what, "old">>} : f \in dir' <=> f \in dir
    BY <1>0, <2>1, <2>2
  <2>5. \A f \in Files : f \notin dir' => file'[f] = <<>>
    BY <2>3, <2>4 DEF DirType
  <2>6. \A a \in Age : file'[<<"info", a>>] \in Seq(InfoEntry) /\ file'[<<"data", a>>] \in Seq(DataEntry)
    <3> SUFFICES ASSUME NEW a \in Age
                 PROVE  file'[<<"info", a>>] \in Seq(InfoEntry) /\ file'[<<"data", a>>] \in Seq(DataEntry)
      OBVIOUS
    <3>1. \A x \in Age : file[<<"info", x>>] \in Seq(InfoEntry) /\ file[<<"data", x>>] \in Seq(DataEntry)
      BY DEF DirType, Info, Data
    <3>2. "cur" \in Age
      BY DEF Age
    <3>3. CASE what = "info"
      <4>1. <<"data", a>> \notin {<<what, "cur">>, <<what, "old">>}
        BY <3>3
      <4>2. <<"info", a>> \in {<<what, "cur">>, <<what, "old">>} => file'[<<"info", a>>] \in Seq(InfoEntry)
        BY <1>0, <2>3, <3>1, <3>2, <3>3
      <4> HIDE DEF Files
      <4> QED BY <1>0, <2>3, <3>1, <4>1, <4>2
    <3>4. CASE what = "data"
      <4>1. <<"info", a>> \notin {<<what, "cur">>, <<what, "old">>}
        BY <3>4
      <4>2. <<"data", a>> \in {<<what, "cur">>, <<what, "old">>} => file'[<<"data", a>>] \in Seq(DataEntry)
        BY <1>0, <2>3, <3>1, <3>2, <3>4
      <4> HIDE DEF Files
      <4> QED BY <1>0, <2>3, <3>1, <4>1, <4>2
    <3> QED BY <3>3, <3>4
  <2>7. DirType'
    BY <2>3, <2>4, <2>5, <2>6 DEF DirType, Info, Data
  <2> QED BY <1>2, <2>3, <2>4, <2>7
<1> QED BY <1>1, <1>2

\* The files there are.
LEMMA FilesAre ==
    /\ \A a \in Age : <<"info", a>> \in Files /\ <<"data", a>> \in Files
    /\ "cur" \in Age /\ "old" \in Age /\ "new" \in Age
BY DEF Files, Age

\* The files that belong together still do when new files are removed, or old
\* ones that no start will need.
LEMMA UnlinkKeepsAgreement ==
    ASSUME DirType, FilesOnce, PairsAgree, NEW S, Unlink(S), shaky' = shaky,
           \/ S \subseteq Pair("new")
           \/ S \subseteq Pair("old") /\ ~Has("info", "cur") /\ ~Has("data", "cur")
    PROVE  FilesOnce' /\ PairsAgree'
<1>1. S \subseteq Files
  BY DEF Pair, Files, Age
<1>2. \A f \in Files : /\ f \in dir' <=> f \in dir /\ f \notin S
                       /\ file'[f] = IF f \in S THEN <<>> ELSE file[f]
  BY <1>1, UnlinkEffect
<1>3. \A a \in Age : Info(a)' = Info(a) \/ Info(a)' = <<>>
  BY <1>2, FilesAre DEF Info
<1>4. FilesOnce'
  BY <1>3 DEF FilesOnce, Once
<1>5. CASE S \subseteq Pair("new")
  <2>1. \A a \in {"cur", "old"} : /\ Has("info", a)' <=> Has("info", a)
                                  /\ Has("data", a)' <=> Has("data", a)
                                  /\ Info(a)' = Info(a) /\ Data(a)' = Data(a)
    BY <1>2, <1>5, FilesAre DEF Has, Info, Data, Pair
  <2>2. /\ Has("info", "new")' => Has("info", "new") /\ Info("new")' = Info("new")
        /\ Has("data", "new")' => Has("data", "new") /\ Data("new")' = Data("new")
    BY <1>2, FilesAre DEF Has, Info, Data
  <2> QED BY <1>4, <2>1, <2>2 DEF PairsAgree, Agree
<1>6. CASE S \subseteq Pair("old") /\ ~Has("info", "cur") /\ ~Has("data", "cur")
  <2>1. /\ Has("info", "new")' <=> Has("info", "new")
        /\ Has("data", "new")' <=> Has("data", "new")
        /\ Info("new")' = Info("new") /\ Data("new")' = Data("new")
    BY <1>2, <1>6, FilesAre DEF Has, Info, Data, Pair
  <2>2. /\ Has("info", "old")' => Has("info", "old") /\ Info("old")' = Info("old")
        /\ Has("data", "old")' => Has("data", "old") /\ Data("old")' = Data("old")
        /\ ~Has("info", "cur")' /\ ~Has("data", "cur")'
    BY <1>2, <1>6, FilesAre DEF Has, Info, Data
  <2> QED BY <1>4, <1>6, <2>1, <2>2 DEF PairsAgree, Agree
<1> QED BY <1>5, <1>6

\* The new files take the place of the current ones.
LEMMA PromoteKeeps ==
    ASSUME IInv, Promote
    PROVE  DiskType' /\ UpPlace' /\ BlocksOnce' /\ PairsAgree' /\ Restarts'
<1> USE DEF Promote, cl, init
<1>1. /\ <<"info", "new">> \in dir /\ <<"data", "new">> \in dir /\ dir \subseteq Files
      /\ file \in [Files -> Seq(InfoEntry) \cup Seq(DataEntry)]
  BY DEF Pair, IInv, DiskType, DirType
<1>2. /\ dir' \subseteq Files
      /\ \A w \in {"info", "data"} : /\ <<w, "cur">> \in dir' /\ <<w, "new">> \notin dir'
                                     /\ <<w, "old">> \in dir' <=> <<w, "old">> \in dir
  BY <1>1 DEF Pair, Files, Age
<1>3. DOMAIN file' = Files /\ \A w \in {"info", "data"} :
        /\ file'[<<w, "cur">>] = file[<<w, "new">>]
        /\ file'[<<w, "new">>] = <<>>
        /\ file'[<<w, "old">>] = file[<<w, "old">>]
  BY <1>1 DEF Files, Age
<1>4. /\ Info("cur")' = Info("new") /\ Data("cur")' = Data("new")
      /\ Info("old")' = Info("old") /\ Data("old")' = Data("old")
      /\ Info("new")' = <<>> /\ Data("new")' = <<>>
  BY <1>3 DEF Info, Data
<1>5. DirType'
  <2>1. \A a \in Age : Info(a)' \in Seq(InfoEntry) /\ Data(a)' \in Seq(DataEntry)
    <3>1. <<>> \in Seq(InfoEntry) /\ <<>> \in Seq(DataEntry)
      OBVIOUS
    <3> QED BY <1>4, <3>1 DEF IInv, DiskType, DirType, Age
  <2>2. \A f \in Files : \E w \in {"info", "data"}, a \in Age : f = <<w, a>>
    BY DEF Files
  <2>3. \A f \in Files : f \notin dir' => file'[f] = <<>>
    <3>1. \A w \in {"info", "data"} : <<w, "old">> \notin dir => file[<<w, "old">>] = <<>>
      BY FilesAre DEF IInv, DiskType, DirType
    <3> QED BY <1>2, <1>3, <2>2, <3>1 DEF Age
  <2>4. \A f \in Files : file'[f] \in Seq(InfoEntry) \cup Seq(DataEntry)
    <3> SUFFICES ASSUME NEW f \in Files
                 PROVE  file'[f] \in Seq(InfoEntry) \cup Seq(DataEntry)
      OBVIOUS
    <3> PICK w \in {"info", "data"}, a \in Age : f = <<w, a>>
      BY <2>2
    <3>1. /\ file'[<<"info", a>>] \in Seq(InfoEntry)
          /\ file'[<<"data", a>>] \in Seq(DataEntry)
      BY <2>1 DEF Info, Data
    <3> QED BY <3>1
  <2>5. file' = [f \in Files |-> file'[f]]
    BY <1>1 
  <2>6. file' \in [Files -> Seq(InfoEntry) \cup Seq(DataEntry)]
    <3> HIDE DEF Promote, Files
    <3> QED BY <2>4, <2>5
  <2> QED BY <1>2, <2>1, <2>3, <2>6 DEF DirType, Info, Data
<1>6. DiskType'
  BY <1>5 DEF IInv, DiskType
<1>7. up' = "down" /\ oldInfo' = oldInfo
  BY DEF init
<1>8. UpPlace'
  BY <1>7 DEF UpPlace
<1>9. BlocksOnce'
  <2>1. \A a \in Age : Info(a)' = <<>> \/ \E b \in Age : Info(a)' = Info(b)
    BY <1>4, FilesAre DEF Age
  <2> QED BY <1>7, <2>1 DEF IInv, BlocksOnce, FilesOnce, Once
<1>10. PairsAgree'
  <2>1. Has("info", "cur")' /\ Has("data", "cur")' /\ ~Has("info", "new")'
    BY <1>2 DEF Has
  <2>2. Has("info", "new") /\ Has("data", "new")
    BY <1>1 DEF Has
  <2> QED BY <1>4, <2>1, <2>2 DEF IInv, PairsAgree, Agree
<1>11. Restarts'
  <2>1. Has("info", "cur")' /\ Has("data", "cur")'
    BY <1>2 DEF Has
  <2>2. backing' = backing /\ pc' = pc
    BY DEF cl
  <2> QED BY <2>1, <2>2 DEF IInv, Restarts, Unwritten
<1> QED BY <1>6, <1>8, <1>9, <1>10, <1>11

\* A step that leaves the files alone.
LEMMA DiskKept ==
    ASSUME DiskInv, UNCHANGED <<backing, dir, file>>, shaky' \in BOOLEAN, shaky => shaky',
           UpPlace', Once(oldInfo)',
           \A c \in Clients : pc'[c] \in Unlinking => pc[c] \in Unlinking
    PROVE  DiskInv'
<1>1. \A a \in Age : Info(a)' = Info(a) /\ Data(a)' = Data(a)
  BY DEF Info, Data
<1>2. \A w \in {"info", "data"}, a \in Age : Has(w, a)' <=> Has(w, a)
  BY DEF Has
<1>3. DiskType'
  BY <1>1 DEF DiskInv, DiskType, DirType
<1>4. BlocksOnce'
  BY <1>1 DEF DiskInv, BlocksOnce, FilesOnce, Once
<1>5. PairsAgree'
  BY <1>1, <1>2, FilesAre DEF DiskInv, PairsAgree, Agree
<1>6. Restarts'
  BY <1>2, FilesAre DEF DiskInv, Restarts, Unwritten
<1> QED BY <1>3, <1>4, <1>5, <1>6 DEF DiskInv

\* What a rename does to the agreement, whichever of the two files it moves.
LEMMA RenameKeeps ==
    ASSUME DiskInv, NEW what \in {"info", "data"}, Rename(what, "cur", "old"),
           UNCHANGED <<backing, shaky>>, Once(oldInfo)',
           \A c \in Clients : pc'[c] \in Unlinking => pc[c] \in Unlinking
    PROVE  DiskType' /\ BlocksOnce' /\ PairsAgree' /\ Restarts'
<1>1. DirType
  BY DEF DiskInv, DiskType
<1>2. DiskType'
  BY <1>1, RenameEffect DEF DiskInv, DiskType
<1>3. CASE what = "info"
  <2>1. /\ Info("old")' = IF Has("info", "cur") THEN Info("cur") ELSE Info("old")
        /\ Has("info", "old")' <=> Has("info", "cur") \/ Has("info", "old")
        /\ Info("cur")' = <<>> /\ ~Has("info", "cur")'
    BY <1>1, <1>3, RenameEffect DEF Info, Has
  <2>2. /\ \A f \in Files \ {<<"info", "cur">>, <<"info", "old">>} :
             file'[f] = file[f] /\ (f \in dir' <=> f \in dir)
    BY <1>1, <1>3, RenameEffect
  <2>3. /\ \A a \in Age : Data(a)' = Data(a) /\ (Has("data", a)' <=> Has("data", a))
        /\ Info("new")' = Info("new") /\ (Has("info", "new")' <=> Has("info", "new"))
    BY <2>2, FilesAre DEF Info, Data, Has
  <2>4. BlocksOnce'
    BY <2>1, <2>3, FilesAre DEF DiskInv, BlocksOnce, FilesOnce, Once, Age
  <2>5. PairsAgree'
    BY <2>1, <2>3, FilesAre DEF DiskInv, PairsAgree, Agree
  <2>6. Restarts'
    BY <2>1, <2>3, FilesAre DEF DiskInv, Restarts, Unwritten
  <2> QED BY <1>2, <2>4, <2>5, <2>6
<1>4. CASE what = "data"
  <2>1. /\ Data("old")' = IF Has("data", "cur") THEN Data("cur") ELSE Data("old")
        /\ Has("data", "old")' <=> Has("data", "cur") \/ Has("data", "old")
        /\ Data("cur")' = <<>> /\ ~Has("data", "cur")'
    BY <1>1, <1>4, RenameEffect DEF Data, Has
  <2>2. /\ \A f \in Files \ {<<"data", "cur">>, <<"data", "old">>} :
             file'[f] = file[f] /\ (f \in dir' <=> f \in dir)
    BY <1>1, <1>4, RenameEffect
  <2>3. /\ \A a \in Age : Info(a)' = Info(a) /\ (Has("info", a)' <=> Has("info", a))
        /\ Data("new")' = Data("new") /\ (Has("data", "new")' <=> Has("data", "new"))
    BY <2>2, FilesAre DEF Info, Data, Has
  <2>4. BlocksOnce'
    BY <2>3 DEF DiskInv, BlocksOnce, FilesOnce, Once
  <2>5. PairsAgree'
    BY <2>1, <2>3, FilesAre DEF DiskInv, PairsAgree, Agree
  <2>6. Restarts'
    BY <2>1, <2>3, FilesAre DEF DiskInv, Restarts, Unwritten
  <2> QED BY <1>2, <2>4, <2>5, <2>6
<1> QED BY <1>3, <1>4

\* The two renames of a start, each of which may fail.
LEMMA RenamesKeep ==
    ASSUME IInv, RenameInfo \/ RenameData
    PROVE  DiskInv'
<1>0. DiskInv /\ Once(oldInfo)
  BY DEF IInv, DiskInv, BlocksOnce
<1>1. CASE RenameInfo
  <2>1. UNCHANGED <<backing, shaky, oldInfo, pc>>
    BY <1>1 DEF RenameInfo, cl
  <2>2. CASE Rename("info", "cur", "old") /\ up' = "renameData"
    <3>1. DirType
      BY <1>0 DEF DiskInv, DiskType
    <3>2. ~Has("info", "cur")'
      BY <2>2, <3>1, RenameEffect DEF Has
    <3>3. UpPlace'
      BY <2>2, <3>2 DEF UpPlace
    <3>4. Once(oldInfo)'
      BY <1>0, <2>1 DEF Once
    <3> QED BY <1>0, <2>1, <2>2, <3>3, <3>4, RenameKeeps DEF DiskInv
  <2>3. CASE <<"info", "cur">> \in dir /\ up' = "renameFailed" /\ UNCHANGED <<dir, file>>
    <3>1. UpPlace'
      BY <2>3 DEF UpPlace, Has
    <3>2. shaky' \in BOOLEAN /\ (shaky => shaky')
      BY <1>0, <2>1 DEF DiskInv, DiskType
    <3>3. Once(oldInfo)'
      BY <1>0, <2>1 DEF Once
    <3> QED BY <1>0, <2>1, <2>3, <3>1, <3>2, <3>3, DiskKept
  <2> QED BY <1>1, <2>2, <2>3 DEF RenameInfo
<1>2. CASE RenameData
  <2>1. UNCHANGED <<backing, shaky>> /\ up \in {"renameData", "renameFailed"}
    BY <1>2 DEF RenameData
  <2>2. \A c \in Clients : pc'[c] \in Unlinking => pc[c] \in Unlinking
    BY <1>2 DEF RenameData, Exit, Cleared, cl, Unlinking
  <2>3. CASE Rename("data", "cur", "old") /\ up = "renameData"
    <3>1. DirType /\ ~Has("info", "cur")
      BY <1>0, <2>3 DEF DiskInv, DiskType, UpPlace
    <3>2. oldInfo' = oldInfo /\ up' = "open"
      BY <1>2, <2>3 DEF RenameData, Rename
    <3>3. ~Has("data", "cur")' /\ ~Has("info", "cur")'
      BY <2>3, <3>1, RenameEffect, FilesAre DEF Has
    <3>4. UpPlace'
      BY <3>2, <3>3 DEF UpPlace
    <3>5. Once(oldInfo)'
      BY <1>0, <3>2 DEF Once
    <3> QED BY <1>0, <2>1, <2>2, <2>3, <3>4, <3>5, RenameKeeps DEF DiskInv
  <2>4. CASE Exit
    <3>1. up' = "down" /\ oldInfo' = <<>>
      BY <2>4 DEF Exit, Cleared
    <3>2. UpPlace' /\ Once(oldInfo)'
      BY <3>1 DEF UpPlace, Once
    <3>3. CASE Rename("data", "cur", "old")
      BY <1>0, <2>1, <2>2, <3>2, <3>3, RenameKeeps DEF DiskInv
    <3>4. CASE UNCHANGED <<dir, file>>
      <4>1. shaky' \in BOOLEAN /\ (shaky => shaky')
        BY <1>0, <2>1 DEF DiskInv, DiskType
      <4> QED BY <1>0, <2>1, <2>2, <3>2, <3>4, <4>1, DiskKept
    <3> QED BY <1>2, <3>3, <3>4 DEF RenameData
  <2> QED BY <1>2, <2>1, <2>3, <2>4 DEF RenameData
<1> QED BY <1>1, <1>2

\* Removing new files disturbs nothing a start needs.
LEMMA UnlinkNewKeeps ==
    ASSUME DiskInv, NEW S, S \subseteq Pair("new"), Unlink(S),
           UNCHANGED <<backing, shaky>>, Once(oldInfo)', UpPlace',
           \A c \in Clients : pc'[c] \in Unlinking => pc[c] \in Unlinking
    PROVE  DiskInv'
<1>1. DirType /\ FilesOnce /\ PairsAgree /\ S \subseteq Files
  BY DEF DiskInv, DiskType, BlocksOnce, Pair, Files, Age
<1>2. /\ DirType'
      /\ \A f \in Files : f \in dir' <=> f \in dir /\ f \notin S
  BY <1>1, UnlinkEffect
<1>3. FilesOnce' /\ PairsAgree'
  BY <1>1, UnlinkKeepsAgreement
<1>4. \A w \in {"info", "data"} : /\ Has(w, "cur")' <=> Has(w, "cur")
                                  /\ Has(w, "old")' <=> Has(w, "old")
  BY <1>2 DEF Has, Pair, Files, Age
<1>5. Restarts'
  BY <1>4 DEF DiskInv, Restarts, Unwritten
<1> QED BY <1>2, <1>3, <1>5 DEF DiskInv, DiskType, BlocksOnce

\* The other steps of a start.
LEMMA TouchKeeps == ASSUME IInv, Touch PROVE DiskInv'
<1> USE DEF Touch, cl, init
<1>1. /\ UNCHANGED <<backing, file, shaky, pc, oldInfo>> /\ up' = "down"
      /\ \A a \in Age : Info(a)' = Info(a) /\ Data(a)' = Data(a)
  BY DEF Info, Data
<1>2. \A f \in Files : file[f] = <<>>
  BY DEF IInv, DiskType, DirType
<1>3. /\ Has("info", "cur")' /\ Has("data", "cur")'
      /\ ~Has("info", "new")' /\ ~Has("data", "new")'
  BY DEF Has, Pair
<1>4. dir' \subseteq Files
  BY DEF Pair, Files, Age
<1>5. DiskType'
  BY <1>1, <1>2, <1>4 DEF IInv, DiskType, DirType
<1>6. PairsAgree'
  <2>1. Info("cur")' = <<>>
    BY <1>1, <1>2, FilesAre DEF Info
  <2>2. Agree(Info("cur"), Data("cur"))'
    BY <2>1 DEF Agree
  <2> QED BY <1>3, <2>2 DEF PairsAgree
<1> QED BY <1>1, <1>3, <1>5, <1>6
        DEF IInv, DiskInv, UpPlace, BlocksOnce, FilesOnce, Once, Restarts, Unwritten

LEMMA OpenKeeps == ASSUME IInv, Open PROVE DiskInv'
<1> USE DEF Open
<1>0. DiskInv /\ Once(oldInfo)
  BY DEF IInv, DiskInv, BlocksOnce
<1>1. UNCHANGED <<backing, dir, file, shaky>> /\ up = "open" /\ up' \in {"unlinkInfo", "down"}
  BY DEF disk, Exit
<1>2. shaky' \in BOOLEAN /\ (shaky => shaky')
  BY <1>0, <1>1 DEF DiskInv, DiskType
<1>3. \A c \in Clients : pc'[c] \in Unlinking => pc[c] \in Unlinking
  BY DEF Exit, Cleared, cl, Unlinking
<1>4. UpPlace'
  BY <1>0, <1>1 DEF DiskInv, UpPlace, Has
<1>5. oldInfo' = Info("old") \/ oldInfo' = <<>>
  BY DEF Exit, Cleared, Info
<1>6. Once(oldInfo)'
  BY <1>0, <1>5, FilesAre DEF DiskInv, BlocksOnce, FilesOnce, Once
<1> QED BY <1>0, <1>1, <1>2, <1>3, <1>4, <1>6, DiskKept

LEMMA UnlinkNewOK == ASSUME IInv, UnlinkNew PROVE DiskInv'
<1> USE DEF UnlinkNew
<1>0. DiskInv /\ Once(oldInfo) /\ DirType
  BY DEF IInv, DiskInv, BlocksOnce, DiskType
<1>1. UNCHANGED <<backing, shaky, oldInfo, pc>>
  BY DEF cl
<1>2. shaky' \in BOOLEAN /\ (shaky => shaky') /\ Once(oldInfo)'
  BY <1>0, <1>1 DEF DiskInv, DiskType, Once
<1>3. CASE up' = "register" /\ UNCHANGED <<dir, file>>
  <2>1. UpPlace'
    BY <1>0, <1>3 DEF DiskInv, UpPlace, Has
  <2> QED BY <1>0, <1>1, <1>2, <1>3, <2>1, DiskKept
<1>4. CASE up = "unlinkInfo" /\ Unlink({<<"info", "new">>}) /\ up' = "unlinkData"
  <2>1. {<<"info", "new">>} \subseteq Pair("new") /\ {<<"info", "new">>} \subseteq Files
    BY DEF Pair, Files, Age
  <2>2. \A f \in Files : f \in dir' <=> f \in dir /\ f \notin {<<"info", "new">>}
    BY <1>0, <1>4, <2>1, UnlinkEffect
  <2>3. UpPlace'
    BY <1>0, <1>4, <2>2, FilesAre DEF DiskInv, UpPlace, Has
  <2> QED BY <1>0, <1>1, <1>2, <1>4, <2>1, <2>3, UnlinkNewKeeps
<1>5. CASE up = "unlinkData" /\ Unlink({<<"data", "new">>}) /\ up' = "createInfo"
  <2>1. {<<"data", "new">>} \subseteq Pair("new") /\ {<<"data", "new">>} \subseteq Files
    BY DEF Pair, Files, Age
  <2>2. \A f \in Files : f \in dir' <=> f \in dir /\ f \notin {<<"data", "new">>}
    BY <1>0, <1>5, <2>1, UnlinkEffect
  <2>3. UpPlace'
    BY <1>0, <1>5, <2>2, FilesAre DEF DiskInv, UpPlace, Has
  <2> QED BY <1>0, <1>1, <1>2, <1>5, <2>1, <2>3, UnlinkNewKeeps
<1> QED BY <1>3, <1>4, <1>5

LEMMA CreateNewOK == ASSUME IInv, CreateNew PROVE DiskInv'
<1> USE DEF CreateNew
<1>0. DiskInv /\ Once(oldInfo) /\ DirType
  BY DEF IInv, DiskInv, BlocksOnce, DiskType
<1>1. UNCHANGED <<backing, shaky, oldInfo, pc>>
  BY DEF cl
<1>2. shaky' \in BOOLEAN /\ (shaky => shaky') /\ Once(oldInfo)'
  BY <1>0, <1>1 DEF DiskInv, DiskType, Once
<1>3. CASE up' = "register" /\ UNCHANGED <<dir, file>>
  <2>1. UpPlace'
    BY <1>0, <1>3 DEF DiskInv, UpPlace, Has
  <2> QED BY <1>0, <1>1, <1>2, <1>3, <2>1, DiskKept
<1>4. CASE up' = "register" /\ Unlink({<<"info", "new">>})
  <2>1. {<<"info", "new">>} \subseteq Pair("new") /\ {<<"info", "new">>} \subseteq Files
    BY DEF Pair, Files, Age
  <2>2. \A f \in Files : f \in dir' <=> f \in dir /\ f \notin {<<"info", "new">>}
    BY <1>0, <1>4, <2>1, UnlinkEffect
  <2>3. UpPlace'
    BY <1>0, <1>4, <2>2, FilesAre DEF DiskInv, UpPlace, Has
  <2> QED BY <1>0, <1>1, <1>2, <1>4, <2>1, <2>3, UnlinkNewKeeps
<1>5. CASE /\ up' = IF up = "createInfo" THEN "createData" ELSE "register"
           /\ dir' = dir \cup {<<IF up = "createInfo" THEN "info" ELSE "data", "new">>}
           /\ UNCHANGED file
  <2> DEFINE w == IF up = "createInfo" THEN "info" ELSE "data"
  <2>0. w \in {"info", "data"} /\ dir' = dir \cup {<<w, "new">>} /\ dir' \subseteq Files
    BY <1>0, <1>5 DEF DirType, Files, Age
  <2>1. /\ \A a \in {"cur", "old"}, v \in {"info", "data"} : Has(v, a)' <=> Has(v, a)
        /\ \A a \in Age : Info(a)' = Info(a) /\ Data(a)' = Data(a)
    BY <1>5 DEF Has, Info, Data
  <2>2. DiskType'
    BY <1>0, <1>1, <1>5, <2>0, <2>1 DEF DiskInv, DiskType, DirType
  <2>3. Info("new") = <<>>
    BY <1>0, FilesAre DEF DiskInv, UpPlace, DirType, Info, Has
  <2>4. PairsAgree'
    BY <1>0, <1>1, <2>1, <2>3, FilesAre DEF DiskInv, PairsAgree, Agree
  <2>5. UpPlace'
    <3>1. CASE up = "createInfo"
      <4>1. Has("info", "new")' /\ (Has("data", "new")' <=> Has("data", "new"))
        BY <1>5, <3>1 DEF Has
      <4> QED BY <1>0, <1>5, <2>1, <2>3, <3>1, <4>1, FilesAre DEF DiskInv, UpPlace
    <3>2. CASE up # "createInfo"
      BY <1>0, <1>5, <2>1, <3>2 DEF DiskInv, UpPlace
    <3> QED BY <3>1, <3>2
  <2>6. Restarts'
    BY <1>0, <1>1, <2>1 DEF DiskInv, Restarts, Unwritten
  <2>7. BlocksOnce'
    BY <1>0, <1>2, <2>1 DEF DiskInv, BlocksOnce, FilesOnce, Once
  <2> QED BY <2>2, <2>4, <2>5, <2>6, <2>7 DEF DiskInv
<1> QED BY <1>3, <1>4, <1>5

\* The steps that change no file.
LEMMA DiskUntouched ==
    ASSUME IInv, NEW c,
           \/ Register \/ Populate \/ Crash \/ Lock(c) \/ GetMissing(c) \/ GetOld(c)
           \/ ReadAhead(c) \/ GetCopy(c) \/ GetUsedUp(c)
           \/ \E b \in Blocks : Read(c, b)
    PROVE  DiskInv'
<1>0. DiskInv /\ Once(oldInfo)
  BY DEF IInv, DiskInv, BlocksOnce
<1>1. UNCHANGED <<backing, dir, file>> /\ shaky' \in BOOLEAN /\ (shaky => shaky')
  <2>1. shaky \in BOOLEAN
    BY <1>0 DEF DiskInv, DiskType
  <2>2. CASE ReadAhead(c)
    BY <2>1, <2>2 DEF ReadAhead
  <2>3. CASE ~ReadAhead(c)
    <3>1. UNCHANGED disk
      BY <2>3 DEF Register, Populate, Crash, Lock, GetMissing, GetOld, GetCopy, GetUsedUp, Read
    <3> QED BY <2>1, <3>1 DEF disk
  <2> QED BY <2>2, <2>3
<1>2. \/ up' = up /\ oldInfo' = oldInfo
      \/ up' = "up" /\ up = "register" /\ oldInfo' = oldInfo
      \/ up' = "down" /\ oldInfo' = <<>>
  BY DEF Register, Populate, Crash, Lock, GetMissing, GetOld, ReadAhead, GetCopy, GetUsedUp,
         Read, init, Exit, Cleared
<1>3. UpPlace'
  BY <1>0, <1>1, <1>2 DEF DiskInv, UpPlace, Has, Info
<1>4. Once(oldInfo)'
  BY <1>0, <1>2 DEF Once
<1>5. \A x \in Clients : pc'[x] \in Unlinking => pc[x] \in Unlinking
  <2>1. pc \in [Clients -> Holding \cup Unlinking \cup {"idle", "lock"}]
    BY DEF IInv, ClientType
  <2>2. CASE UNCHANGED pc \/ pc' = [x \in Clients |-> "idle"]
    BY <2>2 DEF Unlinking
  <2>3. CASE \E l \in Holding \cup {"idle", "lock"} : pc' = [pc EXCEPT ![c] = l]
    BY <2>1, <2>3 DEF Unlinking, Holding
  <2>4. Register \/ Populate \/ Crash => UNCHANGED pc \/ pc' = [x \in Clients |-> "idle"]
    BY DEF Register, Populate, Crash, cl, Exit, Cleared
  <2>5. ASSUME NEW b \in Blocks, Read(c, b)
        PROVE  \E l \in Holding \cup {"idle", "lock"} : pc' = [pc EXCEPT ![c] = l]
    BY <2>5 DEF Read
  <2>6. GetMissing(c) \/ GetUsedUp(c) \/ GetCopy(c) \/ Lock(c) =>
           \E l \in Holding \cup {"idle", "lock"} : pc' = [pc EXCEPT ![c] = l]
    BY DEF GetMissing, GetUsedUp, GetCopy, Lock, FromBacking, Goto, Out, Holding
  <2>7. GetOld(c) => \/ UNCHANGED pc
                     \/ \E l \in Holding \cup {"idle", "lock"} : pc' = [pc EXCEPT ![c] = l]
    BY DEF GetOld, Goto, cl, Holding
  <2>8. ReadAhead(c) => \/ UNCHANGED pc
                        \/ \E l \in Holding \cup {"idle", "lock"} : pc' = [pc EXCEPT ![c] = l]
    BY DEF ReadAhead, Goto, cl, Holding
  <2> QED BY <2>2, <2>3, <2>4, <2>5, <2>6, <2>7, <2>8
<1> QED BY <1>0, <1>1, <1>3, <1>4, <1>5, DiskKept

\* A write, and what it does to the old files.
LEMMA WriteKeepsDisk ==
    ASSUME IInv, NEW c \in Clients, NEW b \in Blocks, Write(c, b)
    PROVE  DiskInv'
<1> USE DEF Write
<1>1. UNCHANGED <<dir, file, shaky, up, oldInfo>>
  BY DEF init
<1>2. backing \in [Blocks -> Nat]
  BY DEF IInv, DiskType
<1>3. backing' \in [Blocks -> Nat] /\ backing'[b] # 0
  BY <1>2
<1>4. /\ \A a \in Age : Info(a)' = Info(a) /\ Data(a)' = Data(a)
      /\ \A a \in Age, w \in {"info", "data"} : Has(w, a)' <=> Has(w, a)
  BY <1>1 DEF Info, Data, Has
<1>5. DiskType'
  BY <1>1, <1>3, <1>4 DEF IInv, DiskType, DirType
<1>6. UpPlace' /\ BlocksOnce' /\ PairsAgree'
  BY <1>1, <1>4, FilesAre
     DEF IInv, UpPlace, BlocksOnce, FilesOnce, Once, PairsAgree, Agree
<1>7. Restarts'
  <2>1. ~Unwritten'
    BY <1>3 DEF Unwritten
  <2> QED BY <1>4, <2>1, FilesAre DEF IInv, Restarts
<1> QED BY <1>5, <1>6, <1>7 DEF DiskInv

LEMMA UnlinkOldKeepsDisk ==
    ASSUME IInv, NEW c \in Clients, UnlinkOld(c)
    PROVE  DiskInv'
<1> USE DEF UnlinkOld
<1>0. DiskInv /\ Once(oldInfo) /\ DirType /\ FilesOnce /\ PairsAgree
  BY DEF IInv, DiskInv, BlocksOnce, DiskType
<1>1. UNCHANGED <<backing, shaky, up, oldInfo>> /\ pc[c] \in Unlinking
  BY DEF init, Unlinking
<1>2. ~Unwritten /\ up = "up" /\ ~Has("info", "cur") /\ ~Has("data", "cur")
  BY <1>1 DEF IInv, Restarts, Started, UpPlace, Unlinking
<1>3. shaky' \in BOOLEAN /\ (shaky => shaky') /\ Once(oldInfo)'
  BY <1>0, <1>1 DEF DiskInv, DiskType, Once
<1>4. CASE UNCHANGED <<dir, file>>
  <2>1. UpPlace'
    BY <1>1, <1>2, <1>4 DEF UpPlace, Has
  <2>2. Restarts'
    BY <1>0, <1>1, <1>2, <1>4 DEF DiskInv, Restarts, Unwritten, Has
  <2>3. DiskType' /\ BlocksOnce' /\ PairsAgree'
    BY <1>0, <1>1, <1>4 DEF DiskInv, DiskType, DirType, BlocksOnce, FilesOnce, Once,
                            PairsAgree, Agree, Info, Data, Has
  <2> QED BY <2>1, <2>2, <2>3 DEF DiskInv
<1>5. CASE \E w \in {"info", "data"} : Unlink({<<w, "old">>})
  <2> PICK w \in {"info", "data"} : Unlink({<<w, "old">>})
    BY <1>5
  <2>1. {<<w, "old">>} \subseteq Pair("old") /\ {<<w, "old">>} \subseteq Files
    BY DEF Pair, Files, Age
  <2>2. /\ DirType'
        /\ \A f \in Files : f \in dir' <=> f \in dir /\ f \notin {<<w, "old">>}
    BY <1>0, <2>1, UnlinkEffect
  <2>3. FilesOnce' /\ PairsAgree'
    BY <1>0, <1>1, <1>2, <2>1, UnlinkKeepsAgreement
  <2>4. ~Has("info", "cur")' /\ ~Has("data", "cur")'
    BY <1>2, <2>2, FilesAre DEF Has
  <2>5. UpPlace' /\ Restarts'
    BY <1>1, <1>2, <2>4 DEF UpPlace, Restarts, Unwritten
  <2> QED BY <1>0, <1>1, <1>3, <2>2, <2>3, <2>5 DEF DiskInv, DiskType, BlocksOnce
<1> QED BY <1>4, <1>5

(***************************************************************************)
(* What holds while nothing is in memory.                                  *)
(***************************************************************************)

Quiet ==
    /\ MemCleared /\ pop # "running"
    /\ lock \in {"free", "populate"} /\ (up # "up" => lock = "free")
    /\ pc \in [Clients -> {"idle"}] /\ val \in [Clients -> {NoData}]
    /\ blk \in [Clients -> Blocks \cup {"none"}]

\* With empty lists and idle clients, the lists are consistent.
LEMMA QuietIsWell ==
    ASSUME MemCleared', lock' \in {"free", "populate"}, up' # "up" => lock' = "free",
           pop' = "running" => lock' = "populate",
           pc' \in [Clients -> {"idle"}], val' \in [Clients -> {NoData}],
           blk' \in [Clients -> Blocks \cup {"none"}]
    PROVE  MemInv'
<1>1. /\ old' = <<>> /\ new' = <<>> /\ ble' = [b \in Blocks |-> NotLookedUp]
      /\ pos' = 1 /\ next_read_index' = 1 /\ num_blocks_cached' = 0
  BY DEF MemCleared
<1>2. MemType'
  <2>1. ble' \in [Blocks -> [known : BOOLEAN, old : Nat, new : Nat]]
    BY <1>1 DEF NotLookedUp
  <2>2. old' \in Seq(OldEntry) /\ new' \in Seq(InfoEntry) /\ Len(old') = 0
    BY <1>1
  <2> QED BY <1>1, <2>1, <2>2, CacheDevAssumption DEF MemType, CacheDevAssumption
<1>3. ClientType'
  BY CacheDevAssumption DEF ClientType, CacheDevAssumption, Clients, Holding
<1>4. Started'
  BY DEF Started
<1>5. Lookup'
  BY <1>1 DEF Lookup, NotLookedUp
<1>6. Counted'
  <2>1. InMemory' = {}
    BY <1>1 DEF InMemory
  <2> QED BY <1>1, <2>1, FS_EmptySet DEF Counted
<1>7. Holder' /\ ReadsTheBlock'
  BY DEF Holder, ReadsTheBlock
<1> QED BY <1>2, <1>3, <1>4, <1>5, <1>6, <1>7 DEF MemInv

LEMMA DownIsQuiet ==
    ASSUME IInv, up # "up"
    PROVE  Quiet
BY DEF IInv, Started, ClientType, MemType, Quiet

\* The program ends.
LEMMA ExitIsQuiet ==
    ASSUME Exit
    PROVE  /\ MemInv' /\ InitType' /\ NewFiles' /\ NewData' /\ OldData'
           /\ up' = "down" /\ oldInfo' = <<>> /\ hasNew' = FALSE
<1> USE DEF Exit, Cleared
<1>1. MemInv'
  BY QuietIsWell DEF MemCleared
<1>2. InitType'
  <2>1. oldInfo' \in Seq(InfoEntry) /\ oldFile' \in Seq(DataEntry)
    OBVIOUS
  <2>2. hasNew' \in BOOLEAN
    OBVIOUS
  <2> QED BY <2>1, <2>2 DEF InitType
<1>3. NewFiles' /\ NewData'
  BY DEF NewFiles, NewData
<1>4. OldData'
  BY DEF OldData, Opened, WholeEntries
<1> QED BY <1>1, <1>2, <1>3, <1>4

\* The steps of a start, and what happens while the program is down.
LEMMA StartsKeepMem ==
    ASSUME IInv, Promote \/ Touch \/ RenameInfo \/ RenameData \/ Open \/ UnlinkNew \/ CreateNew
    PROVE  MemInv'
<1>1. up # "up"
  BY DEF Promote, Touch, RenameInfo, RenameData, Open, UnlinkNew, CreateNew
<1>2. Quiet
  BY <1>1, DownIsQuiet
<1>3. CASE Exit
  BY <1>3, ExitIsQuiet
<1>4. CASE ~Exit
  <2>1. /\ UNCHANGED <<ble, old, new, pos, next_read_index, num_blocks_cached, lock, cl>>
        /\ up' # "up" /\ pop' # "running"
    <3>1. UNCHANGED <<ble, old, new, pos, next_read_index, num_blocks_cached, lock, cl>>
      BY <1>4 DEF Promote, Touch, RenameInfo, RenameData, Open, UnlinkNew, CreateNew, mem
    <3>2. up' # "up"
      BY <1>1, <1>4 DEF Promote, Touch, RenameInfo, RenameData, Open, UnlinkNew, CreateNew, init
    <3>3. pop' # "running"
      BY <1>2, <1>4 DEF Quiet, Promote, Touch, RenameInfo, RenameData, Open, UnlinkNew,
                        CreateNew, init
    <3> QED BY <3>1, <3>2, <3>3
  <2>2. MemCleared' /\ lock' = "free" /\ pc' = pc /\ val' = val /\ blk' = blk
    BY <1>1, <1>2, <2>1 DEF Quiet, MemCleared, cl
  <2> QED BY <1>2, <2>1, <2>2, QuietIsWell DEF Quiet
<1> QED BY <1>3, <1>4

\* Only the last entry of an info file is ever left out.
LEMMA WholeEntriesArePrefix ==
    ASSUME oldInfo \in Seq(InfoEntry)
    PROVE  /\ WholeEntries \in Seq(InfoEntry) /\ Len(WholeEntries) <= Len(oldInfo)
           /\ \A i \in DOMAIN WholeEntries : WholeEntries[i] = oldInfo[i]
<1>1. CASE oldInfo # <<>> /\ oldInfo[Len(oldInfo)].accesses = 0
  <2>1. WholeEntries = SubSeq(oldInfo, 1, Len(oldInfo) - 1)
    BY <1>1 DEF WholeEntries
  <2>2. Len(oldInfo) \in Nat \ {0}
    BY <1>1
  <2> HIDE DEF WholeEntries
  <2> QED BY <2>1, <2>2
<1>2. CASE ~(oldInfo # <<>> /\ oldInfo[Len(oldInfo)].accesses = 0)
  BY <1>2 DEF WholeEntries
<1> QED BY <1>1, <1>2

\* Nothing has been read from the old files yet, and they belong together.
LEMMA NothingRead ==
    ASSUME MemCleared', oldInfo' \in Seq(InfoEntry),
           ~shaky' /\ up' \in Opened => Agree(oldInfo, oldFile)'
    PROVE  OldData'
<1>1. /\ old' = <<>> /\ pos' = next_read_index'
  BY DEF MemCleared
<1>2. \A s \in Seq(InfoEntry) : Len(s) >= 0
  OBVIOUS
<1>3. WholeEntries' \in Seq(InfoEntry)
  <2>1. CASE oldInfo' # <<>> /\ oldInfo'[Len(oldInfo')].accesses = 0
    <3>1. WholeEntries' = SubSeq(oldInfo', 1, Len(oldInfo') - 1)
      BY <2>1 DEF WholeEntries
    <3>2. Len(oldInfo') \in Nat \ {0}
      BY <2>1
    <3> QED BY <3>1, <3>2
  <2>2. CASE ~(oldInfo' # <<>> /\ oldInfo'[Len(oldInfo')].accesses = 0)
    BY <2>2 DEF WholeEntries
  <2> QED BY <2>1, <2>2
<1>4. Len(old') <= Len(WholeEntries') /\ DOMAIN old' = {}
  BY <1>1, <1>2, <1>3
<1> QED BY <1>1, <1>4 DEF OldData

\* No step of a start breaks the tie between lists and files.
LEMMA StartsKeepLink ==
    ASSUME IInv, Promote \/ Touch \/ RenameInfo \/ RenameData \/ Open \/ UnlinkNew \/ CreateNew
    PROVE  LinkInv'
<1>1. /\ up # "up" /\ up # "register" /\ hasNew = FALSE
  <2>1. up # "up" /\ up # "register"
    BY DEF Promote, Touch, RenameInfo, RenameData, Open, UnlinkNew, CreateNew
  <2> QED BY <2>1 DEF IInv, NewFiles, InitType
<1>2. Quiet
  BY <1>1, DownIsQuiet
<1>3. CASE Exit
  BY <1>3, ExitIsQuiet DEF LinkInv
<1>4. CASE ~Exit /\ ~CreateNew
  <2>1. /\ hasNew' = hasNew /\ shaky' = shaky
        /\ UNCHANGED <<ble, old, new, pos, next_read_index, num_blocks_cached>>
    BY <1>4 DEF Promote, Touch, RenameInfo, RenameData, Open, UnlinkNew, mem, disk
  <2>2. NewFiles' /\ NewData'
    BY <1>1, <2>1 DEF NewFiles, NewData
  <2>3. CASE Open
    <3>1. /\ up' = "unlinkInfo" /\ pop' \in {"none", "opened"}
          /\ oldInfo' = Info("old") /\ oldFile' = Data("old")
          /\ Pair("old") \cap dir \in {{}, Pair("old")}
      BY <1>4, <2>3 DEF Open, Info, Data
    <3>2. hasNew' \in BOOLEAN
      BY <1>1, <2>1
    <3>3. Info("old") \in Seq(InfoEntry) /\ Data("old") \in Seq(DataEntry)
      BY FilesAre DEF IInv, DiskType, DirType
    <3>4. InitType'
      BY <3>1, <3>2, <3>3 DEF InitType
    <3>5. ASSUME ~shaky
          PROVE  Agree(Info("old"), Data("old"))
      <4>1. ~Has("info", "cur") /\ ~Has("data", "cur")
        BY <2>3 DEF IInv, UpPlace, Open
      <4>2. CASE Has("info", "old") /\ Has("data", "old")
        BY <3>5, <4>1, <4>2 DEF IInv, PairsAgree
      <4>3. CASE ~Has("info", "old")
        <5>1. Info("old") = <<>>
          BY <4>3, FilesAre DEF IInv, DiskType, DirType, Has, Info
        <5> QED BY <5>1 DEF Agree
      <4>4. Has("info", "old") => Has("data", "old")
        BY <3>1 DEF Has, Pair
      <4> QED BY <4>2, <4>3, <4>4
    <3>6. ~shaky' => Agree(oldInfo, oldFile)'
      BY <2>1, <3>1, <3>5 DEF Agree
    <3>7. MemCleared'
      BY <1>2, <2>1 DEF Quiet, MemCleared
    <3> QED BY <2>2, <3>1, <3>3, <3>4, <3>6, <3>7, NothingRead DEF LinkInv
  <2>4. CASE ~Open
    <3>1. /\ UNCHANGED <<pop, oldInfo, oldFile>>
          /\ up' \in Opened => up \in Opened
          /\ up' \in {"down", "renameData", "renameFailed", "open", "unlinkInfo", "unlinkData",
                      "createInfo", "createData", "register", "up"}
      BY <1>4, <2>4 DEF Promote, Touch, RenameInfo, RenameData, UnlinkNew, init, Opened
    <3>2. InitType'
      <4>1. hasNew' \in BOOLEAN
        BY <1>1, <2>1
      <4> QED BY <3>1, <4>1 DEF IInv, InitType
    <3>3. ~shaky' /\ up' \in Opened => Agree(oldInfo, oldFile)'
      BY <2>1, <3>1 DEF IInv, OldData, Agree
    <3>4. MemCleared'
      BY <1>2, <2>1 DEF Quiet, MemCleared
    <3> QED BY <2>2, <3>2, <3>3, <3>4, NothingRead DEF LinkInv, InitType
  <2> QED BY <2>3, <2>4
<1>5. CASE CreateNew
  <2>1. /\ UNCHANGED <<pop, oldInfo, oldFile, ble, old, new, pos, next_read_index,
                       num_blocks_cached, lock, shaky>>
        /\ up \in Opened /\ up' \in {"createData", "register"}
    BY <1>5 DEF CreateNew, Opened
  <2>2. hasNew' \in BOOLEAN
    BY <1>1, <1>5 DEF CreateNew
  <2>3. InitType'
    BY <2>1, <2>2 DEF IInv, InitType
  <2>4. MemCleared' /\ MemCleared
    BY <1>2, <2>1 DEF Quiet, MemCleared
  <2>5. NewFiles'
    <3> SUFFICES ASSUME hasNew' PROVE NewFiles'
      BY DEF NewFiles
    <3>1. up = "createData" /\ up' = "register" /\ dir' = dir \cup {<<"data", "new">>} /\ file' = file
      BY <1>1, <1>5 DEF CreateNew
    <3>2. /\ Has("info", "new") /\ Info("new") = <<>> /\ ~Has("data", "new")
      BY <3>1 DEF IInv, UpPlace
    <3>3. Data("new") = <<>>
      BY <3>2, FilesAre DEF IInv, DiskType, DirType, Data, Has
    <3>4. /\ Pair("new") \subseteq dir' /\ Info("new")' = <<>> /\ Data("new")' = <<>>
      BY <3>1, <3>2, <3>3 DEF Pair, Has, Info, Data
    <3>5. ~Writing' /\ new' = <<>>
      BY <1>1, <1>2, <2>1, <2>4, CacheDevAssumption
         DEF Quiet, MemCleared, Writing, Clients, CacheDevAssumption
    <3> QED BY <3>1, <3>4, <3>5 DEF NewFiles
  <2>6. NewData'
    BY <2>4 DEF NewData, MemCleared
  <2>7. ~shaky' /\ up' \in Opened => Agree(oldInfo, oldFile)'
    BY <2>1 DEF IInv, OldData, Agree
  <2> QED BY <2>3, <2>4, <2>5, <2>6, <2>7, NothingRead DEF LinkInv, InitType
<1> QED BY <1>3, <1>4, <1>5

\* The device is registered, the program dies, the lookup set is populated.
LEMMA RegisterKeeps ==
    ASSUME IInv, Register
    PROVE  MemInv' /\ LinkInv'
<1> USE DEF Register
<1>1. Quiet
  BY DownIsQuiet
<1>2. /\ UNCHANGED <<hasNew, ble, old, new, pos, next_read_index, num_blocks_cached>>
      /\ pc' = pc /\ blk' = blk /\ val' = val /\ lock' = "populate" /\ up' = "up"
      /\ UNCHANGED <<oldInfo, oldFile, shaky, dir, file>>
  BY DEF mem, cl, disk
<1>3. MemCleared' /\ MemCleared
  BY <1>1, <1>2 DEF Quiet, MemCleared
<1>4. MemInv'
  BY <1>1, <1>2, <1>3, QuietIsWell DEF Quiet
<1>5. InitType'
  <2>1. hasNew' \in BOOLEAN
    BY <1>2 DEF IInv, InitType
  <2> QED BY <1>2, <2>1 DEF IInv, InitType
<1>6. NewFiles'
  <2>1. ~Writing /\ ~Writing' /\ new = <<>>
    BY <1>1, <1>2, <1>3, CacheDevAssumption
       DEF Quiet, MemCleared, Writing, Clients, CacheDevAssumption
  <2>2. Info("new")' = Info("new") /\ Data("new")' = Data("new")
    BY <1>2 DEF Info, Data
  <2> QED BY <1>2, <2>1, <2>2 DEF IInv, NewFiles
<1>7. NewData'
  BY <1>3 DEF NewData, MemCleared
<1>8. ~shaky' /\ up' \in Opened => Agree(oldInfo, oldFile)'
  BY <1>2 DEF IInv, OldData, Agree, Opened
<1> QED BY <1>3, <1>4, <1>5, <1>6, <1>7, <1>8, NothingRead DEF LinkInv, InitType

LEMMA CrashKeeps ==
    ASSUME IInv, Crash
    PROVE  MemInv' /\ LinkInv'
BY ExitIsQuiet DEF Crash, LinkInv

LEMMA PopulateKeeps ==
    ASSUME IInv, Populate
    PROVE  MemInv' /\ LinkInv'
<1> USE DEF Populate
<1>1. /\ lock = "populate" /\ MemCleared /\ up = "up"
      /\ UNCHANGED <<up, oldInfo, oldFile, hasNew, new, pos, next_read_index, num_blocks_cached>>
      /\ UNCHANGED <<pc, blk, val, shaky, dir, file>>
  BY CacheDevAssumption DEF IInv, Started, cl, disk
<1>2. /\ new = <<>> /\ pos = 1 /\ next_read_index = 1 /\ num_blocks_cached = 0 /\ old = <<>>
      /\ ble = [b \in Blocks |-> NotLookedUp]
  BY <1>1 DEF MemCleared
<1>3. \A c \in Clients : pc[c] \notin Holding /\ c # "free" /\ c # "populate"
  BY <1>1, CacheDevAssumption DEF IInv, ClientType, CacheDevAssumption, Clients
<1>4. InitType'
  <2>1. hasNew' \in BOOLEAN
    BY <1>1 DEF IInv, InitType
  <2> QED BY <1>1, <2>1 DEF IInv, InitType
<1>5. NewFiles'
  <2>1. ~Writing /\ ~Writing'
    <3>1. lock \notin Clients /\ lock' \notin Clients
      BY <1>1, <1>3
    <3> QED BY <3>1 DEF Writing
  <2>2. Info("new")' = Info("new") /\ Data("new")' = Data("new")
    BY <1>1 DEF Info, Data
  <2> QED BY <1>1, <1>2, <2>1, <2>2 DEF IInv, NewFiles
<1>6. NewData'
  BY <1>1, <1>2 DEF NewData
<1>7. ~shaky => Agree(oldInfo, oldFile)
  BY <1>1 DEF IInv, OldData, Opened
<1>8. WholeEntries' = WholeEntries
  BY <1>1 DEF WholeEntries
<1>9. WholeEntries \in Seq(InfoEntry)
  BY WholeEntriesArePrefix DEF IInv, InitType
<1>10. ReadsTheBlock'
  BY <1>1 DEF IInv, ReadsTheBlock
<1>11. Holder'
  BY <1>1, <1>3 DEF Holder, Holding
<1>12. ClientType'
  BY <1>1, <1>3 DEF IInv, ClientType
<1>13. CASE UNCHANGED <<old, ble, lock>>
  <2>1. MemCleared'
    BY <1>1, <1>2, <1>13 DEF MemCleared
  <2>2. MemType' /\ Lookup'
    BY <1>1, <1>13 DEF IInv, MemType, Lookup
  <2>3. Started' /\ Counted'
    <3>1. InMemory' = InMemory
      BY <1>13 DEF InMemory
    <3> QED BY <1>1, <1>13, <2>1, <3>1 DEF IInv, Started, Counted
  <2>4. ~shaky' /\ up' \in Opened => Agree(oldInfo, oldFile)'
    BY <1>1, <1>7 DEF Agree
  <2>5. OldData'
    BY <1>4, <2>1, <2>4, NothingRead DEF InitType
  <2> QED BY <1>4, <1>5, <1>6, <1>10, <1>11, <1>12, <2>2, <2>3, <2>5 DEF MemInv, LinkInv
<1>14. CASE ~UNCHANGED <<old, ble, lock>>
  <2> DEFINE w == WholeEntries
  <2>1. /\ old' = [i \in 1..Len(w) |-> [block |-> w[i].block, data |-> NoData,
                                        accesses |-> w[i].accesses]]
        /\ ble' = [b \in Blocks |->
                     IF \E i \in DOMAIN w : w[i].block = b
                     THEN [known |-> TRUE, new |-> 0,
                           old |-> CHOOSE i \in DOMAIN w : w[i].block = b]
                     ELSE NotLookedUp]
        /\ lock' = "free" /\ pop' = "none"
    BY <1>14
  <2>2. w \in Seq(InfoEntry)
    BY <1>9
  <2> HIDE DEF w
  <2>3. /\ old' \in Seq(OldEntry) /\ Len(old') = Len(w) /\ DOMAIN old' = DOMAIN w
        /\ \A i \in DOMAIN w : old'[i].block = w[i].block /\ old'[i].data = NoData
    <3>1. Len(w) \in Nat /\ DOMAIN w = 1..Len(w) /\ \A i \in DOMAIN w : w[i] \in InfoEntry
      BY <2>2
    <3>2. \A i \in 1..Len(w) : [block |-> w[i].block, data |-> NoData,
                                accesses |-> w[i].accesses] \in OldEntry
      BY <3>1 DEF InfoEntry, OldEntry
    <3>3. \A i \in 1..Len(w) : old'[i] \in OldEntry
      BY <2>1, <3>2
    <3>4. old' \in Seq(OldEntry) /\ Len(old') = Len(w)
      BY <2>1, <3>1, <3>3
    <3> QED BY <2>1, <3>1, <3>4
  <2>4. \A b \in Blocks :
          /\ ble'[b] \in [known : BOOLEAN, old : Nat, new : Nat] /\ ble'[b].new = 0
          /\ ble'[b].old # 0 => ble'[b].old \in DOMAIN w /\ w[ble'[b].old].block = b
    <3> SUFFICES ASSUME NEW b \in Blocks
                 PROVE  /\ ble'[b] \in [known : BOOLEAN, old : Nat, new : Nat] /\ ble'[b].new = 0
                        /\ ble'[b].old # 0 => ble'[b].old \in DOMAIN w /\ w[ble'[b].old].block = b
      OBVIOUS
    <3>1. CASE \E i \in DOMAIN w : w[i].block = b
      <4> DEFINE k == CHOOSE i \in DOMAIN w : w[i].block = b
      <4>1. k \in DOMAIN w /\ w[k].block = b
        BY <3>1
      <4>2. k \in Nat
        BY <2>2, <4>1
      <4>3. ble'[b] = [known |-> TRUE, new |-> 0, old |-> k]
        BY <2>1, <3>1
      <4> HIDE DEF k
      <4> QED BY <4>1, <4>2, <4>3
    <3>2. CASE ~\E i \in DOMAIN w : w[i].block = b
      BY <2>1, <3>2 DEF NotLookedUp
    <3> QED BY <3>1, <3>2
  <2>5. MemType'
    <3>1. ble' \in [Blocks -> [known : BOOLEAN, old : Nat, new : Nat]]
      BY <2>1, <2>4
    <3>2. Len(w) \in Nat
      BY <2>2
    <3> QED BY <1>1, <1>2, <2>3, <3>1, <3>2 DEF IInv, MemType
  <2>6. Lookup'
    BY <1>1, <1>2, <2>3, <2>4 DEF Lookup
  <2>7. Started'
    BY <1>1, <2>1 DEF Started
  <2>8. Counted'
    <3>1. InMemory' = {}
      BY <2>3 DEF InMemory
    <3> QED BY <1>1, <1>2, <2>3, <3>1, FS_EmptySet DEF Counted
  <2>9. OldData'
    <3>1. Len(w) \in Nat /\ WholeEntries' = w
      BY <1>8, <2>2 DEF w
    <3>2. ~shaky' => Agree(oldInfo, oldFile)'
      BY <1>1, <1>7 DEF Agree
    <3> QED BY <1>1, <1>2, <2>3, <3>1, <3>2 DEF OldData
  <2>10. ClientType'
    BY <1>1, <1>3, <2>1 DEF IInv, ClientType
  <2> QED BY <1>4, <1>5, <1>6, <1>10, <1>11, <2>5, <2>6, <2>7, <2>8, <2>9, <2>10
          DEF MemInv, LinkInv
<1> QED BY <1>13, <1>14

(***************************************************************************)
(* The lists, and the client that holds the lock.                          *)
(***************************************************************************)

Labels == Holding \cup Unlinking \cup {"idle", "lock"}

\* The client with the lock goes on to a label, or to label out.
LEMMA GotoKeeps ==
    ASSUME ClientType, NEW c \in Clients, pc[c] \in Holding, NEW l \in Holding, Goto(c, l),
           val' = val \/ \E e \in DataEntry : val' = [val EXCEPT ![c] = e],
           l = "data" => val' # val
    PROVE  /\ ClientType' /\ lock = c /\ lock' = c /\ pc'[c] = l /\ blk' = blk
           /\ \A x \in Clients \ {c} : /\ pc'[x] = pc[x] /\ val'[x] = val[x]
                                       /\ pc[x] \notin Holding
<1>1. /\ pc' = [pc EXCEPT ![c] = l] /\ lock' = lock /\ blk' = blk
  BY DEF Goto
<1>2. /\ lock = c /\ pc'[c] = l
      /\ \A x \in Clients \ {c} : pc'[x] = pc[x] /\ pc[x] \notin Holding
  BY <1>1 DEF ClientType
<1>3. \A x \in Clients \ {c} : val'[x] = val[x]
  BY DEF ClientType
<1>4. pc' \in [Clients -> Labels]
  BY <1>1 DEF ClientType, Labels
<1>5. val' \in [Clients -> DataEntry \cup {NoData}] /\ (l = "data" => val'[c] # NoData)
  <2>1. CASE val' = val
    BY <2>1 DEF ClientType
  <2>2. CASE \E e \in DataEntry : val' = [val EXCEPT ![c] = e]
    <3> PICK e \in DataEntry : val' = [val EXCEPT ![c] = e]
      BY <2>2
    <3>1. e # NoData
      BY NoDataApart
    <3> QED BY <3>1 DEF ClientType
  <2> QED BY <2>1, <2>2
<1>6. \A x \in Clients : pc[x] \in Labels
  BY DEF ClientType, Labels
<1>7. \A x \in Clients : /\ (lock' = x) <=> pc'[x] \in Holding
                         /\ pc'[x] \in Holding \cup {"lock"} => blk'[x] \in Blocks
                         /\ pc'[x] = "data" => val'[x] # NoData
  BY <1>1, <1>2, <1>3, <1>5 DEF ClientType
<1> QED BY <1>1, <1>2, <1>3, <1>4, <1>5, <1>7 DEF ClientType, Labels

LEMMA OutKeeps ==
    ASSUME ClientType, NEW c \in Clients, pc[c] \in Holding, Out(c)
    PROVE  /\ ClientType' /\ lock = c /\ lock' = "free"
           /\ pc'[c] = "idle" /\ val'[c] = NoData
           /\ \A x \in Clients \ {c} : /\ pc'[x] = pc[x] /\ val'[x] = val[x] /\ blk'[x] = blk[x]
                                       /\ pc[x] \notin Holding
<1> USE DEF Out
<1>1. /\ pc'[c] = "idle" /\ val'[c] = NoData /\ blk'[c] = "none" /\ lock = c
      /\ \A x \in Clients \ {c} : /\ pc'[x] = pc[x] /\ val'[x] = val[x] /\ blk'[x] = blk[x]
                                  /\ pc[x] \notin Holding
  BY DEF ClientType
<1>2. /\ pc' \in [Clients -> Labels] /\ blk' \in [Clients -> Blocks \cup {"none"}]
      /\ val' \in [Clients -> DataEntry \cup {NoData}]
  BY DEF ClientType, Labels
<1>3. "free" \notin Clients
  BY CacheDevAssumption DEF CacheDevAssumption, Clients
<1>4. \A x \in Clients : /\ (lock' = x) <=> pc'[x] \in Holding
                         /\ pc'[x] \in Holding \cup {"lock"} => blk'[x] \in Blocks
                         /\ pc'[x] = "data" => val'[x] # NoData
  BY <1>1, <1>3 DEF ClientType, Holding
<1> QED BY <1>1, <1>2, <1>4 DEF ClientType, Labels

\* A step that leaves the lists alone.
LEMMA ListsKept ==
    ASSUME IInv, up = "up",
           UNCHANGED <<old, new, pos, next_read_index, num_blocks_cached, up, pop, shaky,
                       oldInfo, oldFile, hasNew>>,
           ble' \in [Blocks -> [known : BOOLEAN, old : Nat, new : Nat]],
           \A b \in Blocks : ble'[b].old = ble[b].old /\ ble'[b].new = ble[b].new,
           ClientType', ReadsTheBlock', Holder',
           lock = "populate" => lock' = lock /\ ble' = ble,
           lock' = "populate" => lock = "populate"
    PROVE  MemInv' /\ InitType' /\ OldData'
<1>1. MemType' /\ Lookup'
  <2>1. MemType'
    BY DEF IInv, MemType
  <2>2. new \in Seq(InfoEntry) /\ \A i \in DOMAIN new : new[i].block \in Blocks
    <3>1. new \in Seq(InfoEntry)
      BY DEF IInv, MemType
    <3>2. \A i \in DOMAIN new : new[i] \in InfoEntry
      BY <3>1
    <3> QED BY <3>1, <3>2 DEF InfoEntry
  <2>3. Lookup'
    BY <2>2 DEF IInv, Lookup
  <2> QED BY <2>1, <2>3
<1>2. Started'
  BY DEF IInv, Started, MemCleared
<1>3. InMemory' = InMemory
  BY DEF InMemory
<1>4. Counted'
  BY <1>3 DEF IInv, Counted
<1>5. OldData'
  BY DEF IInv, OldData, Agree, WholeEntries
<1>6. InitType'
  <2>1. hasNew' \in BOOLEAN
    BY DEF IInv, InitType
  <2> QED BY <2>1 DEF IInv, InitType
<1> QED BY <1>1, <1>2, <1>4, <1>5, <1>6 DEF MemInv

Storing == lock \in Clients /\ pc[lock] \in {"block", "count"}

\* A step in which nobody stores, or the one who stores does not move.
LEMMA NewSideKept ==
    ASSUME IInv, hasNew => hasNew', UNCHANGED <<up, new, hasNew, shaky>>,
           Info("new")' = Info("new"), Data("new")' = Data("new"),
           Pair("new") \subseteq dir => Pair("new") \subseteq dir',
           \/ ~Storing /\ ~Storing'
           \/ /\ lock' = lock
              /\ lock \in Clients => pc'[lock] = pc[lock] /\ Entry(lock)'.new = Entry(lock).new
    PROVE  NewFiles' /\ NewData'
<1>1. Info("new")' = Info("new") /\ Data("new")' = Data("new")
  OBVIOUS
<1>2. NewData'
  BY <1>1 DEF IInv, NewData
<1>3. CASE ~Storing /\ ~Storing'
  <2>1. ~Writing /\ ~Writing'
    BY <1>3 DEF Storing, Writing
  <2>2. ASSUME hasNew PROVE \A i \in DOMAIN new : ~Fresh(i)
    BY <1>3, <2>2 DEF IInv, NewFiles, Storing
  <2>3. \A i \in DOMAIN new : Fresh(i)' <=> Fresh(i)
    BY DEF Fresh
  <2> QED BY <1>1, <1>2, <2>1, <2>2, <2>3 DEF IInv, NewFiles
<1>4. CASE /\ lock' = lock
           /\ lock \in Clients => pc'[lock] = pc[lock] /\ Entry(lock)'.new = Entry(lock).new
  <2>1. Writing' <=> Writing
    BY <1>4 DEF Writing, Fresh, Entry
  <2>2. \A i \in DOMAIN new : Fresh(i)' <=> Fresh(i)
    BY DEF Fresh
  <2>3. Writing => lock \in Clients
    BY DEF Writing
  <2> HIDE DEF Writing, Fresh
  <2>4. CASE lock \in Clients
    <3>1. Entry(lock)'.new = Entry(lock).new /\ pc'[lock] = pc[lock] /\ lock' = lock
      BY <1>4, <2>4
    <3> QED BY <1>1, <1>2, <2>1, <2>2, <2>4, <3>1 DEF IInv, NewFiles
  <2>5. CASE lock \notin Clients
    BY <1>1, <1>2, <1>4, <2>1, <2>2, <2>3, <2>5 DEF IInv, NewFiles
  <2> QED BY <2>4, <2>5
<1> QED BY <1>3, <1>4

\* The same for a step that changes no file.
LEMMA NewFilesKept ==
    ASSUME IInv, hasNew => hasNew', UNCHANGED <<up, new, dir, file, hasNew, shaky>>,
           \/ ~Storing /\ ~Storing'
           \/ /\ lock' = lock
              /\ lock \in Clients => pc'[lock] = pc[lock] /\ Entry(lock)'.new = Entry(lock).new
    PROVE  NewFiles' /\ NewData'
<1>1. Info("new")' = Info("new") /\ Data("new")' = Data("new")
  BY DEF Info, Data
<1> QED BY <1>1, NewSideKept

\* What the backing device returns.
LEMMA ContentIsData ==
    ASSUME DiskType, NEW b \in Blocks
    PROVE  Content(b) \in DataEntry /\ Content(b).block = b
BY DEF DiskType, Content, DataEntry

\* Who holds the lock is alone, and the device is up.
LEMMA HolderIsAlone ==
    ASSUME IInv, NEW c \in Clients, pc[c] \in Holding
    PROVE  /\ lock = c /\ up = "up" /\ pop # "running" /\ lock # "populate" /\ blk[c] \in Blocks
           /\ \A x \in Clients \ {c} : pc[x] \notin Holding
           /\ pc[c] \notin {"block", "count"} => ~Storing
<1>1. lock = c /\ blk[c] \in Blocks /\ \A x \in Clients \ {c} : pc[x] \notin Holding
  BY DEF IInv, ClientType
<1>2. c # "populate"
  BY CacheDevAssumption DEF CacheDevAssumption, Clients
<1>3. up = "up"
  BY DEF IInv, Started, Holding
<1> QED BY <1>1, <1>2, <1>3 DEF IInv, Started, Storing

\* A client begins to read, and gets the lock.
LEMMA ReadKeeps ==
    ASSUME IInv, NEW c \in Clients, NEW b \in Blocks, Read(c, b)
    PROVE  MemInv' /\ LinkInv'
<1> USE DEF Read
<1>1. /\ UNCHANGED <<old, new, pos, next_read_index, num_blocks_cached, up, pop, shaky, ble,
                     oldInfo, oldFile, hasNew, lock, dir, file>>
      /\ up = "up" /\ pc[c] = "idle"
      /\ pc' = [pc EXCEPT ![c] = "lock"] /\ blk' = [blk EXCEPT ![c] = b]
      /\ val' = [val EXCEPT ![c] = NoData]
  BY DEF disk, init, mem, CanRun
<1>2. ClientType
  BY DEF IInv
<1>3. /\ pc'[c] = "lock" /\ blk'[c] = b /\ val'[c] = NoData /\ lock # c
      /\ \A x \in Clients \ {c} : pc'[x] = pc[x] /\ blk'[x] = blk[x] /\ val'[x] = val[x]
  BY <1>1, <1>2 DEF ClientType, Holding
<1>4. ClientType'
  <2>1. /\ pc' \in [Clients -> Labels] /\ blk' \in [Clients -> Blocks \cup {"none"}]
        /\ val' \in [Clients -> DataEntry \cup {NoData}]
    BY <1>1, <1>2 DEF ClientType, Labels
  <2>2. \A x \in Clients : /\ (lock' = x) <=> pc'[x] \in Holding
                           /\ pc'[x] \in Holding \cup {"lock"} => blk'[x] \in Blocks
                           /\ pc'[x] = "data" => val'[x] # NoData
    BY <1>1, <1>2, <1>3 DEF ClientType, Holding
  <2> QED BY <1>1, <1>2, <2>1, <2>2 DEF ClientType, Labels
<1>5. ReadsTheBlock' /\ Holder'
  <2>1. ReadsTheBlock'
    BY <1>1, <1>3 DEF IInv, ReadsTheBlock
  <2>2. Holder'
    BY <1>1, <1>3 DEF IInv, Holder, Entry
  <2> QED BY <2>1, <2>2
<1>6. lock \in Clients => pc'[lock] = pc[lock] /\ Entry(lock)'.new = Entry(lock).new
  BY <1>1, <1>3 DEF Entry
<1>7. NewFiles' /\ NewData'
  BY <1>1, <1>6, NewFilesKept
<1>8. ble' \in [Blocks -> [known : BOOLEAN, old : Nat, new : Nat]]
  BY <1>1 DEF IInv, MemType
<1> QED BY <1>1, <1>4, <1>5, <1>7, <1>8, ListsKept DEF LinkInv

LEMMA LockKeeps ==
    ASSUME IInv, NEW c \in Clients, Lock(c)
    PROVE  MemInv' /\ LinkInv'
<1> USE DEF Lock
<1>1. /\ UNCHANGED <<old, new, pos, next_read_index, num_blocks_cached, up, pop, shaky, ble,
                     oldInfo, oldFile, hasNew, blk, val, dir, file>>
      /\ up = "up" /\ pc[c] = "lock" /\ lock = "free" /\ lock' = c
      /\ pc' = [pc EXCEPT ![c] = "get"]
  BY DEF disk, init, mem, CanRun
<1>2. ClientType /\ "free" \notin Clients /\ "populate" \notin Clients
  BY CacheDevAssumption DEF IInv, CacheDevAssumption, Clients
<1>3. /\ pc'[c] = "get" /\ \A x \in Clients \ {c} : pc'[x] = pc[x]
      /\ \A x \in Clients : pc[x] \notin Holding
  BY <1>1, <1>2 DEF ClientType
<1>4. ClientType'
  <2>1. pc' \in [Clients -> Labels]
    BY <1>1, <1>2 DEF ClientType, Labels, Holding
  <2>2. \A x \in Clients : /\ (lock' = x) <=> pc'[x] \in Holding
                           /\ pc'[x] \in Holding \cup {"lock"} => blk'[x] \in Blocks
                           /\ pc'[x] = "data" => val'[x] # NoData
    BY <1>1, <1>2, <1>3 DEF ClientType, Holding
  <2> QED BY <1>1, <1>2, <2>1, <2>2 DEF ClientType, Labels
<1>5. ReadsTheBlock' /\ Holder'
  BY <1>1, <1>3 DEF IInv, ReadsTheBlock, Holder, Holding
<1>6. ~Storing /\ ~Storing'
  BY <1>1, <1>2, <1>3 DEF Storing
<1>7. NewFiles' /\ NewData'
  BY <1>1, <1>6, NewFilesKept
<1>8. ble' \in [Blocks -> [known : BOOLEAN, old : Nat, new : Nat]]
  BY <1>1 DEF IInv, MemType
<1> QED BY <1>1, <1>2, <1>4, <1>5, <1>7, <1>8, ListsKept DEF LinkInv

\* A client that holds the lock goes on, or gives it back.
LEMMA HolderSteps ==
    ASSUME IInv, NEW c \in Clients, pc[c] \in Holding \ {"block", "count"},
           UNCHANGED <<old, new, pos, next_read_index, num_blocks_cached, up, pop, shaky,
                       oldInfo, oldFile, hasNew, dir, file>>,
           ble' \in [Blocks -> [known : BOOLEAN, old : Nat, new : Nat]],
           \A b \in Blocks : ble'[b].old = ble[b].old /\ ble'[b].new = ble[b].new,
           \/ Out(c)
           \/ Goto(c, "data") /\ \E e \in DataEntry : e.block = blk[c] /\ val' = [val EXCEPT ![c] = e]
    PROVE  MemInv' /\ LinkInv'
<1>0. pc[c] \in Holding /\ ClientType
  BY DEF IInv
<1>1. /\ lock = c /\ up = "up" /\ pop # "running" /\ lock # "populate" /\ ~Storing
      /\ \A x \in Clients \ {c} : pc[x] \notin Holding
  BY <1>0, HolderIsAlone
<1>2. \A x \in Clients : pc[x] \in Labels
  BY <1>0 DEF ClientType, Labels
<1>3. CASE Out(c)
  <2>1. /\ ClientType' /\ lock' = "free" /\ pc'[c] = "idle" /\ val'[c] = NoData
        /\ \A x \in Clients \ {c} : pc'[x] = pc[x] /\ val'[x] = val[x] /\ blk'[x] = blk[x]
    BY <1>0, <1>3, OutKeeps
  <2>2. ReadsTheBlock'
    BY <2>1 DEF IInv, ReadsTheBlock
  <2>3. Holder'
    BY <1>1, <2>1 DEF Holder, Holding
  <2>4. ~Storing'
    BY <2>1, CacheDevAssumption DEF Storing, CacheDevAssumption, Clients
  <2>5. NewFiles' /\ NewData'
    BY <1>1, <2>4, NewFilesKept
  <2> QED BY <1>1, <2>1, <2>2, <2>3, <2>5, ListsKept DEF LinkInv
<1>4. CASE Goto(c, "data") /\ \E e \in DataEntry : e.block = blk[c] /\ val' = [val EXCEPT ![c] = e]
  <2> PICK e \in DataEntry : e.block = blk[c] /\ val' = [val EXCEPT ![c] = e]
    BY <1>4
  <2>0. "data" \in Holding
    BY DEF Holding
  <2>1. /\ lock' = c /\ pc'[c] = "data" /\ blk' = blk /\ val'[c] = e
        /\ \A x \in Clients \ {c} : pc'[x] = pc[x] /\ val'[x] = val[x]
    BY <1>0, <1>1, <1>4 DEF Goto, ClientType
  <2>2. ClientType'
    <3>1. /\ pc' \in [Clients -> Labels]
          /\ val' \in [Clients -> DataEntry \cup {NoData}]
      BY <1>0, <1>4, <2>0 DEF Goto, ClientType, Labels
    <3>2. e # NoData
      BY NoDataApart
    <3>3. \A x \in Clients : /\ (lock' = x) <=> pc'[x] \in Holding
                             /\ pc'[x] \in Holding \cup {"lock"} => blk'[x] \in Blocks
                             /\ pc'[x] = "data" => val'[x] # NoData
      BY <1>0, <1>1, <2>0, <2>1, <3>2 DEF ClientType
    <3> QED BY <1>0, <1>1, <2>1, <3>1, <3>3 DEF ClientType, Labels
  <2>3. ReadsTheBlock'
    BY <2>1 DEF IInv, ReadsTheBlock
  <2>4. Holder'
    BY <1>1, <2>1 DEF Holder, Holding
  <2>5. ~Storing'
    BY <2>1 DEF Storing
  <2>6. NewFiles' /\ NewData'
    BY <1>1, <2>5, NewFilesKept
  <2>7. lock' # "populate"
    BY <1>1, <2>1
  <2> QED BY <1>1, <2>2, <2>3, <2>4, <2>6, <2>7, ListsKept DEF LinkInv
<1> QED BY <1>3, <1>4

\* A block that is not in the lookup set, and one whose old data is used up.
LEMMA GetsKeep ==
    ASSUME IInv, NEW c \in Clients, GetMissing(c) \/ GetUsedUp(c)
    PROVE  MemInv' /\ LinkInv'
<1>1. /\ UNCHANGED <<old, new, pos, next_read_index, num_blocks_cached, up, pop, shaky,
                     oldInfo, oldFile, hasNew, dir, file>>
      /\ pc[c] = "get"
  BY DEF GetMissing, GetUsedUp, disk, init, mem, CanRun
<1>2. pc[c] \in Holding \ {"block", "count"} /\ blk[c] \in Blocks
  BY <1>1 DEF IInv, ClientType, Holding
<1>3. Content(blk[c]) \in DataEntry /\ Content(blk[c]).block = blk[c]
  BY <1>2, ContentIsData DEF IInv
<1>4. \/ Out(c)
      \/ Goto(c, "data") /\ \E e \in DataEntry : e.block = blk[c] /\ val' = [val EXCEPT ![c] = e]
  BY <1>3 DEF GetMissing, GetUsedUp, FromBacking
<1>5. /\ ble' \in [Blocks -> [known : BOOLEAN, old : Nat, new : Nat]]
      /\ \A b \in Blocks : ble'[b].old = ble[b].old /\ ble'[b].new = ble[b].new
  <2>1. ble \in [Blocks -> [known : BOOLEAN, old : Nat, new : Nat]]
    BY DEF IInv, MemType
  <2>2. ble' = ble \/ ble' = [ble EXCEPT ![blk[c]].known = TRUE]
    BY DEF GetMissing, GetUsedUp, mem
  <2>3. CASE ble' = ble
    BY <2>1, <2>3
  <2>4. CASE ble' = [ble EXCEPT ![blk[c]].known = TRUE]
    <3> DEFINE r == [ble[blk[c]] EXCEPT !.known = TRUE]
    <3>1. ble' = [ble EXCEPT ![blk[c]] = r]
      BY <2>4
    <3>2. /\ r \in [known : BOOLEAN, old : Nat, new : Nat]
          /\ r.old = ble[blk[c]].old /\ r.new = ble[blk[c]].new
      BY <1>2, <2>1
    <3> HIDE DEF r
    <3> QED BY <1>2, <2>1, <3>1, <3>2
  <2> QED BY <2>2, <2>3, <2>4
<1> QED BY <1>1, <1>2, <1>4, <1>5, HolderSteps

\* A block that is in the old data.
LEMMA GetOldKeeps ==
    ASSUME IInv, NEW c \in Clients, GetOld(c)
    PROVE  MemInv' /\ LinkInv'
<1> USE DEF GetOld
<1>1. /\ UNCHANGED <<old, new, pos, next_read_index, num_blocks_cached, up, pop, shaky, ble,
                     oldInfo, oldFile, hasNew, dir, file, lock, blk, val>>
      /\ pc[c] = "get" /\ Entry(c).old # 0
  BY DEF disk, init, mem, CanRun, cl, Goto
<1>2. pc[c] \in Holding /\ pc[c] \notin {"block", "count"} /\ ClientType
  BY <1>1 DEF IInv, Holding
<1>3. /\ lock = c /\ up = "up" /\ pop # "running" /\ lock # "populate" /\ ~Storing
      /\ \A x \in Clients \ {c} : pc[x] \notin Holding
  BY <1>2, HolderIsAlone
<1>4. \/ pc' = pc
      \/ \E l \in {"ahead", "copy"} : Goto(c, l) /\ old[Entry(c).old].accesses # 0
  BY DEF cl
<1>5. /\ \A x \in Clients \ {c} : pc'[x] = pc[x]
      /\ pc'[c] \in {"get", "ahead", "copy"}
      /\ pc'[c] \in {"ahead", "copy"} => old[Entry(c).old].accesses # 0
      /\ pc' \in [Clients -> Labels]
  BY <1>1, <1>2, <1>4 DEF ClientType, Labels, Holding, Goto
<1>6. ClientType'
  <2>1. \A x \in Clients : /\ (lock' = x) <=> pc'[x] \in Holding
                           /\ pc'[x] \in Holding \cup {"lock"} => blk'[x] \in Blocks
                           /\ pc'[x] = "data" => val'[x] # NoData
    BY <1>1, <1>2, <1>3, <1>5 DEF ClientType, Holding
  <2> QED BY <1>1, <1>2, <1>5, <2>1 DEF ClientType, Labels
<1>7. ReadsTheBlock'
  BY <1>1 DEF IInv, ReadsTheBlock
<1>8. Holder'
  <2>1. Entry(c)' = Entry(c)
    BY <1>1 DEF Entry
  <2>2. \A x \in Clients \ {c} : pc'[x] \notin Holding
    BY <1>3, <1>5
  <2> QED BY <1>1, <1>5, <2>1, <2>2 DEF Holder, Holding
<1>9. NewFiles' /\ NewData'
  <2>1. ~Storing'
    BY <1>1, <1>3, <1>5 DEF Storing
  <2> QED BY <1>1, <1>3, <2>1, NewFilesKept
<1>10. ble' \in [Blocks -> [known : BOOLEAN, old : Nat, new : Nat]]
  BY <1>1 DEF IInv, MemType
<1> QED BY <1>1, <1>3, <1>6, <1>7, <1>8, <1>9, <1>10, ListsKept DEF LinkInv

\* A write goes around the lists.
LEMMA WritersKeepMem ==
    ASSUME IInv, NEW c \in Clients, UnlinkOld(c) \/ \E b \in Blocks : Write(c, b)
    PROVE  MemInv' /\ LinkInv'
<1>1. /\ UNCHANGED <<old, new, pos, next_read_index, num_blocks_cached, up, pop, shaky, ble,
                     oldInfo, oldFile, hasNew, lock, blk, val>>
      /\ pc[c] \in Unlinking \cup {"idle"}
      /\ \E l \in Unlinking \cup {"idle"} : pc' = [pc EXCEPT ![c] = l]
  <2>1. CASE UnlinkOld(c)
    BY <2>1 DEF UnlinkOld, init, mem, Unlinking
  <2>2. CASE \E b \in Blocks : Write(c, b)
    BY <2>2 DEF Write, init, mem, Unlinking, CanRun
  <2> QED BY <2>1, <2>2
<1>2. ClientType
  BY DEF IInv
<1>3. /\ pc'[c] \in Unlinking \cup {"idle"} /\ pc' \in [Clients -> Labels]
      /\ \A x \in Clients \ {c} : pc'[x] = pc[x]
      /\ lock # c
  BY <1>1, <1>2 DEF ClientType, Labels, Holding, Unlinking
<1>4. up = "up"
  BY <1>1, <1>2 DEF IInv, Started, Write, CanRun, UnlinkOld, Unlinking
<1>5. ClientType'
  <2>1. \A x \in Clients : /\ (lock' = x) <=> pc'[x] \in Holding
                           /\ pc'[x] \in Holding \cup {"lock"} => blk'[x] \in Blocks
                           /\ pc'[x] = "data" => val'[x] # NoData
    BY <1>1, <1>2, <1>3 DEF ClientType, Holding, Unlinking
  <2> QED BY <1>1, <1>2, <1>3, <2>1 DEF ClientType, Labels
<1>6. ReadsTheBlock'
  BY <1>1 DEF IInv, ReadsTheBlock
<1>7. Holder'
  BY <1>1, <1>3 DEF IInv, Holder, Entry, Unlinking
<1>8. /\ Info("new")' = Info("new") /\ Data("new")' = Data("new")
      /\ Pair("new") \subseteq dir => Pair("new") \subseteq dir'
  <2>1. CASE UNCHANGED <<dir, file>>
    BY <2>1 DEF Info, Data
  <2>2. CASE \E w \in {"info", "data"} : Unlink({<<w, "old">>})
    <3> PICK w \in {"info", "data"} : Unlink({<<w, "old">>})
      BY <2>2
    <3>1. {<<w, "old">>} \subseteq Files /\ DirType
      BY DEF IInv, DiskType, Files, Age
    <3>2. \A f \in Files : /\ f \in dir' <=> f \in dir /\ f \notin {<<w, "old">>}
                           /\ file'[f] = IF f \in {<<w, "old">>} THEN <<>> ELSE file[f]
      BY <3>1, UnlinkEffect
    <3>3. /\ <<"info", "new">> \in Files /\ <<"info", "new">> \notin {<<w, "old">>}
          /\ <<"data", "new">> \in Files /\ <<"data", "new">> \notin {<<w, "old">>}
      BY FilesAre
    <3> HIDE DEF Files
    <3> QED BY <3>2, <3>3 DEF Info, Data, Pair
  <2> QED BY <2>1, <2>2 DEF UnlinkOld, Write
<1>9. NewFiles' /\ NewData'
  <2>1. lock \in Clients => pc'[lock] = pc[lock] /\ Entry(lock)'.new = Entry(lock).new
    BY <1>1, <1>3 DEF Entry
  <2> QED BY <1>1, <1>8, <2>1, NewSideKept
<1>10. ble' \in [Blocks -> [known : BOOLEAN, old : Nat, new : Nat]]
  BY <1>1 DEF IInv, MemType
<1> QED BY <1>1, <1>4, <1>5, <1>6, <1>7, <1>9, <1>10, ListsKept DEF LinkInv

(***************************************************************************)
(* The old data.                                                           *)
(***************************************************************************)

\* One entry of the old list is replaced.
LEMMA ReplaceOld ==
    ASSUME old \in Seq(OldEntry), NEW i \in DOMAIN old, NEW r \in OldEntry,
           old' = [old EXCEPT ![i] = r]
    PROVE  /\ old' \in Seq(OldEntry) /\ Len(old') = Len(old) /\ DOMAIN old' = DOMAIN old
           /\ old'[i] = r /\ \A j \in DOMAIN old \ {i} : old'[j] = old[j]
OBVIOUS

\* Counting the old blocks in memory makes sense.
LEMMA InMemoryFinite ==
    ASSUME old \in Seq(OldEntry)
    PROVE  IsFiniteSet(InMemory)
<1>1. Len(old) \in Nat /\ DOMAIN old = 1..Len(old)
  OBVIOUS
<1>2. IsFiniteSet(1..Len(old))
  BY <1>1, FS_Interval
<1>3. InMemory \subseteq 1..Len(old)
  BY <1>1 DEF InMemory
<1> QED BY <1>2, <1>3, FS_Subset

\* Where the old files belong together, an entry of the old list names the block
\* that the data file has at its place.
LEMMA OldFileHas ==
    ASSUME IInv, up = "up", ~shaky, NEW i \in DOMAIN old
    PROVE  i \in DOMAIN oldFile /\ oldFile[i].block = old[i].block
<1>1. /\ old \in Seq(OldEntry) /\ oldInfo \in Seq(InfoEntry)
      /\ Len(old) <= Len(WholeEntries) /\ old[i].block = WholeEntries[i].block
      /\ Agree(oldInfo, oldFile)
  BY DEF IInv, MemType, InitType, OldData, Opened
<1>2. /\ WholeEntries \in Seq(InfoEntry) /\ Len(WholeEntries) <= Len(oldInfo)
      /\ \A k \in DOMAIN WholeEntries : WholeEntries[k] = oldInfo[k]
  BY <1>1, WholeEntriesArePrefix
<1>3. i \in 1..Len(old) /\ Len(old) \in Nat /\ Len(WholeEntries) \in Nat /\ Len(oldInfo) \in Nat
  BY <1>1, <1>2
<1>4. i \in 1..Len(WholeEntries) /\ i \in 1..Len(oldInfo)
  BY <1>1, <1>2, <1>3
<1>5. i \in DOMAIN WholeEntries /\ i \in DOMAIN oldInfo
  BY <1>1, <1>2, <1>4
<1> QED BY <1>1, <1>2, <1>5 DEF Agree

\* One round of the loop that reads ahead.
LEMMA ReadAheadKeeps ==
    ASSUME IInv, NEW c \in Clients, ReadAhead(c)
    PROVE  MemInv' /\ LinkInv'
<1> DEFINE n == next_read_index
<1> USE DEF ReadAhead
<1>1. /\ UNCHANGED <<new, up, pop, ble, oldInfo, oldFile, hasNew, lock, blk, val, dir, file>>
      /\ pc[c] = "ahead"
      /\ pc' = pc \/ pc' = [pc EXCEPT ![c] = "copy"]
  BY DEF init, CanRun, cl, Goto
<1>2. pc[c] \in Holding /\ pc[c] \notin {"block", "count"} /\ ClientType
  BY <1>1 DEF IInv, Holding
<1>3. /\ lock = c /\ up = "up" /\ pop # "running" /\ lock # "populate" /\ ~Storing
      /\ \A x \in Clients \ {c} : pc[x] \notin Holding
      /\ blk[c] \in Blocks
  BY <1>2, HolderIsAlone
<1>4. /\ \A x \in Clients \ {c} : pc'[x] = pc[x]
      /\ pc'[c] \in {"ahead", "copy"} /\ pc' \in [Clients -> Labels]
  BY <1>1, <1>2 DEF ClientType, Labels, Holding
<1>5. ClientType'
  <2>1. \A x \in Clients : /\ (lock' = x) <=> pc'[x] \in Holding
                           /\ pc'[x] \in Holding \cup {"lock"} => blk'[x] \in Blocks
                           /\ pc'[x] = "data" => val'[x] # NoData
    BY <1>1, <1>2, <1>3, <1>4 DEF ClientType, Holding
  <2> QED BY <1>1, <1>2, <1>4, <2>1 DEF ClientType, Labels
<1>6. /\ old \in Seq(OldEntry) /\ n \in 1..Len(old) + 1 /\ num_blocks_cached \in 0..MAX_BLOCKS_CACHED
      /\ pos \in Nat \ {0} /\ Len(old) \in Nat /\ MAX_BLOCKS_CACHED \in Nat
      /\ DOMAIN old = 1..Len(old)
      /\ oldFile \in Seq(DataEntry) /\ oldInfo \in Seq(InfoEntry)
  <2>1. old \in Seq(OldEntry)
    BY DEF IInv, MemType
  <2> QED BY <2>1, CacheDevAssumption DEF IInv, MemType, InitType, CacheDevAssumption
<1>7. /\ Entry(c).old # 0 /\ Entry(c).old \in DOMAIN old
      /\ \/ old[Entry(c).old].accesses # 0
         \/ old[Entry(c).old].data = NoData /\ Entry(c).old < n
  BY <1>1, <1>3 DEF IInv, Holder, Lookup, Entry
<1>8. NewFiles'
  <2>1. ~Storing'
    BY <1>1, <1>3, <1>4 DEF Storing
  <2>2. ~Writing /\ ~Writing'
    BY <1>3, <2>1 DEF Storing, Writing
  <2>3. Info("new")' = Info("new") /\ Data("new")' = Data("new")
    BY <1>1 DEF Info, Data
  <2>4. ASSUME hasNew PROVE \A i \in DOMAIN new : ~Fresh(i)
    BY <1>3, <2>4 DEF IInv, NewFiles, Storing
  <2>5. \A i \in DOMAIN new : Fresh(i)' <=> Fresh(i)
    BY <1>1 DEF Fresh
  <2> QED BY <1>1, <2>2, <2>3, <2>4, <2>5 DEF IInv, NewFiles
<1>9. shaky => shaky'
  OBVIOUS
<1>10. NewData' /\ ReadsTheBlock'
  <2>1. Data("new")' = Data("new")
    BY <1>1 DEF Data
  <2> QED BY <1>1, <1>9, <2>1 DEF IInv, NewData, ReadsTheBlock
<1>11. InitType'
  <2>1. hasNew' \in BOOLEAN
    BY <1>1 DEF IInv, InitType
  <2> QED BY <1>1, <2>1 DEF IInv, InitType
<1>12. Started'
  BY <1>1, <1>3 DEF IInv, Started
<1>13. CASE UNCHANGED <<shaky, old, pos, next_read_index, num_blocks_cached>>
  <2>1. MemType' /\ Lookup'
    <3>1. MemType'
      BY <1>1, <1>13 DEF IInv, MemType
    <3>2. Lookup'
      BY <1>1, <1>13 DEF IInv, Lookup
    <3> QED BY <3>1, <3>2
  <2>2. Counted'
    BY <1>13 DEF IInv, Counted, InMemory
  <2>3. Entry(c)' = Entry(c) /\ \A x \in Clients \ {c} : pc'[x] \notin Holding
    BY <1>1, <1>3, <1>4 DEF Entry
  <2>4. Holder'
    BY <1>4, <1>7, <1>13, <2>3 DEF Holder, Holding
  <2>5. OldData'
    BY <1>1, <1>13 DEF IInv, OldData, Agree, WholeEntries
  <2> QED BY <1>5, <1>8, <1>10, <1>11, <1>12, <2>1, <2>2, <2>4, <2>5 DEF MemInv, LinkInv
<1>14. CASE num_blocks_cached < MAX_BLOCKS_CACHED /\ n <= Len(old)
  <2>0. n \in DOMAIN old /\ next_read_index' = n + 1 /\ old[n] \in OldEntry /\ n \in Nat \ {0}
        /\ old[n].data = NoData
    BY <1>6, <1>14 DEF IInv, Counted
  <2>1. \E r \in OldEntry :
          /\ old' = [old EXCEPT ![n] = r] /\ r.block = old[n].block
          /\ \/ /\ pos \in DOMAIN oldFile /\ r.data = oldFile[pos] /\ r.data \in DataEntry
                /\ r.accesses = old[n].accesses
                /\ pos' = pos + 1 /\ num_blocks_cached' = num_blocks_cached + 1
             \/ /\ r.data = NoData /\ r.accesses = 0 /\ pos' = n
                /\ num_blocks_cached' = num_blocks_cached
                /\ shaky \/ pos \in DOMAIN oldFile => shaky'
    <3>1. CASE /\ pos <= Len(oldFile) /\ pos' = pos + 1
               /\ old' = [old EXCEPT ![n].data = oldFile[pos]]
               /\ num_blocks_cached' = num_blocks_cached + 1
      <4> DEFINE r == [old[n] EXCEPT !.data = oldFile[pos]]
      <4>1. old' = [old EXCEPT ![n] = r]
        BY <3>1
      <4>2. pos \in DOMAIN oldFile /\ oldFile[pos] \in DataEntry
        BY <1>6, <3>1
      <4>3. r \in OldEntry /\ r.block = old[n].block /\ r.data = oldFile[pos]
            /\ r.accesses = old[n].accesses
        BY <2>0, <4>2 DEF OldEntry
      <4> HIDE DEF r
      <4> QED BY <3>1, <4>1, <4>2, <4>3
    <3>2. CASE /\ old' = [old EXCEPT ![n].accesses = 0]
               /\ pos' = SeekAfterError /\ num_blocks_cached' = num_blocks_cached
               /\ shaky' = (shaky \/ pos <= Len(oldFile))
      <4> DEFINE r == [old[n] EXCEPT !.accesses = 0]
      <4>1. old' = [old EXCEPT ![n] = r]
        BY <3>2
      <4>2. r \in OldEntry /\ r.block = old[n].block /\ r.data = NoData /\ r.accesses = 0
        BY <2>0 DEF OldEntry
      <4>3. pos \in DOMAIN oldFile => pos <= Len(oldFile)
        BY <1>6
      <4> HIDE DEF r
      <4> QED BY <3>2, <4>1, <4>2, <4>3 DEF SeekAfterError
    <3> QED BY <1>14, <3>1, <3>2
  <2> PICK r \in OldEntry :
          /\ old' = [old EXCEPT ![n] = r] /\ r.block = old[n].block
          /\ \/ /\ pos \in DOMAIN oldFile /\ r.data = oldFile[pos] /\ r.data \in DataEntry
                /\ r.accesses = old[n].accesses
                /\ pos' = pos + 1 /\ num_blocks_cached' = num_blocks_cached + 1
             \/ /\ r.data = NoData /\ r.accesses = 0 /\ pos' = n
                /\ num_blocks_cached' = num_blocks_cached
                /\ shaky \/ pos \in DOMAIN oldFile => shaky'
    BY <2>1
  <2>2. /\ old' \in Seq(OldEntry) /\ Len(old') = Len(old) /\ DOMAIN old' = DOMAIN old
        /\ old'[n] = r /\ \A j \in DOMAIN old \ {n} : old'[j] = old[j]
    BY <1>6, <2>0, ReplaceOld
  <2> USE DEF ReadAhead
  <2> HIDE DEF n, ReadAhead
  <2>3. \A j \in DOMAIN old : old'[j].block = old[j].block
    BY <2>2
  <2>4. MemType'
    <3>1. next_read_index' \in 1..Len(old') + 1
      BY <1>6, <1>14, <2>0, <2>2
    <3>2. pos' \in Nat \ {0} /\ num_blocks_cached' \in 0..MAX_BLOCKS_CACHED
      BY <1>6, <1>14, <2>0
    <3> QED BY <1>1, <2>2, <3>1, <3>2 DEF IInv, MemType
  <2>5. Lookup'
    BY <1>1, <2>2, <2>3 DEF IInv, Lookup
  <2>6. Counted'
    <3>1. \A i \in DOMAIN old' : i >= next_read_index' => old'[i].data = NoData
      BY <1>6, <2>0, <2>2 DEF IInv, Counted, n
    <3>2. IsFiniteSet(InMemory) /\ num_blocks_cached = Cardinality(InMemory) /\ n \notin InMemory
      BY <1>6, <2>0, InMemoryFinite DEF IInv, Counted, InMemory
    <3>3. CASE r.data \in DataEntry /\ num_blocks_cached' = num_blocks_cached + 1
      <4>1. InMemory' = InMemory \cup {n}
        BY <2>0, <2>2, <3>3, NoDataApart DEF InMemory
      <4>2. Cardinality(InMemory') = Cardinality(InMemory) + 1
        BY <3>2, <4>1, FS_AddElement
      <4> QED BY <3>1, <3>2, <3>3, <4>2 DEF Counted
    <3>4. CASE r.data = NoData /\ num_blocks_cached' = num_blocks_cached
      <4>1. InMemory' = InMemory
        BY <2>0, <2>2, <3>4 DEF InMemory
      <4> QED BY <3>1, <3>2, <3>4, <4>1 DEF Counted
    <3> QED BY <3>3, <3>4
  <2>7. Holder'
    <3>1. Entry(c)' = Entry(c) /\ \A x \in Clients \ {c} : pc'[x] \notin Holding
      BY <1>1, <1>3, <1>4 DEF Entry
    <3>2. \/ old'[Entry(c).old].accesses # 0
          \/ old'[Entry(c).old].data = NoData /\ Entry(c).old < next_read_index'
      <4> DEFINE i == Entry(c).old
      <4>1. i \in DOMAIN old /\ i \in Nat /\ (i # n => old'[i] = old[i])
        BY <1>6, <1>7, <2>2
      <4>2. i = n => old[n].accesses # 0
        BY <1>6, <1>7, <2>0
      <4> QED BY <1>6, <1>7, <2>0, <2>2, <4>1, <4>2
    <3> QED BY <1>4, <1>7, <3>1, <3>2 DEF Holder, Holding
  <2>8. OldData'
    <3> SUFFICES ASSUME ~shaky' PROVE OldData'
      BY DEF OldData
    <3>1. ~shaky
      BY <1>9
    <3>2. pos = n /\ WholeEntries' = WholeEntries
      BY <1>1, <3>1 DEF IInv, OldData, WholeEntries, n
    <3>3. n \in DOMAIN oldFile /\ oldFile[n].block = old[n].block
      BY <1>3, <2>0, <3>1, OldFileHas
    <3>4. r.data = oldFile[n] /\ pos' = n + 1
      BY <3>2, <3>3
    <3>5. r.data.block = r.block
      BY <3>3, <3>4
    <3>6. \A j \in DOMAIN old' : /\ old'[j].block = WholeEntries[j].block
                                 /\ old'[j].data # NoData => old'[j].data.block = old'[j].block
      BY <2>2, <2>3, <3>1, <3>5 DEF IInv, OldData
    <3> QED BY <1>1, <2>0, <2>2, <3>1, <3>2, <3>4, <3>6 DEF IInv, OldData, Agree
  <2> QED BY <1>5, <1>8, <1>10, <1>11, <1>12, <2>4, <2>5, <2>6, <2>7, <2>8 DEF MemInv, LinkInv
<1> QED BY <1>13, <1>14

\* Entries of the old list are equal if their fields are.
LEMMA SameEntry ==
    ASSUME NEW e \in OldEntry, NEW f \in OldEntry,
           f.block = e.block, f.data = e.data, f.accesses = e.accesses
    PROVE  e = f
BY DEF OldEntry

\* An old entry from which its block was taken once more.
LEMMA UsedOnce ==
    ASSUME NEW e \in OldEntry, e.accesses # 0, NEW b, b = (e.accesses = 1)
    PROVE  [e EXCEPT !.accesses = @ - 1, !.data = IF b THEN NoData ELSE @]
             = [block |-> e.block, data |-> IF b THEN NoData ELSE e.data,
                accesses |-> e.accesses - 1]
<1> DEFINE x == IF b THEN NoData ELSE e.data
           f == [e EXCEPT !.accesses = e.accesses - 1, !.data = x]
           g == [block |-> e.block, data |-> x, accesses |-> e.accesses - 1]
<1>1. [e EXCEPT !.accesses = @ - 1, !.data = IF b THEN NoData ELSE @] = f
  BY DEF OldEntry
<1>2. x \in DataEntry \cup {NoData} /\ e.accesses - 1 \in Nat /\ e.block \in Blocks
  BY DEF OldEntry
<1> HIDE DEF x
<1>3. f \in OldEntry /\ g \in OldEntry
  BY <1>2 DEF OldEntry
<1>4. f.block = g.block /\ f.data = g.data /\ f.accesses = g.accesses
  BY DEF OldEntry
<1> HIDE DEF f, g
<1>5. f = g
  BY <1>3, <1>4, SameEntry
<1> QED BY <1>1, <1>5 DEF f, g, x

\* A block is taken from the old list, the last time with its entry.
LEMMA GetCopyKeeps ==
    ASSUME IInv, NEW c \in Clients, GetCopy(c)
    PROVE  MemInv' /\ LinkInv'
<1> DEFINE i == Entry(c).old
           last == old[i].accesses = 1
<1>1. /\ UNCHANGED <<new, pos, next_read_index, up, pop, shaky, oldInfo, oldFile, hasNew,
                     dir, file>>
      /\ pc[c] = "copy"
  BY DEF GetCopy, disk, init, CanRun
<1>2. pc[c] \in Holding /\ pc[c] \notin {"block", "count"} /\ ClientType
  BY <1>1 DEF IInv, Holding
<1>3. /\ lock = c /\ up = "up" /\ pop # "running" /\ lock # "populate" /\ ~Storing
      /\ \A x \in Clients \ {c} : pc[x] \notin Holding
      /\ blk[c] \in Blocks
  BY <1>2, HolderIsAlone
<1>4. /\ old \in Seq(OldEntry) /\ i # 0 /\ i \in DOMAIN old /\ old[i] \in OldEntry
      /\ old[i].block = blk[c] /\ ble \in [Blocks -> [known : BOOLEAN, old : Nat, new : Nat]]
      /\ old[i].data # NoData => old[i].accesses # 0
  <2>1. /\ old \in Seq(OldEntry) /\ ble \in [Blocks -> [known : BOOLEAN, old : Nat, new : Nat]]
    BY DEF IInv, MemType
  <2>2. i # 0 /\ (old[i].data # NoData => old[i].accesses # 0)
    BY <1>1 DEF IInv, Holder
  <2>3. i \in DOMAIN old /\ old[i].block = blk[c]
    BY <1>3, <2>2 DEF IInv, Lookup, Entry
  <2> QED BY <2>1, <2>2, <2>3
<1>5. CASE old[i].data = NoData
  <2>1. UNCHANGED <<old, ble, num_blocks_cached>> /\ FromBacking(c)
    BY <1>5 DEF GetCopy
  <2>2. Content(blk[c]) \in DataEntry /\ Content(blk[c]).block = blk[c]
    BY <1>3, ContentIsData DEF IInv
  <2>3. \/ Out(c)
        \/ Goto(c, "data") /\ \E e \in DataEntry : e.block = blk[c] /\ val' = [val EXCEPT ![c] = e]
    BY <2>1, <2>2 DEF FromBacking
  <2>4. pc[c] \in Holding \ {"block", "count"}
    BY <1>2
  <2> QED BY <1>1, <1>4, <2>1, <2>3, <2>4, HolderSteps
<1>6. CASE old[i].data # NoData
  <2>1. /\ val' = [val EXCEPT ![c] = old[i].data] /\ Goto(c, "data")
        /\ old' = [old EXCEPT ![i].accesses = @ - 1, ![i].data = IF last THEN NoData ELSE @]
        /\ ble' = IF last THEN [ble EXCEPT ![blk[c]].old = 0] ELSE ble
        /\ num_blocks_cached' = IF last THEN num_blocks_cached - 1 ELSE num_blocks_cached
    BY <1>6 DEF GetCopy
  <2>2. old[i].data \in DataEntry /\ old[i].accesses \in Nat \ {0}
    BY <1>4, <1>6 DEF OldEntry
  <2> DEFINE d == IF last THEN NoData ELSE old[i].data
             r == [block |-> old[i].block, data |-> d, accesses |-> old[i].accesses - 1]
  <2>3. old' = [old EXCEPT ![i] = r]
    <3>2. [old[i] EXCEPT !.accesses = @ - 1, !.data = IF last THEN NoData ELSE @] = r
      BY <1>4, <2>2, UsedOnce
    <3>3. old' = [old EXCEPT ![i] = [old[i] EXCEPT !.accesses = @ - 1,
                                                   !.data = IF last THEN NoData ELSE @]]
      BY <1>4, <2>1
    <3> QED BY <3>2, <3>3
  <2>4. /\ r \in OldEntry /\ r.block = blk[c]
        /\ r.data = IF last THEN NoData ELSE old[i].data
    <3>1. d \in DataEntry \cup {NoData}
      BY <2>2
    <3>2. old[i].block \in Blocks /\ old[i].accesses - 1 \in Nat
      BY <1>4, <2>2 DEF OldEntry
    <3> HIDE DEF d
    <3>3. r \in OldEntry /\ r.block = blk[c] /\ r.data = d
      BY <1>4, <3>1, <3>2 DEF OldEntry
    <3> QED BY <3>3 DEF d
  <2> HIDE DEF r
  <2>5. /\ old' \in Seq(OldEntry) /\ Len(old') = Len(old) /\ DOMAIN old' = DOMAIN old
        /\ old'[i] = r /\ \A j \in DOMAIN old \ {i} : old'[j] = old[j]
    BY <1>4, <2>3, <2>4, ReplaceOld
  <2>6. \A j \in DOMAIN old : old'[j].block = old[j].block
    BY <1>4, <2>4, <2>5
  <2>7. /\ lock' = c /\ pc'[c] = "data" /\ blk' = blk /\ val'[c] = old[i].data
        /\ \A x \in Clients \ {c} : pc'[x] = pc[x] /\ val'[x] = val[x]
        /\ pc' \in [Clients -> Labels] /\ val' \in [Clients -> DataEntry \cup {NoData}]
    BY <1>2, <1>3, <2>1, <2>2 DEF Goto, ClientType, Labels, Holding
  <2>8. /\ ble' \in [Blocks -> [known : BOOLEAN, old : Nat, new : Nat]]
        /\ \A b \in Blocks : /\ ble'[b].new = ble[b].new
                             /\ ble'[b].old = ble[b].old \/ ble'[b].old = 0
    <3>1. CASE last
      <4> DEFINE e == [ble[blk[c]] EXCEPT !.old = 0]
      <4>1. ble' = [ble EXCEPT ![blk[c]] = e]
        BY <2>1, <3>1
      <4>2. e \in [known : BOOLEAN, old : Nat, new : Nat] /\ e.new = ble[blk[c]].new /\ e.old = 0
        BY <1>3, <1>4
      <4> HIDE DEF e
      <4> QED BY <1>3, <1>4, <4>1, <4>2
    <3>2. CASE ~last
      BY <1>4, <2>1, <3>2
    <3> QED BY <3>1, <3>2
  <2>9. IsFiniteSet(InMemory) /\ num_blocks_cached = Cardinality(InMemory) /\ i \in InMemory
    BY <1>4, <1>6, InMemoryFinite DEF IInv, Counted, InMemory
  <2>10. Counted' /\ num_blocks_cached' \in 0..MAX_BLOCKS_CACHED
    <3>1. \A j \in DOMAIN old' : j >= next_read_index' => old'[j].data = NoData
      BY <1>1, <1>4, <1>6, <2>5 DEF IInv, Counted
    <3>2. num_blocks_cached \in 0..MAX_BLOCKS_CACHED /\ MAX_BLOCKS_CACHED \in Nat
      BY CacheDevAssumption DEF IInv, MemType, CacheDevAssumption
    <3>3. CASE last
      <4>1. InMemory' = InMemory \ {i}
        BY <1>4, <2>4, <2>5, <3>3 DEF InMemory
      <4>2. Cardinality(InMemory') = Cardinality(InMemory) - 1 /\ Cardinality(InMemory') \in Nat
        BY <2>9, <4>1, FS_RemoveElement, FS_CardinalityType, FS_Subset
      <4> QED BY <2>1, <2>9, <3>1, <3>2, <3>3, <4>2 DEF Counted
    <3>4. CASE ~last
      <4>1. InMemory' = InMemory
        BY <1>4, <1>6, <2>4, <2>5, <3>4 DEF InMemory
      <4> QED BY <2>1, <2>9, <3>1, <3>2, <3>4, <4>1 DEF Counted
    <3> QED BY <3>3, <3>4
  <2>11. MemType'
    BY <1>1, <2>5, <2>8, <2>10 DEF IInv, MemType
  <2>12. ClientType'
    <3>1. \A x \in Clients : /\ (lock' = x) <=> pc'[x] \in Holding
                             /\ pc'[x] \in Holding \cup {"lock"} => blk'[x] \in Blocks
                             /\ pc'[x] = "data" => val'[x] # NoData
      BY <1>2, <1>3, <1>6, <2>7 DEF ClientType, Holding
    <3> QED BY <1>2, <1>3, <2>7, <3>1 DEF ClientType, Labels
  <2>13. Started'
    BY <1>1, <1>3, <2>7 DEF IInv, Started
  <2>14. Lookup'
    <3>1. \A b \in Blocks :
             ble'[b].old # 0 => ble'[b].old \in DOMAIN old' /\ old'[ble'[b].old].block = b
      BY <2>5, <2>6, <2>8 DEF IInv, Lookup
    <3>2. new \in Seq(InfoEntry)
      BY DEF IInv, MemType
    <3>3. \A j \in DOMAIN new : new[j] \in InfoEntry
      BY <3>2
    <3>4. \A j \in DOMAIN new : new[j].block \in Blocks
      BY <3>3 DEF InfoEntry
    <3> QED BY <1>1, <2>8, <3>1, <3>4 DEF IInv, Lookup
  <2>15. Holder'
    BY <1>3, <2>7 DEF Holder, Holding
  <2>16. ReadsTheBlock'
    <3> SUFFICES ASSUME ~shaky' PROVE ReadsTheBlock'
      BY DEF ReadsTheBlock
    <3>1. old[i].data.block = blk[c]
      BY <1>1, <1>4, <1>6 DEF IInv, OldData
    <3> QED BY <1>1, <2>7, <3>1 DEF IInv, ReadsTheBlock
  <2>17. OldData'
    <3> SUFFICES ASSUME ~shaky' PROVE OldData'
      BY DEF OldData
    <3>1. \A j \in DOMAIN old' : /\ old'[j].block = WholeEntries[j].block
                                 /\ old'[j].data # NoData => old'[j].data.block = old'[j].block
      BY <1>1, <1>4, <2>4, <2>5, <2>6 DEF IInv, OldData
    <3>2. WholeEntries' = WholeEntries
      BY <1>1 DEF WholeEntries
    <3> QED BY <1>1, <2>5, <3>1, <3>2 DEF IInv, OldData, Agree
  <2>18. NewFiles' /\ NewData'
    <3>1. ~Storing'
      BY <2>7 DEF Storing
    <3> QED BY <1>1, <1>3, <3>1, NewFilesKept
  <2>19. InitType'
    <3>1. hasNew' \in BOOLEAN
      BY <1>1 DEF IInv, InitType
    <3> QED BY <1>1, <3>1 DEF IInv, InitType
  <2> QED BY <2>10, <2>11, <2>12, <2>13, <2>14, <2>15, <2>16, <2>17, <2>18, <2>19
          DEF MemInv, LinkInv
<1> QED BY <1>5, <1>6

(***************************************************************************)
(* The new files.                                                          *)
(***************************************************************************)

\* What is written to the new files while they are there.
LEMMA NewPairWritten ==
    ASSUME DiskInv, up = "up", UNCHANGED <<up, dir, shaky, backing, oldInfo>>,
           Pair("new") \subseteq dir,
           DOMAIN file' = Files, \A f \in Files \ Pair("new") : file'[f] = file[f],
           Info("new")' \in Seq(InfoEntry), Data("new")' \in Seq(DataEntry),
           Once(Info("new")'), ~shaky => Agree(Info("new")', Data("new")'),
           file' = [f \in Files |-> file'[f]],
           \A x \in Clients : pc'[x] \in Unlinking => pc[x] \in Unlinking
    PROVE  DiskInv'
<1>1. /\ \A a \in Age, w \in {"info", "data"} : Has(w, a)' <=> Has(w, a)
      /\ \A a \in {"cur", "old"} : Info(a)' = Info(a) /\ Data(a)' = Data(a)
  <2>1. \A a \in {"cur", "old"}, w \in {"info", "data"} : <<w, a>> \in Files \ Pair("new")
    BY DEF Files, Age, Pair
  <2> QED BY <2>1 DEF Has, Info, Data
<1>2. DirType
  BY DEF DiskInv, DiskType
<1>3. \A a \in Age : Info(a)' \in Seq(InfoEntry) /\ Data(a)' \in Seq(DataEntry)
  BY <1>1, <1>2 DEF DirType, Age
<1>4. \A f \in Files : f \in Pair("new") \/ file'[f] = file[f]
  OBVIOUS
<1>5. DirType'
  <2>1. \A f \in Files : f \notin dir' => file'[f] = <<>>
    BY <1>2, <1>4 DEF DirType
  <2>2. \A f \in Files : file'[f] \in Seq(InfoEntry) \cup Seq(DataEntry)
    <3>1. \A f \in Files : \E w \in {"info", "data"}, a \in Age : f = <<w, a>>
      BY DEF Files
    <3> SUFFICES ASSUME NEW f \in Files
                 PROVE  file'[f] \in Seq(InfoEntry) \cup Seq(DataEntry)
      OBVIOUS
    <3> PICK w \in {"info", "data"}, a \in Age : f = <<w, a>>
      BY <3>1
    <3>2. file'[<<"info", a>>] \in Seq(InfoEntry) /\ file'[<<"data", a>>] \in Seq(DataEntry)
      BY <1>3 DEF Info, Data
    <3> QED BY <3>2
  <2>3. file' \in [Files -> Seq(InfoEntry) \cup Seq(DataEntry)]
    <3> HIDE DEF Files
    <3> QED BY <2>2
  <2> QED BY <1>2, <1>3, <2>1, <2>3 DEF DirType
<1>6. DiskType'
  BY <1>5 DEF DiskInv, DiskType
<1>7. UpPlace'
  BY <1>1, FilesAre DEF DiskInv, UpPlace
<1>8. BlocksOnce'
  BY <1>1 DEF DiskInv, BlocksOnce, FilesOnce, Once, Age
<1>9. PairsAgree'
  BY <1>1, FilesAre DEF DiskInv, PairsAgree, Agree
<1>10. Restarts'
  BY <1>1, FilesAre DEF DiskInv, Restarts, Unwritten
<1> QED BY <1>6, <1>7, <1>8, <1>9, <1>10 DEF DiskInv

\* The new files are given up.
LEMMA GiveUpKeepsDisk ==
    ASSUME DiskInv, up = "up", UNCHANGED <<up, shaky, backing, oldInfo>>, GiveUpNew,
           \A x \in Clients : pc'[x] \in Unlinking => pc[x] \in Unlinking
    PROVE  DiskInv' /\ hasNew' = FALSE
<1>1. PICK S \in SUBSET Pair("new") : Unlink(S)
  BY DEF GiveUpNew
<1>2. S \subseteq Files /\ DirType
  BY DEF Pair, Files, Age, DiskInv, DiskType
<1>3. \A f \in Files : f \in dir' <=> f \in dir /\ f \notin S
  BY <1>1, <1>2, UnlinkEffect
<1>4. UpPlace'
  BY <1>3, FilesAre DEF DiskInv, UpPlace, Has
<1>5. Once(oldInfo)'
  BY DEF DiskInv, BlocksOnce, Once
<1> QED BY <1>1, <1>4, <1>5, UnlinkNewKeeps DEF GiveUpNew

\* A step that only adds to the new list.
LEMMA OldSideKept ==
    ASSUME IInv, UNCHANGED <<up, pop, shaky, oldInfo, oldFile, old, pos, next_read_index,
                             num_blocks_cached>>,
           hasNew' \in BOOLEAN
    PROVE  OldData' /\ Counted' /\ InitType'
<1>1. OldData'
  BY DEF IInv, OldData, Agree, WholeEntries
<1>2. Counted'
  BY DEF IInv, Counted, InMemory
<1>3. InitType'
  BY DEF IInv, InitType
<1> QED BY <1>1, <1>2, <1>3

\* A block gets an entry in the new list.
LEMMA AddNew ==
    ASSUME IInv, NEW b \in Blocks, ble[b].new = 0,
           ble' = [ble EXCEPT ![b].new = Len(new) + 1],
           new' = Append(new, [block |-> b, accesses |-> 0]),
           UNCHANGED <<old, pos, next_read_index, num_blocks_cached>>
    PROVE  /\ MemType' /\ Lookup'
           /\ Len(new') = Len(new) + 1 /\ new'[Len(new) + 1] = [block |-> b, accesses |-> 0]
           /\ \A i \in DOMAIN new : new'[i] = new[i] /\ i \in DOMAIN new'
           /\ DOMAIN new' = DOMAIN new \cup {Len(new) + 1}
           /\ ble'[b].new = Len(new) + 1
<1> DEFINE n == Len(new) + 1
           e == [block |-> b, accesses |-> 0]
           r == [ble[b] EXCEPT !.new = n]
<1>1. new \in Seq(InfoEntry) /\ ble \in [Blocks -> [known : BOOLEAN, old : Nat, new : Nat]]
  BY DEF IInv, MemType
<1>2. e \in InfoEntry
  BY DEF InfoEntry
<1>3. n \in Nat \ {0} /\ r \in [known : BOOLEAN, old : Nat, new : Nat] /\ r.old = ble[b].old /\ r.new = n
  <2>1. n \in Nat \ {0} /\ ble[b] \in [known : BOOLEAN, old : Nat, new : Nat]
    BY <1>1
  <2> HIDE DEF n
  <2> QED BY <2>1
<1>4. ble' = [ble EXCEPT ![b] = r] /\ new' = Append(new, e)
  OBVIOUS
<1> HIDE DEF r, e
<1>5. /\ new' \in Seq(InfoEntry) /\ Len(new') = n /\ new'[n] = e
      /\ DOMAIN new' = DOMAIN new \cup {n}
      /\ \A i \in DOMAIN new : new'[i] = new[i] /\ i # n
  BY <1>1, <1>2, <1>4
<1>6. /\ ble' \in [Blocks -> [known : BOOLEAN, old : Nat, new : Nat]]
      /\ ble'[b] = r /\ \A x \in Blocks \ {b} : ble'[x] = ble[x]
  BY <1>1, <1>3, <1>4
<1>7. MemType'
  BY <1>5, <1>6 DEF IInv, MemType
<1>8. \A x \in Blocks : ble'[x].old = ble[x].old
  BY <1>3, <1>6
<1>9. e.block = b
  BY DEF e
<1>10. \A i \in DOMAIN new : new[i].block \in Blocks /\ new[i].block # b
  <2>1. \A i \in DOMAIN new : new[i] \in InfoEntry /\ i # 0
    BY <1>1
  <2>2. \A i \in DOMAIN new : new[i].block \in Blocks
    BY <2>1 DEF InfoEntry
  <2> QED BY <2>1, <2>2 DEF IInv, Lookup
<1>11. Lookup'
  <2> HIDE DEF n
  <2>1. \A x \in Blocks : ble'[x].new # 0 => ble'[x].new \in DOMAIN new' /\ new'[ble'[x].new].block = x
    BY <1>3, <1>5, <1>6, <1>9 DEF IInv, Lookup
  <2>2. \A i \in DOMAIN new' : ble'[new'[i].block].new = i
    BY <1>3, <1>5, <1>6, <1>9, <1>10 DEF IInv, Lookup
  <2> QED BY <1>8, <2>1, <2>2 DEF IInv, Lookup
<1> QED BY <1>3, <1>5, <1>6, <1>7, <1>11 DEF e

\* A new block goes to the new data file, or both new files are given up.
LEMMA StoreDataKeeps ==
    ASSUME IInv, NEW c \in Clients, StoreData(c)
    PROVE  IInv'
<1> DEFINE b == blk[c]
           n == Len(new) + 1
<1>1. /\ UNCHANGED <<backing, shaky, up, pop, oldInfo, oldFile, old, pos, next_read_index,
                     num_blocks_cached, lock, blk, val>>
      /\ pc[c] = "data" /\ Goto(c, "block")
  BY DEF StoreData, init, CanRun, Goto
<1>2. pc[c] \in Holding /\ pc[c] \notin {"block", "count"} /\ "block" \in Holding /\ ClientType
  BY <1>1 DEF IInv, Holding
<1>3. /\ lock = c /\ up = "up" /\ pop # "running" /\ lock # "populate" /\ ~Storing
      /\ \A x \in Clients \ {c} : pc[x] \notin Holding
      /\ b \in Blocks
  BY <1>2, HolderIsAlone
<1>4. /\ ClientType' /\ lock' = c /\ pc'[c] = "block" /\ blk' = blk
      /\ \A x \in Clients \ {c} : pc'[x] = pc[x] /\ pc'[x] \notin Holding
  BY <1>1, <1>2, GotoKeeps
<1>5. DiskInv /\ Once(oldInfo)' /\ shaky' \in BOOLEAN /\ (shaky => shaky')
  BY <1>1 DEF IInv, DiskInv, DiskType, BlocksOnce, Once
<1>6. \A x \in Clients : pc'[x] \in Unlinking => pc[x] \in Unlinking
  BY <1>4 DEF Unlinking
<1>7. val[c] \in DataEntry /\ (~shaky => val[c].block = b)
  BY <1>1 DEF IInv, ClientType, ReadsTheBlock
<1>8. ReadsTheBlock' /\ Started'
  BY <1>1, <1>3, <1>4 DEF IInv, ReadsTheBlock, Started
<1>9. ~Writing /\ (hasNew => \A i \in DOMAIN new : ~Fresh(i))
  BY <1>3 DEF IInv, NewFiles, Storing, Writing
<1>10. new \in Seq(InfoEntry) /\ n \in Nat \ {0} /\ Len(new) \in Nat /\ DOMAIN new = 1..Len(new)
  <2>1. new \in Seq(InfoEntry)
    BY DEF IInv, MemType
  <2> QED BY <2>1
<1>11. hasNew' \in BOOLEAN
  BY DEF IInv, InitType, StoreData, GiveUpNew
<1>12. OldData' /\ Counted' /\ InitType'
  BY <1>1, <1>11, OldSideKept
<1>13. Entry(c)' = ble'[b]
  BY <1>4 DEF Entry
<1>14. CASE Entry(c).new # 0
  <2>1. UNCHANGED <<dir, file, hasNew, ble, new>>
    BY <1>14 DEF StoreData
  <2>2. UpPlace'
    BY <1>1, <1>3, <1>5, <2>1 DEF DiskInv, UpPlace, Has
  <2>3. DiskInv'
    BY <1>1, <1>5, <1>6, <2>1, <2>2, DiskKept
  <2>4. MemType' /\ Lookup'
    <3>1. MemType'
      BY <1>1, <2>1 DEF IInv, MemType
    <3>2. Lookup'
      BY <1>1, <2>1 DEF IInv, Lookup
    <3> QED BY <3>1, <3>2
  <2>5. Holder'
    BY <1>4, <1>13, <1>14, <2>1 DEF Holder, Holding, Entry
  <2>6. Info("new")' = Info("new") /\ Data("new")' = Data("new")
    BY <2>1 DEF Info, Data
  <2>7. NewData'
    BY <1>1, <2>1, <2>6 DEF IInv, NewData
  <2>8. NewFiles'
    <3> SUFFICES ASSUME hasNew' PROVE NewFiles'
      BY DEF NewFiles
    <3>1. Entry(c).new \in DOMAIN new /\ Entry(c)' = Entry(c)
      BY <1>3, <1>13, <1>14, <2>1 DEF IInv, Lookup, Entry
    <3>2. \A i \in DOMAIN new : ~Fresh(i)'
      BY <1>9, <2>1 DEF Fresh
    <3>3. ~Writing'
      BY <1>4, <2>1, <3>1, <3>2 DEF Writing
    <3> QED BY <1>1, <1>9, <2>1, <2>6, <3>2, <3>3 DEF IInv, NewFiles
  <2> QED BY <1>4, <1>8, <1>12, <2>3, <2>4, <2>5, <2>7, <2>8 DEF IInv, DiskInv
<1>15. CASE Entry(c).new = 0
  <2>1. /\ ble' = [ble EXCEPT ![b].new = n]
        /\ new' = Append(new, [block |-> b, accesses |-> 0])
        /\ \/ /\ hasNew /\ UNCHANGED <<dir, hasNew>>
              /\ file' = [file EXCEPT ![<<"data", "new">>] = Append(@, val[c])]
           \/ hasNew /\ GiveUpNew
           \/ ~hasNew /\ UNCHANGED <<dir, file, hasNew>>
    BY <1>15 DEF StoreData
  <2>2. /\ MemType' /\ Lookup'
        /\ Len(new') = n /\ new'[n] = [block |-> b, accesses |-> 0]
        /\ \A i \in DOMAIN new : new'[i] = new[i] /\ i \in DOMAIN new'
        /\ DOMAIN new' = DOMAIN new \cup {n} /\ ble'[b].new = n
    BY <1>1, <1>3, <1>15, <2>1, AddNew DEF Entry
  <2>3. Holder'
    BY <1>4, <1>10, <1>13, <2>2 DEF Holder, Holding, Entry
  <2>4. CASE hasNew /\ UNCHANGED <<dir, hasNew>>
             /\ file' = [file EXCEPT ![<<"data", "new">>] = Append(@, val[c])]
    <3>1. /\ file \in [Files -> Seq(InfoEntry) \cup Seq(DataEntry)]
          /\ Data("new") \in Seq(DataEntry) /\ Info("new") \in Seq(InfoEntry)
          /\ Pair("new") \subseteq dir
      BY <2>4, FilesAre DEF IInv, DiskType, DirType, NewFiles
    <3>2. /\ Data("new")' = Append(Data("new"), val[c]) /\ Info("new")' = Info("new")
          /\ DOMAIN file' = Files /\ \A f \in Files \ Pair("new") : file'[f] = file[f]
      BY <2>4, <3>1, FilesAre DEF Data, Info, Pair
    <3>3. file' = [f \in Files |-> file'[f]]
      BY <2>4, <3>1
    <3>4. Len(Data("new")) = Len(new) /\ Len(Info("new")) = Len(new)
      BY <1>9, <2>4 DEF IInv, NewFiles
    <3>5. /\ Data("new")' \in Seq(DataEntry) /\ Len(Data("new")') = n
          /\ Data("new")'[n] = val[c]
          /\ \A i \in DOMAIN Data("new") : i \in DOMAIN Data("new")' /\ Data("new")'[i] = Data("new")[i]
      <4> DEFINE D == Data("new")
                 E == Data("new")'
      <4>1. D \in Seq(DataEntry) /\ E = Append(D, val[c]) /\ Len(D) = Len(new)
        BY <3>1, <3>2, <3>4
      <4> HIDE DEF D, E
      <4>2. E \in Seq(DataEntry) /\ Len(E) = n /\ E[n] = val[c]
            /\ \A i \in DOMAIN D : i \in DOMAIN E /\ E[i] = D[i]
        BY <1>7, <1>10, <4>1
      <4> QED BY <4>2 DEF D, E
    <3>6. ~shaky => Agree(Info("new"), Data("new"))
      BY <3>1 DEF IInv, PairsAgree, Has, Pair
    <3>7. ~shaky => Agree(Info("new")', Data("new")')
      BY <3>2, <3>5, <3>6 DEF Agree
    <3>8. Once(Info("new")')
      BY <1>5, <3>2, FilesAre DEF DiskInv, BlocksOnce, FilesOnce
    <3>9. DiskInv'
      BY <1>1, <1>3, <1>5, <1>6, <2>4, <3>1, <3>2, <3>3, <3>5, <3>7, <3>8, NewPairWritten
    <3>10. NewData'
      <4> SUFFICES ASSUME ~shaky', NEW i \in DOMAIN new' PROVE Data("new")'[i].block = new'[i].block
        BY DEF NewData
      <4>1. CASE i = n
        BY <1>1, <1>7, <2>2, <3>5, <4>1
      <4>2. CASE i \in DOMAIN new
        <5>1. Data("new")[i].block = new[i].block
          BY <1>1, <2>4, <4>2 DEF IInv, NewData
        <5>2. i \in DOMAIN Data("new")
          BY <1>10, <3>1, <3>4, <4>2
        <5> QED BY <2>2, <3>5, <4>2, <5>1, <5>2
      <4> QED BY <2>2, <4>1, <4>2
    <3>11. NewFiles'
      <4>1. new'[n].accesses = 0 /\ \A i \in DOMAIN new : new'[i].accesses # 0
        BY <1>9, <2>2, <2>4 DEF Fresh
      <4>2. /\ lock' \in Clients /\ pc'[lock'] = "block" /\ Entry(lock)'.new = n
            /\ Writing'
        <5>1. lock' \in Clients /\ pc'[lock'] = "block" /\ Entry(lock)'.new = n
          BY <1>3, <1>4, <2>2 DEF Entry
        <5> QED BY <4>1, <5>1 DEF Writing, Fresh
      <4>3. \A i \in DOMAIN Info("new")' : Info("new")'[i].block = new'[i].block
        BY <1>10, <2>2, <2>4, <3>1, <3>2, <3>4 DEF IInv, NewFiles
      <4>4. Len(Info("new")') = Len(new') - 1
        BY <1>10, <2>2, <3>2, <3>4
      <4>5. \A i \in DOMAIN new' : new'[i].accesses = 0 => i = n
        BY <2>2, <4>1
      <4>7. up' = "up" /\ Pair("new") \subseteq dir' /\ Len(Data("new")') = Len(new')
        BY <1>1, <1>3, <2>2, <2>4, <3>1, <3>5
      <4> QED BY <2>2, <4>2, <4>3, <4>4, <4>5, <4>7 DEF NewFiles, Fresh
    <3> QED BY <1>4, <1>8, <1>12, <2>2, <2>3, <3>9, <3>10, <3>11 DEF IInv, DiskInv
  <2>5. CASE hasNew /\ GiveUpNew
    <3>1. DiskInv' /\ hasNew' = FALSE
      BY <1>1, <1>3, <1>5, <1>6, <2>5, GiveUpKeepsDisk
    <3>2. NewFiles' /\ NewData'
      BY <3>1 DEF NewFiles, NewData
    <3> QED BY <1>4, <1>8, <1>12, <2>2, <2>3, <3>1, <3>2 DEF IInv, DiskInv
  <2>6. CASE ~hasNew /\ UNCHANGED <<dir, file, hasNew>>
    <3>1. UpPlace'
      BY <1>1, <1>3, <1>5, <2>6 DEF DiskInv, UpPlace, Has
    <3>2. DiskInv'
      BY <1>1, <1>5, <1>6, <2>6, <3>1, DiskKept
    <3>3. NewFiles' /\ NewData'
      BY <2>6 DEF NewFiles, NewData
    <3> QED BY <1>4, <1>8, <1>12, <2>2, <2>3, <3>2, <3>3 DEF IInv, DiskInv
  <2> QED BY <2>1, <2>4, <2>5, <2>6
<1> QED
  <2>1. Entry(c).new = 0 \/ Entry(c).new # 0
    OBVIOUS
  <2> QED BY <1>14, <1>15, <2>1

\* The first half of its info entry is written.
LEMMA StoreBlockKeeps ==
    ASSUME IInv, NEW c \in Clients, StoreBlock(c)
    PROVE  IInv'
<1> DEFINE b == blk[c]
           i == Entry(c).new
<1>1. /\ UNCHANGED <<backing, shaky, up, pop, oldInfo, oldFile, old, pos, next_read_index,
                     num_blocks_cached, ble, new>>
      /\ pc[c] = "block"
  BY DEF StoreBlock, init, CanRun
<1>2. pc[c] \in Holding /\ "count" \in Holding /\ ClientType
  BY <1>1 DEF IInv, Holding
<1>3. /\ lock = c /\ up = "up" /\ pop # "running" /\ lock # "populate"
      /\ \A x \in Clients \ {c} : pc[x] \notin Holding
      /\ b \in Blocks
  BY <1>2, HolderIsAlone
<1>4. DiskInv /\ Once(oldInfo)' /\ shaky' \in BOOLEAN /\ (shaky => shaky')
  BY <1>1 DEF IInv, DiskInv, DiskType, BlocksOnce, Once
<1>5. hasNew' \in BOOLEAN
  BY DEF IInv, InitType, StoreBlock, GiveUpNew
<1>6. OldData' /\ Counted' /\ InitType'
  BY <1>1, <1>5, OldSideKept
<1>7. MemType' /\ Lookup'
  <2>1. MemType'
    BY <1>1 DEF IInv, MemType
  <2>2. Lookup'
    BY <1>1 DEF IInv, Lookup
  <2> QED BY <2>1, <2>2
<1>8. i \in DOMAIN new /\ new[i].block = b /\ i # 0
  BY <1>1, <1>3 DEF IInv, Holder, Lookup, Entry
<1>9. new \in Seq(InfoEntry) /\ Len(new) \in Nat /\ DOMAIN new = 1..Len(new)
  <2>1. new \in Seq(InfoEntry)
    BY DEF IInv, MemType
  <2> QED BY <2>1
<1>10. Writing <=> new[i].accesses = 0
  BY <1>1, <1>3 DEF Writing, Fresh
<1>11. CASE Goto(c, "count") /\ UNCHANGED <<dir, hasNew, val>>
  <2>1. /\ ClientType' /\ lock' = c /\ pc'[c] = "count" /\ blk' = blk
        /\ \A x \in Clients \ {c} : pc'[x] = pc[x] /\ pc'[x] \notin Holding
    BY <1>2, <1>11, GotoKeeps
  <2>2. \A x \in Clients : pc'[x] \in Unlinking => pc[x] \in Unlinking
    BY <2>1 DEF Unlinking
  <2>3. ReadsTheBlock' /\ Started'
    BY <1>1, <1>3, <1>11, <2>1 DEF IInv, ReadsTheBlock, Started
  <2>4. Entry(c)' = Entry(c)
    BY <1>1, <2>1 DEF Entry
  <2>5. Holder'
    BY <1>8, <2>1, <2>4 DEF Holder, Holding
  <2>6. ~Writing'
    BY <2>1 DEF Writing
  <2>7. CASE file' = file /\ ~(hasNew /\ new[i].accesses = 0)
    <3>1. UpPlace'
      BY <1>1, <1>3, <1>4, <1>11, <2>7 DEF DiskInv, UpPlace, Has
    <3>2. DiskInv'
      BY <1>1, <1>4, <1>11, <2>2, <2>7, <3>1, DiskKept
    <3>3. Info("new")' = Info("new") /\ Data("new")' = Data("new")
      BY <2>7 DEF Info, Data
    <3>4. NewData'
      BY <1>1, <1>11, <3>3 DEF IInv, NewData
    <3>5. NewFiles'
      <4> SUFFICES ASSUME hasNew' PROVE NewFiles'
        BY DEF NewFiles
      <4>1. hasNew /\ ~Writing
        BY <1>10, <1>11, <2>7
      <4>2. \A j \in DOMAIN new : ~Fresh(j)
        BY <1>3, <2>7, <4>1 DEF IInv, NewFiles, Fresh
      <4>3. \A j \in DOMAIN new : ~Fresh(j)'
        BY <1>1, <4>2 DEF Fresh
      <4> QED BY <1>1, <1>11, <2>6, <3>3, <4>1, <4>3 DEF IInv, NewFiles
    <3> QED BY <1>6, <1>7, <2>1, <2>3, <2>5, <3>2, <3>4, <3>5 DEF IInv, DiskInv
  <2>8. CASE /\ hasNew /\ new[i].accesses = 0
             /\ file' = [file EXCEPT ![<<"info", "new">>] = Append(@, [block |-> b, accesses |-> 0])]
    <3> DEFINE e == [block |-> b, accesses |-> 0]
               I == Info("new")
               J == Info("new")'
    <3> PICK n \in Nat : n = Len(new) /\ DOMAIN new = 1..n /\ n # 0
      BY <1>8, <1>9
    <3>1. /\ file \in [Files -> Seq(InfoEntry) \cup Seq(DataEntry)]
          /\ Data("new") \in Seq(DataEntry) /\ I \in Seq(InfoEntry)
          /\ Pair("new") \subseteq dir
      BY <2>8, FilesAre DEF IInv, DiskType, DirType, NewFiles
    <3>2. /\ J = Append(I, e) /\ Data("new")' = Data("new")
          /\ DOMAIN file' = Files /\ \A f \in Files \ Pair("new") : file'[f] = file[f]
      BY <2>8, <3>1, FilesAre DEF Data, Info, Pair
    <3>3. file' = [f \in Files |-> file'[f]]
      BY <2>8, <3>1
    <3>4. e \in InfoEntry /\ e.block = b
      BY <1>3 DEF InfoEntry
    <3>5. Len(Data("new")) = n /\ Len(I) = n - 1 /\ i = n
          /\ \A j \in DOMAIN I : I[j].block = new[j].block
      BY <1>3, <1>10, <2>8 DEF IInv, NewFiles
    <3> HIDE DEF e, I, J
    <3>6. /\ J \in Seq(InfoEntry) /\ Len(J) = n /\ J[n] = e /\ DOMAIN J = 1..n
          /\ \A j \in DOMAIN I : J[j] = I[j]
          /\ \A j \in 1..n : j # n => j \in DOMAIN I
      BY <3>1, <3>2, <3>4, <3>5
    <3>7. \A j \in DOMAIN J : j \in DOMAIN new /\ J[j].block = new[j].block
      <4> SUFFICES ASSUME NEW j \in DOMAIN J
                   PROVE  j \in DOMAIN new /\ J[j].block = new[j].block
        OBVIOUS
      <4>1. CASE j = n
        BY <1>8, <3>4, <3>5, <3>6, <4>1
      <4>2. CASE j # n
        <5>1. j \in 1..n
          BY <3>6
        <5>2. j \in DOMAIN I
          BY <3>6, <4>2, <5>1
        <5> QED BY <3>5, <3>6, <5>1, <5>2
      <4> QED BY <4>1, <4>2
    <3>8. Once(J)
      BY <3>7 DEF Once, IInv, Lookup
    <3>9. ~shaky => Agree(J, Data("new")')
      <4> SUFFICES ASSUME ~shaky, NEW k \in DOMAIN J
                   PROVE  k \in DOMAIN Data("new") /\ Data("new")[k].block = J[k].block
        BY <3>2 DEF Agree
      <4>1. k \in DOMAIN Data("new")
        BY <1>9, <3>1, <3>5, <3>6
      <4>2. Data("new")[k].block = new[k].block
        BY <2>8, <3>7 DEF IInv, NewData
      <4> QED BY <3>7, <4>1, <4>2
    <3>10. DiskInv'
      BY <1>1, <1>3, <1>4, <1>11, <2>2, <3>1, <3>2, <3>3, <3>6, <3>8, <3>9, NewPairWritten DEF J
    <3>11. NewData'
      BY <1>1, <2>8, <3>2 DEF IInv, NewData
    <3>12. NewFiles'
      <4>1. \A j \in DOMAIN new : Fresh(j) => j = i
        BY <1>3, <2>8 DEF IInv, NewFiles
      <4>2. \A j \in DOMAIN new' : new'[j].accesses = 0 => j = i
        BY <1>1, <4>1 DEF Fresh
      <4>3. up' = "up" /\ Pair("new") \subseteq dir' /\ Len(Data("new")') = Len(new')
        BY <1>1, <1>3, <1>11, <3>1, <3>2, <3>5
      <4>4. Len(Info("new")') = Len(new') /\ \A j \in DOMAIN Info("new")' : Info("new")'[j].block = new'[j].block
        BY <1>1, <3>6, <3>7 DEF J
      <4>5. lock' \in Clients /\ pc'[lock'] \in {"block", "count"} /\ Entry(lock)'.new = i
        BY <1>3, <2>1, <2>4 DEF Entry
      <4> QED BY <2>6, <4>2, <4>3, <4>4, <4>5 DEF NewFiles, Fresh
    <3> QED BY <1>6, <1>7, <2>1, <2>3, <2>5, <3>10, <3>11, <3>12 DEF IInv, DiskInv
  <2> QED BY <1>11, <2>7, <2>8 DEF StoreBlock, GiveUpNew
<1>12. CASE GiveUpNew /\ Out(c)
  <2>1. /\ ClientType' /\ lock' = "free" /\ pc'[c] = "idle" /\ val'[c] = NoData
        /\ \A x \in Clients \ {c} : /\ pc'[x] = pc[x] /\ val'[x] = val[x] /\ blk'[x] = blk[x]
                                    /\ pc'[x] \notin Holding
    BY <1>2, <1>12, OutKeeps
  <2>2. \A x \in Clients : pc'[x] \in Unlinking => pc[x] \in Unlinking
    BY <2>1 DEF Unlinking
  <2>3. DiskInv' /\ hasNew' = FALSE
    BY <1>1, <1>3, <1>4, <1>12, <2>2, GiveUpKeepsDisk
  <2>4. NewFiles' /\ NewData'
    BY <2>3 DEF NewFiles, NewData
  <2>5. ReadsTheBlock' /\ Holder' /\ Started'
    <3>1. ReadsTheBlock'
      BY <1>1, <2>1 DEF IInv, ReadsTheBlock
    <3>2. Holder'
      BY <2>1 DEF Holder, Holding
    <3> QED BY <1>1, <1>3, <2>1, <3>1, <3>2 DEF IInv, Started
  <2> QED BY <1>6, <1>7, <2>1, <2>3, <2>4, <2>5 DEF IInv, DiskInv
<1> QED BY <1>11, <1>12 DEF StoreBlock

\* An access is counted in the new list.
LEMMA CountNew ==
    ASSUME IInv, NEW i \in DOMAIN new, new' = [new EXCEPT ![i].accesses = @ + 1],
           UNCHANGED <<ble, old, pos, next_read_index, num_blocks_cached>>
    PROVE  /\ MemType' /\ Lookup' /\ Len(new') = Len(new) /\ DOMAIN new' = DOMAIN new
           /\ new'[i].accesses = new[i].accesses + 1
           /\ \A j \in DOMAIN new : /\ new'[j].block = new[j].block
                                    /\ j # i => new'[j].accesses = new[j].accesses
<1> DEFINE r == [new[i] EXCEPT !.accesses = @ + 1]
<1>1. new \in Seq(InfoEntry)
  BY DEF IInv, MemType
<1>2. new[i] \in InfoEntry
  BY <1>1
<1>3. r \in InfoEntry /\ r.block = new[i].block /\ r.accesses = new[i].accesses + 1
  BY <1>2 DEF InfoEntry
<1>4. new' = [new EXCEPT ![i] = r]
  OBVIOUS
<1> HIDE DEF r
<1>5. /\ new' \in Seq(InfoEntry) /\ Len(new') = Len(new) /\ DOMAIN new' = DOMAIN new
      /\ new'[i] = r /\ \A j \in DOMAIN new \ {i} : new'[j] = new[j]
  BY <1>1, <1>3, <1>4
<1>6. MemType'
  BY <1>5 DEF IInv, MemType
<1>7. \A j \in DOMAIN new : /\ new'[j].block = new[j].block
                            /\ j # i => new'[j].accesses = new[j].accesses
  BY <1>3, <1>5
<1>8. Lookup'
  BY <1>5, <1>7 DEF IInv, Lookup
<1> QED BY <1>3, <1>5, <1>6, <1>7, <1>8

\* The count goes to the info file, and the lock is given back.
LEMMA StoreCountKeeps ==
    ASSUME IInv, NEW c \in Clients, StoreCount(c)
    PROVE  IInv'
<1> DEFINE b == blk[c]
           i == Entry(c).new
<1>1. /\ UNCHANGED <<backing, shaky, up, pop, oldInfo, oldFile, old, pos, next_read_index,
                     num_blocks_cached, ble>>
      /\ pc[c] = "count" /\ Out(c) /\ new' = [new EXCEPT ![i].accesses = @ + 1]
  BY DEF StoreCount, init, CanRun
<1>2. pc[c] \in Holding /\ ClientType
  BY <1>1 DEF IInv, Holding
<1>3. /\ lock = c /\ up = "up" /\ pop # "running" /\ lock # "populate"
      /\ b \in Blocks
  BY <1>2, HolderIsAlone
<1>4. DiskInv /\ Once(oldInfo)' /\ shaky' \in BOOLEAN /\ (shaky => shaky')
  BY <1>1 DEF IInv, DiskInv, DiskType, BlocksOnce, Once
<1>5. hasNew' \in BOOLEAN
  BY DEF IInv, InitType, StoreCount, GiveUpNew
<1>6. OldData' /\ Counted' /\ InitType'
  BY <1>1, <1>5, OldSideKept
<1>7. i \in DOMAIN new /\ new[i].block = b /\ i # 0
  BY <1>1, <1>3 DEF IInv, Holder, Lookup, Entry
<1>8. /\ MemType' /\ Lookup' /\ Len(new') = Len(new) /\ DOMAIN new' = DOMAIN new
      /\ new'[i].accesses = new[i].accesses + 1
      /\ \A j \in DOMAIN new : /\ new'[j].block = new[j].block
                               /\ j # i => new'[j].accesses = new[j].accesses
  BY <1>1, <1>7, CountNew
<1>9. new \in Seq(InfoEntry) /\ new[i].accesses \in Nat
  <2>1. new \in Seq(InfoEntry)
    BY DEF IInv, MemType
  <2>2. new[i] \in InfoEntry
    BY <1>7, <2>1
  <2> QED BY <2>1, <2>2 DEF InfoEntry
<1>10. /\ ClientType' /\ lock' = "free" /\ pc'[c] = "idle" /\ val'[c] = NoData
       /\ \A x \in Clients \ {c} : /\ pc'[x] = pc[x] /\ val'[x] = val[x] /\ blk'[x] = blk[x]
                                   /\ pc'[x] \notin Holding
  BY <1>1, <1>2, OutKeeps
<1>11. \A x \in Clients : pc'[x] \in Unlinking => pc[x] \in Unlinking
  BY <1>10 DEF Unlinking
<1>12. ReadsTheBlock' /\ Holder' /\ Started'
  <2>1. ReadsTheBlock'
    BY <1>1, <1>10 DEF IInv, ReadsTheBlock
  <2>2. Holder'
    BY <1>10 DEF Holder, Holding
  <2> QED BY <1>1, <1>3, <1>10, <2>1, <2>2 DEF IInv, Started
<1>13. CASE hasNew /\ GiveUpNew
  <2>1. DiskInv' /\ hasNew' = FALSE
    BY <1>1, <1>3, <1>4, <1>11, <1>13, GiveUpKeepsDisk
  <2>2. NewFiles' /\ NewData'
    BY <2>1 DEF NewFiles, NewData
  <2> QED BY <1>6, <1>8, <1>10, <1>12, <2>1, <2>2 DEF IInv, DiskInv
<1>14. CASE ~hasNew /\ UNCHANGED <<dir, file, hasNew>>
  <2>1. UpPlace'
    BY <1>1, <1>3, <1>4, <1>14 DEF DiskInv, UpPlace, Has
  <2>2. DiskInv'
    BY <1>1, <1>4, <1>11, <1>14, <2>1, DiskKept
  <2>3. NewFiles' /\ NewData'
    BY <1>14 DEF NewFiles, NewData
  <2> QED BY <1>6, <1>8, <1>10, <1>12, <2>2, <2>3 DEF IInv, DiskInv
<1>15. CASE /\ hasNew /\ UNCHANGED <<dir, hasNew>>
            /\ file' = [file EXCEPT ![<<"info", "new">>][i].accesses = new[i].accesses + 1]
  <2> DEFINE I == Info("new")
             J == Info("new")'
             r == [I[i] EXCEPT !.accesses = new[i].accesses + 1]
  <2>1. /\ file \in [Files -> Seq(InfoEntry) \cup Seq(DataEntry)]
        /\ Data("new") \in Seq(DataEntry) /\ I \in Seq(InfoEntry)
        /\ Pair("new") \subseteq dir
    BY <1>15, FilesAre DEF IInv, DiskType, DirType, NewFiles
  <2>2. /\ J = [I EXCEPT ![i] = r] /\ Data("new")' = Data("new")
        /\ DOMAIN file' = Files /\ \A f \in Files \ Pair("new") : file'[f] = file[f]
    <3>1. file' = [file EXCEPT ![<<"info", "new">>] = [I EXCEPT ![i] = r]]
      BY <1>15 DEF Info
    <3> HIDE DEF r
    <3> QED BY <2>1, <3>1, FilesAre DEF Data, Info, Pair
  <2>3. file' = [f \in Files |-> file'[f]]
    BY <1>15, <2>1
  <2>4. ~Writing
    BY <1>1, <1>3 DEF Writing
  <2>5. Len(Data("new")) = Len(new) /\ Len(I) = Len(new)
        /\ \A j \in DOMAIN I : I[j].block = new[j].block
    BY <1>15, <2>4 DEF IInv, NewFiles
  <2> HIDE DEF I, J
  <2>6. i \in DOMAIN I /\ DOMAIN I = DOMAIN new /\ DOMAIN Data("new") = DOMAIN new
    BY <1>7, <1>9, <2>1, <2>5
  <2>7. r \in InfoEntry /\ r.block = I[i].block
    <3>1. I[i] \in InfoEntry
      BY <2>1, <2>6
    <3> QED BY <1>9, <3>1 DEF InfoEntry
  <2> HIDE DEF r
  <2>8. J \in Seq(InfoEntry) /\ Len(J) = Len(I) /\ DOMAIN J = DOMAIN new
        /\ \A j \in DOMAIN J : J[j].block = I[j].block
    BY <2>1, <2>2, <2>6, <2>7
  <2>9. \A j \in DOMAIN J : J[j].block = new[j].block
    BY <2>5, <2>6, <2>8
  <2>10. Once(J)
    BY <2>8, <2>9 DEF Once, IInv, Lookup
  <2>11. ~shaky => Agree(J, Data("new")')
    BY <1>15, <2>2, <2>6, <2>8, <2>9 DEF Agree, IInv, NewData
  <2>12. DiskInv'
    BY <1>1, <1>3, <1>4, <1>11, <1>15, <2>1, <2>2, <2>3, <2>8, <2>10, <2>11, NewPairWritten DEF J
  <2>13. NewData'
    BY <1>1, <1>8, <1>15, <2>2 DEF IInv, NewData
  <2>14. NewFiles'
    <3>1. ~Writing'
      BY <1>10, CacheDevAssumption DEF Writing, CacheDevAssumption, Clients
    <3>2. \A j \in DOMAIN new : Fresh(j) => j = i
      BY <1>3, <1>15 DEF IInv, NewFiles
    <3>3. \A j \in DOMAIN new' : new'[j].accesses # 0
      BY <1>8, <1>9, <3>2 DEF Fresh
    <3>4. /\ up' = "up" /\ Pair("new") \subseteq dir' /\ Len(Data("new")') = Len(new')
          /\ Len(Info("new")') = Len(new')
          /\ \A j \in DOMAIN Info("new")' : Info("new")'[j].block = new'[j].block
      BY <1>1, <1>3, <1>8, <1>15, <2>1, <2>2, <2>5, <2>8, <2>9 DEF J
    <3> QED BY <3>1, <3>3, <3>4 DEF NewFiles, Fresh
  <2> QED BY <1>6, <1>8, <1>10, <1>12, <2>12, <2>13, <2>14 DEF IInv, DiskInv
<1> QED BY <1>13, <1>14, <1>15 DEF StoreCount

(***************************************************************************)
(* All steps, and what follows.                                            *)
(***************************************************************************)

\* Every step of the driver, of the programs around it and of a crash.
LEMMA StepOK == IInv /\ [Next]_vars => IInv'
<1> SUFFICES ASSUME IInv, [Next]_vars PROVE IInv'
  OBVIOUS
<1>0. Readers \subseteq Clients /\ Writers \subseteq Clients
  BY DEF Clients
<1>1. DiskInv' /\ MemInv' /\ LinkInv' => IInv'
  BY DEF IInv, DiskInv, MemInv, LinkInv
<1>2. CASE Promote
  <2>1. DiskInv'
    BY <1>2, PromoteKeeps DEF DiskInv
  <2> QED BY <1>1, <1>2, <2>1, StartsKeepMem, StartsKeepLink
<1>3. CASE Touch
  BY <1>1, <1>3, TouchKeeps, StartsKeepMem, StartsKeepLink
<1>4. CASE RenameInfo \/ RenameData
  BY <1>1, <1>4, RenamesKeep, StartsKeepMem, StartsKeepLink
<1>5. CASE Open
  BY <1>1, <1>5, OpenKeeps, StartsKeepMem, StartsKeepLink
<1>6. CASE UnlinkNew
  BY <1>1, <1>6, UnlinkNewOK, StartsKeepMem, StartsKeepLink
<1>7. CASE CreateNew
  BY <1>1, <1>7, CreateNewOK, StartsKeepMem, StartsKeepLink
<1>8. CASE Register
  BY <1>1, <1>8, DiskUntouched, RegisterKeeps
<1>9. CASE Populate
  BY <1>1, <1>9, DiskUntouched, PopulateKeeps
<1>10. CASE Crash
  BY <1>1, <1>10, DiskUntouched, CrashKeeps
<1>11. ASSUME NEW c \in Readers, \E b \in Blocks : Read(c, b) PROVE IInv'
  BY <1>0, <1>1, <1>11, DiskUntouched, ReadKeeps
<1>12. ASSUME NEW c \in Readers, Lock(c) PROVE IInv'
  BY <1>0, <1>1, <1>12, DiskUntouched, LockKeeps
<1>13. ASSUME NEW c \in Readers, GetMissing(c) \/ GetUsedUp(c) PROVE IInv'
  BY <1>0, <1>1, <1>13, DiskUntouched, GetsKeep
<1>14. ASSUME NEW c \in Readers, GetOld(c) PROVE IInv'
  BY <1>0, <1>1, <1>14, DiskUntouched, GetOldKeeps
<1>15. ASSUME NEW c \in Readers, ReadAhead(c) PROVE IInv'
  BY <1>0, <1>1, <1>15, DiskUntouched, ReadAheadKeeps
<1>16. ASSUME NEW c \in Readers, GetCopy(c) PROVE IInv'
  BY <1>0, <1>1, <1>16, DiskUntouched, GetCopyKeeps
<1>17. ASSUME NEW c \in Readers, StoreData(c) \/ StoreBlock(c) \/ StoreCount(c) PROVE IInv'
  BY <1>0, <1>17, StoreDataKeeps, StoreBlockKeeps, StoreCountKeeps
<1>18. ASSUME NEW c \in Writers, \E b \in Blocks : Write(c, b) PROVE IInv'
  BY <1>0, <1>1, <1>18, WriteKeepsDisk, WritersKeepMem
<1>19. ASSUME NEW c \in Writers, UnlinkOld(c) PROVE IInv'
  BY <1>0, <1>1, <1>19, UnlinkOldKeepsDisk, WritersKeepMem
<1>20. CASE UNCHANGED vars
  <2>1. /\ UNCHANGED <<backing, dir, file, shaky, up, pop, oldInfo, oldFile>>
        /\ UNCHANGED <<hasNew, ble, old, new, pos, next_read_index, num_blocks_cached, lock>>
        /\ UNCHANGED <<pc, blk, val>>
    BY <1>20 DEF vars, disk, init, mem, cl
  <2>2. DiskType' /\ UpPlace' /\ InitType' /\ BlocksOnce'
    BY <2>1 DEF IInv, DiskType, DirType, UpPlace, InitType, BlocksOnce, FilesOnce, Once,
                Info, Data, Has
  <2>3. PairsAgree' /\ Restarts'
    BY <2>1 DEF IInv, PairsAgree, Agree, Restarts, Unwritten, Info, Data, Has
  <2>4. MemType' /\ ClientType' /\ Started' /\ Lookup' /\ ReadsTheBlock'
    BY <2>1 DEF IInv, MemType, ClientType, Started, MemCleared, Lookup, ReadsTheBlock
  <2>5. Counted' /\ Holder'
    BY <2>1 DEF IInv, Counted, InMemory, Holder, Entry
  <2>6. NewFiles' /\ NewData'
    BY <2>1 DEF IInv, NewFiles, NewData, Writing, Fresh, Entry, Info, Data
  <2>7. OldData'
    BY <2>1 DEF IInv, OldData, Agree, WholeEntries
  <2> QED BY <2>2, <2>3, <2>4, <2>5, <2>6, <2>7 DEF IInv
<1> QED BY <1>2, <1>3, <1>4, <1>5, <1>6, <1>7, <1>8, <1>9, <1>10, <1>11, <1>12, <1>13, <1>14,
           <1>15, <1>16, <1>17, <1>18, <1>19, <1>20 DEF Next

\* The driver keeps its invariant, however its runs are cut off.
THEOREM Invariant == Spec => []IInv
<1> QED BY InitOK, StepOK, PTL DEF Spec

\* The variables keep their types, the lookup set points at the right entries, and
\* the lock is held exactly by the client between taking it and label out.
THEOREM TypeCorrect == Spec => []TypeOK
<1>1. IInv => TypeOK
  BY DEF IInv, DiskType, DirType, MemType, ClientType, Lookup, TypeOK, Files, Info, Data, Holding
<1> QED BY Invariant, <1>1, PTL

\* The info file that is read at a start belongs to the data file beside it, after
\* any sequence of starts, crashes and failed renames (bdev_init 262-306).
THEOREM FilesBelongTogether == Spec => []FilesAgree
<1>1. IInv => FilesAgree
  <2> SUFFICES ASSUME IInv, up = "up", ~shaky, NEW i \in DOMAIN WholeEntries
               PROVE  i \in DOMAIN oldFile /\ oldFile[i].block = WholeEntries[i].block
    BY DEF FilesAgree
  <2>1. oldInfo \in Seq(InfoEntry)
    BY DEF IInv, InitType
  <2>2. Agree(oldInfo, oldFile)
    BY DEF IInv, OldData, Opened
  <2>3. /\ WholeEntries \in Seq(InfoEntry) /\ Len(WholeEntries) <= Len(oldInfo)
        /\ WholeEntries[i] = oldInfo[i]
    BY <2>1, WholeEntriesArePrefix
  <2>4. i \in DOMAIN oldInfo
    BY <2>1, <2>3
  <2> QED BY <2>2, <2>3, <2>4 DEF Agree
<1> QED BY Invariant, <1>1, PTL

\* Before the first write, no start finds one old file without the other and
\* refuses to go on (bdev_init 296-303).
THEOREM NoStartRefused == Spec => []StartsAgain
<1>1. IInv => StartsAgain
  BY DEF IInv, UpPlace, Restarts, Unwritten, Has, Pair, StartsAgain
<1> QED BY Invariant, <1>1, PTL

\* avl_add of do_populate_block_lookup_set (168) never meets a block that the set
\* already has: the old info file names each block once.
THEOREM EachBlockOnce == Spec => []Once(WholeEntries)
<1>1. IInv => Once(WholeEntries)
  <2> SUFFICES ASSUME IInv, NEW i \in DOMAIN WholeEntries, NEW j \in DOMAIN WholeEntries,
                      WholeEntries[i].block = WholeEntries[j].block
               PROVE  i = j
    BY DEF Once
  <2>1. oldInfo \in Seq(InfoEntry) /\ Once(oldInfo)
    BY DEF IInv, InitType, BlocksOnce
  <2>2. /\ WholeEntries \in Seq(InfoEntry) /\ Len(WholeEntries) <= Len(oldInfo)
        /\ WholeEntries[i] = oldInfo[i] /\ WholeEntries[j] = oldInfo[j]
    BY <2>1, WholeEntriesArePrefix
  <2>3. i \in DOMAIN oldInfo /\ j \in DOMAIN oldInfo
    BY <2>1, <2>2
  <2> QED BY <2>1, <2>2, <2>3 DEF Once
<1> QED BY Invariant, <1>1, PTL

(***************************************************************************)
(* Index -1.                                                               *)
(*                                                                         *)
(* An access through -1 needs an entry of the lookup set whose old block   *)
(* was read as often as it was counted.  Every entry of an info file but   *)
(* the last has been counted, whatever run it is from, and the last one is *)
(* left out if it has not; after that, the entry goes with its last access.*)
(***************************************************************************)
Counting(s) == \A i \in DOMAIN s : i < Len(s) => s[i].accesses # 0
EveryCounted == Counting(oldInfo) /\ \A a \in Age : Counting(Info(a))

\* The new info file has the counts of the new list.
NewCounts == hasNew => \A i \in DOMAIN Info("new") : Info("new")[i].accesses = new[i].accesses

\* An old entry that is looked up has accesses left.
LeftToRead == ~shaky => \A b \in Blocks : ble[b].old # 0 => old[ble[b].old].accesses # 0

CountInv == EveryCounted /\ NewCounts /\ LeftToRead /\ NoBadIndex

\* The start.
LEMMA CountInit == Init => CountInv
<1> SUFFICES ASSUME Init PROVE CountInv
  OBVIOUS
<1>1. \A a \in Age : Info(a) = <<>>
  BY DEF Init, Info, Files
<1>2. EveryCounted
  BY <1>1 DEF Init, EveryCounted, Counting
<1>3. NewCounts /\ NoBadIndex
  BY DEF Init, NewCounts, NoBadIndex
<1>4. LeftToRead
  BY DEF Init, LeftToRead, NotLookedUp
<1> QED BY <1>2, <1>3, <1>4 DEF CountInv

\* Files that are moved, removed or opened are counted as they were.
LEMMA MovedCounted ==
    ASSUME EveryCounted,
           \A a \in Age : Info(a)' = <<>> \/ \E x \in Age : Info(a)' = Info(x),
           \/ oldInfo' = <<>> \/ oldInfo' = oldInfo \/ \E x \in Age : oldInfo' = Info(x)
    PROVE  EveryCounted'
<1>1. Counting(<<>>)
  BY DEF Counting
<1>2. \A a \in Age : Counting(Info(a)')
  BY <1>1 DEF EveryCounted
<1>3. Counting(oldInfo')
  BY <1>1 DEF EveryCounted
<1> QED BY <1>2, <1>3 DEF EveryCounted, Counting

\* What removing files leaves of the info files.
LEMMA UnlinkCounted ==
    ASSUME DirType, EveryCounted, NEW S, S \subseteq Files, Unlink(S), oldInfo' = oldInfo
    PROVE  EveryCounted'
<1>1. \A a \in Age : Info(a)' = <<>> \/ Info(a)' = Info(a)
  BY UnlinkEffect, FilesAre DEF Info
<1> QED BY <1>1, MovedCounted

\* All steps but those that write the new info file.
LEMMA OthersCounted ==
    ASSUME IInv, EveryCounted, [Next]_vars,
           \A c \in Clients : ~StoreBlock(c) /\ ~StoreCount(c)
    PROVE  EveryCounted'
<1>0. Readers \subseteq Clients /\ Writers \subseteq Clients /\ DirType
  BY DEF Clients, IInv, DiskType
<1>1. CASE Promote
  <2>1. oldInfo' = oldInfo
    BY <1>1 DEF Promote, init
  <2>2. ASSUME NEW a \in Age PROVE Info(a)' = <<>> \/ \E x \in Age : Info(a)' = Info(x)
    <3>1. <<"info", a>> \in DOMAIN file /\ "new" \in Age
      BY <1>0, FilesAre DEF DirType
    <3>2. file'[<<"info", a>>] \in {file[<<"info", "new">>], <<>>, file[<<"info", a>>]}
      BY <1>1, <3>1 DEF Promote
    <3> QED BY <3>1, <3>2 DEF Info
  <2> QED BY <2>1, <2>2, MovedCounted
<1>2. ASSUME NEW what \in {"info", "data"}, Rename(what, "cur", "old"),
             oldInfo' \in {<<>>, oldInfo}
      PROVE  EveryCounted'
  <2>1. ASSUME NEW a \in Age PROVE Info(a)' = <<>> \/ \E x \in Age : Info(a)' = Info(x)
    <3>1. file'[<<"info", a>>] \in {file[<<"info", "cur">>], <<>>, file[<<"info", a>>]}
      <4>1. <<"info", a>> \in Files
        BY FilesAre
      <4> QED BY <1>0, <1>2, <4>1, RenameEffect
    <3> QED BY <3>1, FilesAre DEF Info
  <2> QED BY <1>2, <2>1, MovedCounted
<1>3. ASSUME NEW S, S \subseteq Files, Unlink(S), oldInfo' = oldInfo
      PROVE  EveryCounted'
  BY <1>0, <1>3, UnlinkCounted
<1>4. ASSUME file' = file,
             oldInfo' = <<>> \/ oldInfo' = oldInfo \/ \E x \in Age : oldInfo' = Info(x)
      PROVE  EveryCounted'
  <2>1. \A a \in Age : Info(a)' = Info(a)
    BY <1>4 DEF Info
  <2> QED BY <1>4, <2>1, MovedCounted
<1>5. CASE RenameInfo \/ RenameData
  BY <1>2, <1>4, <1>5 DEF RenameInfo, RenameData, Exit, Cleared
<1>6. CASE Open
  <2>1. file' = file
    BY <1>6 DEF Open, disk
  <2>2. oldInfo' = <<>> \/ \E x \in Age : oldInfo' = Info(x)
    BY <1>6, FilesAre DEF Open, Exit, Cleared, Info
  <2> QED BY <1>4, <2>1, <2>2
<1>7. \A w \in {"info", "data"}, a \in Age : {<<w, a>>} \subseteq Files
  BY DEF Files
<1>8. CASE UnlinkNew \/ CreateNew
  <2>1. oldInfo' = oldInfo
    BY <1>8 DEF UnlinkNew, CreateNew
  <2>2. file' = file \/ \E w \in {"info", "data"} : Unlink({<<w, "new">>})
    BY <1>8 DEF UnlinkNew, CreateNew
  <2> QED BY <1>3, <1>4, <1>7, <2>1, <2>2, FilesAre
<1>9. ASSUME NEW c \in Clients, UnlinkOld(c) \/ StoreData(c)
      PROVE  EveryCounted'
  <2>1. oldInfo' = oldInfo
    BY <1>9 DEF UnlinkOld, StoreData, init
  <2>2. CASE UnlinkOld(c)
    <3>1. file' = file \/ \E w \in {"info", "data"} : Unlink({<<w, "old">>})
      BY <2>2 DEF UnlinkOld
    <3> QED BY <1>3, <1>4, <1>7, <2>1, <3>1, FilesAre
  <2>3. CASE StoreData(c)
    <3>1. CASE file' = [file EXCEPT ![<<"data", "new">>] = Append(@, val[c])]
      <4>1. \A a \in Age : Info(a)' = Info(a)
        BY <1>0, <3>1 DEF Info
      <4> QED BY <2>1, <4>1, MovedCounted
    <3>2. CASE GiveUpNew
      <4>1. PICK S \in SUBSET Pair("new") : Unlink(S)
        BY <3>2 DEF GiveUpNew
      <4>2. S \subseteq Files
        BY DEF Pair, Files, Age
      <4> QED BY <1>3, <2>1, <4>1, <4>2
    <3>3. CASE file' = file
      BY <1>4, <2>1, <3>3
    <3> QED BY <2>3, <3>1, <3>2, <3>3 DEF StoreData
  <2> QED BY <1>9, <2>2, <2>3
<1>10. CASE Touch \/ Register \/ Populate \/ Crash \/ UNCHANGED vars
  <2>1. file' = file /\ (oldInfo' = <<>> \/ oldInfo' = oldInfo)
    BY <1>10 DEF Touch, Register, Populate, Crash, Exit, Cleared, vars, disk, init
  <2> QED BY <1>4, <2>1
<1>11. ASSUME NEW c \in Clients,
              \/ Lock(c) \/ GetMissing(c) \/ GetOld(c) \/ ReadAhead(c) \/ GetCopy(c) \/ GetUsedUp(c)
              \/ \E b \in Blocks : Read(c, b) \/ Write(c, b)
       PROVE  EveryCounted'
  <2>1. file' = file /\ oldInfo' = oldInfo
    BY <1>11 DEF Lock, GetMissing, GetOld, ReadAhead, GetCopy, GetUsedUp, Read, Write, disk, init
  <2> QED BY <1>4, <2>1
<1> QED BY <1>0, <1>1, <1>5, <1>6, <1>8, <1>9, <1>10, <1>11 DEF Next

\* The client that stores, and the entry it stores.
LEMMA StoringAt ==
    ASSUME IInv, NEW c \in Clients, pc[c] \in {"block", "count"}
    PROVE  /\ lock = c /\ up = "up" /\ blk[c] \in Blocks
           /\ Entry(c).new \in DOMAIN new /\ new \in Seq(InfoEntry) /\ Info("new") \in Seq(InfoEntry)
           /\ file \in [Files -> Seq(InfoEntry) \cup Seq(DataEntry)]
<1>1. pc[c] \in Holding
  BY DEF Holding
<1>2. lock = c /\ up = "up" /\ blk[c] \in Blocks
  BY <1>1, HolderIsAlone
<1>3. Entry(c).new \in DOMAIN new
  BY <1>2 DEF IInv, Holder, Lookup, Entry
<1>4. new \in Seq(InfoEntry) /\ file \in [Files -> Seq(InfoEntry) \cup Seq(DataEntry)]
  BY DEF IInv, MemType, DiskType, DirType
<1>5. Info("new") \in Seq(InfoEntry)
  BY FilesAre DEF IInv, DiskType, DirType
<1> QED BY <1>2, <1>3, <1>4, <1>5

\* When both new files are given up, there is nothing to follow the list.
LEMMA GiveUpCounted ==
    ASSUME IInv, EveryCounted, GiveUpNew, oldInfo' = oldInfo
    PROVE  EveryCounted' /\ NewCounts'
<1>1. PICK S \in SUBSET Pair("new") : Unlink(S)
  BY DEF GiveUpNew
<1>2. S \subseteq Files
  BY DEF Pair, Files, Age
<1>3. EveryCounted'
  BY <1>1, <1>2, UnlinkCounted DEF IInv, DiskType
<1> QED BY <1>3 DEF GiveUpNew, NewCounts

\* A new entry comes after entries that are all counted.
LEMMA StoreBlockCounted ==
    ASSUME IInv, CountInv, NEW c \in Clients, StoreBlock(c)
    PROVE  EveryCounted' /\ NewCounts'
<1> DEFINE i == Entry(c).new
           I == Info("new")
           e == [block |-> blk[c], accesses |-> 0]
<1>1. pc[c] = "block" /\ oldInfo' = oldInfo /\ new' = new /\ EveryCounted /\ NewCounts
  BY DEF StoreBlock, CanRun, init, CountInv
<1>2. /\ lock = c /\ i \in DOMAIN new /\ new \in Seq(InfoEntry) /\ I \in Seq(InfoEntry)
      /\ file \in [Files -> Seq(InfoEntry) \cup Seq(DataEntry)] /\ blk[c] \in Blocks
  BY <1>1, StoringAt
<1>3. CASE file' = file /\ hasNew' = hasNew
  <2>1. \A a \in Age : Info(a)' = Info(a)
    BY <1>3 DEF Info
  <2>2. EveryCounted'
    BY <1>1, <2>1, MovedCounted
  <2>3. NewCounts'
    BY <1>1, <1>3, <2>1, FilesAre DEF NewCounts
  <2> QED BY <2>2, <2>3
<1>4. CASE GiveUpNew
  BY <1>1, <1>4, GiveUpCounted
<1>5. CASE /\ hasNew /\ new[i].accesses = 0 /\ hasNew' = hasNew
           /\ file' = [file EXCEPT ![<<"info", "new">>] = Append(@, e)]
  <2>1. Info("new")' = Append(I, e) /\ \A a \in Age \ {"new"} : Info(a)' = Info(a)
    BY <1>2, <1>5, FilesAre DEF Info
  <2>2. Writing
    BY <1>1, <1>2, <1>5 DEF Writing, Fresh
  <2>3. /\ i = Len(new) /\ Len(I) = Len(new) - 1
        /\ \A j \in DOMAIN new : new[j].accesses = 0 => j = i
    BY <1>2, <1>5, <2>2 DEF IInv, NewFiles, Fresh
  <2>4. Len(new) \in Nat /\ DOMAIN new = 1..Len(new) /\ i \in 1..Len(new)
    BY <1>2
  <2> HIDE DEF I, i, e
  <2>5. e \in InfoEntry /\ e.accesses = 0
    BY <1>2 DEF e, InfoEntry
  <2>6. /\ DOMAIN I = 1..(Len(new) - 1) /\ DOMAIN Append(I, e) = DOMAIN new
        /\ Len(Append(I, e)) = Len(new) /\ Append(I, e)[i] = e
        /\ \A j \in DOMAIN I : Append(I, e)[j] = I[j]
    BY <1>2, <2>3, <2>4, <2>5
  <2>7. \A j \in DOMAIN I : I[j].accesses = new[j].accesses /\ j \in DOMAIN new /\ j # i
    BY <1>1, <1>5, <2>3, <2>4, <2>6 DEF NewCounts, I
  <2>8. Counting(Append(I, e))
    <3> SUFFICES ASSUME NEW j \in DOMAIN new, j < Len(new)
                 PROVE  Append(I, e)[j].accesses # 0
      BY <2>6 DEF Counting
    <3>1. j \in 1..Len(new)
      BY <2>4
    <3>2. j \in 1..(Len(new) - 1)
      BY <2>4, <3>1
    <3>3. j \in DOMAIN I
      BY <2>6, <3>2
    <3> QED BY <2>3, <2>6, <2>7, <3>3
  <2>9. EveryCounted'
    BY <1>1, <2>1, <2>8 DEF EveryCounted, Counting, I
  <2>10. \A j \in DOMAIN new : Append(I, e)[j].accesses = new[j].accesses
    <3> SUFFICES ASSUME NEW j \in DOMAIN new PROVE Append(I, e)[j].accesses = new[j].accesses
      OBVIOUS
    <3>1. CASE j = i
      BY <1>5, <2>5, <2>6, <3>1 DEF i
    <3>2. CASE j # i
      <4>1. j \in DOMAIN I
        BY <2>3, <2>4, <2>6, <3>2
      <4> QED BY <2>6, <2>7, <4>1
    <3> QED BY <3>1, <3>2
  <2>11. NewCounts'
    BY <1>1, <2>1, <2>6, <2>10 DEF NewCounts
  <2> QED BY <2>9, <2>11
<1> QED BY <1>3, <1>4, <1>5 DEF StoreBlock

\* The count of an entry is the same in the list and in the file.
LEMMA StoreCountCounted ==
    ASSUME IInv, CountInv, NEW c \in Clients, StoreCount(c)
    PROVE  EveryCounted' /\ NewCounts'
<1> DEFINE i == Entry(c).new
           I == Info("new")
           n == new[i].accesses + 1
<1>1. /\ pc[c] = "count" /\ oldInfo' = oldInfo /\ EveryCounted /\ NewCounts
      /\ new' = [new EXCEPT ![i].accesses = @ + 1]
  BY DEF StoreCount, CanRun, init, CountInv
<1>2. /\ lock = c /\ i \in DOMAIN new /\ new \in Seq(InfoEntry) /\ I \in Seq(InfoEntry)
      /\ file \in [Files -> Seq(InfoEntry) \cup Seq(DataEntry)]
  BY <1>1, StoringAt
<1>3. CASE GiveUpNew
  BY <1>1, <1>3, GiveUpCounted
<1>4. CASE ~hasNew /\ UNCHANGED <<dir, file, hasNew>>
  <2>1. \A a \in Age : Info(a)' = Info(a)
    BY <1>4 DEF Info
  <2>2. EveryCounted'
    BY <1>1, <2>1, MovedCounted
  <2> QED BY <1>4, <2>2 DEF NewCounts
<1>5. CASE /\ hasNew /\ hasNew' = hasNew
           /\ file' = [file EXCEPT ![<<"info", "new">>][i].accesses = n]
  <2> DEFINE r == [I[i] EXCEPT !.accesses = n]
             s == [new[i] EXCEPT !.accesses = @ + 1]
  <2>1. Info("new")' = [I EXCEPT ![i] = r] /\ \A a \in Age \ {"new"} : Info(a)' = Info(a)
    <3>1. file' = [file EXCEPT ![<<"info", "new">>] = [I EXCEPT ![i] = r]]
      BY <1>5 DEF Info
    <3> HIDE DEF r
    <3> QED BY <1>2, <3>1, FilesAre DEF Info
  <2>2. ~Writing
    BY <1>1, <1>2 DEF Writing
  <2>3. Len(I) = Len(new)
    BY <1>5, <2>2 DEF IInv, NewFiles
  <2>4. new' = [new EXCEPT ![i] = s]
    BY <1>1
  <2> HIDE DEF I, i
  <2>5. DOMAIN I = DOMAIN new /\ i \in DOMAIN I /\ new[i] \in InfoEntry /\ I[i] \in InfoEntry
    BY <1>2, <2>3
  <2>6. n \in Nat \ {0} /\ r.accesses = n /\ s.accesses = n
    BY <2>5 DEF InfoEntry
  <2> HIDE DEF r, s, n
  <2>7. /\ DOMAIN [I EXCEPT ![i] = r] = DOMAIN I /\ Len([I EXCEPT ![i] = r]) = Len(I)
        /\ [I EXCEPT ![i] = r][i] = r
        /\ \A j \in DOMAIN I : j # i => [I EXCEPT ![i] = r][j] = I[j]
    BY <1>2, <2>5
  <2>8. new'[i] = s /\ \A j \in DOMAIN new : j # i => new'[j] = new[j]
    BY <2>4, <2>5
  <2>9. Counting(I)
    BY <1>1, FilesAre DEF EveryCounted, I
  <2>10. Counting([I EXCEPT ![i] = r])
    BY <2>6, <2>7, <2>9 DEF Counting
  <2>11. EveryCounted'
    BY <1>1, <2>1, <2>10 DEF EveryCounted, Counting
  <2>12. \A j \in DOMAIN I : I[j].accesses = new[j].accesses
    BY <1>1, <1>5 DEF NewCounts, I
  <2>13. \A j \in DOMAIN I : [I EXCEPT ![i] = r][j].accesses = new'[j].accesses
    BY <2>5, <2>6, <2>7, <2>8, <2>12
  <2>14. NewCounts'
    BY <2>1, <2>7, <2>13 DEF NewCounts
  <2> QED BY <2>11, <2>14
<1> QED BY <1>3, <1>4, <1>5 DEF StoreCount

\* The other steps leave the counts of the new file and of the new list alone,
\* or there is no new file.
LEMMA OthersCountNew ==
    ASSUME IInv, NewCounts, [Next]_vars,
           \A c \in Clients : ~StoreBlock(c) /\ ~StoreCount(c)
    PROVE  NewCounts'
<1>0. Readers \subseteq Clients /\ Writers \subseteq Clients /\ DirType
  BY DEF Clients, IInv, DiskType
<1>1. ASSUME ~hasNew' PROVE NewCounts'
  BY <1>1 DEF NewCounts
<1>2. ASSUME UNCHANGED <<hasNew, new>>, Info("new")' = Info("new") PROVE NewCounts'
  BY <1>2 DEF NewCounts
<1>3. ASSUME file' = file PROVE Info("new")' = Info("new")
  BY <1>3 DEF Info
<1>4. CASE Promote \/ Touch \/ RenameInfo \/ RenameData \/ Open \/ UnlinkNew \/ Crash
  <2>1. up \in {"register", "up"} => Crash
    BY <1>4 DEF Promote, Touch, RenameInfo, RenameData, Open, UnlinkNew
  <2>2. hasNew' = FALSE \/ (hasNew' = hasNew /\ up \notin {"register", "up"})
    BY <1>4, <2>1 DEF Promote, Touch, RenameInfo, RenameData, Open, UnlinkNew, Crash, Exit,
                      Cleared, mem
  <2>3. ~hasNew'
    BY <2>2 DEF IInv, NewFiles
  <2> QED BY <1>1, <2>3
<1>5. CASE CreateNew
  <2>1. CASE hasNew'
    <3>1. up = "createData" /\ file' = file
      BY <1>5, <2>1 DEF CreateNew, IInv, NewFiles
    <3>2. Info("new")' = <<>>
      BY <1>3, <3>1 DEF IInv, UpPlace
    <3> QED BY <3>2 DEF NewCounts
  <2>2. CASE ~hasNew'
    BY <1>1, <2>2
  <2> QED BY <2>1, <2>2
<1>6. CASE Register \/ Populate \/ UNCHANGED vars
  <2>1. UNCHANGED <<hasNew, new, file>>
    BY <1>6 DEF Register, Populate, vars, disk, mem
  <2> QED BY <1>2, <1>3, <2>1
<1>7. ASSUME NEW c \in Clients,
             \/ Lock(c) \/ GetMissing(c) \/ GetOld(c) \/ ReadAhead(c) \/ GetCopy(c) \/ GetUsedUp(c)
             \/ \E b \in Blocks : Read(c, b) \/ Write(c, b)
      PROVE  NewCounts'
  <2>1. UNCHANGED <<hasNew, new, file>>
    BY <1>7 DEF Lock, GetMissing, GetOld, ReadAhead, GetCopy, GetUsedUp, Read, Write, disk, mem
  <2> QED BY <1>2, <1>3, <2>1
<1>8. ASSUME NEW c \in Clients, UnlinkOld(c) PROVE NewCounts'
  <2>1. UNCHANGED <<hasNew, new>>
    BY <1>8 DEF UnlinkOld, mem
  <2>2. CASE file' = file
    BY <1>2, <1>3, <2>1, <2>2
  <2>3. CASE \E w \in {"info", "data"} : Unlink({<<w, "old">>})
    <3>1. PICK w \in {"info", "data"} : Unlink({<<w, "old">>})
      BY <2>3
    <3>2. {<<w, "old">>} \subseteq Files /\ <<"info", "new">> \notin {<<w, "old">>}
      BY DEF Files, Age
    <3>3. Info("new")' = Info("new")
      BY <1>0, <3>1, <3>2, UnlinkEffect, FilesAre DEF Info
    <3> QED BY <1>2, <2>1, <3>3
  <2> QED BY <1>8, <2>2, <2>3 DEF UnlinkOld
<1>9. ASSUME NEW c \in Clients, StoreData(c) PROVE NewCounts'
  <2>1. CASE Entry(c).new # 0
    <3>1. UNCHANGED <<hasNew, new, file>>
      BY <1>9, <2>1 DEF StoreData
    <3> QED BY <1>2, <1>3, <3>1
  <2>2. CASE GiveUpNew \/ ~hasNew'
    BY <1>1, <2>2 DEF GiveUpNew
  <2>3. CASE /\ hasNew /\ hasNew' = hasNew
             /\ new' = Append(new, [block |-> blk[c], accesses |-> 0])
             /\ file' = [file EXCEPT ![<<"data", "new">>] = Append(@, val[c])]
    <3>1. Info("new")' = Info("new") /\ Info("new") \in Seq(InfoEntry) /\ new \in Seq(InfoEntry)
      BY <1>0, <2>3, FilesAre DEF Info, DirType, IInv, MemType
    <3>2. ~Writing
      <4>1. pc[c] = "data" /\ pc[c] \in Holding
        BY <1>9 DEF StoreData, CanRun, Holding
      <4>2. lock = c
        BY <4>1, HolderIsAlone
      <4> QED BY <4>1, <4>2 DEF Writing
    <3>3. Len(Info("new")) = Len(new)
      BY <2>3, <3>2 DEF IInv, NewFiles
    <3> DEFINE I == Info("new")
               e == [block |-> blk[c], accesses |-> 0]
    <3> HIDE DEF I, e
    <3>4. \A j \in DOMAIN I : j \in DOMAIN new /\ Append(new, e)[j] = new[j]
      BY <3>1, <3>3 DEF I
    <3> QED BY <2>3, <3>1, <3>4 DEF NewCounts, I, e
  <2> QED BY <1>9, <2>1, <2>2, <2>3 DEF StoreData
<1> QED BY <1>0, <1>4, <1>5, <1>6, <1>7, <1>8, <1>9 DEF Next

\* A prefix is as long as it is cut.
LEMMA PrefixLen ==
    ASSUME NEW S, NEW s \in Seq(S), NEW n \in 0..Len(s)
    PROVE  Len(SubSeq(s, 1, n)) = n
OBVIOUS

\* An entry of the old info file that is not left out has been counted.
LEMMA WholeEntriesCounted ==
    ASSUME oldInfo \in Seq(InfoEntry), Counting(oldInfo)
    PROVE  \A i \in DOMAIN WholeEntries : WholeEntries[i].accesses # 0
<1> SUFFICES ASSUME NEW i \in DOMAIN WholeEntries PROVE WholeEntries[i].accesses # 0
  OBVIOUS
<1>1. /\ WholeEntries \in Seq(InfoEntry) /\ Len(WholeEntries) <= Len(oldInfo)
      /\ WholeEntries[i] = oldInfo[i]
  BY WholeEntriesArePrefix
<1>2. i \in DOMAIN oldInfo /\ i \in 1..Len(oldInfo) /\ Len(oldInfo) \in Nat
  BY <1>1
<1>3. CASE i < Len(oldInfo)
  BY <1>1, <1>2, <1>3 DEF Counting
<1>4. CASE i = Len(oldInfo)
  <2>1. Len(WholeEntries) # Len(oldInfo) - 1
    BY <1>1, <1>2, <1>4
  <2>2. oldInfo # <<>>
    BY <1>2
  <2>3. oldInfo[Len(oldInfo)].accesses = 0 => WholeEntries = SubSeq(oldInfo, 1, Len(oldInfo) - 1)
    BY <2>2 DEF WholeEntries
  <2>4. Len(oldInfo) - 1 \in Nat /\ Len(SubSeq(oldInfo, 1, Len(oldInfo) - 1)) = Len(oldInfo) - 1
    <3> DEFINE n == Len(oldInfo) - 1
    <3>1. n \in 0..Len(oldInfo) /\ n \in Nat
      BY <1>2
    <3> HIDE DEF n
    <3>2. Len(SubSeq(oldInfo, 1, n)) = n
      BY <3>1, PrefixLen
    <3> QED BY <3>1, <3>2 DEF n
  <2> QED BY <1>1, <1>4, <2>1, <2>3, <2>4
<1> QED BY <1>2, <1>3, <1>4

\* Every entry that comes into the lookup set has been counted.
LEMMA PopulateCounted ==
    ASSUME IInv, CountInv, Populate
    PROVE  LeftToRead'
<1> SUFFICES ASSUME ~shaky', NEW b \in Blocks, ble'[b].old # 0
             PROVE  old'[ble'[b].old].accesses # 0
  BY DEF LeftToRead
<1>1. CASE UNCHANGED <<old, ble, lock>>
  BY <1>1 DEF Populate, disk, CountInv, LeftToRead
<1>2. CASE ~UNCHANGED <<old, ble, lock>>
  <2> DEFINE w == WholeEntries
             k == CHOOSE i \in DOMAIN w : w[i].block = b
  <2>1. /\ old' = [i \in 1..Len(w) |-> [block |-> w[i].block, data |-> NoData,
                                        accesses |-> w[i].accesses]]
        /\ ble'[b] = IF \E i \in DOMAIN w : w[i].block = b
                     THEN [known |-> TRUE, new |-> 0, old |-> k] ELSE NotLookedUp
    BY <1>2 DEF Populate
  <2>2. w \in Seq(InfoEntry) /\ \A i \in DOMAIN w : w[i].accesses # 0
    BY WholeEntriesArePrefix, WholeEntriesCounted DEF IInv, InitType, CountInv, EveryCounted
  <2>3. (\E i \in DOMAIN w : w[i].block = b) => k \in DOMAIN w
    OBVIOUS
  <2> HIDE DEF w, k
  <2>4. \E i \in DOMAIN w : w[i].block = b
    BY <2>1 DEF NotLookedUp
  <2>5. ble'[b].old = k /\ k \in DOMAIN w /\ DOMAIN w = 1..Len(w)
    BY <2>1, <2>2, <2>3, <2>4
  <2> QED BY <2>1, <2>2, <2>5
<1> QED BY <1>1, <1>2

\* As long as no read fails, reading ahead changes no count.
LEMMA ReadAheadCounted ==
    ASSUME IInv, CountInv, NEW c \in Clients, ReadAhead(c)
    PROVE  LeftToRead'
<1> DEFINE n == next_read_index
<1> SUFFICES ASSUME ~shaky' PROVE \A b \in Blocks : ble'[b].old # 0 => old'[ble'[b].old].accesses # 0
  BY DEF LeftToRead
<1>1. ~shaky /\ ble' = ble
  BY DEF ReadAhead
<1>2. \A b \in Blocks : ble[b].old # 0 => ble[b].old \in DOMAIN old /\ old[ble[b].old].accesses # 0
  BY <1>1 DEF CountInv, LeftToRead, IInv, Lookup
<1>3. CASE old' = old
  BY <1>1, <1>2, <1>3
<1>4. CASE num_blocks_cached < MAX_BLOCKS_CACHED /\ n <= Len(old)
  <2>1. pc[c] \in Holding /\ old \in Seq(OldEntry)
    BY DEF ReadAhead, CanRun, Holding, IInv, MemType
  <2>2. up = "up"
    BY <2>1, HolderIsAlone
  <2>3. n \in DOMAIN old
    BY <1>4, <2>1 DEF IInv, MemType
  <2>4. pos = n /\ n \in DOMAIN oldFile
    BY <1>1, <2>2, <2>3, OldFileHas DEF IInv, OldData
  <2>5. pos <= Len(oldFile)
    BY <2>4 DEF IInv, InitType
  <2>6. old' = [old EXCEPT ![n].data = oldFile[pos]]
    BY <1>4, <2>5 DEF ReadAhead
  <2> DEFINE r == [old[n] EXCEPT !.data = oldFile[pos]]
  <2>7. old' = [old EXCEPT ![n] = r]
    BY <2>6
  <2>8. r.accesses = old[n].accesses
    BY <2>1, <2>3 DEF OldEntry
  <2> HIDE DEF r
  <2>9. \A j \in DOMAIN old : old'[j].accesses = old[j].accesses
    BY <2>1, <2>7, <2>8
  <2> QED BY <1>1, <1>2, <2>9
<1> QED BY <1>3, <1>4 DEF ReadAhead

\* With its last access, an old entry is not looked up any more.
LEMMA GetCopyCounted ==
    ASSUME IInv, CountInv, NEW c \in Clients, GetCopy(c)
    PROVE  LeftToRead'
<1> DEFINE i == Entry(c).old
           last == old[i].accesses = 1
<1> SUFFICES ASSUME ~shaky', NEW b \in Blocks, ble'[b].old # 0
             PROVE  old'[ble'[b].old].accesses # 0
  BY DEF LeftToRead
<1>1. ~shaky /\ pc[c] = "copy" /\ pc[c] \in Holding
  BY DEF GetCopy, disk, CanRun, Holding
<1>2. /\ old \in Seq(OldEntry) /\ ble \in [Blocks -> [known : BOOLEAN, old : Nat, new : Nat]]
      /\ \A x \in Blocks : ble[x].old # 0 => /\ ble[x].old \in DOMAIN old
                                             /\ old[ble[x].old].accesses # 0
                                             /\ old[ble[x].old].block = x
  BY <1>1 DEF IInv, MemType, Lookup, CountInv, LeftToRead
<1>3. blk[c] \in Blocks /\ i # 0
  BY <1>1, HolderIsAlone DEF IInv, Holder
<1>4. i \in DOMAIN old /\ old[i].block = blk[c] /\ old[i] \in OldEntry /\ old[i].accesses # 0
  BY <1>2, <1>3 DEF Entry
<1>5. CASE old' = old /\ ble' = ble
  BY <1>2, <1>5
<1>6. CASE /\ old' = [old EXCEPT ![i].accesses = @ - 1, ![i].data = IF last THEN NoData ELSE @]
           /\ ble' = IF last THEN [ble EXCEPT ![blk[c]].old = 0] ELSE ble
  <2> DEFINE r == [block |-> old[i].block, data |-> IF last THEN NoData ELSE old[i].data,
                   accesses |-> old[i].accesses - 1]
  <2>1. old' = [old EXCEPT ![i] = r]
    <3>1. old' = [old EXCEPT ![i] = [old[i] EXCEPT !.accesses = @ - 1,
                                                   !.data = IF last THEN NoData ELSE @]]
      BY <1>4, <1>6
    <3>2. [old[i] EXCEPT !.accesses = @ - 1, !.data = IF last THEN NoData ELSE @] = r
      BY <1>4, UsedOnce
    <3> QED BY <3>1, <3>2
  <2>2. r.accesses = old[i].accesses - 1 /\ old[i].accesses \in Nat
    BY <1>4 DEF OldEntry
  <2> HIDE DEF r
  <2>3. old'[i] = r /\ \A j \in DOMAIN old : j # i => old'[j] = old[j]
    BY <1>2, <1>4, <2>1
  <2>4. CASE last
    <3> DEFINE e == [ble[blk[c]] EXCEPT !.old = 0]
    <3>1. ble' = [ble EXCEPT ![blk[c]] = e]
      BY <1>6, <2>4
    <3>2. e.old = 0
      BY <1>2, <1>3
    <3> HIDE DEF e
    <3>3. b # blk[c] /\ ble'[b] = ble[b]
      BY <1>2, <1>3, <3>1, <3>2
    <3>4. ble[b].old # i
      BY <1>2, <1>4, <3>3
    <3> QED BY <1>2, <2>3, <3>3, <3>4
  <2>5. CASE ~last
    <3>1. ble' = ble
      BY <1>6, <2>5
    <3>2. r.accesses # 0
      BY <1>4, <2>2, <2>5
    <3> QED BY <1>2, <2>3, <3>1, <3>2
  <2> QED BY <2>4, <2>5
<1> QED BY <1>5, <1>6 DEF GetCopy

\* The other steps change no count of an old entry that is looked up.
LEMMA OthersLeft ==
    ASSUME IInv, CountInv, [Next]_vars,
           \A c \in Clients : ~ReadAhead(c) /\ ~GetCopy(c), ~Populate
    PROVE  LeftToRead'
<1>0. Readers \subseteq Clients /\ Writers \subseteq Clients /\ LeftToRead
  BY DEF Clients, CountInv
<1>1. ASSUME old' = old, \A b \in Blocks : ble'[b].old = ble[b].old, shaky' = shaky
      PROVE  LeftToRead'
  BY <1>0, <1>1 DEF LeftToRead
<1>2. ASSUME ble' = [b \in Blocks |-> NotLookedUp]
      PROVE  LeftToRead'
  BY <1>2 DEF LeftToRead, NotLookedUp
<1>3. CASE Promote \/ Touch \/ RenameInfo \/ RenameData \/ Open \/ UnlinkNew \/ CreateNew
           \/ Register \/ Crash \/ UNCHANGED vars
  <2>1. \/ UNCHANGED <<old, ble, shaky>>
        \/ ble' = [b \in Blocks |-> NotLookedUp]
    BY <1>3 DEF Promote, Touch, RenameInfo, RenameData, Open, UnlinkNew, CreateNew, Register,
                Crash, Exit, Cleared, vars, disk, mem
  <2> QED BY <1>1, <1>2, <2>1
<1>4. ASSUME NEW c \in Clients,
             \/ Lock(c) \/ GetOld(c) \/ GetUsedUp(c) \/ StoreBlock(c) \/ StoreCount(c)
             \/ UnlinkOld(c) \/ \E b \in Blocks : Read(c, b) \/ Write(c, b)
      PROVE  LeftToRead'
  <2>1. UNCHANGED <<old, ble, shaky>>
    BY <1>4 DEF Lock, GetOld, GetUsedUp, StoreBlock, StoreCount, UnlinkOld, Read, Write, disk, mem
  <2> QED BY <1>1, <2>1
<1>5. ASSUME NEW c \in Clients, GetMissing(c) \/ StoreData(c)
      PROVE  LeftToRead'
  <2>1. old' = old /\ shaky' = shaky
    BY <1>5 DEF GetMissing, StoreData, disk
  <2>2. ble \in [Blocks -> [known : BOOLEAN, old : Nat, new : Nat]]
    BY DEF IInv, MemType
  <2>3. \/ ble' = ble
        \/ ble' = [ble EXCEPT ![blk[c]].known = TRUE]
        \/ ble' = [ble EXCEPT ![blk[c]].new = Len(new) + 1]
    BY <1>5 DEF GetMissing, StoreData
  <2>4. \A b \in Blocks : ble'[b].old = ble[b].old
    BY <2>2, <2>3
  <2> QED BY <1>1, <2>1, <2>4
<1> QED BY <1>0, <1>3, <1>4, <1>5 DEF Next

\* Only an entry that is used up leads to index -1.
LEMMA NoBadIndexKept ==
    ASSUME IInv, CountInv, [Next]_vars
    PROVE  NoBadIndex'
<1>0. Readers \subseteq Clients /\ Writers \subseteq Clients
  BY DEF Clients
<1>1. ASSUME failed' = failed \/ failed' = FALSE, shaky => shaky'
      PROVE  NoBadIndex'
  BY <1>1 DEF NoBadIndex, CountInv
<1>2. CASE Promote \/ Touch \/ RenameInfo \/ RenameData \/ Open \/ UnlinkNew \/ CreateNew
           \/ Register \/ Populate \/ Crash \/ UNCHANGED vars
  <2>1. (failed' = failed \/ failed' = FALSE) /\ shaky' = shaky
    BY <1>2 DEF Promote, Touch, RenameInfo, RenameData, Open, UnlinkNew, CreateNew, Register,
                Populate, Crash, vars, disk
  <2> QED BY <1>1, <2>1
<1>3. ASSUME NEW c \in Clients,
             \/ Lock(c) \/ GetMissing(c) \/ ReadAhead(c) \/ GetCopy(c) \/ GetUsedUp(c)
             \/ StoreData(c) \/ StoreBlock(c) \/ StoreCount(c) \/ UnlinkOld(c)
             \/ \E b \in Blocks : Read(c, b) \/ Write(c, b)
      PROVE  NoBadIndex'
  <2>1. failed' = failed
    BY <1>3 DEF Lock, GetMissing, ReadAhead, GetCopy, GetUsedUp, StoreData, StoreBlock,
                StoreCount, UnlinkOld, Read, Write
  <2>2. shaky => shaky'
    BY <1>3 DEF Lock, GetMissing, ReadAhead, GetCopy, GetUsedUp, StoreData, StoreBlock,
                StoreCount, UnlinkOld, Read, Write, disk
  <2> QED BY <1>1, <2>1, <2>2
<1>4. ASSUME NEW c \in Clients, GetOld(c) PROVE NoBadIndex'
  <2>1. shaky' = shaky
    BY <1>4 DEF GetOld, disk
  <2>2. CASE old[Entry(c).old].accesses = 0
    <3>1. pc[c] \in Holding
      BY <1>4 DEF GetOld, CanRun, Holding
    <3>2. blk[c] \in Blocks /\ Entry(c).old # 0
      BY <1>4, <3>1, HolderIsAlone DEF GetOld
    <3>3. shaky
      BY <2>2, <3>2 DEF CountInv, LeftToRead, Entry
    <3> QED BY <2>1, <3>3 DEF NoBadIndex
  <2>3. CASE old[Entry(c).old].accesses # 0
    <3>1. failed' = failed
      BY <1>4, <2>3 DEF GetOld
    <3> QED BY <1>1, <2>1, <3>1
  <2> QED BY <2>2, <2>3
<1> QED BY <1>0, <1>2, <1>3, <1>4 DEF Next

LEMMA CountStep == IInv /\ CountInv /\ [Next]_vars => CountInv'
<1> SUFFICES ASSUME IInv, CountInv, [Next]_vars PROVE CountInv'
  OBVIOUS
<1>1. EveryCounted' /\ NewCounts'
  <2>1. CASE \E c \in Clients : StoreBlock(c) \/ StoreCount(c)
    BY <2>1, StoreBlockCounted, StoreCountCounted
  <2>2. CASE ~\E c \in Clients : StoreBlock(c) \/ StoreCount(c)
    BY <2>2, OthersCounted, OthersCountNew DEF CountInv
  <2> QED BY <2>1, <2>2
<1>2. LeftToRead'
  <2>1. CASE Populate \/ \E c \in Clients : ReadAhead(c) \/ GetCopy(c)
    BY <2>1, PopulateCounted, ReadAheadCounted, GetCopyCounted
  <2>2. CASE ~(Populate \/ \E c \in Clients : ReadAhead(c) \/ GetCopy(c))
    BY <2>2, OthersLeft
  <2> QED BY <2>1, <2>2
<1>3. NoBadIndex'
  BY NoBadIndexKept
<1> QED BY <1>1, <1>2, <1>3 DEF CountInv

\* While no read of a data file failed, old data is served right: a client gets
\* the contents of its own block, and the program never dies of an access through
\* index -1 (access_one_block 523-566, the assertion at 528).
THEOREM ServesOldData == Spec => []OldDataServes
<1>1. IInv /\ CountInv => OldDataServes
  BY DEF IInv, CountInv, OldDataServes
<1>2. Spec => []CountInv
  BY Invariant, CountInit, CountStep, PTL DEF Spec
<1> QED BY Invariant, <1>1, <1>2, PTL
=============================================================================
