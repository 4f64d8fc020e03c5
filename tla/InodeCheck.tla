----------------------------- MODULE InodeCheck -----------------------------
(***************************************************************************)
(* The first half of pass 3 of the ext2 fsck: the tables of each group are *)
(* read (read_table_for_one_group in fs/ext2/ext2.c) and its inodes are    *)
(* checked one by one (check_inode), without threads.  It starts with what *)
(* module SuperBlock leaves in st.  What is done with the clusters of an   *)
(* inode is module ChkBlock.                                               *)
(*                                                                         *)
(* disk.inode[i] is inode i on the device, disk.lost the blocks of inode *)
(* tables that cannot be read (or of which fields that matter cannot),     *)
(* each <<group, number in its table>>, disk.virgin[g] the number of      *)
(* inodes at the end of group g that were never used, disk.map whether    *)
(* the inode allocation map can be read, and disk.uninit the flags of its *)
(* groups that say that a map is not in use.                               *)
(***************************************************************************)
EXTENDS SuperBlock, FiniteSets

CONSTANT Tables     \* what the inode tables may be

VARIABLES disk, scan

\* The fields of an inode that are numbers.
Numbered == {"links", "dtime", "ctime", "mtime", "atime", "size", "high"}
ASSUME TablesAssumption ==
    \A d \in Tables : \A i \in DOMAIN d.inode :
      /\ DOMAIN d.inode[i] = {"type", "flags"} \cup Numbered
      /\ \A n \in Numbered : d.inode[i][n] \in Nat

InodesPerBlock == 4      \* sizeof(struct inode) is 128
RootIno        == 2
FastLink       == 60     \* MAX_SIZE_FAST_SYMBOLIC_LINK
Types          == {"FILE", "DIRE", "SLNK", "CDEV"}      \* CDEV for all the others
Unset          == 0

Ipg       == st.sb.ipg
Inodes    == 1..st.sb.inodes
GroupOf(i) == (i - 1) \div Ipg
Virgin(i)  == (i - 1) % Ipg >= Ipg - disk.virgin[GroupOf(i)]
Csum      == GDT_CSUM \in st.sb.ro
Zero      == [type |-> "none", links |-> 0, dtime |-> 0, ctime |-> 0, mtime |-> 0,
              atime |-> 0, flags |-> {}, size |-> 0, high |-> 0]

\* The allocation map as the kernel keeps it.
MapOnDisk == {i \in Inodes : i < st.sb.first_inode \/ disk.inode[i].links > 0}

CheckStart ==
    [pc |-> "table", group |-> 0, i |-> 1, have_free |-> FALSE, is |-> Unset,
     in_slot |-> -1, eio |-> {}, marks |-> {}, map |-> {}, calculated |-> {}, type |-> <<>>,
     never |-> {}, scanned |-> {}, wrong |-> {}, copy |-> Zero, differs |-> FALSE]
\* There is something in the place of each inode; of more inodes never used
\* than there are in the group is left out.
Describes(d, sb) ==
    \A i \in 1..sb.inodes :
      /\ i \in DOMAIN d.inode
      /\ d.virgin[(i - 1) \div sb.ipg] \in 0..sb.ipg
CheckInit == disk \in Tables /\ Describes(disk, fs.sb) /\ scan = CheckStart

Do(s) == scan' = s /\ UNCHANGED <<fs, st, disk>>

\* The blocks of an inode table are read up to the end of the last cluster of
\* inodes that were used.  One that cannot be read stands for its inodes.
BlocksRead(g) ==
    LET bytes == (Ipg - disk.virgin[g]) * 128
    IN  fs.cs * ((bytes + ClusterBytes(fs.cs) - 1) \div ClusterBytes(fs.cs))
FirstOf(g, b) == 1 + g * Ipg + b * InodesPerBlock
\* Variant: as if every table were that of group 0.
EioInodesOfGroup(g) ==
    UNION {1 + b * InodesPerBlock..(b + 1) * InodesPerBlock : b \in {c \in 0..BlocksRead(g) - 1 : <<g, c>> \in disk.lost}}
EioInodes(g) ==
    UNION {FirstOf(g, b)..FirstOf(g, b) + InodesPerBlock - 1 : b \in {c \in 0..BlocksRead(g) - 1 : <<g, c>> \in disk.lost}}

\* The flags of the two maps are interchanged: the inode map is not read if the
\* cluster map is not in use.
MapSkipped(g) == <<g, "cluster_map">> \in disk.uninit
MapRead(g) ==
    IF MapSkipped(g) \/ ~disk.map THEN {} ELSE {i \in MapOnDisk : GroupOf(i) = g}

\* The clusters of the super block and of the table of a group, <<cluster,
\* owner>>.  The super block of group 0 may be in cluster 0, which is marked
\* if it is known that there is none before it.
\* Variant: the super block of group 0 is not in cluster 1.
MarkedAtStart(cs, cpg, group) == (group * (cpg * cs)) \div cs
MarkedAt(cs, cpg, group) == (2 + group * (cpg * cs)) \div cs
GdtClusters == LET entry  == IF st.wide THEN 64 ELSE 32
                   blocks == (st.num_groups * entry + BlockBytes - 1) \div BlockBytes
               IN  (blocks + fs.cs - 1) \div fs.cs
MarksOf(g, offset) ==
    LET at  == MarkedAt(fs.cs, st.sb.cpg, g)
        gap == IF g = 0 THEN {<<c, <<"super", 0>>>> : c \in 1..at - 1} ELSE {}
        sb  == IF at # 0 \/ offset = 0 THEN {<<at, <<"super", g>>>>} ELSE {}
    IN  IF ~GroupHasSuperBlock(st.sb, g) THEN {}
        ELSE gap \cup sb \cup {<<c, <<"table", g>>>> : c \in at + 1..at + GdtClusters}

\* The main loop counts groups and inodes; there may be more of the latter.
ReadTables ==
    /\ st.pc = "pass3" /\ scan.pc = "table" /\ scan.i < st.sb.inodes
    /\ LET g == scan.group
           s == [scan EXCEPT !.map = @ \cup MapRead(g), !.have_free = FALSE, !.pc = "inodes"]
       IN  IF g \notin Groups THEN Do([scan EXCEPT !.pc = "beyond"])
           ELSE \E offset \in (IF st.offset = {} THEN {0, 1} ELSE st.offset) :
                  LET m == [s EXCEPT !.marks = @ \cup MarksOf(g, offset)]
                  IN  Do(IF g \in st.flags
                         THEN [m EXCEPT !.in_slot = g, !.eio = @ \cup EioInodes(g)] ELSE m)

\* Only a file system with checksums says which tables are not initialised.
\* The inodes of a group that is skipped are not counted: those of the next are
\* taken for them.
SkipGroup ==
    /\ scan.pc = "inodes" /\ scan.group \notin st.flags /\ Csum
    /\ Do([scan EXCEPT !.pc = "table", !.group = @ + 1])

\* What is where inode i should be.  If the table was not read that is what was
\* there before, or what the allocation map left there, which is read to the
\* same place first.
Bits == [Zero EXCEPT !.type = "bits", !.links = 1]
InSlot(i) ==
    (IF scan.in_slot = scan.group THEN {} ELSE {Zero, Bits})
      \cup {disk.inode[1 + g * Ipg + ((i - 1) % Ipg)] : g \in {scan.in_slot} \cap Groups}

\* What a use of inode i is taken to be later.
Type(x) == IF x.links = 0 THEN IF x = Zero THEN "FREE" ELSE "DELE" ELSE x.type
Noted(i, t) == [k \in DOMAIN scan.type \cup {i} |-> IF k = i THEN t ELSE scan.type[k]]

\* The flags an inode must not have, by its type or by the features of the
\* file system.  Of the compression flags a directory may have one.
IMAGIC_INODES == 1   \* of rw_compat
COMPRESSION   == 0   \* of in_compat
OnlyFor(flag) ==
    CASE flag \in {"INDEX", "DIRSYNC"}                           -> {"DIRE"}
      [] flag \in {"IMMUTABLE", "APPEND_ONLY", "SECURE_REMOVE"}  -> {"DIRE", "FILE"}
      [] flag = "SYNC"                                           -> {"DIRE", "FILE", "SLNK"}
      [] flag = "COMPR" /\ COMPRESSION \in st.sb.in              -> {"DIRE", "FILE"}
      [] flag = "DIRTY" /\ COMPRESSION \in st.sb.in              -> {"FILE"}
      [] flag \in {"COMPR", "DIRTY"}                             -> {}
      [] flag = "IMAGIC" /\ IMAGIC_INODES \notin st.sb.rw        -> {}
      [] flag = "JOURNAL_DATA" /\ HAS_JOURNAL \notin st.sb.rw    -> {}
      [] OTHER                                                   -> Types
WrongFlags(x) == {f \in x.flags : x.type \notin OnlyFor(f)}

\* An inode in use, repaired: its times, the flag of the root, and the size of
\* what has none.  The other flags that are wrong stay.
Earliest(a, b) == IF a < b THEN a ELSE b
InTime(x) ==
    LET sb == st.sb
    IN  [x EXCEPT !.dtime = 0, !.ctime = Earliest(@, sb.wtime), !.mtime = Earliest(@, sb.wtime),
                  !.atime = IF @ > sb.wtime THEN sb.mtime ELSE @]
Repaired(i, x) ==
    LET device == x.type \notin {"FILE", "DIRE", "SLNK"}
    IN  [InTime(x) EXCEPT !.flags = IF i = RootIno THEN @ \cup {"TOPDIR"} ELSE @ \ {"TOPDIR"},
                          !.size = IF device THEN 0 ELSE @, !.high = IF device THEN 0 ELSE @]
\* Its clusters are looked at, too.
HasClusters(x) == x.type \in {"FILE", "DIRE"} \/ (x.type = "SLNK" /\ x.size >= FastLink)

\* The main loop takes inodes that follow a free one for free, if they cannot
\* be read, until there is one in use.
Counted(s, free) ==
    [s EXCEPT !.i = @ + 1, !.pc = IF scan.i % Ipg = 0 THEN "table" ELSE "inodes",
              !.group = IF scan.i % Ipg = 0 THEN @ + 1 ELSE @,
              !.have_free = IF scan.have_free THEN free
                            ELSE free /\ scan.i >= st.sb.first_inode]

Checking == scan.pc = "inodes" /\ (scan.group \in st.flags \/ ~Csum) /\ scan.i \in Inodes

Unreadable ==
    /\ Checking /\ scan.i \in scan.eio
    /\ Do(Counted([scan EXCEPT !.never = IF scan.have_free THEN @ \cup {scan.i} ELSE @],
                  scan.have_free))

\* The type of an inode that was never used is asked for and not known.
NeverUsed ==
    /\ Checking /\ scan.i \notin scan.eio /\ Virgin(scan.i)
    /\ \E free \in BOOLEAN : Do(Counted(scan, free))

NotInUse ==
    /\ Checking /\ scan.i \notin scan.eio /\ ~Virgin(scan.i)
    /\ \E x \in InSlot(scan.i) :
         /\ x.links = 0
         /\ Do(Counted([scan EXCEPT !.type = Noted(scan.i, Type(x))], Type(x) = "FREE"))

InUse ==
    /\ Checking /\ scan.i \notin scan.eio /\ ~Virgin(scan.i)
    /\ \E x \in InSlot(scan.i) :
         LET r == Repaired(scan.i, x)
             s == [scan EXCEPT !.type = Noted(scan.i, Type(x)), !.calculated = @ \cup {scan.i}]
         IN  /\ x.links > 0
             /\ Do(IF x.type \notin Types THEN Counted(s, FALSE)
                   ELSE Counted([s EXCEPT !.copy = r, !.is = scan.i,
                                   !.wrong = @ \cup {<<scan.i, f>> : f \in WrongFlags(x)},
                                   !.scanned = IF HasClusters(r) THEN @ \cup {scan.i} ELSE @],
                                FALSE))

\* After the last group the inodes that are reserved are taken to be in use,
\* and after pass 5 the maps are compared.
AllChecked ==
    /\ scan.pc = "table" /\ scan.i >= st.sb.inodes /\ st.pc = "pass3"
    /\ Do([scan EXCEPT !.pc = "checked", !.calculated = @ \cup 1..st.sb.first_inode - 1])

\* typecheck_inode without the inode, which passes 4 and 5 call for each.
LookUpTypes ==
    /\ scan.pc = "checked"
    /\ \E pc \in {"compared"} \cup {IF Inodes \ scan.eio \subseteq DOMAIN scan.type
                                    THEN "compared" ELSE "died"} :
         Do([scan EXCEPT !.pc = pc, !.differs = scan.map # scan.calculated])

CheckNext == \/ ReadTables \/ SkipGroup \/ Unreadable \/ NeverUsed \/ NotInUse \/ InUse
             \/ AllChecked \/ LookUpTypes
CheckSpec == Init /\ CheckInit
             /\ [][(Next /\ UNCHANGED <<disk, scan>>) \/ CheckNext]_<<fs, st, disk, scan>>
-----------------------------------------------------------------------------
AllInitialised == Groups \subseteq st.flags
WholeClusters  == (Ipg * 128) % ClusterBytes(fs.cs) = 0
Used(i)        == ~Virgin(i) /\ disk.inode[i].links > 0
Lost(i)        == <<GroupOf(i), ((i - 1) % Ipg) \div InodesPerBlock>> \in disk.lost

\* If all tables are initialised and fill their clusters, the inodes taken to
\* be in use are those that are, can be read or are reserved; and those with
\* clusters are handed on, each to be looked at once.
ScanRight ==
    scan.pc = "checked" /\ AllInitialised /\ WholeClusters =>
      LET read == {i \in Inodes : ~Lost(i)}
      IN  /\ \A i \in Inodes \ scan.eio : Lost(i) => Virgin(i)
          /\ scan.eio \cap read = {}
          /\ scan.calculated = {i \in read : Used(i)} \cup 1..st.sb.first_inode - 1
          /\ scan.scanned = {i \in read : Used(i) /\ HasClusters(disk.inode[i])}

\* An inode that cannot be read is said to have never been used only if one
\* before it in its group was not, and none between them is in use.
NeverUsedClaims ==
    \A i \in scan.never :
      \E f \in st.sb.first_inode..i - 1 :
        /\ GroupOf(f) = GroupOf(i)
        /\ f \in DOMAIN scan.type => scan.type[f] = "FREE"
        /\ \A k \in f..i : k \notin scan.calculated

\* An inode that was repaired needs no repair: none of its times is after the
\* last write, for one, whatever the super block said of that, and of its flags
\* those that were called wrong are, and no other.
RepairsSettle ==
    scan.is # Unset => /\ scan.copy = Repaired(scan.is, scan.copy)
                       /\ scan.copy.atime <= st.sb.wtime
                       /\ WrongFlags(scan.copy) = {w[2] : w \in {x \in scan.wrong : x[1] = scan.is}}

\* A file system without errors, with the inodes that are reserved, whose maps
\* are all in use, is not said to have a wrong map.
CleanMapAccepted ==
    (/\ scan.pc \in {"compared", "died"} /\ AllInitialised /\ disk.map
     /\ st.sb.first_inode <= st.sb.inodes + 1
     /\ disk.lost = {} /\ disk.uninit = {}
     /\ \A i \in Inodes : Virgin(i) => disk.inode[i] = Zero)
      => ~scan.differs

\* What the scan of the inode tables makes of the inodes: who is in use, what
\* cannot be known, how they are repaired and whether the map fits.
InodesRight == ScanRight /\ NeverUsedClaims /\ RepairsSettle /\ CleanMapAccepted

\* The clusters marked for the copies of the super block and the table are the
\* ones these were written to; of a single group the first may be missing.  A
\* file system without inodes is not looked at, and one of revision 0 has no
\* features, whatever the mask says.
MarksRight ==
    scan.pc = "checked" /\ Sane /\ Inodes # {} =>
      LET home(g) == fs.first + g * fs.cpg
          with    == {g \in Groups : GroupHasSuperBlock(OldRevision(fs.sb), g)}
          written == {<<home(g), <<"super", g>>>> : g \in with}
                     \cup UNION {{<<c, <<"table", g>>>> : c \in home(g) + 1..home(g) + GdtClusters} : g \in with}
      IN  \/ scan.marks = written
          \/ Groups = {0} /\ scan.marks = written \ {<<0, <<"super", 0>>>>}

\* typecheck_inode asserts that the type of an inode is known.
TypesKnown == scan.pc # "died"
-----------------------------------------------------------------------------
\* Why the properties above hold.  What passes 1 and 2 hand on: the numbers of
\* the super block on the device, its features if it may have any, and the
\* offset of the copies once one has been compared.
Sparse(sb) == sb.rev >= 1 /\ SPARSE_SUPER \in sb.ro
HandedOn ==
    /\ \A n \in {"cpg", "ipg", "inodes", "rev"} : st.sb[n] = fs.sb[n]
    /\ Sparse(st.sb) <=> Sparse(fs.sb)
    /\ st.pc \in {"features", "times", "pass3"} /\ SPARSE_SUPER \in st.sb.ro => Sparse(st.sb)
    /\ st.pc = "pass3" => st.sb.mtime <= st.sb.wtime
    /\ st.offset = {} \/ st.offset = {Offset(fs.cs)}
    /\ st.pc = "compare" => st.group \in Nat \ {0} /\ (st.group > 1 => st.offset # {})
    /\ st.pc \in {"numbers", "features", "times", "pass3"} /\ st.num_groups > 1 => st.offset # {}

\* Where the loop is: the group of the inode that is next is not behind the one
\* the loop is at, and is that one if no group was skipped.
Row == GroupOf(scan.i)
Placed ==
    /\ st.pc # "pass3" => scan = CheckStart
    /\ DOMAIN scan = DOMAIN CheckStart
    /\ scan.pc \in {"table", "inodes", "beyond", "checked", "compared", "died"}
    /\ scan.i \in Nat \ {0} /\ scan.group \in Nat
    /\ st.pc = "pass3" /\ scan.pc # "beyond" => scan.group <= st.num_groups
    /\ scan.pc = "inodes" => Inodes # {} /\ scan.group < st.num_groups
    /\ scan.pc = "table" /\ Inodes = {} => scan = CheckStart
    /\ st.pc = "pass3" /\ scan.pc \in {"table", "inodes"} /\ Inodes # {} =>
          /\ Row <= scan.group
          /\ AllInitialised => Row = scan.group
          /\ scan.pc = "table" \/ (scan.group \notin st.flags /\ Csum) => (scan.i - 1) % Ipg = 0
    /\ scan.pc \in {"checked", "compared", "died"} /\ Inodes # {} => scan.group = st.num_groups

\* The groups of which the tables were read, and what was marked for them.
Begun == IF scan.pc = "inodes" THEN scan.group + 1 ELSE scan.group
Home(f, g) == f.first + g * f.cpg
CopyOf(f, g, clusters) ==
    {<<Home(f, g), <<"super", g>>>>}
      \cup {<<c, <<"table", g>>>> : c \in Home(f, g) + 1..Home(f, g) + clusters}
Written(f, n, clusters) ==
    UNION {CopyOf(f, g, clusters) : g \in {h \in 0..n - 1 : GroupHasSuperBlock(OldRevision(f.sb), h)}}
Marked ==
    st.pc = "pass3" /\ Sane /\ scan.pc # "beyond" /\ Inodes # {} =>
      \/ scan.marks = Written(fs, Begun, GdtClusters)
      \/ /\ Groups = {0}
         /\ scan.marks = Written(fs, Begun, GdtClusters) \ {<<0, <<"super", 0>>>>}

\* Every inode is looked at once.
Once ==
    /\ \A w \in scan.wrong : w[1] \in 1..scan.i - 1
    /\ scan.pc \in {"table", "inodes"} =>
          /\ scan.calculated \cup DOMAIN scan.type \cup scan.never \subseteq 1..scan.i - 1

\* An inode that was never used and those behind it in its group.
FreeFrom(f, i) ==
    /\ GroupOf(f) = GroupOf(i)
    /\ f \in DOMAIN scan.type => scan.type[f] = "FREE"
    /\ \A k \in f..i : k \notin scan.calculated
HaveFree ==
    scan.pc = "inodes" /\ scan.have_free =>
      \E f \in st.sb.first_inode..scan.i - 1 : f > 0 /\ FreeFrom(f, scan.i)

\* What is known of the inodes looked at, if no group was skipped and no block
\* has inodes of two groups.
Bad(i)    == Lost(i) /\ ((i - 1) % Ipg) \div InodesPerBlock < BlocksRead(GroupOf(i))
Looping   == scan.pc \in {"table", "inodes"}
Seen      == IF Looping THEN 1..scan.i - 1 ELSE Inodes
Read      == {i \in Seen : Used(i) /\ ~Bad(i)}
Knowable  == /\ st.pc = "pass3" /\ scan.pc # "beyond"
             /\ AllInitialised /\ (WholeClusters \/ disk.lost = {})
Known ==
    Knowable =>
      /\ scan.pc = "inodes" => scan.in_slot = scan.group
      /\ scan.eio = {i \in Inodes : GroupOf(i) < Begun /\ Bad(i)}
      /\ scan.scanned = {i \in Read : HasClusters(disk.inode[i])}
      /\ scan.calculated = Read \cup IF Looping THEN {} ELSE 1..st.sb.first_inode - 1
      /\ disk.map /\ disk.uninit = {} => scan.map = {i \in MapOnDisk : GroupOf(i) < Begun}
      /\ scan.differs => scan.pc \in {"compared", "died"} /\ scan.map # scan.calculated
=============================================================================
