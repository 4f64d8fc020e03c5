------------------------------ MODULE MCPasses ------------------------------
(***************************************************************************)
(* The passes of fsck over the inodes: what becomes of their clusters      *)
(* (passes 3, 5 and 6), and of the graph of the directories (passes 4 and  *)
(* 5).  They share the kinds of the inodes and nothing else, so either is  *)
(* run, and the variables of the other stay as they are.                   *)
(***************************************************************************)
EXTENDS DumpFile

CONSTANTS NumInodes, MaxEntries

VARIABLES
    on,     \* "graph" or "clusters"
    kind, ents, pass, up, mark, problems, loopGroup, graph_ino, scan, group,
    isLoop, loops, steps

graphVars == <<
    kind, ents, pass, up, mark, problems, loopGroup, graph_ino, scan, group,
    isLoop, loops, steps>>
clusterVars == <<vars, dumpVars>>

\* Inode 1 is never a directory, 2 is the root, 3 and 4 are directories, and
\* 5 is a file or a directory with unreadable blocks.
MCKinds == {<<"file", "dir", "dir", "dir", k>> : k \in {"file", "dirEio"}}

MCEntries ==
  [from : {2, 3, 4}, name : {"name"}, to : {3, 4, 5}]
    \cup [from : {3, 4}, name : {".."}, to : {2, 3, 4, 5}]
    \cup {[from |-> d, name |-> ".", to |-> 3] : d \in {3, 4}}
    \cup {[from |-> 2, name |-> n, to |-> 2] : n \in {"..", "name"}}

MCLinkCount == <<0, 2, 2, 2, 1>>

\* Clusters of two blocks and two pointers.  Cluster 1 is of the tables, as is 2.
MCWorkers == {1, 2}
MCTables == <<[first |-> 1, num |-> 1], [first |-> 1, num |-> 1], [first |-> 2, num |-> 1]>>

\* Records of a directory: two names; one that reaches into the second block; a
\* deleted one; a length of zero.
Rec(i, r, l) == [ino |-> i, reclen |-> r, len |-> l]
TwoNames == [o \in 0..31 |-> IF o = 0 THEN Rec(1, 12, 1) ELSE Rec(2, 20, 2)]
Broken == [o \in 0..31 |-> IF o = 0 THEN Rec(0, 4, 0) ELSE Rec(2, 0, 1)]

NoNode == [depth |-> 0, entries |-> <<>>]
Inode1(dir, clusters, size) ==
  [isDir |-> dir, extents |-> FALSE, cluster |-> clusters, node |-> NoNode, size |-> size]
Extents(dir, n) ==
  [isDir |-> dir, extents |-> TRUE, cluster |-> <<0, 0, 0, 0>>, node |-> n, size |-> 4]

\* The first inode has indirect clusters: 3 of one level, 4 of two; what they point
\* to varies.  The second one is small.
Pointers3 == {<<6, 7>>, <<0, 5>>, <<3, 9>>}
Pointers4 == {<<3, 5>>, <<0, 3>>, <<5, 3>>}
MCInode1 ==
  {Inode1(dir, <<z, 3, 4, 0>>, 12) : dir \in BOOLEAN, z \in {0, 6}}
    \cup {Inode1(FALSE, <<6, 0, 0, 4>>, 13), Inode1(FALSE, <<0, 0, 4, 3>>, 5)}
MCInode2 ==
  {Inode1(TRUE, <<7, 0, 0, 0>>, 2), Inode1(FALSE, <<5, 3, 0, 0>>, 4), Inode1(FALSE, <<6, 5, 0, 0>>, 8),
   Extents(FALSE, [depth |-> 0, entries |-> <<[first |-> 5, len |-> 3]>>]),
   Extents(TRUE, [depth |-> 1, entries |-> <<7>>])}
MCBad == {{}, {<<3, 0>>}, {<<7, 1>>, <<6, 0>>}}

Disk(p3, p4, bad, i1, i2, used) ==
  [ptr |-> [c \in Clusters |-> IF c = 3 THEN p3 ELSE IF c = 4 THEN p4
                               ELSE IF c = 5 THEN <<7, 0>> ELSE <<0, 0>>],
   ext |-> [c \in Clusters |-> [depth |-> 0, entries |-> <<[first |-> 6, len |-> 1]>>]],
   dir |-> [c \in Clusters |-> IF c = 7 THEN Broken ELSE TwoNames],
   bad |-> bad, inode |-> <<i1, i2>>, used |-> used]
\* A rich inode next to a small one, and several small ones with little to wait for.
MCDisks ==
  {Disk(p3, p4, bad, i1, i2, used) :
     p3 \in {<<6, 7>>, <<0, 5>>}, p4 \in {<<3, 5>>, <<0, 3>>}, bad \in {{}, {<<3, 0>>, <<7, 1>>}},
     i1 \in MCInode1, i2 \in {Inode1(TRUE, <<7, 0, 0, 0>>, 2)}, used \in {1..9}}
  \cup
  {Disk(<<6, 7>>, <<5, 3>>, bad, i1, i2, used) :
     bad \in {{}, {<<7, 1>>, <<6, 0>>}}, i2 \in MCInode2,
     i1 \in {Inode1(FALSE, <<7, 5, 0, 0>>, 12), Inode1(TRUE, <<9, 5, 0, 0>>, 12)}, used \in {1..9, {1, 2, 5, 6, 7}, {1, 2, 5, 6, 7, 8, 9}}}

Graph    == INSTANCE DirGraph WITH Kinds <- MCKinds, Entries <- MCEntries,
                LinkCount <- MCLinkCount, ino <- graph_ino
ASSUME Graph!DirGraphAssumption

NoGraph ==
    /\ kind = 0 /\ ents = 0 /\ pass = 0 /\ up = 0 /\ mark = 0 /\ problems = 0
    /\ loopGroup = 0 /\ graph_ino = 0 /\ scan = 0 /\ group = 0 /\ isLoop = 0
    /\ loops = 0 /\ steps = 0
NoClusters ==
    /\ disk = 0 /\ threads = 0 /\ pc = 0 /\ todo = 0 /\ batch = 0 /\ marks = 0
    /\ old = 0 /\ owner = 0 /\ reported = 0 /\ count = 0 /\ found = 0 /\ empty = 0
    /\ ino = 0 /\ cluster = 0 /\ nind = 0 /\ file = 0 /\ haveErrors = 0
    /\ saved = 0 /\ done = 0 /\ map = 0 /\ differs = 0
PassesInit ==
        \/ on = "graph" /\ Graph!Init /\ NoClusters
        \/ on = "clusters" /\ DumpInit /\ NoGraph
PassesNext ==
        /\ UNCHANGED on
        /\ \/ on = "graph" /\ Graph!Next /\ UNCHANGED clusterVars
           \/ on = "clusters" /\ Next /\ UNCHANGED graphVars
PassesSpec == PassesInit /\ [][PassesNext]_<<on, graphVars, clusterVars>>

\* The assertions of pass 4d (fsck.c:1798 and 1801) hold, and the walks of pass 5
\* along the parents meet no missing one while they count, and end, as long as
\* no ".." names something that is not a directory.
WalksRight == on = "graph" => Graph!AssertionsHold /\ Graph!PathsEnd
\* A directory is in the group of the root, of an inode without parent or of a
\* loop as its chain of parents says (fsck.c:1763-1803), and none gets lost
\* silently: in every group but the root's some inode is said to have no parent
\* or to be part of a loop.
GraphRight == on = "graph" => Graph!GroupsRight /\ Graph!UnreachableReported

\* At the end of pass 3 a cluster has an owner exactly if somebody uses it, and the
\* owner is one of its users, whatever the batches and the threads did
\* (ext2.c, the calls of MARK_CLUSTERS_IN_USE_BY in chk_block).  "Cluster used
\* multiple times" comes for no cluster with one use, and for every one with
\* several, but for the race of two threads (bitmap.h:48).
EveryOwnerRight == on = "clusters" => OwnersRight /\ DoubleUseReported
\* The holes of a file that was read completely are the positions without a cluster
\* that have a pointer behind them (chk_block counts whole subtrees at a time).
EveryHoleCounted == on = "clusters" => HolesRight
\* Pass 6 calls the cluster map different exactly if it is not the set of the
\* clusters that the inodes and the tables use and of the bits behind the last.
MapRightlyJudged == on = "clusters" => MapJudgedRight
=============================================================================
