----------------------------- MODULE InodeTree ------------------------------
(***************************************************************************)
(* What the disk says of the clusters of an inode, and the two ways        *)
(* ext2.c reads it: the pointers in an indirect cluster or an extent block *)
(* (chk_block, chk_extent_block), the entries in a directory cluster       *)
(* (process_dir_cluster), and the cluster at a position of a file          *)
(* (ext2_inode_translate_cluster).                                         *)
(*                                                                         *)
(* A disk is a record:                                                     *)
(*   ptr[c]    the pointers in cluster c, read as an indirect cluster;     *)
(*   ext[c]    cluster c read as an extent block: depth and entries, which *)
(*             are clusters of blocks (depth > 0) or runs [first, len];    *)
(*   dir[c]    cluster c read as directory records: offset -> [ino, reclen,*)
(*             len], where len is the length of the name;                  *)
(*   bad       the unreadable blocks, as <<cluster, block>>;               *)
(*   inode[i]  [isDir, extents, cluster, node, size], where node is the    *)
(*             extent block in the inode and size counts blocks;           *)
(*   used      the clusters that the cluster allocation map says are used. *)
(* Only unsorted extents and bad headers, which are reported and otherwise *)
(* taken as they are, are left out of it.                                  *)
(***************************************************************************)
EXTENDS Naturals, Sequences, FiniteSets

CONSTANTS NumClusters,     \* sb->num_clusters
          ClusterBlocks,   \* cluster_size_Blocks
          Shift,           \* num_clusterpointers_per_cluster_shift
          NumZind,         \* NUM_ZIND
          BlockBytes       \* block_size_Bytes

ASSUME InodeTreeAssumption ==
  /\ NumClusters \in Nat \ {0} /\ ClusterBlocks \in Nat \ {0} /\ Shift \in Nat
  /\ NumZind \in Nat /\ BlockBytes \in Nat \ {0}
  /\ 2^Shift % ClusterBlocks = 0

Unreadable == NumClusters + 1   \* stands for the pointer (u32)-1
Legal(c) == c # 0 /\ c < NumClusters
PointersPerBlock == 2^Shift \div ClusterBlocks

Readable(d, c, b) == c < NumClusters /\ <<c, b>> \notin d.bad
AllReadable(d, c) == \A b \in 0..ClusterBlocks-1 : Readable(d, c, b)

-----------------------------------------------------------------------------
(* The indices of the pointers of an indirect cluster that chk_block       *)
(* follows, in order: those in readable blocks.                            *)
Followed(d, c) ==
  SelectSeq([k \in 1..2^Shift |-> k],
            LAMBDA k : Readable(d, c, (k - 1) \div PointersPerBlock))

\* What translate finds in the buffer of an indirect cluster: a block that
\* could not be read is filled with ones.
Pointer(d, c, k) ==
  IF Readable(d, c, (k - 1) \div PointersPerBlock) THEN d.ptr[c][k] ELSE Unreadable
Buffer(d, c) == [k \in 1..2^Shift |-> Pointer(d, c, k)]

-----------------------------------------------------------------------------
(* The position p of a file: the level of the pointer in the inode that    *)
(* covers it, the index of that pointer, and the position below it.        *)
Spans(level) == IF level = 0 THEN NumZind ELSE 2^(level * Shift)
SpanStart[level \in 0..4] == IF level = 0 THEN 0 ELSE SpanStart[level - 1] + Spans(level - 1)
NumPositions == SpanStart[4]

Level ==
  [p \in 0..NumPositions-1 |->
     CHOOSE l \in 0..3 : SpanStart[l] <= p /\ p < SpanStart[l] + Spans(l)]
RootIndex(p) == IF Level[p] = 0 THEN p + 1 ELSE NumZind + Level[p]

\* The definition of the tree: the pointer of level "stop" on the way from pointer
\* c of a level to position q under it.
RECURSIVE Below(_, _, _, _, _)
Below(d, c, level, q, stop) ==
  IF level = stop \/ c = 0 \/ c = Unreadable THEN c
  ELSE Below(d, Pointer(d, c, q \div 2^((level - 1) * Shift) + 1),
             level - 1, q % 2^((level - 1) * Shift), stop)
PointerAt(d, i, p, stop) ==
  Below(d, d.inode[i].cluster[RootIndex(p)], Level[p], p - SpanStart[Level[p]], stop)
ClusterAt(d, i, p) == PointerAt(d, i, p, 0)

-----------------------------------------------------------------------------
(* process_dir_cluster reads the blocks of a directory cluster when a      *)
(* record needs them.  READ_NEXT_BLOCK_FOR(n): from the blocks below       *)
(* "valid", skip those that the record begins behind, then read up to the  *)
(* end of the n bytes.                                                     *)
RecordHead == 8   \* inode, record length, name length, type
SkipTo(o, valid) == IF o > valid THEN (o \div BlockBytes) * BlockBytes ELSE valid
NeededBlocks(o, n, valid) ==
  {b \in 0..ClusterBlocks : SkipTo(o, valid) <= b * BlockBytes /\ b * BlockBytes < o + n}
ValidAfter(o, n, valid) ==
  IF o + n <= valid THEN valid
  ELSE ((o + n + BlockBytes - 1) \div BlockBytes) * BlockBytes

\* The scan of the records from offset o on: the entries, whether a block could
\* not be read, and the blocks that were read.
RECURSIVE DirScan(_, _, _, _, _)
DirScan(d, c, o, valid, read) ==
  LET rec == d.dir[c][o]
      head == NeededBlocks(o, RecordHead, valid)
      name == NeededBlocks(o, RecordHead + rec.len, ValidAfter(o, RecordHead, valid))
      stop(entries, eio, blocks) == [entries |-> entries, eio |-> eio, read |-> blocks]
      rest(length, v, blocks) == DirScan(d, c, o + length, v, blocks)
  IN  IF o >= ClusterBlocks * BlockBytes THEN stop(<<>>, FALSE, read)
      ELSE IF \E b \in head : ~Readable(d, c, b) THEN stop(<<>>, TRUE, read \cup head)
      ELSE IF rec.reclen = 0 THEN stop(<<>>, FALSE, read \cup head)
      ELSE IF rec.ino = 0
           THEN rest(IF rec.reclen < RecordHead THEN RecordHead ELSE rec.reclen,
                     ValidAfter(o, RecordHead, valid), read \cup head)
      ELSE IF \E b \in name : ~Readable(d, c, b) THEN stop(<<>>, TRUE, read \cup head \cup name)
      ELSE LET r == rest(rec.reclen, ValidAfter(o, RecordHead + rec.len, ValidAfter(o, RecordHead, valid)),
                         read \cup head \cup name)
           IN  [r EXCEPT !.entries = <<rec.ino>> \o @]
DirRecords(d, c) == DirScan(d, c, 0, 0, {})
=============================================================================
