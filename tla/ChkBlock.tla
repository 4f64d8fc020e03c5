------------------------------ MODULE ChkBlock ------------------------------
(***************************************************************************)
(* The check of the clusters of the inodes in pass 3 of src/fs/ext2: the   *)
(* workers walk the trees of pointers and extents (do_chk_block, chk_block,*)
(* chk_extent_block), count what they find, read the directory clusters,   *)
(* and mark every cluster with its owner, in runs of adjacent clusters.    *)
(* The table reader marks the clusters of the group's tables meanwhile.    *)
(*                                                                         *)
(* Every worker checks one inode; how jobs are handed to workers is in     *)
(* JobPool.  The recursion of chk_block is the sequence todo of the calls  *)
(* that are still to be made; it ends, because an extent block is not      *)
(* expected to point to itself.  An access to the owner map is atomic, as    *)
(* ComCache shows, and the marks are made of several accesses, as in       *)
(* bitmap.h.                                                               *)
(***************************************************************************)
EXTENDS InodeTree

CONSTANTS Disks,            \* what may be on the disk
          Workers,          \* the inodes that are checked, numbered from 1
          Tables,           \* cluster maps and inode table: <<[first, num]>>
          PerEntry,         \* comc.clusters_per_entry
          ClusterOffset     \* cluster_offset

ASSUME ChkBlockAssumption ==
  /\ Workers = 1..Cardinality(Workers)
  /\ PerEntry \in Nat \ {0} /\ ClusterOffset \in {0, 1}

Reader == 0
Threads == {Reader} \cup Workers
TableOwner == Cardinality(Workers) + 1   \* -1, -2 or -3 minus 5 * group

VARIABLES
  disk,       \* the contents of the disk
  threads,    \* allow_concurrent_chk_block_function and the table reader
  pc,         \* "run", "get", "set" or "end"
  todo,       \* the calls still to be made
  batch,      \* schedule_first_cluster, schedule_num_clusters, schedule_containing
  marks,      \* c and num of the loop of MARK_CLUSTERS_IN_USE_BY
  old,        \* old_inode of MARK_CLUSTER_IN_USE_BY
  owner,      \* the owner map: 0 or who uses the cluster
  reported,   \* clusters reported as used multiple times
  count,      \* used, maybe, holes, illegal and errors of the inodes
  found,      \* directory entries put into inode_owning_map
  empty       \* directories reported as empty

vars == <<disk, threads, pc, todo, batch, marks, old, owner, reported,
          count, found, empty>>

Clusters == 0..NumClusters-1
None == [first |-> 0, num |-> 0]
NoBatch == [first |-> 0, num |-> 0, containing |-> 0]
NoCount == [used |-> 0, maybe |-> 0, holes |-> 0, illegal |-> 0, errors |-> 0]
Inode(w) == disk.inode[w]

Call(level, c, containing) == [kind |-> "block", level |-> level, c |-> c,
                               containing |-> containing]
Leaf(c) == [kind |-> "extent", level |-> 0, c |-> c, containing |-> 0]

\* The calls that a run of an extent makes, and those of an extent block.
Run(run, containing) ==
  [k \in 1..run.len |-> Call(0, run.first + k - 1, containing)]
RECURSIVE Runs(_, _)
Runs(entries, containing) ==
  IF entries = <<>> THEN <<>>
  ELSE Run(entries[1], containing) \o Runs(Tail(entries), containing)
ExtentCalls(node, containing) ==
  IF node.depth > 0 THEN [k \in DOMAIN node.entries |-> Leaf(node.entries[k])]
  ELSE Runs(node.entries, containing)

RootCalls(d, w) ==
  IF d.inode[w].extents THEN ExtentCalls(d.inode[w].node, 0)
  ELSE [k \in 1..NumZind + 3 |->
          Call(IF k <= NumZind THEN 0 ELSE k - NumZind, d.inode[w].cluster[k], 0)]

Init ==
  /\ disk \in Disks /\ threads \in BOOLEAN
  /\ pc = [t \in Threads |-> "run"]
  /\ todo = [t \in Threads |-> IF t = Reader THEN Tables ELSE RootCalls(disk, t)]
  /\ batch = [w \in Workers |-> NoBatch]
  /\ marks = [t \in Threads |-> None]
  /\ old = [t \in Threads |-> 0]
  /\ owner = [c \in Clusters |-> 0]
  /\ reported = {}
  /\ count = [w \in Workers |-> NoCount]
  /\ found = [w \in Workers |-> <<>>]
  /\ empty = {}

\* Without threads the main thread does everything, one after the other.
MayRun(t) == threads \/ \A s \in Threads : s < t => pc[s] = "end"

-----------------------------------------------------------------------------
(* Marking: set_owners goes on to the end of the clusters, to the end of   *)
(* an entry of the com cache, or to the first cluster that has an owner.   *)

EntryOf(c) == (c - ClusterOffset) \div PerEntry
Me(t) == IF t = Reader THEN TableOwner ELSE t

MarkLength(t) ==
  LET m == marks[t]
      free(n) == \A k \in m.first..m.first+n-1 :
                   EntryOf(k) = EntryOf(m.first) /\ owner[k] = 0
  IN  CHOOSE n \in 0..m.num : free(n) /\ (n = m.num \/ ~free(n + 1))

SetOwners(t) ==
  /\ pc[t] = "run" /\ marks[t].num > 0
  /\ LET m == marks[t]
         n == MarkLength(t)
     IN  /\ owner' = [c \in Clusters |->
                        IF c \in m.first..m.first+n-1 THEN Me(t) ELSE owner[c]]
         /\ marks' = [marks EXCEPT ![t] = [first |-> m.first + n, num |-> m.num - n]]
         /\ pc' = [pc EXCEPT ![t] =
              IF n < m.num /\ EntryOf(m.first + n) = EntryOf(m.first) THEN "get" ELSE "run"]
  /\ UNCHANGED <<disk, threads, todo, batch, old, reported, count, found, empty>>

GetOwner(t) ==
  /\ pc[t] = "get"
  /\ old' = [old EXCEPT ![t] = owner[marks[t].first]]
  /\ pc' = [pc EXCEPT ![t] = "set"]
  /\ UNCHANGED <<disk, threads, todo, batch, marks, owner, reported, count,
                 found, empty>>

SetOwner(t) ==
  /\ pc[t] = "set"
  /\ owner' = [owner EXCEPT ![marks[t].first] = Me(t)]
  /\ reported' = IF old[t] # 0 THEN reported \cup {marks[t].first} ELSE reported
  /\ marks' = [marks EXCEPT ![t] = [first |-> @.first + 1, num |-> @.num - 1]]
  /\ pc' = [pc EXCEPT ![t] = "run"]
  /\ UNCHANGED <<disk, threads, todo, batch, old, count, found, empty>>

\* read_table_for_one_group: the cluster and the inode allocation map are marked
\* one by one, the inode table as a run.
MarkTables ==
  /\ MayRun(Reader) /\ pc[Reader] = "run" /\ marks[Reader].num = 0
  /\ IF todo[Reader] = <<>>
     THEN pc' = [pc EXCEPT ![Reader] = "end"] /\ UNCHANGED <<todo, marks>>
     ELSE /\ todo' = [todo EXCEPT ![Reader] = Tail(@)]
          /\ marks' = [marks EXCEPT ![Reader] = Head(todo[Reader])]
          /\ pc' = [pc EXCEPT ![Reader] = IF Len(todo[Reader]) > 1 THEN "get" ELSE "run"]
  /\ UNCHANGED <<disk, threads, batch, old, owner, reported, count, found, empty>>

-----------------------------------------------------------------------------
(* The walk.  A worker makes its next call when its marks are made.        *)

Ready(w) == MayRun(w) /\ pc[w] = "run" /\ marks[w].num = 0
Next1(w) == Head(todo[w])
Calls(w, kind) ==
  Ready(w) /\ todo[w] # <<>> /\ Next1(w).kind = kind

\* isc_schedule_cluster_add: lengthen the batch or flush it and begin another.
Adjacent(w, call) ==
  batch[w].first + batch[w].num = call.c /\ batch[w].containing = call.containing
Schedule(w, call) ==
  IF Adjacent(w, call)
  THEN batch' = [batch EXCEPT ![w].num = @ + 1] /\ UNCHANGED marks
  ELSE /\ batch' = [batch EXCEPT ![w] =
                      [first |-> call.c, num |-> 1, containing |-> call.containing]]
       /\ marks' = [marks EXCEPT ![w] = [first |-> batch[w].first, num |-> batch[w].num]]

\* A pointer 0: a hole, if anything follows.
Hole(w) ==
  /\ Calls(w, "block") /\ Next1(w).c = 0
  /\ count' = [count EXCEPT ![w].maybe = @ + 2^(Next1(w).level * Shift)]
  /\ todo' = [todo EXCEPT ![w] = Tail(@)]
  /\ UNCHANGED <<disk, threads, pc, batch, marks, old, owner, reported, found, empty>>

\* Variant: maybe_holes is not reset when the holes are counted.
HolesCountedTwice(w) == [count[w] EXCEPT !.holes = @ + count[w].maybe]

HolesCounted(w) == [count[w] EXCEPT !.holes = @ + count[w].maybe, !.maybe = 0]

Illegal(w) ==
  /\ Calls(w, "block") /\ Next1(w).c >= NumClusters
  /\ count' = [count EXCEPT ![w] = [HolesCounted(w) EXCEPT !.illegal = @ + 1]]
  /\ todo' = [todo EXCEPT ![w] = Tail(@)]
  /\ UNCHANGED <<disk, threads, pc, batch, marks, old, owner, reported, found, empty>>

\* A cluster of data: a directory cluster is read, another one is left alone
\* (no surface scan).
Data(w) ==
  /\ Calls(w, "block") /\ Legal(Next1(w).c) /\ Next1(w).level = 0
  /\ Schedule(w, Next1(w))
  /\ LET records == DirRecords(disk, Next1(w).c)
         eio == Inode(w).isDir /\ records.eio
     IN  /\ count' = [count EXCEPT ![w] =
              [HolesCounted(w) EXCEPT !.used = @ + 1, !.errors = @ + IF eio THEN 1 ELSE 0]]
         /\ found' = IF Inode(w).isDir THEN [found EXCEPT ![w] = @ \o records.entries]
                                       ELSE found
  /\ todo' = [todo EXCEPT ![w] = Tail(@)]
  /\ UNCHANGED <<disk, threads, pc, old, owner, reported, empty>>

\* An indirect cluster: the calls for its pointers come before the others.
Indirect(w) ==
  /\ Calls(w, "block") /\ Legal(Next1(w).c) /\ Next1(w).level > 0
  /\ Schedule(w, Next1(w))
  /\ LET c == Next1(w).c
         followed == Followed(disk, c)
     IN  /\ todo' = [todo EXCEPT ![w] =
              [k \in DOMAIN followed |->
                 Call(Next1(w).level - 1, disk.ptr[c][followed[k]], c)] \o Tail(@)]
         /\ count' = [count EXCEPT ![w] =
              [HolesCounted(w) EXCEPT !.used = @ + 1,
                 !.errors = @ + IF AllReadable(disk, c) THEN 0 ELSE 1]]
  /\ UNCHANGED <<disk, threads, pc, old, owner, reported, found, empty>>

\* An extent block: counted as used but not marked; skipped when it cannot be
\* read, which is not counted as an error of the inode.
Extent(w) ==
  /\ Calls(w, "extent")
  /\ LET c == Next1(w).c
     IN  IF AllReadable(disk, c)
         THEN /\ count' = [count EXCEPT ![w].used = @ + 1]
              /\ todo' = [todo EXCEPT ![w] = ExtentCalls(disk.ext[c], c) \o Tail(@)]
         ELSE todo' = [todo EXCEPT ![w] = Tail(@)] /\ UNCHANGED count
  /\ UNCHANGED <<disk, threads, pc, batch, marks, old, owner, reported, found, empty>>

\* Variant: the last batch of an inode is dropped.
FlushNothing(w) ==
  /\ Ready(w) /\ todo[w] = <<>> /\ batch[w].num > 0
  /\ batch' = [batch EXCEPT ![w] = NoBatch]
  /\ UNCHANGED <<disk, threads, pc, todo, marks, old, owner, reported, count, found, empty>>

\* The end of do_chk_block: the last batch is flushed, then the counts are judged.
Flush(w) ==
  /\ Ready(w) /\ todo[w] = <<>> /\ batch[w].num > 0
  /\ marks' = [marks EXCEPT ![w] = [first |-> batch[w].first, num |-> batch[w].num]]
  /\ batch' = [batch EXCEPT ![w] = NoBatch]
  /\ UNCHANGED <<disk, threads, pc, todo, old, owner, reported, count, found, empty>>

Judge(w) ==
  /\ Ready(w) /\ todo[w] = <<>> /\ batch[w].num = 0
  /\ pc' = [pc EXCEPT ![w] = "end"]
  /\ empty' = IF Inode(w).isDir /\ found[w] = <<>>
                 /\ count[w].illegal = 0 /\ count[w].errors = 0
              THEN empty \cup {w} ELSE empty
  /\ UNCHANGED <<disk, threads, todo, batch, marks, old, owner, reported,
                 count, found>>

Worker(w) == Hole(w) \/ Illegal(w) \/ Data(w) \/ Indirect(w) \/ Extent(w)
             \/ Flush(w) \/ Judge(w)
Mark(t) == SetOwners(t) \/ GetOwner(t) \/ SetOwner(t)

Scan == MarkTables \/ (\E w \in Workers : Worker(w)) \/ (\E t \in Threads : Mark(t))
Scanned == \A t \in Threads : pc[t] = "end"

-----------------------------------------------------------------------------
(* Properties *)

ScanTypeOK ==
  /\ threads \in BOOLEAN
  /\ pc \in [Threads -> {"run", "get", "set", "end"}]
  /\ batch \in [Workers -> [first : 0..NumClusters, num : 0..NumClusters,
                            containing : 0..NumClusters]]
  /\ marks \in [Threads -> [first : 0..NumClusters, num : 0..NumClusters]]
  /\ old \in [Threads -> 0..TableOwner]
  /\ owner \in [Clusters -> 0..TableOwner]
  /\ reported \subseteq Clusters
  /\ count \in [Workers -> [DOMAIN NoCount -> Nat]]
  /\ found \in [Workers -> Seq(Nat)]
  /\ empty \subseteq Workers

\* The pointers in the tree of an inode, each at the first position it covers.
Pointers ==
  {<<p, l>> \in (0..NumPositions-1) \X (0..3) :
     l <= Level[p] /\ (p - SpanStart[Level[p]]) % 2^(l * Shift) = 0}

\* Who uses a cluster, and where.
TreeUses(w) == {<<PointerAt(disk, w, x[1], x[2]), w, x>> : x \in Pointers}
RunUses(w) ==
  UNION {{<<Inode(w).node.entries[k].first + n, w, <<k, n>> >> :
            n \in 0..Inode(w).node.entries[k].len-1} : k \in DOMAIN Inode(w).node.entries}
TableUses ==
  UNION {{<<Tables[k].first + n, TableOwner, <<k, n>> >> : n \in 0..Tables[k].num-1} :
           k \in DOMAIN Tables}
Uses == TableUses \cup UNION {IF Inode(w).extents THEN RunUses(w) ELSE TreeUses(w) : w \in Workers}

\* Extent blocks outside of the inode are not marked: what follows is about
\* inodes that have none.
NoExtentBlocks == \A w \in Workers : Inode(w).extents => Inode(w).node.depth = 0
DataClusters == Clusters \ {0}

\* At the end a cluster has an owner exactly if somebody uses it, and the owner is
\* one of its users: no step of the batches, the runs that stop at the end of an
\* entry or at a used cluster, and the marks of the other threads loses or invents
\* one.
OwnersRight ==
  Scanned /\ NoExtentBlocks =>
    LET uses == Uses
    IN  \A c \in DataClusters :
          IF owner[c] = 0 THEN \A x \in uses : x[1] # c
                          ELSE \E x \in uses : x[1] = c /\ x[2] = owner[c]

\* The message "Cluster used multiple times" comes for no cluster with one use; it
\* comes for every cluster with several when there are no threads, and for every
\* one that an inode itself uses twice in any case: set_owners and the two steps of
\* MARK_CLUSTER_IN_USE_BY leave no hole between them but the race of two threads.
DoubleUseReported ==
  Scanned /\ NoExtentBlocks =>
    LET uses == Uses
        several(S) == \E x, y \in S : x # y
    IN  \A c \in DataClusters :
          LET here == {x \in uses : x[1] = c}
              users == {x[2] : x \in here}
          IN  /\ c \in reported => several(here)
              /\ several(here) /\ (~threads \/ (users \subseteq Workers /\ ~several(users)))
                   => c \in reported

\* The holes of a file that was read completely are the positions without a cluster
\* that have a pointer behind them: chk_block counts whole subtrees at a time, and
\* only once something follows.
HolesRight ==
  \A w \in Workers :
    Scanned /\ ~Inode(w).extents /\ count[w].illegal = 0 /\ count[w].errors = 0 =>
      count[w].holes =
        Cardinality({p \in 0..NumPositions-1 :
          /\ ClusterAt(disk, w, p) = 0
          /\ \E x \in Pointers : x[1] > p /\ PointerAt(disk, w, x[1], x[2]) # 0})

\* "We report missing . and .. entries only, if the directory doesn't contain
\* illegal clusters and we could successfully read all clusters" (ext2.c:1177-1179).
RECURSIVE ExtentReadable(_)
ExtentReadable(node) ==
  node.depth > 0 => \A k \in DOMAIN node.entries :
                      /\ AllReadable(disk, node.entries[k])
                      /\ ExtentReadable(disk.ext[node.entries[k]])
EmptyOnlyIfComplete ==
  \A w \in empty : Inode(w).extents => ExtentReadable(Inode(w).node)

=============================================================================
