------------------------------ MODULE DumpFile ------------------------------
(***************************************************************************)
(* What the main thread does when every cluster has its owner: pass 5      *)
(* copies the files to a rescue directory (ext2_dump_file_by_inode), with  *)
(* the indirect clusters kept in one buffer per level                      *)
(* (ext2_inode_translate_cluster), and pass 6 builds the allocation map    *)
(* that the owners make and compares it with the one on the disk.          *)
(*                                                                         *)
(* A file that was written is the function from its blocks to what is in   *)
(* them; blocks that were only sought over are not in its domain.          *)
(***************************************************************************)
EXTENDS ChkBlock

CONSTANTS WordBlocks,   \* the blocks that inode->size without size_high counts
          LbaBlocks,    \* the blocks that lba can count (2^32)
          MapEnd        \* the cluster behind the last one that the maps have a bit for

ASSUME DumpFileAssumption ==
  WordBlocks \in Nat \ {0} /\ LbaBlocks \in Nat \ {0} /\ MapEnd \in Nat /\ MapEnd >= NumClusters

VARIABLES
  ino,        \* the inode whose turn it is in pass 5
  cluster,    \* the cluster to be copied, Closed, or CutOff: a write has failed
  nind,       \* nind_number and nind_buffer of the levels
  file,       \* what was written to rescue.tmp
  haveErrors,
  saved,      \* inode -> the file, whether it is in rescued/ok, and whether
              \* it was written to its end
  done,       \* pass 6: the next cluster; and the calculated map
  map,
  differs     \* "unknown", or whether the maps differ

dumpVars == <<ino, cluster, nind, file, haveErrors, saved, done, map, differs>>

Closed == NumPositions + 1
CutOff == NumPositions + 2
ErrorText == <<>>       \* "PHYSICAL DISK-IO ERROR"
NoInd == [level \in 1..3 |-> [number |-> 0, buffer |-> <<>>]]

DumpInit ==
  /\ Init
  /\ ino = 1 /\ cluster = Closed /\ nind = NoInd /\ file = <<>> /\ haveErrors = FALSE
  /\ saved = <<>> /\ done = ClusterOffset /\ map = {} /\ differs = "unknown"

-----------------------------------------------------------------------------

\* The buffers when indirect cluster c is needed at a level.
Fetch(buffers, level, c) ==
  IF buffers[level].number = c THEN buffers
  ELSE [buffers EXCEPT ![level] = [number |-> c, buffer |-> Buffer(disk, c)]]

\* ext2_inode_translate_cluster, from pointer c at a level on: the cluster, and the
\* buffers, which now hold the indirect clusters on the way.
RECURSIVE Translate(_, _, _, _)
Translate(buffers, level, c, q) ==
  IF level = 0 \/ c = 0 \/ c = Unreadable THEN [cluster |-> c, nind |-> buffers]
  ELSE LET now == Fetch(buffers, level, c)
           span == 2^((level - 1) * Shift)
       IN  Translate(now, level - 1, now[level].buffer[q \div span + 1], q % span)
TranslateCluster(p) ==
  IF p >= NumPositions THEN [cluster |-> 0, nind |-> nind]
  ELSE Translate(nind, Level[p], Inode(ino).cluster[RootIndex(p)], p - SpanStart[Level[p]])

NumFileClusters(size) == (size + ClusterBlocks - 1) \div ClusterBlocks
\* The blocks of the last cluster that the file has.
BlocksOf(p, size) ==
  IF p + 1 = NumFileClusters(size) THEN size - p * ClusterBlocks ELSE ClusterBlocks

Dumping == Scanned /\ ino \in Workers
Skipped == Inode(ino).size % WordBlocks = 0   \* !inode->data.size

NextInode ==
  /\ Dumping /\ cluster = Closed /\ Inode(ino).isDir
  /\ ino' = ino + 1
  /\ UNCHANGED <<vars, cluster, nind, file, haveErrors, saved, done, map, differs>>

Open ==
  /\ Dumping /\ cluster = Closed /\ ~Inode(ino).isDir
  /\ cluster' = 0 /\ nind' = NoInd /\ file' = <<>> /\ haveErrors' = FALSE
  /\ UNCHANGED <<vars, ino, saved, done, map, differs>>

Remember(content, ok) ==
  saved' = [i \in DOMAIN saved \cup {ino} |->
              IF i = ino THEN [file |-> content, ok |-> ok, full |-> cluster # CutOff]
              ELSE saved[i]]

\* ext2_get_inode cannot read the block of the inode any more.
OpenFails ==
  /\ Dumping /\ cluster = Closed /\ ~Inode(ino).isDir
  /\ Remember(<<>>, FALSE)
  /\ ino' = ino + 1
  /\ UNCHANGED <<vars, cluster, nind, file, haveErrors, done, map, differs>>

\* Block b of cluster c, read and turned into what is written: the number of the
\* block on the device has 32 bits.
Lba(c, b) == (ClusterBlocks * c + b) % LbaBlocks
Copy(c, b) ==
  LET cl  == Lba(c, b) \div ClusterBlocks
      rel == Lba(c, b) % ClusterBlocks
  IN  IF Readable(disk, cl, rel) THEN <<cl, rel>> ELSE ErrorText

Copying ==
  /\ Dumping /\ cluster \notin {Closed, CutOff} /\ ~Skipped
  /\ cluster < NumFileClusters(Inode(ino).size)
Blocks(n) == 0..n-1
\* The file when the first n blocks of the cluster c at a position were written.
Written(c, n) ==
  LET start == cluster * ClusterBlocks
  IN  [k \in DOMAIN file \cup {start + b : b \in Blocks(n)} |->
         IF k >= start THEN Copy(c, k - start) ELSE file[k]]

DumpCluster ==
  /\ Copying
  /\ LET t == TranslateCluster(cluster)
         n == BlocksOf(cluster, Inode(ino).size)
         copied == t.cluster # 0 /\ t.cluster # Unreadable
     IN  /\ nind' = t.nind
         /\ file' = IF copied THEN Written(t.cluster, n) ELSE file
         /\ haveErrors' = (haveErrors \/ t.cluster = Unreadable
              \/ (copied /\ \E b \in Blocks(n) : Copy(t.cluster, b) = ErrorText))
  /\ cluster' = cluster + 1
  /\ UNCHANGED <<vars, ino, saved, done, map, differs>>

\* A block is not written, or only a part of it: the rest of the file is given up.
\* What there is of the block does not count.
WriteFails ==
  /\ Copying
  /\ LET t == TranslateCluster(cluster)
     IN  /\ t.cluster # 0 /\ t.cluster # Unreadable
         /\ nind' = t.nind
         /\ \E n \in Blocks(BlocksOf(cluster, Inode(ino).size)) : file' = Written(t.cluster, n)
  /\ haveErrors' = TRUE /\ cluster' = CutOff
  /\ UNCHANGED <<vars, ino, saved, done, map, differs>>

Close ==
  /\ Dumping /\ cluster # Closed
  /\ Skipped \/ cluster = CutOff \/ cluster = NumFileClusters(Inode(ino).size)
  /\ Remember(file, ~haveErrors)
  /\ ino' = ino + 1 /\ cluster' = Closed
  /\ UNCHANGED <<vars, nind, file, haveErrors, done, map, differs>>

-----------------------------------------------------------------------------
(* Pass 6 goes through the owners entry by entry.                          *)

PerEntryNow == IF NumClusters < PerEntry THEN NumClusters ELSE PerEntry

LastEntry == (NumClusters - 1) \div PerEntryNow

\* The bits behind the last cluster are set when all entries are done.
Padding == NumClusters..MapEnd-1
PaddingAt(c) == IF c >= NumClusters THEN Padding ELSE {}

\* Variant: the first cluster of an entry is left out.
BuildMapFromOne ==
  /\ Scanned /\ ino \notin Workers /\ done < NumClusters
  /\ LET n == IF (done - ClusterOffset) \div PerEntryNow = LastEntry
              THEN NumClusters - done ELSE PerEntryNow
     IN  /\ map' = map \cup {c \in done+1..done+n-1 : c \in Clusters /\ owner[c] # 0}
                    \cup PaddingAt(done + n)
         /\ done' = done + n
  /\ UNCHANGED <<vars, ino, cluster, nind, file, haveErrors, saved, differs>>

BuildMap ==
  /\ Scanned /\ ino \notin Workers /\ done < NumClusters
  /\ LET n == IF (done - ClusterOffset) \div PerEntryNow = LastEntry
              THEN NumClusters - done ELSE PerEntryNow
     IN  /\ map' = map \cup {c \in done..done+n-1 : c \in Clusters /\ owner[c] # 0}
                    \cup PaddingAt(done + n)
         /\ done' = done + n
  /\ UNCHANGED <<vars, ino, cluster, nind, file, haveErrors, saved, differs>>

CompareMaps ==
  /\ Scanned /\ ino \notin Workers /\ done >= NumClusters /\ differs = "unknown"
  /\ differs' = IF map = disk.used THEN "no" ELSE "yes"
  /\ UNCHANGED <<vars, ino, cluster, nind, file, haveErrors, saved, done, map>>

Next ==
  \/ Scan /\ UNCHANGED dumpVars
  \/ NextInode \/ Open \/ OpenFails \/ DumpCluster \/ WriteFails \/ Close
  \/ BuildMap \/ CompareMaps

Spec == DumpInit /\ [][Next]_<<vars, dumpVars>>

-----------------------------------------------------------------------------
(* Properties *)

TypeOK ==
  /\ ScanTypeOK
  /\ ino \in 1..TableOwner /\ cluster \in 0..CutOff /\ haveErrors \in BOOLEAN
  /\ \A l \in 1..3 : nind[l].number \in Nat /\ nind[l].buffer \in Seq(0..Unreadable)
  /\ DOMAIN file \subseteq Nat /\ DOMAIN saved \subseteq Workers
  /\ done \in ClusterOffset..NumClusters /\ map \subseteq Clusters \cup Padding
  /\ differs \in {"unknown", "no", "yes"}

\* A rescued file without extents has in every block what the tree of the disk has
\* at that position, read without any buffer: data, the error text, or nothing; if a
\* write failed this is so up to there; and it is put into rescued/ok only if every
\* block was readable and written.  This leaves out the files whose size is a multiple
\* of 2^32, of which nothing is copied, and the data of blocks from 2^32 on, in whose
\* place others are read.
Place(i, b) ==
  LET p == b \div ClusterBlocks
  IN  IF p >= NumPositions THEN 0 ELSE ClusterAt(disk, i, p)

FaithfulAt(i, b) ==
  LET f      == saved[i].file
      c      == Place(i, b)
      rel    == b % ClusterBlocks
      beyond == ClusterBlocks * c + rel >= LbaBlocks
      data   == Readable(disk, c, rel)
  IN  IF c = 0 \/ c = Unreadable THEN b \notin DOMAIN f
      ELSE /\ b \in DOMAIN f
           /\ ~beyond => f[b] = IF data THEN <<c, rel>> ELSE ErrorText
           /\ saved[i].ok => beyond \/ data
DumpFaithful ==
  \A i \in DOMAIN saved :
    ~Inode(i).extents /\ Inode(i).size % WordBlocks # 0 /\ (saved[i].ok \/ saved[i].file # <<>>) =>
      LET all  == Blocks(Inode(i).size)
          last == DOMAIN saved[i].file
      IN  /\ last \subseteq all
          /\ saved[i].ok => saved[i].full
          /\ \A b \in all : saved[i].full \/ (\E k \in last : b <= k) => FaithfulAt(i, b)

\* The map on the disk is called different exactly if it is not the set of the
\* clusters that the inodes and the tables use, with the bits behind the last cluster.
MapJudgedRight ==
  differs # "unknown" /\ NoExtentBlocks =>
    (differs = "no" <=> disk.used = ({x[1] : x \in Uses} \cap DataClusters) \cup Padding)

=============================================================================
