--------------------------------- MODULE Lvm ---------------------------------
(***************************************************************************)
(* The lvm driver (bdev/lvm/lvm.c): a volume group on several disks, which *)
(* may be given in any order, and an access to one of its logical volumes, *)
(* which is made of segments.                                              *)
(*                                                                         *)
(* dev.of are the disks as given in the arguments, dev.uuid their uuids,   *)
(* dev.pv the uuids of the physical volumes as the metadata list them,     *)
(* dev.lvs the logical volumes, sequences of segments.  A block of metadata*)
(* comes before the extents of a disk.                                     *)
(***************************************************************************)
EXTENDS BlockDevice, Sequences

CONSTANTS
    PeSize,     \* blocks of an extent
    PeCount,    \* extents of a physical volume
    LvAccess    \* bound: blocks of an access

VARIABLES dev, st

Disks   == 1..2
PeStart == 1
DiskLen == PeStart + PeSize * PeCount
Segment == [pv : Disks, start : {0}, phys : 0..PeCount - 1, num : 1..PeCount]
After(s, t) == {[t EXCEPT !.start = n] : n \in {s.num, s.num + 1}}
Volumes == {<<<<s>>>> : s \in Segment}
             \cup UNION {{<<<<s, u>>>> : u \in After(s, t)} : s, t \in Segment}
             \cup {<<<<s>>, <<t>>>> : s, t \in Segment}
Extents(s) == {<<s.pv, e>> : e \in s.phys..s.phys + s.num - 1}
Segments(lvs) == UNION {{<<l, s>> : s \in DOMAIN lvs[l]} : l \in DOMAIN lvs}
\* Metadata that the LVM tools wrote: no extent is in two segments.
Disjoint(lvs) ==
    /\ \A x \in Segments(lvs) : LET s == lvs[x[1]][x[2]] IN s.phys + s.num <= PeCount
    /\ \A x, y \in Segments(lvs) :
         x # y => Extents(lvs[x[1]][x[2]]) \cap Extents(lvs[y[1]][y[2]]) = {}

Init ==
    \E lvs \in {v \in Volumes : Disjoint(v)}, bad \in {{}, PeStart..DiskLen - 1} \cup {{b} : b \in PeStart..DiskLen - 1},
       uuid \in {<<"u1", "u2">>, <<"u2", "u1">>, <<"u1", "u1">>, <<"u3", "u2">>},
       stacked \in BOOLEAN :
      /\ bad # {} => uuid = <<"u2", "u1">>       \* bound: one thing goes wrong
      /\ stacked => bad # {}
      /\ dev = [driver |-> "lvm", lvs |-> lvs, uuid |-> uuid, pv |-> <<"u1", "u2">>,
                of |-> [d \in Disks |-> [size |-> DiskLen, bad |-> IF d = 1 THEN bad ELSE {},
                                         stacked |-> d = 1 /\ stacked]]]
      /\ st = [pc |-> "label", d |-> 1, l |-> 1, s |-> 1, at |-> 0, disk |-> [p \in Disks |-> 0],
               skipped |-> FALSE, regs |-> {}, refcount |-> 0,
               free |-> [p \in Disks |-> <<[offset |-> 0, size |-> PeCount]>>],
               write |-> FALSE, begin |-> 0, asked |-> 0, first |-> 0, num |-> 0,
               ret |-> 0, hole |-> FALSE, minus |-> FALSE, data |-> <<>>]

Go(s) == st' = s /\ UNCHANGED dev

\* The labels and the metadata of a disk are read and checked; those of the
\* first disk are parsed, and those of the others must be the same.
ReadDisk ==
    /\ st.pc = "label" /\ st.d \in Disks
    /\ \/ Go([st EXCEPT !.pc = "refused"])
       \/ st.d = 1 /\ Go([st EXCEPT !.pc = "parse"])
       \/ st.d > 1 /\ Go([st EXCEPT !.d = @ + 1])

AllDisksRead ==
    /\ st.pc = "label" /\ st.d \notin Disks
    /\ Go([st EXCEPT !.pc = "match"])

\* remove_from_free_ranges: the range that has the segment is cut before it,
\* after it, or given up, and the last range takes its place.
RemoveFree(ranges, offset, size) ==
    LET fits == {i \in DOMAIN ranges :
                   /\ ranges[i].offset <= offset
                   /\ ranges[i].offset + ranges[i].size >= offset + size}
        i     == CHOOSE j \in fits : \A k \in fits : j <= k
        r     == ranges[i]
        last  == Len(ranges)
        after == [offset |-> offset + size, size |-> r.offset + r.size - offset - size]
        front == [ranges EXCEPT ![i].size = offset - r.offset]
    IN  IF fits = {} THEN ranges
        ELSE IF r.offset < offset
        THEN IF after.size > 0 THEN Append(front, after) ELSE front
        ELSE IF after.size > 0 THEN [ranges EXCEPT ![i] = after]
        ELSE SubSeq([ranges EXCEPT ![i] = ranges[last]], 1, last - 1)

\* parse_config, one segment at a time.
ParseSegment ==
    /\ st.pc = "parse" /\ st.l <= Len(dev.lvs)
    /\ LET seg == dev.lvs[st.l][st.s]
           end == st.s = Len(dev.lvs[st.l])
       IN  Go([st EXCEPT !.free[seg.pv] = RemoveFree(@, seg.phys, seg.num),
                         !.l = IF end THEN @ + 1 ELSE @,
                         !.s = IF end THEN 1 ELSE @ + 1])

Parsed == /\ st.pc = "parse" /\ st.l > Len(dev.lvs)
          /\ Go([st EXCEPT !.pc = "label", !.d = 2, !.l = 1])

\* Each disk is looked for in the metadata: a uuid that is there twice or not
\* at all is refused.
MatchDisks ==
    /\ st.pc = "match"
    /\ LET of(p) == {d \in Disks : dev.uuid[d] = dev.pv[p]}
       IN  \/ (\E p \in Disks : Cardinality(of(p)) # 1) /\ Go([st EXCEPT !.pc = "refused"])
           \/ /\ \A p \in Disks : Cardinality(of(p)) = 1
              /\ Go([st EXCEPT !.pc = "check", !.s = 1, !.at = 0,
                               !.disk = [p \in Disks |-> CHOOSE d \in of(p) : TRUE]])

\* The segments of each volume must follow each other.
CheckSegment ==
    /\ st.pc = "check" /\ st.l <= Len(dev.lvs)
    /\ LET seg == dev.lvs[st.l][st.s]
           end == st.s = Len(dev.lvs[st.l])
       IN  Go(IF st.at # seg.start THEN [st EXCEPT !.pc = "refused"]
              ELSE [st EXCEPT !.l = IF end THEN @ + 1 ELSE @, !.s = IF end THEN 1 ELSE @ + 1,
                              !.at = IF end THEN 0 ELSE @ + seg.num])

\* A volume is registered for each.  If its name is taken it is freed twice;
\* the volumes after it are given up, and those before it stay.
RegisterVolume ==
    /\ st.pc = "check" /\ st.l > Len(dev.lvs)
    /\ LET v == Cardinality(st.regs) + 1
       IN  \/ v > Len(dev.lvs) /\ Go([st EXCEPT !.pc = "ready"])
           \/ v <= Len(dev.lvs) /\ Go([st EXCEPT !.regs = @ \cup {v}, !.refcount = @ + 1])
           \/ /\ v <= Len(dev.lvs)
              /\ \E pc \in {"ready", "aborted"} : Go([st EXCEPT !.pc = pc])

\* Somebody reads from or writes to the first volume.
Access ==
    /\ st.pc = "ready" /\ 1 \in st.regs
    /\ \E write \in BOOLEAN, first \in 0..PeSize * PeCount - 1, num \in {1, LvAccess} :
         Go([st EXCEPT !.pc = "access", !.write = write, !.first = first, !.begin = first,
                       !.num = num, !.asked = num, !.data = [k \in 1..num |-> <<>>]])

\* lv_disaster_read and lv_write on the first volume: one segment after the
\* other, as far as they overlap the access.  What a segment did not deliver
\* is not noticed as long as the disk did not answer 0: a -1 is added to the
\* count, and the next segment has its turn.
Seg   == dev.lvs[1][st.s]
Lso   == PeSize * Seg.start
Ssi   == PeSize * Seg.num
AccessSegment ==
    /\ st.pc = "access" /\ st.s <= Len(dev.lvs[1])
    /\ IF Lso + Ssi <= st.first
       THEN Go([st EXCEPT !.s = @ + 1])
       ELSE LET here == Lso + Ssi - st.first
                sn   == IF here > st.num THEN st.num ELSE here
                pos  == PeStart + PeSize * Seg.phys + st.first - Lso
                disk == st.disk[Seg.pv]
                r    == IF st.write THEN Write(dev.of[disk], pos, sn)
                                     ELSE Read(dev.of[disk], pos, sn)
                slot == st.first - st.begin
                all  == [k \in DOMAIN st.data |-> IF k \in slot + 1..slot + r
                           THEN <<disk, pos + k - 1 - slot>> ELSE st.data[k]]
            IN  IF r = 0 THEN Go([st EXCEPT !.pc = "done"])
                ELSE Go([st EXCEPT !.data = all, !.ret = @ + r, !.num = @ - sn,
                           !.first = @ + sn, !.s = @ + 1,
                           !.hole = @ \/ (r < sn /\ sn < st.num),
                           !.minus = r = -1,
                           !.pc = IF sn = st.num THEN "done" ELSE "access"])

\* The access goes on behind the last segment.
BeyondEnd ==
    /\ st.pc = "access" /\ st.s > Len(dev.lvs[1])
    /\ Go([st EXCEPT !.pc = "done"])

Next == \/ ReadDisk \/ AllDisksRead \/ ParseSegment \/ Parsed \/ MatchDisks
        \/ CheckSegment \/ RegisterVolume \/ Access \/ AccessSegment \/ BeyondEnd
Halted == st.pc \in {"done", "refused", "aborted"} \/ (st.pc = "ready" /\ 1 \notin st.regs)

\* Where block b of the first volume is: the disk and the block of it.
RECURSIVE Where(_, _)
Where(segs, b) ==
    IF segs = <<>> THEN <<>>
    ELSE LET s == Head(segs)
         IN  IF b < PeSize * s.num
             THEN LET d == CHOOSE e \in Disks : dev.uuid[e] = dev.pv[s.pv]
                  IN  <<d, PeStart + PeSize * s.phys + b>>
             ELSE Where(Tail(segs), b - PeSize * s.num)

\* The blocks that were counted, which is one less if the last disk answered -1.
Reached == st.ret + IF st.minus THEN 1 ELSE 0

\* The blocks accessed are those the metadata say, up to the first that fails
\* or does not exist, unless one before the end of a segment failed; the volume
\* group is referred to as often as volumes are registered; and the free ranges
\* are the extents that no segment has, each once.
Right ==
    /\ st.pc = "done" /\ ~st.hole =>
         /\ \A k \in 1..Reached : st.data[k] = Where(dev.lvs[1], st.begin + k - 1)
         /\ Reached < st.asked =>
              LET w == Where(dev.lvs[1], st.begin + Reached)
              IN  w = <<>> \/ ~CanRead(dev.of[w[1]], w[2])
    /\ st.refcount = Cardinality(st.regs)
    /\ st.pc \in {"check", "ready", "access", "done"} => \A p \in Disks :
         LET has(e) == {i \in DOMAIN st.free[p] :
                          /\ e >= st.free[p][i].offset
                          /\ e < st.free[p][i].offset + st.free[p][i].size}
             used == UNION {Extents(dev.lvs[x[1]][x[2]]) : x \in Segments(dev.lvs)}
         IN  \A e \in 0..PeCount - 1 :
               Cardinality(has(e)) = IF <<p, e>> \in used THEN 0 ELSE 1
=============================================================================
