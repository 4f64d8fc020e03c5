-------------------------- MODULE InodeCheckProofs --------------------------
(***************************************************************************)
(* Proofs about pass 3 without threads, for file systems of every size and *)
(* every content of the inode tables: the clusters marked for the copies   *)
(* of the super block are the right ones, and what is made of the inodes   *)
(* is what they are.                                                       *)
(***************************************************************************)
EXTENDS InodeCheck, SuperBlockProofs

(***************************************************************************)
(* What passes 1 and 2 hand on.                                            *)
(***************************************************************************)

LEMMA HandedInit == Init => HandedOn
<1> SUFFICES ASSUME Init PROVE HandedOn
  OBVIOUS
<1>1. st.pc = "super" /\ st.sb = fs.sb /\ st.offset = {}
  BY DEF Init, Start
<1>2. QED
  BY <1>1 DEF HandedOn

(* Steps that leave the super block and the offset alone. *)
LEMMA HandedStays ==
  ASSUME HandedOn, NEW s, Go(s), s.sb = st.sb, s.offset = st.offset,
         s.pc \in {"failed", "crashed", "sizes", "search"}
  PROVE  HandedOn'
BY DEF HandedOn, Go

(* A super block that is changed, but not in what matters here. *)
LEMMA HandedChange ==
  ASSUME HandedOn, NEW s, Go(s), s.offset = st.offset, s.num_groups = st.num_groups,
         st.pc \in {"numbers", "features", "times"},
         \A n \in {"cpg", "ipg", "inodes", "rev"} : s.sb[n] = st.sb[n],
         Sparse(s.sb) <=> Sparse(st.sb),
         \/ s.pc \in {"numbers", "features", "times", "pass3"}
            /\ (SPARSE_SUPER \in s.sb.ro => Sparse(s.sb))
            /\ (s.pc = "pass3" => s.sb.mtime <= s.sb.wtime)
         \/ s.pc = "numbers"
         \/ s.pc \in {"failed", "crashed"}
  PROVE  HandedOn'
<1>1. fs' = fs /\ st' = s
  BY DEF Go
<1>2. \A n \in {"cpg", "ipg", "inodes", "rev"} : s.sb[n] = fs.sb[n]
  BY DEF HandedOn
<1>3. /\ s.offset = {} \/ s.offset = {Offset(fs.cs)}
      /\ s.num_groups > 1 => s.offset # {}
      /\ Sparse(s.sb) <=> Sparse(fs.sb)
  BY DEF HandedOn
<1>4. s.pc # "compare"
  OBVIOUS
<1>5. QED
  BY <1>1, <1>2, <1>3, <1>4 DEF HandedOn

(* Revision 0 has no features, and its super block has the same numbers. *)
LEMMA RevisionHanded ==
  ASSUME NEW sb, DOMAIN sb = Masks \cup Numerals
  PROVE  LET old == OldRevision(sb)
         IN  /\ \A n \in {"cpg", "ipg", "inodes", "rev"} : old[n] = sb[n]
             /\ Sparse(old) <=> Sparse(sb)
             /\ SPARSE_SUPER \in old.ro => Sparse(old)
             /\ SPARSE_SUPER \in old.ro <=> Sparse(sb)
<1> DEFINE old == [sb EXCEPT !.inode_size = 128, !.first_inode = 11, !.rw = {}, !.ro = {},
                             !.in = {}]
<1>1. old.ro = {} /\ \A n \in {"cpg", "ipg", "inodes", "rev"} : old[n] = sb[n]
  BY DEF Masks, Numerals
<1> HIDE DEF old
<1>2. OldRevision(sb) = IF sb.rev >= 1 THEN sb ELSE old
  BY DEF OldRevision, old
<1>3. QED
  BY <1>1, <1>2 DEF Sparse

LEMMA RecoverHanded ==
  ASSUME NEW sb, DOMAIN sb = Masks \cup Numerals, SPARSE_SUPER \in sb.ro => Sparse(sb)
  PROVE  \A c \in {ClearRecover(sb), ForExternal(sb), ForExternal(ClearRecover(sb))} :
           /\ \A n \in {"cpg", "ipg", "inodes", "rev"} : c[n] = sb[n]
           /\ Sparse(c) <=> Sparse(sb)
           /\ SPARSE_SUPER \in c.ro => Sparse(c)
           /\ DOMAIN c = Masks \cup Numerals
<1> DEFINE Same(c) == /\ \A n \in {"cpg", "ipg", "inodes", "rev"} : c[n] = sb[n]
                      /\ SPARSE_SUPER \in c.ro <=> SPARSE_SUPER \in sb.ro
                      /\ DOMAIN c = Masks \cup Numerals
<1>1. ASSUME NEW c, Same(c) PROVE Same(ClearRecover(c))
  <2>1. DOMAIN c = Masks \cup Numerals
    BY <1>1
  <2>2. /\ \A n \in {"cpg", "ipg", "inodes", "rev"} : ClearRecover(c)[n] = c[n]
        /\ ClearRecover(c).ro = c.ro \ {RECOVER}
        /\ DOMAIN ClearRecover(c) = DOMAIN c
    BY <2>1 DEF ClearRecover, Masks, Numerals
  <2>3. QED
    BY <1>1, <2>2 DEF RECOVER, SPARSE_SUPER
<1>2. Same(sb) /\ Same(ClearRecover(sb))
  BY <1>1
<1>3. Same(ForExternal(sb)) /\ Same(ForExternal(ClearRecover(sb)))
  BY <1>1, <1>2 DEF ForExternal
<1>4. ASSUME NEW c, Same(c)
      PROVE  (Sparse(c) <=> Sparse(sb)) /\ (SPARSE_SUPER \in c.ro => Sparse(c))
  BY <1>4 DEF Sparse
<1>5. QED
  BY <1>2, <1>3, <1>4

(* There is at least one group, and every number is one. *)
LEMMA GroupsCounted ==
  ASSUME IInv, NumbersInv, st.pc \in {"search"} \cup Using
  PROVE  st.num_groups \in Nat \ {0}
<1> DEFINE d == st.sb.clusters - (st.sb.first + 1)
           c == st.sb.cpg
<1>1. d \in Int /\ c \in Nat /\ c # 0 /\ st.num_groups = NumGroups(st.sb)
  BY DEF NumbersInv, Plausible, Numerals
<1>2. (d % U32) \in Nat
  <2> HIDE DEF d
  <2>1. QED
    BY <1>1, U32Assumption, DivMod
<1>3. st.num_groups = (d % U32) \div c + 1
  BY <1>1 DEF NumGroups
<1> HIDE DEF d, c
<1>4. (d % U32) \div c \in Nat
  BY <1>1, <1>2, NatQuotient
<1>5. QED
  BY <1>3, <1>4

LEMMA HandedStep ==
  ASSUME IInv, NumbersInv, HandedOn, [Next]_<<fs, st>>
  PROVE  HandedOn'
<1>1. DOMAIN st = Fields /\ fs \in FileSystems
  BY DEF IInv
<1>0. DOMAIN st.sb = Masks \cup Numerals
  BY DEF NumbersInv, Plausible
<1> DEFINE ends(pc) == [st EXCEPT !.pc = pc]
<1>2. ASSUME NEW pc \in {"failed", "crashed"}, Go(ends(pc)) PROVE HandedOn'
  <2>1. ends(pc).pc = pc /\ ends(pc).sb = st.sb /\ ends(pc).offset = st.offset
    BY <1>1 DEF Fields
  <2>2. QED
    BY <1>2, <2>1, HandedStays
<1>3. ASSUME CleanUp(st) PROVE HandedOn'
  BY <1>2, <1>3 DEF CleanUp
<1>4. CASE ReadMaster
  <2> DEFINE s == [st EXCEPT !.pc = "sizes", !.sb = fs.sb]
  <2>1. CASE Go(s)
    <3>1. s.pc = "sizes" /\ s.sb = st.sb /\ s.offset = st.offset
      BY <1>1, <1>4 DEF Fields, IInv, ReadMaster
    <3> HIDE DEF s
    <3>2. QED
      BY <2>1, <3>1, HandedStays
  <2>2. QED
    BY <1>3, <1>4, <2>1 DEF ReadMaster
<1>5. CASE Sizes
  <2> DEFINE w == st.sb.entry = 64 \/ (st.sb.entry = 0 /\ IN_64BIT \in st.sb.in)
             n == NumGroups(st.sb)
             s == [st EXCEPT !.num_groups = n, !.pc = "search", !.wide = w]
  <2>1. CASE Go(s)
    <3>1. s.pc = "search" /\ s.sb = st.sb /\ s.offset = st.offset
      <4> HIDE DEF w, n
      <4>1. QED
        BY <1>1 DEF Fields
    <3> HIDE DEF s
    <3>2. QED
      BY <2>1, <3>1, HandedStays
  <2>2. QED
    BY <1>2, <1>3, <1>5, <2>1 DEF Sizes
<1>6. CASE SearchTable
  <2> DEFINE at == SearchedAt(fs.cs, st.sb.cpg, st.group)
             t  == [group |-> st.group, is |-> TableFrom(st.group, at)]
             f  == FixFlags(st.group)
             passed == [st EXCEPT !.group = @ + 1]
             found  == [st EXCEPT !.pc = "compare", !.group = 1, !.flags = f, !.table = t]
  <2>1. st.pc = "search" /\ (Go(passed) \/ Go(found))
    BY <1>6 DEF SearchTable
  <2>2. /\ passed.pc = st.pc /\ passed.sb = st.sb /\ passed.offset = st.offset
        /\ found.pc = "compare" /\ found.sb = st.sb /\ found.offset = st.offset
        /\ found.group = 1
    <3> HIDE DEF t, f
    <3>1. QED
      BY <1>1 DEF Fields
  <2> HIDE DEF passed, found
  <2>3. CASE Go(passed)
    BY <2>1, <2>2, <2>3, HandedStays
  <2>4. CASE Go(found)
    BY <2>1, <2>2, <2>4 DEF HandedOn, Go
  <2>5. QED
    BY <2>1, <2>3, <2>4
<1>7. CASE NextPass
  <2> DEFINE again == [st EXCEPT !.pass = @ + 1, !.group = 0]
             end   == [st EXCEPT !.pc = "failed", !.retval = TRUE]
  <2>1. st.pc = "search" /\ (Go(again) \/ Go(end))
    BY <1>7 DEF NextPass
  <2>2. /\ again.pc = st.pc /\ again.sb = st.sb /\ again.offset = st.offset
        /\ end.pc = "failed" /\ end.sb = st.sb /\ end.offset = st.offset
    BY <1>1 DEF Fields
  <2> HIDE DEF again, end
  <2>3. QED
    BY <2>1, <2>2, HandedStays
<1>8. CASE Compare
  <2> DEFINE o == IF GroupHasSuperBlock(st.sb, st.group) THEN {Offset(fs.cs)} ELSE st.offset
             next    == [st EXCEPT !.group = @ + 1, !.offset = o]
             told(r) == [next EXCEPT !.reports = r]
  <2>0. st.pc = "compare" /\ st.group \in Nat \ {0} /\ (st.group > 1 => st.offset # {})
    BY <1>8 DEF Compare, HandedOn
  <2>1. Go(next) \/ Go(ends("crashed")) \/ \E r : Go(told(r))
    BY <1>8 DEF Compare
  <2>2. o # {} /\ (o = {} \/ o = {Offset(fs.cs)})
    <3>1. st.group = 1 => GroupHasSuperBlock(st.sb, st.group)
      BY DEF GroupHasSuperBlock, HasSparsedSuperBlock
    <3>2. st.group = 1 \/ st.offset # {}
      BY <2>0
    <3>3. st.offset = {} \/ st.offset = {Offset(fs.cs)}
      BY DEF HandedOn
    <3>4. QED
      BY <3>1, <3>2, <3>3
  <2> HIDE DEF o
  <2>3. /\ next.pc = "compare" /\ next.sb = st.sb /\ next.offset = o
        /\ next.group = st.group + 1
        /\ \A r : /\ told(r).pc = "compare" /\ told(r).sb = st.sb
                  /\ told(r).offset = o /\ told(r).group = st.group + 1
    BY <1>1, <2>0 DEF Fields
  <2> HIDE DEF next, told, ends
  <2>4. ASSUME NEW s, Go(s), s.pc = "compare", s.sb = st.sb, s.offset = o,
               s.group = st.group + 1
        PROVE  HandedOn'
    BY <2>0, <2>2, <2>4 DEF HandedOn, Go
  <2>5. QED
    BY <1>2, <2>1, <2>3, <2>4
<1>9. CASE Compared
  <2> DEFINE s == [st EXCEPT !.pc = "numbers"]
  <2>1. st.pc = "compare" /\ Go(s) /\ st.group \notin Groups
    BY <1>9 DEF Compared
  <2>2. /\ s.pc = "numbers" /\ s.sb = st.sb /\ s.num_groups = st.num_groups
        /\ s.offset = st.offset
    BY <1>1 DEF Fields
  <2> HIDE DEF s
  <2>3. st.num_groups \in Int
    BY <2>1, GroupsCounted DEF Using
  <2>4. st.num_groups > 1 => st.offset # {}
    BY <2>1, <2>3 DEF HandedOn, Groups
  <2>5. QED
    BY <2>1, <2>2, <2>4 DEF HandedOn, Go
<1>10. CASE Numbers
  <2> DEFINE sb == OldRevision(st.sb)
             s  == [st EXCEPT !.pc = "features", !.sb = sb]
  <2>1. /\ st.pc = "numbers"
        /\ Go(ends("failed")) \/ Go(ends("crashed")) \/ Go(s)
    BY <1>10 DEF Numbers
  <2> HIDE DEF sb
  <2>2. /\ s.pc = "features" /\ s.sb = sb /\ s.num_groups = st.num_groups
        /\ s.offset = st.offset
    BY <1>1 DEF Fields
  <2> HIDE DEF s, ends
  <2>3. ASSUME Go(s) PROVE HandedOn'
    <3>1. /\ \A n \in {"cpg", "ipg", "inodes", "rev"} : sb[n] = st.sb[n]
          /\ Sparse(sb) <=> Sparse(st.sb)
          /\ SPARSE_SUPER \in sb.ro => Sparse(sb)
      BY <1>0, RevisionHanded DEF sb
    <3>2. QED
      BY <2>1, <2>2, <2>3, <3>1, HandedChange
  <2>4. QED
    BY <1>2, <2>1, <2>3
<1>11. CASE Features
  <2> DEFINE times(sb) == [st EXCEPT !.pc = "times", !.sb = sb]
             journal   == [st EXCEPT !.pc = "numbers", !.sb.rw = @ \cup {HAS_JOURNAL}]
             clear     == ClearRecover(st.sb)
             written   == [st.sb EXCEPT !.rw = @ \cup {HAS_JOURNAL}]
  <2>1. /\ st.pc = "features"
        /\ \/ Go(times(ForExternal(st.sb))) \/ Go(times(ForExternal(clear)))
           \/ Go(journal) \/ Go(ends("failed"))
    BY <1>11 DEF Features
  <2>2. SPARSE_SUPER \in st.sb.ro => Sparse(st.sb)
    BY <2>1 DEF HandedOn
  <2>3. ASSUME NEW sb \in {clear, ForExternal(st.sb), ForExternal(clear)}, Go(times(sb))
        PROVE  HandedOn'
    <3>1. /\ \A n \in {"cpg", "ipg", "inodes", "rev"} : sb[n] = st.sb[n]
          /\ Sparse(sb) <=> Sparse(st.sb)
          /\ SPARSE_SUPER \in sb.ro => Sparse(sb)
      BY <1>0, <2>2, RecoverHanded
    <3>2. /\ times(sb).pc = "times" /\ times(sb).sb = sb
          /\ times(sb).num_groups = st.num_groups /\ times(sb).offset = st.offset
      BY <1>1 DEF Fields
    <3> HIDE DEF times
    <3>3. QED
      BY <2>1, <2>3, <3>1, <3>2, HandedChange
  <2>4. ASSUME Go(journal) PROVE HandedOn'
    <3>1. /\ journal.pc = "numbers" /\ journal.sb = written
          /\ journal.num_groups = st.num_groups /\ journal.offset = st.offset
      BY <1>1 DEF Fields
    <3>2. /\ \A n \in {"cpg", "ipg", "inodes", "rev"} : written[n] = st.sb[n]
          /\ written.ro = st.sb.ro
      BY <1>0 DEF Masks, Numerals
    <3> HIDE DEF journal, written
    <3>3. Sparse(written) <=> Sparse(st.sb)
      BY <3>2 DEF Sparse
    <3>4. QED
      BY <2>1, <2>4, <3>1, <3>2, <3>3, HandedChange
  <2> HIDE DEF times, journal, ends, clear
  <2>5. QED
    BY <1>2, <2>1, <2>3, <2>4
<1>12. CASE Times
  <2> DEFINE t  == Clamp(st.sb.wtime, st.sb.mtime, fs.now)
             sb == [st.sb EXCEPT !.wtime = t.wtime, !.mtime = t.mtime]
             pc == IF Asserts(st.sb) THEN "pass3" ELSE "crashed"
             s  == [st EXCEPT !.pc = pc, !.sb.wtime = t.wtime, !.sb.mtime = t.mtime]
  <2>1. Go(s) /\ st.pc = "times"
    BY <1>12 DEF Times
  <2>2. t.mtime <= t.wtime
    <3>1. st.sb.wtime \in Nat /\ st.sb.mtime \in Nat /\ fs.now \in Nat
      BY <1>1, U32Assumption, FileSystemsAssumption DEF NumbersInv, Plausible, Numerals
    <3>2. QED
      BY <3>1 DEF Clamp
  <2> HIDE DEF t
  <2>3. /\ s.pc = pc /\ s.sb = sb /\ s.num_groups = st.num_groups /\ s.offset = st.offset
    <3> HIDE DEF pc
    <3>1. QED
      BY <1>1 DEF Fields
  <2>4. /\ \A n \in {"cpg", "ipg", "inodes", "rev"} : sb[n] = st.sb[n]
        /\ sb.ro = st.sb.ro /\ sb.mtime = t.mtime /\ sb.wtime = t.wtime
    BY <1>0 DEF Masks, Numerals
  <2>5. pc \in {"pass3", "crashed"}
    OBVIOUS
  <2> HIDE DEF s, sb, pc
  <2>6. (Sparse(sb) <=> Sparse(st.sb)) /\ (SPARSE_SUPER \in sb.ro => Sparse(sb))
    BY <2>1, <2>4 DEF Sparse, HandedOn
  <2>7. QED
    BY <2>1, <2>2, <2>3, <2>4, <2>5, <2>6, HandedChange
<1>13. CASE UNCHANGED <<fs, st>>
  BY <1>13 DEF HandedOn
<1>14. QED
  BY <1>4, <1>5, <1>6, <1>7, <1>8, <1>9, <1>10, <1>11, <1>12, <1>13 DEF Next

------------------------------------------------------------------------------
(***************************************************************************)
(* Where an inode is.                                                      *)
(***************************************************************************)

(* What pass 3 can rely on. *)
Handed == IInv /\ NumbersInv /\ HandedOn /\ disk \in Tables /\ Describes(disk, fs.sb)

LEMMA Pass3 ==
  ASSUME Handed, st.pc = "pass3"
  PROVE  /\ Ipg \in Nat /\ st.num_groups \in Nat \ {0} /\ st.sb.inodes \in Nat
         /\ st.sb.inodes = Ipg * st.num_groups /\ Ipg % 8 = 0
         /\ Inodes # {} => Ipg >= 8
         /\ st.sb.first_inode \in Nat /\ st.sb.wtime \in Nat /\ st.sb.mtime \in Nat
         /\ fs.cs \in Nat /\ fs.cs > 0 /\ ClusterBytes(fs.cs) = 512 * fs.cs
<1>1. Plausible(st.sb) /\ Asserts(st.sb)
  BY DEF Handed, NumbersInv
<1>2. st.num_groups \in Nat \ {0}
  BY GroupsCounted DEF Handed, Using
<1>3. Ipg \in Nat /\ st.sb.inodes \in Nat
      /\ st.sb.first_inode \in Nat /\ st.sb.wtime \in Nat /\ st.sb.mtime \in Nat
  BY <1>1 DEF Plausible, Numerals, Ipg
<1>4. st.sb.inodes = Ipg * st.num_groups /\ Ipg % 8 = 0
  BY <1>1 DEF Asserts, Ipg
<1>5. Inodes # {} => Ipg >= 8
  <2>1. SUFFICES ASSUME Ipg < 8, Inodes # {} PROVE FALSE
    BY <1>3
  <2>2. Ipg = 0
    BY <1>3, <1>4, <2>1
  <2>3. QED
    BY <1>2, <1>4, <2>1, <2>2 DEF Inodes
<1>6. fs.cs \in Nat /\ fs.cs > 0
  BY FileSystemsAssumption DEF Handed, IInv
<1>7. QED
  BY <1>2, <1>3, <1>4, <1>5, <1>6 DEF ClusterBytes, BlockBytes

(* Where an inode is. *)
LEMMA InodeAt ==
  ASSUME Handed, st.pc = "pass3", NEW i \in Inodes
  PROVE  /\ GroupOf(i) \in Groups /\ GroupOf(i) \in Nat
         /\ (i - 1) % Ipg \in 0..Ipg - 1
         /\ Ipg * GroupOf(i) \in Int
         /\ i - 1 = Ipg * GroupOf(i) + ((i - 1) % Ipg)
<1> DEFINE n == st.num_groups
           g == (i - 1) \div Ipg
<1>1. /\ Ipg \in Nat /\ Ipg >= 8 /\ n \in Nat \ {0} /\ st.sb.inodes = Ipg * n
      /\ i \in Nat \ {0} /\ i <= st.sb.inodes
  BY Pass3 DEF Inodes
<1>2. /\ g \in Int /\ (i - 1) % Ipg \in 0..Ipg - 1 /\ Ipg * g \in Int
      /\ i - 1 = Ipg * g + ((i - 1) % Ipg)
  BY <1>1, DivMod
<1>3. g \in Nat
  BY <1>1, NatQuotient
<1> HIDE DEF g, n
<1>4. g < n
  <2>1. SUFFICES ASSUME n <= g PROVE FALSE
    BY <1>1, <1>2
  <2>2. Ipg * n <= Ipg * g
    BY <1>1, <1>2, <2>1, Grows
  <2>3. QED
    BY <1>1, <1>2, <2>2
<1>5. g \in 0..n - 1
  BY <1>1, <1>3, <1>4
<1>6. GroupOf(i) = g /\ Groups = 0..n - 1
  BY DEF GroupOf, Groups, g, n
<1>7. QED
  BY <1>2, <1>3, <1>5, <1>6

(* The inodes of a group. *)
LEMMA IsThere ==
  ASSUME Handed, st.pc = "pass3", NEW g \in Groups, NEW r \in 0..Ipg - 1
  PROVE  LET i == 1 + g * Ipg + r
         IN  i \in Inodes /\ GroupOf(i) = g /\ (i - 1) % Ipg = r
<1>1. /\ Ipg \in Nat /\ st.num_groups \in Nat /\ st.sb.inodes = Ipg * st.num_groups
      /\ Ipg > 0
  BY Pass3
<1> DEFINE i == 1 + g * Ipg + r
<1>2. i \in 1..Ipg * st.num_groups /\ (i - 1) \div Ipg = g /\ (i - 1) % Ipg = r
  BY <1>1, InPart DEF Groups
<1> HIDE DEF i
<1>3. QED
  BY <1>1, <1>2 DEF Inodes, GroupOf, i

------------------------------------------------------------------------------
(***************************************************************************)
(* What each step leaves behind.                                           *)
(***************************************************************************)

Parts == DOMAIN CheckStart
Kept(parts) == \A p \in parts : scan'[p] = scan[p]
Results == {"is", "in_slot", "eio", "marks", "map", "calculated", "type", "never", "scanned",
            "wrong", "copy", "differs"}
Moved ==
  /\ UNCHANGED <<fs, st, disk>> /\ DOMAIN scan' = Parts /\ scan'.i = scan.i + 1
  /\ scan'.pc = IF scan.i % Ipg = 0 THEN "table" ELSE "inodes"
  /\ scan'.group = IF scan.i % Ipg = 0 THEN scan.group + 1 ELSE scan.group

(* What check_inode leaves of the loop. *)
LEMMA CountedParts ==
  ASSUME NEW s, DOMAIN s = Parts, NEW free, NEW c, c = Counted(s, free)
  PROVE  /\ DOMAIN c = Parts /\ c.i = s.i + 1
         /\ c.pc = IF scan.i % Ipg = 0 THEN "table" ELSE "inodes"
         /\ c.group = IF scan.i % Ipg = 0 THEN s.group + 1 ELSE s.group
         /\ \A p \in {"is", "in_slot", "eio", "marks", "map", "calculated", "type",
                       "never", "scanned", "wrong", "copy", "differs"} : c[p] = s[p]
BY DEF Counted, Parts, CheckStart

LEMMA CountedFree ==
  ASSUME NEW s, DOMAIN s = Parts, NEW free \in BOOLEAN, NEW c, c = Counted(s, free), c.have_free
  PROVE  free /\ (scan.have_free \/ scan.i >= st.sb.first_inode)
BY DEF Counted, Parts, CheckStart

LEMMA CountedMoves ==
  ASSUME NEW s, DOMAIN s = Parts, s.i = scan.i, s.group = scan.group, NEW free,
         Do(Counted(s, free))
  PROVE  Moved /\ \A p \in Results : scan'[p] = s[p]
<1>1. scan' = Counted(s, free) /\ UNCHANGED <<fs, st, disk>>
  BY DEF Do
<1>2. /\ DOMAIN scan' = Parts /\ scan'.i = s.i + 1
      /\ scan'.pc = IF scan.i % Ipg = 0 THEN "table" ELSE "inodes"
      /\ scan'.group = IF scan.i % Ipg = 0 THEN s.group + 1 ELSE s.group
      /\ \A p \in Results : scan'[p] = s[p]
  BY <1>1, CountedParts DEF Results
<1>3. QED
  BY <1>1, <1>2 DEF Moved

LEMMA UnreadableDoes ==
  ASSUME DOMAIN scan = Parts, Unreadable
  PROVE  /\ Checking /\ scan.i \in scan.eio /\ Moved /\ Kept(Results \ {"never"})
         /\ scan'.never = IF scan.have_free THEN scan.never \cup {scan.i} ELSE scan.never
         /\ scan'.have_free => scan.have_free
<1> DEFINE n == IF scan.have_free THEN scan.never \cup {scan.i} ELSE scan.never
           s == [scan EXCEPT !.never = n]
<1>1. Checking /\ scan.i \in scan.eio /\ Do(Counted(s, scan.have_free))
  BY DEF Unreadable
<1>2. /\ DOMAIN s = Parts /\ s.i = scan.i /\ s.group = scan.group /\ s.never = n
      /\ \A p \in Results \ {"never"} : s[p] = scan[p]
  <2> HIDE DEF n
  <2>1. QED
    BY DEF Parts, CheckStart, Results
<1>3. scan'.have_free => scan.have_free
  <2> HIDE DEF s
  <2>1. scan' = Counted(s, scan.have_free)
    BY <1>1 DEF Do
  <2>2. scan'.have_free = IF scan.have_free THEN scan.have_free
                          ELSE scan.have_free /\ scan.i >= st.sb.first_inode
    BY <1>2, <2>1 DEF Counted, Parts, CheckStart
  <2>3. QED
    BY <2>2
<1> HIDE DEF s
<1>4. Moved /\ \A p \in Results : scan'[p] = s[p]
  BY <1>1, <1>2, CountedMoves
<1>5. scan'.never = n
  BY <1>2, <1>4 DEF Results
<1> HIDE DEF n
<1>6. QED
  BY <1>1, <1>2, <1>3, <1>4, <1>5 DEF Kept, n

LEMMA NeverUsedDoes ==
  ASSUME DOMAIN scan = Parts, NeverUsed
  PROVE  /\ Checking /\ scan.i \notin scan.eio /\ Virgin(scan.i) /\ Moved /\ Kept(Results)
         /\ scan'.have_free => scan.have_free \/ scan.i >= st.sb.first_inode
<1>1. PICK free \in BOOLEAN :
        Checking /\ scan.i \notin scan.eio /\ Virgin(scan.i) /\ Do(Counted(scan, free))
  BY DEF NeverUsed
<1>2. Moved /\ Kept(Results)
  BY <1>1, CountedMoves DEF Kept
<1>3. scan'.have_free => scan.have_free \/ scan.i >= st.sb.first_inode
  BY <1>1, CountedFree DEF Do
<1>4. QED
  BY <1>1, <1>2, <1>3

LEMMA NotInUseDoes ==
  ASSUME DOMAIN scan = Parts, NotInUse
  PROVE  \E x \in InSlot(scan.i) :
           /\ Checking /\ scan.i \notin scan.eio /\ ~Virgin(scan.i)
           /\ Moved /\ Kept(Results \ {"type"})
           /\ x.links = 0 /\ scan'.type = Noted(scan.i, Type(x))
           /\ scan'.have_free => Type(x) = "FREE"
                                 /\ (scan.have_free \/ scan.i >= st.sb.first_inode)
<1>1. PICK x \in InSlot(scan.i) :
        /\ Checking /\ scan.i \notin scan.eio /\ ~Virgin(scan.i) /\ x.links = 0
        /\ Do(Counted([scan EXCEPT !.type = Noted(scan.i, Type(x))], Type(x) = "FREE"))
  BY DEF NotInUse
<1> DEFINE y == Noted(scan.i, Type(x))
           s == [scan EXCEPT !.type = y]
           f == Type(x) = "FREE"
<1>2. Do(Counted(s, f))
  BY <1>1
<1>3. /\ DOMAIN s = Parts /\ s.i = scan.i /\ s.group = scan.group /\ s.type = y
      /\ \A p \in Results \ {"type"} : s[p] = scan[p]
  <2> HIDE DEF y
  <2>1. QED
    BY DEF Parts, CheckStart, Results
<1> HIDE DEF s
<1>4. f \in BOOLEAN
  OBVIOUS
<1> HIDE DEF f
<1>5. Moved /\ \A p \in Results : scan'[p] = s[p]
  BY <1>2, <1>3, CountedMoves
<1>6. scan'.have_free => f /\ (scan.have_free \/ scan.i >= st.sb.first_inode)
  BY <1>2, <1>3, <1>4, CountedFree DEF Do
<1>7. scan'.type = y
  BY <1>3, <1>5 DEF Results
<1> HIDE DEF y
<1>8. Kept(Results \ {"type"})
  BY <1>3, <1>5 DEF Kept
<1>9. QED
  BY <1>1, <1>5, <1>6, <1>7, <1>8 DEF f, y

(* x is the inode in use that was found. *)
Taken(x) ==
  /\ Kept({"in_slot", "eio", "marks", "map", "never", "differs"})
  /\ scan'.type = Noted(scan.i, Type(x))
  /\ scan'.calculated = scan.calculated \cup {scan.i}
  /\ ~scan'.have_free
  /\ \/ x.type \notin Types /\ Kept({"is", "copy", "wrong", "scanned"})
     \/ /\ x.type \in Types /\ scan'.is = scan.i /\ scan'.copy = Repaired(scan.i, x)
        /\ scan'.wrong = scan.wrong \cup {<<scan.i, f>> : f \in WrongFlags(x)}
        /\ scan'.scanned = IF HasClusters(Repaired(scan.i, x)) THEN scan.scanned \cup {scan.i}
                           ELSE scan.scanned

LEMMA InUseDoes ==
  ASSUME DOMAIN scan = Parts, InUse
  PROVE  \E x \in InSlot(scan.i) :
           /\ Checking /\ scan.i \notin scan.eio /\ ~Virgin(scan.i)
           /\ Moved /\ x.links > 0 /\ Taken(x)
<1>1. PICK x \in InSlot(scan.i) :
        /\ Checking /\ scan.i \notin scan.eio /\ ~Virgin(scan.i) /\ x.links > 0
        /\ LET r == Repaired(scan.i, x)
               s == [scan EXCEPT !.type = Noted(scan.i, Type(x)), !.calculated = @ \cup {scan.i}]
           IN  Do(IF x.type \notin Types THEN Counted(s, FALSE)
                  ELSE Counted([s EXCEPT !.copy = r, !.is = scan.i,
                                  !.wrong = @ \cup {<<scan.i, f>> : f \in WrongFlags(x)},
                                  !.scanned = IF HasClusters(r) THEN @ \cup {scan.i} ELSE @],
                               FALSE))
  BY DEF InUse
<1> DEFINE r == Repaired(scan.i, x)
           y == Noted(scan.i, Type(x))
           c == scan.calculated \cup {scan.i}
           u == scan.wrong \cup {<<scan.i, f>> : f \in WrongFlags(x)}
           w == IF HasClusters(r) THEN scan.scanned \cup {scan.i} ELSE scan.scanned
           s == [scan EXCEPT !.type = y, !.calculated = c]
           t == [s EXCEPT !.copy = r, !.is = scan.i, !.wrong = u, !.scanned = w]
<1>2. s.wrong = scan.wrong /\ s.scanned = scan.scanned
  <2> HIDE DEF y, c
  <2>1. QED
    OBVIOUS
<1>3. Do(IF x.type \notin Types THEN Counted(s, FALSE) ELSE Counted(t, FALSE))
  BY <1>1, <1>2
<1>4. /\ \A z \in {s, t} :
           /\ DOMAIN z = Parts /\ z.i = scan.i /\ z.group = scan.group
           /\ z.type = y /\ z.calculated = c
           /\ \A p \in {"in_slot", "eio", "marks", "map", "never", "differs"} : z[p] = scan[p]
      /\ \A p \in {"is", "copy", "wrong", "scanned"} : s[p] = scan[p]
      /\ t.copy = r /\ t.is = scan.i /\ t.wrong = u /\ t.scanned = w
  <2> HIDE DEF y, c, r, u, w
  <2>1. QED
    BY DEF Parts, CheckStart
<1> HIDE DEF s, t, y, c, r, u, w
<1>5. CASE x.type \notin Types
  <2>1. Do(Counted(s, FALSE))
    BY <1>3, <1>5
  <2>2. Moved /\ \A p \in Results : scan'[p] = s[p]
    BY <1>4, <2>1, CountedMoves
  <2>3. ~scan'.have_free
    BY <1>4, <2>1, CountedFree DEF Do
  <2>4. Taken(x)
    BY <1>4, <1>5, <2>2, <2>3 DEF Taken, Kept, Results, y, c
  <2>5. QED
    BY <1>1, <2>2, <2>4
<1>6. CASE x.type \in Types
  <2>1. Do(Counted(t, FALSE))
    BY <1>3, <1>6
  <2>2. Moved /\ \A p \in Results : scan'[p] = t[p]
    BY <1>4, <2>1, CountedMoves
  <2>3. ~scan'.have_free
    BY <1>4, <2>1, CountedFree DEF Do
  <2>4. /\ Kept({"in_slot", "eio", "marks", "map", "never", "differs"})
        /\ scan'.type = y /\ scan'.calculated = c /\ scan'.is = scan.i /\ scan'.copy = r
        /\ scan'.wrong = u /\ scan'.scanned = w
    BY <1>4, <2>2 DEF Kept, Results
  <2>5. Taken(x)
    BY <1>6, <2>3, <2>4 DEF Taken, y, c, r, u, w
  <2>6. QED
    BY <1>1, <2>2, <2>5
<1>7. QED
  BY <1>5, <1>6

(* What the other steps leave. *)
LEMMA ReadTablesDoes ==
  ASSUME DOMAIN scan = Parts, ReadTables
  PROVE  /\ UNCHANGED <<fs, st, disk>> /\ scan'.i = scan.i /\ scan'.group = scan.group
         /\ DOMAIN scan' = Parts /\ Kept(Results \ {"in_slot", "eio", "marks", "map"})
         /\ st.pc = "pass3" /\ scan.pc = "table" /\ scan.i < st.sb.inodes
         /\ \/ scan'.pc = "beyond"
            \/ /\ scan'.pc = "inodes" /\ scan.group \in Groups /\ ~scan'.have_free
               /\ scan'.map = scan.map \cup MapRead(scan.group)
               /\ scan.group \in st.flags =>
                    scan'.in_slot = scan.group /\ scan'.eio = scan.eio \cup EioInodes(scan.group)
<1> DEFINE g == scan.group
           map == scan.map \cup MapRead(g)
           s == [scan EXCEPT !.map = map, !.have_free = FALSE, !.pc = "inodes"]
           eio == scan.eio \cup EioInodes(g)
           m(marks) == [s EXCEPT !.marks = marks]
           n(marks) == [m(marks) EXCEPT !.in_slot = g, !.eio = eio]
           b == [scan EXCEPT !.pc = "beyond"]
<1>0. st.pc = "pass3" /\ scan.pc = "table" /\ scan.i < st.sb.inodes
  BY DEF ReadTables
<1>1. CASE g \notin Groups
  <2>1. Do(b)
    BY <1>1 DEF ReadTables
  <2>2. /\ DOMAIN b = Parts /\ b.i = scan.i /\ b.group = g /\ b.pc = "beyond"
        /\ \A p \in Results : b[p] = scan[p]
    BY DEF Parts, CheckStart, Results
  <2> HIDE DEF b
  <2>3. QED
    BY <1>0, <2>1, <2>2 DEF Do, Kept
<1>2. CASE g \in Groups
  <2>1. PICK k : Do(IF g \in st.flags
                    THEN [m(k) EXCEPT !.in_slot = g, !.eio = @ \cup EioInodes(g)] ELSE m(k))
    BY <1>2 DEF ReadTables
  <2>2. m(k).eio = scan.eio
    <3> HIDE DEF map
    <3>1. QED
      BY DEF Parts, CheckStart
  <2>3. Do(IF g \in st.flags THEN n(k) ELSE m(k))
    BY <2>1, <2>2
  <2>4. /\ \A z \in {m(k), n(k)} :
             /\ DOMAIN z = Parts /\ z.i = scan.i /\ z.group = g /\ z.pc = "inodes"
             /\ z.have_free = FALSE /\ z.map = map
             /\ \A p \in Results \ {"in_slot", "eio", "marks", "map"} : z[p] = scan[p]
        /\ n(k).in_slot = g /\ n(k).eio = eio
    <3> HIDE DEF map, eio
    <3>1. QED
      BY DEF Parts, CheckStart, Results
  <2> HIDE DEF m, n, map, eio
  <2>5. scan' \in {m(k), n(k)} /\ (g \in st.flags => scan' = n(k)) /\ UNCHANGED <<fs, st, disk>>
    BY <2>3 DEF Do
  <2>6. /\ DOMAIN scan' = Parts /\ scan'.i = scan.i /\ scan'.group = g
        /\ scan'.pc = "inodes" /\ scan'.have_free = FALSE /\ scan'.map = map
        /\ \A p \in Results \ {"in_slot", "eio", "marks", "map"} : scan'[p] = scan[p]
        /\ g \in st.flags => scan'.in_slot = g /\ scan'.eio = eio
    BY <2>4, <2>5
  <2>7. QED
    BY <1>0, <1>2, <2>5, <2>6 DEF Kept, map, eio
<1>3. QED
  BY <1>1, <1>2

LEMMA SkipGroupDoes ==
  ASSUME DOMAIN scan = Parts, SkipGroup
  PROVE  /\ UNCHANGED <<fs, st, disk>> /\ scan'.i = scan.i /\ scan'.pc = "table"
         /\ DOMAIN scan' = Parts /\ Kept(Results) /\ scan'.group = scan.group + 1
         /\ scan.pc = "inodes" /\ scan.group \notin st.flags /\ Csum
<1> DEFINE s == [scan EXCEPT !.pc = "table", !.group = @ + 1]
<1>1. /\ DOMAIN s = Parts /\ s.i = scan.i /\ s.pc = "table" /\ s.group = scan.group + 1
      /\ \A p \in Results : s[p] = scan[p]
  BY DEF Parts, CheckStart, Results
<1>2. Do(s) /\ scan.pc = "inodes" /\ scan.group \notin st.flags /\ Csum
  BY DEF SkipGroup
<1> HIDE DEF s
<1>3. QED
  BY <1>1, <1>2 DEF Do, Kept

LEMMA AllCheckedDoes ==
  ASSUME DOMAIN scan = Parts, AllChecked
  PROVE  /\ UNCHANGED <<fs, st, disk>> /\ scan'.i = scan.i /\ scan'.pc = "checked"
         /\ scan.pc = "table" /\ scan.i >= st.sb.inodes /\ st.pc = "pass3"
         /\ DOMAIN scan' = Parts /\ Kept(Results \ {"calculated"}) /\ scan'.group = scan.group
         /\ scan'.calculated = scan.calculated \cup 1..st.sb.first_inode - 1
<1> DEFINE c == scan.calculated \cup 1..st.sb.first_inode - 1
           s == [scan EXCEPT !.pc = "checked", !.calculated = c]
<1>1. /\ DOMAIN s = Parts /\ s.i = scan.i /\ s.pc = "checked" /\ s.calculated = c /\ s.group = scan.group
      /\ \A p \in Results \ {"calculated"} : s[p] = scan[p]
  <2> HIDE DEF c
  <2>1. QED
    BY DEF Parts, CheckStart, Results
<1>2. Do(s) /\ scan.pc = "table" /\ scan.i >= st.sb.inodes /\ st.pc = "pass3"
  BY DEF AllChecked
<1> HIDE DEF s
<1>3. QED
  BY <1>1, <1>2 DEF Do, Kept

LEMMA LookUpTypesDoes ==
  ASSUME DOMAIN scan = Parts, LookUpTypes
  PROVE  /\ UNCHANGED <<fs, st, disk>> /\ scan'.i = scan.i /\ scan'.pc \in {"compared", "died"}
         /\ scan.pc = "checked" /\ scan'.group = scan.group /\ DOMAIN scan' = Parts
         /\ Kept(Results \ {"differs"}) /\ scan'.differs = (scan.map # scan.calculated)
<1> DEFINE d == scan.map # scan.calculated
           s(pc) == [scan EXCEPT !.pc = pc, !.differs = d]
<1>1. \E pc \in {"compared", "died"} : Do(s(pc)) /\ scan.pc = "checked"
  BY DEF LookUpTypes
<1>2. \A pc : /\ DOMAIN s(pc) = Parts /\ s(pc).i = scan.i /\ s(pc).pc = pc /\ s(pc).differs = d /\ s(pc).group = scan.group
              /\ \A p \in Results \ {"differs"} : s(pc)[p] = scan[p]
  <2> HIDE DEF d
  <2>1. QED
    BY DEF Parts, CheckStart, Results
<1> HIDE DEF s
<1>3. PICK pc \in {"compared", "died"} : Do(s(pc)) /\ scan.pc = "checked"
  BY <1>1
<1>4. scan' = s(pc) /\ UNCHANGED <<fs, st, disk>>
  BY <1>3 DEF Do
<1>5. QED
  BY <1>2, <1>3, <1>4 DEF Kept

------------------------------------------------------------------------------
(***************************************************************************)
(* The loop over groups and inodes.                                        *)
(***************************************************************************)

LEMMA CheckingAt ==
  ASSUME Handed, Placed, Checking
  PROVE  /\ st.pc = "pass3" /\ scan.i \in Inodes /\ scan.pc = "inodes"
         /\ scan.group \in Groups /\ scan.group \in Nat /\ Row <= scan.group /\ Row \in Nat
         /\ AllInitialised => Row = scan.group
<1>1. scan.pc = "inodes" /\ scan.i \in Inodes
  BY DEF Checking
<1>2. CheckStart.pc # "inodes"
  BY DEF CheckStart
<1>3. st.pc = "pass3"
  BY <1>1, <1>2 DEF Placed
<1>4. st.num_groups \in Nat
  BY <1>3, Pass3
<1>5. Row \in Nat
  BY <1>1, <1>3, InodeAt DEF Row
<1>6. QED
  BY <1>1, <1>3, <1>4, <1>5 DEF Placed, Groups

LEMMA MovedPlaced ==
  ASSUME Handed, Placed, Checking, Moved
  PROVE  Placed' /\ Begun' = Begun
<1>2. st' = st
  BY DEF Moved
<1>3. /\ DOMAIN scan' = Parts /\ scan'.i = scan.i + 1
      /\ scan'.pc = IF scan.i % Ipg = 0 THEN "table" ELSE "inodes"
      /\ scan'.group = IF scan.i % Ipg = 0 THEN scan.group + 1 ELSE scan.group
  BY DEF Moved
<1>4. /\ st.pc = "pass3" /\ scan.i \in Inodes /\ scan.pc = "inodes"
      /\ scan.group \in Groups /\ scan.group \in Nat /\ Row <= scan.group /\ Row \in Nat
      /\ AllInitialised => Row = scan.group
      /\ scan.group \in st.flags \/ ~Csum
  BY CheckingAt DEF Checking
<1>5. /\ Ipg \in Nat /\ Ipg >= 8 /\ st.num_groups \in Nat /\ scan.i \in Nat \ {0}
      /\ scan.group < st.num_groups
  BY <1>4, Pass3 DEF Inodes, Groups
<1>6. /\ scan.i % Ipg = 0 => scan.i \div Ipg = Row + 1
      /\ scan.i % Ipg # 0 => scan.i \div Ipg = Row
  BY <1>5, NextInRow DEF Row, GroupOf
<1>7. Row' = scan.i \div Ipg
  BY <1>2, <1>3, <1>5 DEF Row, GroupOf, Ipg
<1>8. /\ (scan.i - 1) + 1 = scan.i /\ (scan'.i - 1) = scan.i
  BY <1>3, <1>5
<1>9. AllInitialised' = AllInitialised /\ Inodes' = Inodes /\ Csum' = Csum /\ Ipg' = Ipg
  BY <1>2 DEF AllInitialised, Groups, Inodes, Csum, Ipg
<1>10. CASE scan.i % Ipg = 0
  <2>1. scan'.pc = "table" /\ scan'.group = scan.group + 1 /\ Row' = Row + 1
    BY <1>3, <1>6, <1>7, <1>10
  <2>2. (scan'.i - 1) % Ipg = 0
    BY <1>8, <1>10
  <2>3. /\ Row' <= scan'.group /\ AllInitialised => Row' = scan'.group
        /\ scan'.group \in Nat /\ scan'.group <= st.num_groups
        /\ scan'.i \in Nat \ {0}
    BY <1>3, <1>4, <1>5, <2>1
  <2>4. Inodes # {}
    BY <1>4
  <2>5. Placed'
    BY <1>2, <1>3, <1>4, <1>9, <2>1, <2>2, <2>3, <2>4 DEF Placed, Parts
  <2>6. QED
    BY <1>4, <2>1, <2>5 DEF Begun
<1>11. CASE scan.i % Ipg # 0
  <2>1. scan'.pc = "inodes" /\ scan'.group = scan.group /\ Row' = Row
    BY <1>3, <1>6, <1>7, <1>11
  <2>2. scan'.i \in Nat \ {0}
    BY <1>3, <1>5
  <2>3. Inodes # {}
    BY <1>4
  <2>4. Placed'
    BY <1>2, <1>3, <1>4, <1>5, <1>9, <2>1, <2>2, <2>3 DEF Placed, Parts
  <2>5. QED
    BY <1>4, <2>1, <2>4 DEF Begun
<1>12. QED
  BY <1>10, <1>11

------------------------------------------------------------------------------
(***************************************************************************)
(* Every step.                                                             *)
(***************************************************************************)

Numbers3 ==
  st.pc = "pass3" =>
    /\ Ipg \in Nat /\ st.num_groups \in Nat \ {0} /\ st.sb.inodes \in Nat
    /\ st.sb.inodes = Ipg * st.num_groups
    /\ Inodes # {} => Ipg >= 8
    /\ \A i \in Inodes : GroupOf(i) \in Nat

LEMMA HandsOn == Handed => Numbers3
<1>1. Handed /\ st.pc = "pass3" => \A i \in Inodes : GroupOf(i) \in Nat
  BY InodeAt
<1>2. QED
  BY <1>1, Pass3 DEF Numbers3

CheckVars == <<fs, st, disk, scan>>
CheckStep == (Next /\ UNCHANGED <<disk, scan>>) \/ CheckNext

LEMMA StepHanded ==
  ASSUME Handed, [CheckStep]_CheckVars
  PROVE  Handed'
<1>1. [Next]_<<fs, st>> /\ UNCHANGED disk
  BY DEF CheckStep, CheckVars, CheckNext, ReadTables, SkipGroup, Unreadable, NeverUsed, NotInUse,
         InUse, AllChecked, LookUpTypes, Do
<1>2. fs' = fs
  BY <1>1 DEF Next, ReadMaster, Sizes, SearchTable, NextPass, Compare, Compared, Numbers,
              Features, Times, Go, CleanUp
<1>3. IInv' /\ NumbersInv' /\ HandedOn'
  BY <1>1, Step, NumbersInvStep, HandedStep DEF Handed
<1>4. QED
  BY <1>1, <1>2, <1>3 DEF Handed, Describes

LEMMA NextBefore3 == Next => st.pc # "pass3"
BY DEF Next, ReadMaster, Sizes, SearchTable, NextPass, Compare, Compared, Numbers, Features, Times

(* The steps of check_inode are of a kind. *)
Looks == Checking /\ Moved /\ Kept({"marks"})
LEMMA NextLooks ==
  ASSUME DOMAIN scan = Parts, Unreadable \/ NeverUsed \/ NotInUse \/ InUse
  PROVE  Looks
BY UnreadableDoes, NeverUsedDoes, NotInUseDoes, InUseDoes DEF Looks, Kept, Results, Taken

LEMMA ZeroRow ==
  ASSUME NEW n \in Int, n > 0
  PROVE  0 \div n = 0 /\ 0 % n = 0
<1>1. (n * 0 + 0) \div n = 0 /\ (n * 0 + 0) % n = 0
  BY Quotient
<1>2. n * 0 + 0 = 0
  OBVIOUS
<1>3. QED
  BY <1>1, <1>2

(* The loop ends when the groups do. *)
LEMMA LoopEnds ==
  ASSUME Handed, Placed, st.pc = "pass3", scan.pc = "table", scan.i >= st.sb.inodes,
         Inodes # {}
  PROVE  scan.group = st.num_groups
<1> DEFINE n == st.num_groups
           r == (scan.i - 1) \div Ipg
<1>1. /\ Ipg \in Nat /\ Ipg >= 8 /\ n \in Nat \ {0} /\ st.sb.inodes = Ipg * n
  BY Pass3
<1>2. /\ scan.i \in Nat \ {0} /\ scan.group \in Nat /\ scan.group <= n
      /\ r <= scan.group /\ (scan.i - 1) % Ipg = 0
  BY DEF Placed, Row, GroupOf
<1>3. r \in Int /\ Ipg * r \in Int /\ scan.i - 1 = Ipg * r + ((scan.i - 1) % Ipg)
  <2>1. scan.i - 1 \in Int /\ Ipg \in Int /\ Ipg > 0
    BY <1>1, <1>2
  <2> HIDE DEF n
  <2>2. QED
    BY <2>1, DivMod
<1> HIDE DEF r, n
<1>4. Ipg * r >= Ipg * n - 1
  BY <1>1, <1>2, <1>3
<1>5. ~(r <= n - 1)
  <2>1. SUFFICES ASSUME r <= n - 1 PROVE FALSE
    OBVIOUS
  <2>2. Ipg * r <= Ipg * (n - 1) /\ Ipg * (n - 1) = Ipg * n - Ipg
    BY <1>1, <1>3, <2>1, Grows
  <2>3. Ipg * n \in Int
    BY <1>1
  <2>4. QED
    BY <1>1, <1>3, <1>4, <2>2, <2>3
<1>6. n \in Nat /\ r \in Int
  BY <1>1, <1>3
<1>7. scan.group = n
  BY <1>2, <1>5, <1>6
<1>8. QED
  BY <1>7 DEF n

(* The loop stays within the groups, and with the groups of the inodes. *)
LEMMA StepPlaced ==
  ASSUME Handed, Numbers3', Placed, [CheckStep]_CheckVars
  PROVE  Placed'
<1>0. DOMAIN scan = Parts
  BY DEF Placed, Parts
<1>1. CASE UNCHANGED CheckVars
  BY <1>1 DEF CheckVars, Placed, Inodes, Ipg, Row, GroupOf, AllInitialised, Groups, Csum
<1>2. CASE Next /\ UNCHANGED <<disk, scan>>
  <2>1. scan = CheckStart /\ scan' = CheckStart
    BY <1>2, NextBefore3 DEF Placed
  <2>2. /\ scan'.pc = "table" /\ scan'.i = 1 /\ scan'.group = 0
        /\ DOMAIN scan' = DOMAIN CheckStart
    BY <2>1 DEF CheckStart
  <2>3. SUFFICES ASSUME st'.pc = "pass3", Inodes' # {}
                 PROVE  Row' = 0 /\ (scan'.i - 1) % Ipg' = 0
    <3>1. st'.pc = "pass3" => 0 <= st'.num_groups
      BY DEF Numbers3
    <3>2. QED
      BY <2>1, <2>2, <2>3, <3>1 DEF Placed
  <2>4. Ipg' \in Nat /\ Ipg' >= 8 /\ st'.num_groups \in Nat
    BY <2>3 DEF Numbers3
  <2>5. 0 \div Ipg' = 0 /\ 0 % Ipg' = 0
    <3>1. PICK n : n = Ipg'
      OBVIOUS
    <3>2. n \in Int /\ n > 0
      BY <2>4, <3>1
    <3>3. 0 \div n = 0 /\ 0 % n = 0
      BY <3>2, ZeroRow
    <3>4. QED
      BY <3>1, <3>3
  <2>6. scan'.i - 1 = 0
    BY <2>2
  <2>7. QED
    BY <2>4, <2>5, <2>6 DEF Row, GroupOf
<1>3. CASE CheckNext
  <2>1. UNCHANGED <<fs, st, disk>> => /\ Inodes' = Inodes /\ Ipg' = Ipg /\ Groups' = Groups
                                      /\ AllInitialised' = AllInitialised /\ Csum' = Csum
    BY DEF Inodes, Ipg, AllInitialised, Groups, Csum
  <2>2. CheckStart.pc = "table"
    BY DEF CheckStart
  <2>3. CASE ReadTables
    <3>1. /\ UNCHANGED <<fs, st, disk>> /\ DOMAIN scan' = Parts
          /\ scan'.i = scan.i /\ scan'.group = scan.group
          /\ \/ scan'.pc = "beyond"
             \/ scan'.pc = "inodes" /\ scan.group \in Groups
          /\ st.pc = "pass3" /\ scan.pc = "table" /\ scan.i < st.sb.inodes
      BY <1>0, <2>3, ReadTablesDoes
    <3>2. scan.i \in Nat \ {0} /\ st.sb.inodes \in Nat /\ st.num_groups \in Nat
      BY <3>1, Pass3 DEF Placed
    <3>3. Inodes # {}
      BY <3>1, <3>2 DEF Inodes
    <3>4. scan.group \in Groups => scan.group < st.num_groups
      BY <3>2 DEF Groups
    <3>5. Row' = Row
      BY <2>1, <3>1 DEF Row, GroupOf
    <3>6. QED
      BY <2>1, <3>1, <3>3, <3>4, <3>5 DEF Placed, Parts
  <2>4. CASE SkipGroup
    <3>1. /\ UNCHANGED <<fs, st, disk>> /\ DOMAIN scan' = Parts
          /\ scan'.i = scan.i /\ scan'.group = scan.group + 1 /\ scan'.pc = "table"
          /\ scan.pc = "inodes" /\ scan.group \notin st.flags /\ Csum
      BY <1>0, <2>4, SkipGroupDoes
    <3>2. st.pc = "pass3"
      BY <2>2, <3>1 DEF Placed
    <3>3. /\ scan.group \in Nat /\ scan.group < st.num_groups /\ st.num_groups \in Nat
          /\ Inodes # {} /\ Row <= scan.group /\ (scan.i - 1) % Ipg = 0
      BY <3>1, <3>2, Pass3 DEF Placed
    <3>4. ~AllInitialised
      BY <3>1, <3>3 DEF AllInitialised, Groups
    <3>5. Row' = Row /\ (scan'.i - 1) % Ipg' = 0
      BY <2>1, <3>1, <3>3 DEF Row, GroupOf
    <3>6. Row \in Int
      <4>1. Ipg \in Nat /\ Ipg >= 8 /\ scan.i \in Nat
        BY <3>2, <3>3, Pass3 DEF Placed
      <4>2. QED
        BY <4>1, DivMod DEF Row, GroupOf
    <3>7. Row' <= scan'.group /\ scan'.group <= st'.num_groups /\ scan'.group \in Nat
      BY <3>1, <3>3, <3>5, <3>6
    <3>8. QED
      BY <2>1, <3>1, <3>2, <3>3, <3>4, <3>5, <3>7 DEF Placed, Parts
  <2>5. CASE AllChecked
    <3>1. /\ UNCHANGED <<fs, st, disk>> /\ DOMAIN scan' = Parts
          /\ scan'.i = scan.i /\ scan'.group = scan.group /\ scan'.pc = "checked"
          /\ scan.pc = "table" /\ scan.i >= st.sb.inodes /\ st.pc = "pass3"
      BY <1>0, <2>5, AllCheckedDoes
    <3>2. Inodes # {} => scan.group = st.num_groups
      BY <3>1, LoopEnds
    <3>3. QED
      BY <2>1, <3>1, <3>2 DEF Placed, Parts
  <2>6. CASE LookUpTypes
    <3>1. /\ UNCHANGED <<fs, st, disk>> /\ DOMAIN scan' = Parts
          /\ scan'.i = scan.i /\ scan'.group = scan.group
          /\ scan'.pc \in {"compared", "died"} /\ scan.pc = "checked"
      BY <1>0, <2>6, LookUpTypesDoes
    <3>2. st.pc = "pass3"
      BY <2>2, <3>1 DEF Placed
    <3>3. QED
      BY <2>1, <3>1, <3>2 DEF Placed, Parts
  <2>7. CASE Unreadable \/ NeverUsed \/ NotInUse \/ InUse
    BY <1>0, <2>7, NextLooks, MovedPlaced DEF Looks
  <2>8. QED
    BY <1>3, <2>3, <2>4, <2>5, <2>6, <2>7 DEF CheckNext
<1>4. QED
  BY <1>1, <1>2, <1>3 DEF CheckStep

------------------------------------------------------------------------------
(***************************************************************************)
(* The marks.                                                              *)
(***************************************************************************)

(* The cluster with the super block of a group, as fsck.c computes it from *)
(* blocks, is the first of the group.                                      *)
LEMMA MarkedHome ==
  ASSUME NEW f \in FileSystems, NEW g \in Nat
  PROVE  MarkedAt(f.cs, f.cpg, g) = Home(f, g)
<1>1. /\ f.cs \in {2, 4, 8, 16, 32, 64, 128} /\ f.cpg \in Nat
      /\ f.first = IF f.cs = 2 THEN 1 ELSE 0
  BY FileSystemsAssumption
<1> DEFINE k == g * f.cpg
<1>2. k \in Nat /\ g * (f.cpg * f.cs) = f.cs * k
  BY <1>1
<1>3. MarkedAt(f.cs, f.cpg, g) = (2 + f.cs * k) \div f.cs
  BY <1>2 DEF MarkedAt
<1> HIDE DEF k
<1>4. CASE f.cs = 2
  <2>1. 2 + f.cs * k = 2 * (k + 1) + 0
    BY <1>2, <1>4
  <2>2. (2 * (k + 1) + 0) \div 2 = k + 1
    BY <1>2, Quotient
  <2>3. QED
    BY <1>1, <1>2, <1>3, <1>4, <2>1, <2>2 DEF Home, k
<1>5. CASE f.cs # 2
  <2>1. 2 \in 0..f.cs - 1 /\ f.cs \in Int /\ f.cs > 0 /\ 2 + f.cs * k = f.cs * k + 2
    BY <1>1, <1>2, <1>5
  <2>2. (f.cs * k + 2) \div f.cs = k
    BY <1>2, <2>1, Quotient
  <2>3. QED
    BY <1>1, <1>2, <1>3, <1>5, <2>1, <2>2 DEF Home, k
<1>6. QED
  BY <1>4, <1>5

(* The features in memory say where the copies are. *)
LEMMA SameGroups ==
  ASSUME Handed, st.pc = "pass3", NEW g
  PROVE  GroupHasSuperBlock(st.sb, g) <=> GroupHasSuperBlock(OldRevision(fs.sb), g)
<1>1. DOMAIN fs.sb = Masks \cup Numerals
  BY FileSystemsAssumption DEF Handed, IInv
<1>2. SPARSE_SUPER \in OldRevision(fs.sb).ro <=> Sparse(fs.sb)
  BY <1>1, RevisionHanded
<1>3. SPARSE_SUPER \in st.sb.ro <=> Sparse(st.sb)
  BY DEF Handed, HandedOn, Sparse
<1>4. Sparse(st.sb) <=> Sparse(fs.sb)
  BY DEF Handed, HandedOn
<1>5. QED
  BY <1>2, <1>3, <1>4 DEF GroupHasSuperBlock

(* One group more. *)
LEMMA WrittenNext ==
  ASSUME NEW f, NEW n \in Nat, NEW k
  PROVE  /\ Written(f, 0, k) = {}
         /\ Written(f, n + 1, k) =
              Written(f, n, k) \cup IF GroupHasSuperBlock(OldRevision(f.sb), n)
                                   THEN CopyOf(f, n, k) ELSE {}
<1>1. 0..(n + 1) - 1 = (0..n - 1) \cup {n}
  OBVIOUS
<1> DEFINE With(m) == {h \in 0..m - 1 : GroupHasSuperBlock(OldRevision(f.sb), h)}
<1>2. With(n + 1) = With(n) \cup IF GroupHasSuperBlock(OldRevision(f.sb), n) THEN {n} ELSE {}
  BY <1>1
<1>3. With(0) = {}
  OBVIOUS
<1> HIDE DEF With
<1>4. \A m : Written(f, m, k) = UNION {CopyOf(f, g, k) : g \in With(m)}
  BY DEF Written, With
<1>5. QED
  BY <1>2, <1>3, <1>4

LEMMA MarksOfGroup ==
  ASSUME Handed, st.pc = "pass3", Sane, NEW g \in Groups,
         NEW offset \in (IF st.offset = {} THEN {0, 1} ELSE st.offset)
  PROVE  LET copy == IF GroupHasSuperBlock(OldRevision(fs.sb), g)
                     THEN CopyOf(fs, g, GdtClusters) ELSE {}
         IN  \/ MarksOf(g, offset) = copy
             \/ Groups = {0} /\ MarksOf(g, offset) = copy \ {<<0, <<"super", 0>>>>}
<1> DEFINE at == MarkedAt(fs.cs, st.sb.cpg, g)
           gap == IF g = 0 THEN {<<c, <<"super", 0>>>> : c \in 1..at - 1} ELSE {}
           sb  == IF at # 0 \/ offset = 0 THEN {<<at, <<"super", g>>>>} ELSE {}
           table == {<<c, <<"table", g>>>> : c \in at + 1..at + GdtClusters}
<1>1. fs \in FileSystems /\ st.num_groups \in Nat \ {0} /\ g \in Nat /\ g < st.num_groups
  BY Pass3 DEF Handed, IInv, Groups
<1>2. fs.cpg = st.sb.cpg /\ fs.cpg \in Nat /\ fs.cpg > 0
  <2>1. st.sb.cpg = fs.cpg
    BY DEF Handed, HandedOn, Sane
  <2>2. st.sb.cpg # 0
    BY DEF Handed, NumbersInv, Using
  <2>3. QED
    BY <1>1, <2>1, <2>2, FileSystemsAssumption
<1>3. at = Home(fs, g) /\ at \in Nat
  <2>1. at = Home(fs, g)
    BY <1>1, <1>2, MarkedHome
  <2>2. fs.first \in Nat /\ g * fs.cpg \in Nat
    BY <1>1, <1>2, FileSystemsAssumption
  <2>3. QED
    BY <2>1, <2>2 DEF Home
<1>4. g = 0 => at \in {0, 1}
  BY <1>1, <1>2, <1>3, FileSystemsAssumption DEF Home
<1>5. gap = {}
  <2> HIDE DEF at
  <2>1. QED
    BY <1>3, <1>4
<1>6. at = 0 => g = 0 /\ Offset(fs.cs) = 0
  <2>1. SUFFICES ASSUME at = 0 PROVE g = 0 /\ Offset(fs.cs) = 0
    OBVIOUS
  <2>2. fs.first \in {0, 1} /\ (fs.first = 0 => fs.cs # 2)
    BY <1>1, FileSystemsAssumption
  <2>3. g * fs.cpg \in Nat /\ fs.first + g * fs.cpg = 0
    BY <1>1, <1>2, <1>3, <2>1 DEF Home
  <2>4. g * fs.cpg = 0 /\ fs.first = 0
    BY <2>2, <2>3
  <2>5. g = 0
    <3>1. fs.cpg * 1 <= fs.cpg * g \/ g = 0
      BY <1>1, <1>2, Grows
    <3>2. fs.cpg * g = g * fs.cpg
      BY <1>1, <1>2
    <3>3. QED
      BY <1>2, <2>4, <3>1, <3>2
  <2>6. QED
    BY <2>2, <2>4, <2>5 DEF Offset
<1>7. MarksOf(g, offset) = IF GroupHasSuperBlock(OldRevision(fs.sb), g)
                           THEN gap \cup sb \cup table ELSE {}
  BY SameGroups DEF MarksOf
<1>8. CopyOf(fs, g, GdtClusters) = {<<at, <<"super", g>>>>} \cup table
  BY <1>3 DEF CopyOf
<1>9. CASE at # 0 \/ offset = 0
  BY <1>5, <1>7, <1>8, <1>9
<1>10. CASE at = 0 /\ offset # 0
  <2>1. g = 0 /\ Offset(fs.cs) = 0
    BY <1>6, <1>10
  <2>2. st.offset = {}
    BY <1>10, <2>1 DEF Handed, HandedOn
  <2>3. st.num_groups <= 1
    BY <1>1, <2>2 DEF Handed, HandedOn
  <2>4. Groups = {0}
    BY <1>1, <2>3 DEF Groups
  <2>5. <<0, <<"super", 0>>>> \notin table
    <3> HIDE DEF at
    <3>1. QED
      BY <1>10, <2>1
  <2> HIDE DEF at, gap, table
  <2>6. QED
    BY <1>5, <1>7, <1>8, <1>10, <2>1, <2>4, <2>5
<1>11. QED
  BY <1>9, <1>10

LEMMA StepMarked ==
  ASSUME Handed, Placed, Marked, [CheckStep]_CheckVars
  PROVE  Marked'
<1>0. DOMAIN scan = Parts
  BY DEF Placed, Parts
<1>1. UNCHANGED <<fs, st>> =>
        /\ Sane' = Sane /\ Inodes' = Inodes /\ Groups' = Groups /\ GdtClusters' = GdtClusters
        /\ fs' = fs /\ st' = st
  BY DEF Sane, Inodes, Groups, GdtClusters
<1> DEFINE Same == /\ UNCHANGED <<fs, st>> /\ scan.pc # "beyond" /\ Begun' = Begun
                   /\ scan'.marks = scan.marks
<1>2. Same => Marked'
  BY <1>1 DEF Marked
<1>3. CASE UNCHANGED CheckVars
  <2>1. Begun' = Begun
    BY <1>3 DEF Begun, CheckVars
  <2>2. QED
    BY <1>1, <1>3, <2>1 DEF CheckVars, Marked
<1>4. CASE Next /\ UNCHANGED <<disk, scan>>
  <2>1. scan' = CheckStart
    BY <1>4, NextBefore3 DEF Placed
  <2>2. Begun' = 0 /\ scan'.marks = {}
    BY <2>1 DEF Begun, CheckStart
  <2>3. Written(fs', Begun', GdtClusters') = {}
    <3>1. \A k : Written(fs', 0, k) = {}
      BY WrittenNext
    <3>2. QED
      BY <2>2, <3>1
  <2>4. QED
    BY <2>2, <2>3 DEF Marked
<1>5. CASE ReadTables
  <2>1. /\ UNCHANGED <<fs, st, disk>> /\ scan'.group = scan.group
        /\ scan'.pc = "beyond" \/ (scan'.pc = "inodes" /\ scan.group \in Groups)
        /\ st.pc = "pass3" /\ scan.pc = "table"
    BY <1>0, <1>5, ReadTablesDoes
  <2>2. SUFFICES ASSUME scan'.pc # "beyond", Sane, Inodes # {}
                 PROVE  \/ scan'.marks = Written(fs, Begun', GdtClusters)
                        \/ /\ Groups = {0}
                           /\ scan'.marks = Written(fs, Begun', GdtClusters)
                                              \ {<<0, <<"super", 0>>>>}
    BY <1>1, <2>1 DEF Marked
  <2>3. Begun = scan.group /\ Begun' = scan.group + 1 /\ scan.group \in Nat
        /\ scan.group \in Groups
    BY <2>1, <2>2 DEF Begun, Placed
  <2>4. PICK offset \in (IF st.offset = {} THEN {0, 1} ELSE st.offset) :
          scan'.marks = scan.marks \cup MarksOf(scan.group, offset)
    <3> DEFINE g == scan.group
               map == scan.map \cup MapRead(g)
               s == [scan EXCEPT !.map = map, !.have_free = FALSE, !.pc = "inodes"]
               eio == s.eio \cup EioInodes(g)
               m(marks) == [s EXCEPT !.marks = marks]
               n(marks) == [m(marks) EXCEPT !.in_slot = g, !.eio = eio]
    <3>1. PICK offset \in (IF st.offset = {} THEN {0, 1} ELSE st.offset) :
            LET m1 == [s EXCEPT !.marks = @ \cup MarksOf(g, offset)]
            IN  Do(IF g \in st.flags
                   THEN [m1 EXCEPT !.in_slot = g, !.eio = @ \cup EioInodes(g)] ELSE m1)
      BY <1>5, <2>3 DEF ReadTables
    <3> DEFINE k == scan.marks \cup MarksOf(g, offset)
    <3>2. s.marks = scan.marks
      <4> HIDE DEF map
      <4>1. QED
        OBVIOUS
    <3>3. m(k).eio = s.eio
      <4> HIDE DEF map, k
      <4>1. QED
        OBVIOUS
    <3>4. Do(m(k)) \/ Do(n(k))
      BY <3>1, <3>2, <3>3
    <3>5. m(k).marks = k /\ n(k).marks = k
      <4> HIDE DEF map, k, eio
      <4>1. QED
        BY <1>0 DEF Parts, CheckStart
    <3> HIDE DEF m, n
    <3>6. QED
      BY <3>4, <3>5 DEF Do
  <2> DEFINE g == scan.group
             copy == IF GroupHasSuperBlock(OldRevision(fs.sb), g)
                     THEN CopyOf(fs, g, GdtClusters) ELSE {}
             boot == {<<0, <<"super", 0>>>>}
  <2>5. \/ MarksOf(g, offset) = copy
        \/ Groups = {0} /\ MarksOf(g, offset) = copy \ boot
    BY <2>1, <2>2, <2>3, <2>4, MarksOfGroup
  <2>6. Written(fs, Begun', GdtClusters) = Written(fs, Begun, GdtClusters) \cup copy
    BY <2>3, WrittenNext
  <2>7. \/ scan.marks = Written(fs, Begun, GdtClusters)
        \/ Groups = {0} /\ scan.marks = Written(fs, Begun, GdtClusters) \ boot
    BY <2>1, <2>2 DEF Marked
  <2>8. Groups = {0} => Written(fs, Begun, GdtClusters) = {}
    <3>1. Groups = {0} => Begun = 0
      BY <2>3
    <3>2. QED
      BY <3>1, WrittenNext
  <2> HIDE DEF copy
  <2>9. QED
    BY <2>4, <2>5, <2>6, <2>7, <2>8
<1>6. CASE SkipGroup
  <2>1. /\ UNCHANGED <<fs, st, disk>> /\ scan'.group = scan.group + 1 /\ scan'.pc = "table"
        /\ scan'.marks = scan.marks /\ scan.pc = "inodes"
    BY <1>0, <1>6, SkipGroupDoes DEF Kept, Results
  <2>2. QED
    BY <1>2, <2>1 DEF Begun
<1>7. CASE AllChecked
  <2>1. /\ UNCHANGED <<fs, st, disk>> /\ scan'.group = scan.group /\ scan'.pc = "checked"
        /\ scan'.marks = scan.marks /\ scan.pc = "table"
    BY <1>0, <1>7, AllCheckedDoes DEF Kept, Results
  <2>2. QED
    BY <1>2, <2>1 DEF Begun
<1>8. CASE LookUpTypes
  <2>1. /\ UNCHANGED <<fs, st, disk>> /\ scan'.group = scan.group
        /\ scan'.pc \in {"compared", "died"}
        /\ scan'.marks = scan.marks /\ scan.pc = "checked"
    BY <1>0, <1>8, LookUpTypesDoes DEF Kept, Results
  <2>2. QED
    BY <1>2, <2>1 DEF Begun
<1>9. CASE Unreadable \/ NeverUsed \/ NotInUse \/ InUse
  <2>1. Looks
    BY <1>0, <1>9, NextLooks
  <2>2. scan'.marks = scan.marks
    BY <2>1 DEF Looks, Kept
  <2>3. UNCHANGED <<fs, st>> /\ scan.pc # "beyond" /\ Begun' = Begun
    BY <2>1, MovedPlaced DEF Looks, Moved, Checking
  <2>4. QED
    BY <1>2, <2>2, <2>3
<1>10. QED
  BY <1>3, <1>4, <1>5, <1>6, <1>7, <1>8, <1>9 DEF CheckStep, CheckNext

LEMMA MarkedIsRight ==
  ASSUME Handed, Placed, Marked
  PROVE  MarksRight
<1>1. SUFFICES ASSUME scan.pc = "checked", Sane, Inodes # {}
               PROVE  LET home(g) == fs.first + g * fs.cpg
                          with    == {g \in Groups : GroupHasSuperBlock(OldRevision(fs.sb), g)}
                          written == {<<home(g), <<"super", g>>>> : g \in with}
                                     \cup UNION {{<<c, <<"table", g>>>> : c \in home(g) + 1..home(g) + GdtClusters} : g \in with}
                      IN  \/ scan.marks = written
                          \/ Groups = {0} /\ scan.marks = written \ {<<0, <<"super", 0>>>>}
  BY DEF MarksRight
<1> DEFINE with    == {g \in Groups : GroupHasSuperBlock(OldRevision(fs.sb), g)}
           written == {<<Home(fs, g), <<"super", g>>>> : g \in with}
                      \cup UNION {{<<c, <<"table", g>>>> : c \in Home(fs, g) + 1..Home(fs, g) + GdtClusters} : g \in with}
<1>2. st.pc = "pass3" /\ Begun = st.num_groups
  BY <1>1 DEF Placed, CheckStart, Begun
<1>3. Written(fs, Begun, GdtClusters) = UNION {CopyOf(fs, g, GdtClusters) : g \in with}
  BY <1>2 DEF Written, Groups
<1>4. UNION {CopyOf(fs, g, GdtClusters) : g \in with} = written
  <2> HIDE DEF with
  <2>1. QED
    BY DEF CopyOf
<1>5. \/ scan.marks = written
      \/ Groups = {0} /\ scan.marks = written \ {<<0, <<"super", 0>>>>}
  BY <1>1, <1>2, <1>3, <1>4 DEF Marked
<1>6. QED
  BY <1>5 DEF Home

------------------------------------------------------------------------------
(***************************************************************************)
(* The inodes that are said to have never been used.                       *)
(***************************************************************************)

FreeInv == Once /\ HaveFree /\ NeverUsedClaims

(* Where the next inode is. *)
LEMMA NextInode ==
  ASSUME Handed, Placed, Checking, Moved
  PROVE  /\ st.pc = "pass3" /\ scan.pc = "inodes" /\ scan.i \in Nat \ {0} /\ scan'.i = scan.i + 1
         /\ scan'.pc \in {"table", "inodes"}
         /\ scan'.pc = "inodes" => GroupOf(scan'.i) = GroupOf(scan.i)
         /\ \A k : GroupOf(k)' = GroupOf(k)
<1>1. /\ scan.pc = "inodes" /\ scan.i \in Inodes /\ st.pc = "pass3"
      /\ scan'.i = scan.i + 1 /\ st' = st
      /\ scan'.pc = IF scan.i % Ipg = 0 THEN "table" ELSE "inodes"
  BY CheckingAt DEF Moved
<1>2. Ipg \in Nat /\ Ipg >= 8 /\ scan.i \in Nat \ {0}
  BY <1>1, Pass3 DEF Inodes
<1>3. scan.i % Ipg # 0 => scan.i \div Ipg = (scan.i - 1) \div Ipg
  BY <1>2, NextInRow
<1>4. scan'.i - 1 = scan.i
  BY <1>1, <1>2
<1>5. \A k : GroupOf(k)' = GroupOf(k)
  BY <1>1 DEF GroupOf, Ipg
<1>6. scan'.pc = "inodes" => GroupOf(scan'.i) = GroupOf(scan.i)
  BY <1>1, <1>3, <1>4 DEF GroupOf
<1>7. QED
  BY <1>1, <1>2, <1>5, <1>6

(* One more inode was looked at, and at most one more is said to have never *)
(* been used. *)
LEMMA FreeOnwards ==
  ASSUME Handed, Placed, FreeInv, Checking, Moved,
         DOMAIN scan'.type \subseteq DOMAIN scan.type \cup {scan.i},
         \A k \in DOMAIN scan.type : scan'.type[k] = scan.type[k],
         \/ scan'.calculated = scan.calculated
         \/ scan'.calculated = scan.calculated \cup {scan.i} /\ ~scan'.have_free,
         scan'.have_free =>
           \/ scan.have_free
           \/ scan.i >= st.sb.first_inode /\ (scan.i \in DOMAIN scan'.type => scan'.type[scan.i] = "FREE"),
         \/ scan'.never = scan.never
         \/ /\ scan'.never = scan.never \cup {scan.i} /\ scan.have_free
            /\ Kept({"type", "calculated"}),
         \A w \in scan'.wrong : w \in scan.wrong \/ w[1] = scan.i
  PROVE  FreeInv'
<1>1. /\ st.pc = "pass3" /\ scan.pc = "inodes" /\ scan.i \in Nat \ {0} /\ scan'.i = scan.i + 1
      /\ scan'.pc \in {"table", "inodes"}
      /\ scan'.pc = "inodes" => GroupOf(scan'.i) = GroupOf(scan.i)
      /\ \A k : GroupOf(k)' = GroupOf(k)
  BY NextInode
<1>2. /\ st' = st /\ st.sb.first_inode \in Nat
  BY <1>1, Pass3 DEF Moved
<1>3. /\ scan.calculated \subseteq 1..scan.i - 1 /\ DOMAIN scan.type \subseteq 1..scan.i - 1
      /\ scan.never \subseteq 1..scan.i - 1
  BY <1>1 DEF FreeInv, Once
<1>4. Once'
  <2>1. \A w \in scan'.wrong : w[1] \in 1..scan'.i - 1
    <3>1. \A w \in scan.wrong : w[1] \in 1..scan.i - 1
      BY DEF FreeInv, Once
    <3>2. 1..scan.i - 1 \subseteq 1..scan'.i - 1 /\ scan.i \in 1..scan'.i - 1
      BY <1>1
    <3>3. QED
      BY <3>1, <3>2
  <2>2. scan'.calculated \cup DOMAIN scan'.type \cup scan'.never \subseteq 1..scan'.i - 1
    <3>1. scan'.calculated \cup DOMAIN scan'.type \cup scan'.never \subseteq 1..scan.i - 1 \cup {scan.i}
      BY <1>3
    <3>2. 1..scan.i - 1 \cup {scan.i} \subseteq 1..scan'.i - 1
      BY <1>1
    <3>3. QED
      BY <3>1, <3>2
  <2>3. QED
    BY <2>1, <2>2 DEF Once
<1>5. ASSUME NEW f \in st.sb.first_inode..scan.i - 1, f > 0, NEW i \in Nat, i < scan.i, FreeFrom(f, i)
      PROVE  FreeFrom(f, i)'
  <2>1. f \in Int /\ f < scan.i /\ f # scan.i
    BY <1>1, <1>2, <1>5
  <2>2. f \in DOMAIN scan'.type => scan'.type[f] = "FREE"
    BY <1>5, <2>1 DEF FreeFrom
  <2>3. \A k \in f..i : k \notin scan'.calculated
    <3>1. scan.i \notin f..i
      BY <1>1, <1>5, <2>1
    <3>2. QED
      BY <1>5, <3>1 DEF FreeFrom
  <2>4. QED
    BY <1>1, <1>5, <2>2, <2>3 DEF FreeFrom
<1>6. NeverUsedClaims'
  <2> SUFFICES ASSUME NEW i \in scan'.never
               PROVE  \E f \in st.sb.first_inode..i - 1 : FreeFrom(f, i)'
    BY <1>2 DEF NeverUsedClaims, FreeFrom
  <2>1. CASE i \in scan.never
    <3>1. PICK f \in st.sb.first_inode..i - 1 :
            /\ GroupOf(f) = GroupOf(i)
            /\ f \in DOMAIN scan.type => scan.type[f] = "FREE"
            /\ \A k \in f..i : k \notin scan.calculated
      BY <2>1 DEF FreeInv, NeverUsedClaims
    <3>2. i \in 1..scan.i - 1
      BY <1>3, <2>1
    <3>3. f \in Int /\ f # scan.i /\ scan.i \notin f..i
      BY <1>1, <1>2, <3>2
    <3>4. f \in DOMAIN scan'.type => scan'.type[f] = "FREE"
      BY <3>1, <3>3
    <3>5. \A k \in f..i : k \notin scan'.calculated
      BY <3>1, <3>3
    <3>6. QED
      BY <1>1, <3>1, <3>4, <3>5 DEF FreeFrom
  <2>2. CASE i = scan.i /\ scan.have_free /\ Kept({"type", "calculated"})
    <3>1. PICK f \in st.sb.first_inode..i - 1 : f > 0 /\ FreeFrom(f, i)
      BY <1>1, <2>2 DEF FreeInv, HaveFree
    <3>2. FreeFrom(f, i)'
      BY <1>1, <2>2, <3>1 DEF FreeFrom, Kept
    <3>3. QED
      BY <3>1, <3>2
  <2>3. QED
    BY <2>1, <2>2
<1>7. HaveFree'
  <2> PICK here, next : here = scan.i /\ next = scan'.i
    OBVIOUS
  <2> SUFFICES ASSUME scan'.pc = "inodes", scan'.have_free
               PROVE  \E f \in st.sb.first_inode..here : f > 0 /\ FreeFrom(f, next)'
    <3>1. here = next - 1
      BY <1>1
    <3>2. QED
      BY <1>2, <3>1 DEF HaveFree, FreeFrom
  <2>0. scan'.calculated = scan.calculated /\ next = here + 1 /\ here \in Nat \ {0}
    BY <1>1
  <2>1. here \notin scan.calculated /\ next \notin scan.calculated
    BY <1>3, <2>0
  <2>2. CASE scan.have_free
    <3>1. PICK f \in st.sb.first_inode..here - 1 : f > 0 /\ FreeFrom(f, here)
      BY <1>1, <2>2 DEF FreeInv, HaveFree
    <3>2. f \in Int /\ f # here /\ f \in st.sb.first_inode..here
      BY <1>2, <2>0
    <3>3. f..next = f..here \cup {next}
      BY <2>0, <3>1, <3>2
    <3>4. QED
      BY <1>1, <2>0, <2>1, <3>1, <3>2, <3>3 DEF FreeFrom
  <2>3. CASE ~scan.have_free
    <3>1. /\ here \in st.sb.first_inode..here /\ here > 0
          /\ here \in DOMAIN scan'.type => scan'.type[here] = "FREE"
      BY <1>2, <2>0, <2>3
    <3>2. here..next = {here, next}
      BY <2>0
    <3>3. \A k \in here..next : k \notin scan'.calculated
      BY <2>0, <2>1, <3>2
    <3>4. QED
      BY <1>1, <3>1, <3>3 DEF FreeFrom
  <2>4. QED
    BY <2>2, <2>3
<1>8. QED
  BY <1>4, <1>6, <1>7 DEF FreeInv

LEMMA StepFree ==
  ASSUME Handed, Placed, FreeInv, [CheckStep]_CheckVars
  PROVE  FreeInv'
<1>0. DOMAIN scan = Parts
  BY DEF Placed, Parts
<1>1. CASE UNCHANGED CheckVars
  BY <1>1 DEF CheckVars, FreeInv, Once, HaveFree, NeverUsedClaims, FreeFrom, GroupOf, Ipg
<1>2. CASE Next /\ UNCHANGED <<disk, scan>>
  <2>1. scan' = CheckStart
    BY <1>2, NextBefore3 DEF Placed
  <2>2. /\ scan'.pc = "table" /\ scan'.i = 1 /\ scan'.calculated = {} /\ DOMAIN scan'.type = {}
        /\ scan'.never = {} /\ scan'.wrong = {}
    BY <2>1 DEF CheckStart
  <2>3. QED
    BY <2>2 DEF FreeInv, Once, HaveFree, NeverUsedClaims
(* Steps that look at no inode. *)
<1>3. ASSUME UNCHANGED <<fs, st, disk>>, Kept({"type", "never", "wrong"}), scan'.i = scan.i,
             scan'.pc \in {"table", "inodes"} => scan.pc \in {"table", "inodes"}
                                                 /\ Kept({"calculated"}),
             scan'.pc = "inodes" => ~scan'.have_free,
             \/ Kept({"calculated"})
             \/ scan'.calculated = scan.calculated \cup 1..st.sb.first_inode - 1
                /\ st.pc = "pass3" /\ scan.pc = "table"
      PROVE  FreeInv'
  <2>1. \A k : GroupOf(k)' = GroupOf(k)
    BY <1>3 DEF GroupOf, Ipg
  <2>2. Once'
    BY <1>3 DEF Kept, FreeInv, Once
  <2>3. HaveFree'
    BY <1>3 DEF HaveFree
  <2>4. ASSUME NEW i \in scan.never, NEW f \in st.sb.first_inode..i - 1, NEW k \in f..i,
               k \notin scan.calculated
        PROVE  k \notin scan'.calculated
    <3>1. CASE Kept({"calculated"})
      BY <2>4, <3>1 DEF Kept
    <3>2. CASE scan'.calculated = scan.calculated \cup 1..st.sb.first_inode - 1
               /\ st.pc = "pass3" /\ scan.pc = "table"
      <4>1. st.sb.first_inode \in Nat
        BY <3>2, Pass3
      <4>2. i \in Int
        BY <3>2 DEF FreeInv, Once, Placed
      <4>3. k \notin 1..st.sb.first_inode - 1
        BY <2>4, <4>1, <4>2
      <4>4. QED
        BY <2>4, <3>2, <4>3
    <3>3. QED
      BY <1>3, <3>1, <3>2
  <2>5. NeverUsedClaims'
    BY <1>3, <2>1, <2>4 DEF Kept, FreeInv, NeverUsedClaims
  <2>6. QED
    BY <2>2, <2>3, <2>5 DEF FreeInv
<1>4. CASE ReadTables
  <2>1. /\ UNCHANGED <<fs, st, disk>> /\ scan'.i = scan.i
        /\ Kept(Results \ {"in_slot", "eio", "marks", "map"})
        /\ scan'.pc = "beyond" \/ (scan'.pc = "inodes" /\ ~scan'.have_free)
        /\ scan.pc = "table"
    BY <1>0, <1>4, ReadTablesDoes DEF ReadTables
  <2>2. QED
    BY <1>3, <2>1 DEF Kept, Results
<1>5. CASE SkipGroup
  <2>1. /\ UNCHANGED <<fs, st, disk>> /\ scan'.i = scan.i /\ scan'.pc = "table"
        /\ Kept(Results) /\ scan.pc = "inodes"
    BY <1>0, <1>5, SkipGroupDoes
  <2>2. QED
    BY <1>3, <2>1 DEF Kept, Results
<1>6. CASE AllChecked
  <2>1. /\ UNCHANGED <<fs, st, disk>> /\ scan'.i = scan.i /\ scan'.pc = "checked"
        /\ Kept(Results \ {"calculated"}) /\ scan.pc = "table" /\ st.pc = "pass3"
        /\ scan'.calculated = scan.calculated \cup 1..st.sb.first_inode - 1
    BY <1>0, <1>6, AllCheckedDoes
  <2>2. QED
    BY <1>3, <2>1 DEF Kept, Results
<1>7. CASE LookUpTypes
  <2>1. /\ UNCHANGED <<fs, st, disk>> /\ scan'.i = scan.i /\ scan'.pc \in {"compared", "died"}
        /\ Kept(Results \ {"differs"})
    BY <1>0, <1>7, LookUpTypesDoes
  <2>2. QED
    BY <1>3, <2>1 DEF Kept, Results
<1>8. CASE Unreadable
  <2>1. /\ Checking /\ Moved /\ Kept(Results \ {"never"})
        /\ scan'.never = IF scan.have_free THEN scan.never \cup {scan.i} ELSE scan.never
        /\ scan'.have_free => scan.have_free
    BY <1>0, <1>8, UnreadableDoes
  <2>2. /\ Kept({"type", "calculated"}) /\ scan'.wrong = scan.wrong
        /\ scan'.type = scan.type /\ scan'.calculated = scan.calculated
    BY <2>1 DEF Kept, Results
  <2>3. QED
    BY <2>1, <2>2, FreeOnwards
<1>9. CASE NeverUsed
  <2>1. /\ Checking /\ Moved /\ Kept(Results)
        /\ scan'.have_free => scan.have_free \/ scan.i >= st.sb.first_inode
    BY <1>0, <1>9, NeverUsedDoes
  <2>2. /\ scan'.wrong = scan.wrong /\ scan'.type = scan.type /\ scan'.never = scan.never
        /\ scan'.calculated = scan.calculated
    BY <2>1 DEF Kept, Results
  <2>3. scan.i \notin DOMAIN scan'.type
    <3>1. DOMAIN scan.type \subseteq 1..scan.i - 1 /\ scan.i \in Nat
      BY <2>1, CheckingAt DEF FreeInv, Once, Placed
    <3>2. scan.i \notin 1..scan.i - 1
      BY <3>1
    <3>3. QED
      BY <2>2, <3>1, <3>2
  <2>4. QED
    BY <2>1, <2>2, <2>3, FreeOnwards
<1>10. CASE NotInUse
  <2>1. PICK x \in InSlot(scan.i) :
           /\ Checking /\ Moved /\ Kept(Results \ {"type"})
           /\ scan'.type = Noted(scan.i, Type(x))
           /\ scan'.have_free => Type(x) = "FREE"
                                 /\ (scan.have_free \/ scan.i >= st.sb.first_inode)
    BY <1>0, <1>10, NotInUseDoes
  <2>2. /\ scan'.wrong = scan.wrong /\ scan'.never = scan.never
        /\ scan'.calculated = scan.calculated
    BY <2>1 DEF Kept, Results
  <2>3. DOMAIN scan.type \subseteq 1..scan.i - 1 /\ scan.i \in Nat
    BY <2>1, CheckingAt DEF FreeInv, Once, Placed
  <2>4. scan.i \notin DOMAIN scan.type
    BY <2>3
  <2>5. /\ DOMAIN scan'.type = DOMAIN scan.type \cup {scan.i}
        /\ \A k \in DOMAIN scan.type : scan'.type[k] = scan.type[k]
        /\ scan'.type[scan.i] = Type(x)
    BY <2>1, <2>4 DEF Noted
  <2>6. QED
    BY <2>1, <2>2, <2>5, FreeOnwards
<1>11. CASE InUse
  <2>1. PICK x \in InSlot(scan.i) : Checking /\ Moved /\ Taken(x)
    BY <1>0, <1>11, InUseDoes
  <2>2. /\ scan'.type = Noted(scan.i, Type(x)) /\ scan'.never = scan.never
        /\ scan'.calculated = scan.calculated \cup {scan.i} /\ ~scan'.have_free
    BY <2>1 DEF Taken, Kept
  <2>3. DOMAIN scan.type \subseteq 1..scan.i - 1 /\ scan.i \in Nat
    BY <2>1, CheckingAt DEF FreeInv, Once, Placed
  <2>4. scan.i \notin DOMAIN scan.type
    BY <2>3
  <2>5. /\ DOMAIN scan'.type = DOMAIN scan.type \cup {scan.i}
        /\ \A k \in DOMAIN scan.type : scan'.type[k] = scan.type[k]
    BY <2>2, <2>4 DEF Noted
  <2>6. \A w \in scan'.wrong : w \in scan.wrong \/ w[1] = scan.i
    BY <2>1 DEF Taken, Kept
  <2>7. QED
    BY <2>1, <2>2, <2>5, <2>6, FreeOnwards
<1>12. QED
  BY <1>1, <1>2, <1>4, <1>5, <1>6, <1>7, <1>8, <1>9, <1>10, <1>11 DEF CheckStep, CheckNext

------------------------------------------------------------------------------
(***************************************************************************)
(* The repairs.                                                            *)
(***************************************************************************)

IsInode(x) == /\ DOMAIN x = {"type", "flags"} \cup Numbered
              /\ \A n \in Numbered : x[n] \in Nat

(* What is taken for an inode in use of a known type is an inode of the    *)
(* device.                                                                 *)
LEMMA SlotIsInode ==
  ASSUME Handed, st.pc = "pass3", scan.i \in Inodes, NEW x \in InSlot(scan.i),
         x.links > 0, x.type \in Types
  PROVE  IsInode(x)
<1>1. x # Zero /\ x # Bits
  <2>1. Zero.links = 0 /\ Bits.type = "bits"
    BY DEF Bits, Zero
  <2>2. ~(0 > 0) /\ "bits" \notin Types
    BY DEF Types
  <2>3. QED
    BY <2>1, <2>2
<1> DEFINE r == (scan.i - 1) % Ipg
<1>2. PICK g \in Groups : x = disk.inode[1 + g * Ipg + r]
  BY <1>1 DEF InSlot
<1>3. r \in 0..Ipg - 1
  BY InodeAt
<1> HIDE DEF r
<1>4. 1 + g * Ipg + r \in 1..st.sb.inodes
  BY <1>3, IsThere DEF Inodes
<1>5. disk \in Tables /\ 1 + g * Ipg + r \in DOMAIN disk.inode
  <2>1. st.sb.inodes = fs.sb.inodes
    BY DEF Handed, HandedOn
  <2>2. QED
    BY <1>4, <2>1 DEF Handed, Describes
<1>6. QED
  BY <1>2, <1>5, TablesAssumption DEF IsInode

(* The inode that a repair makes of one. *)
Device(x) == x.type \notin {"FILE", "DIRE", "SLNK"}
LEMMA RepairedIs ==
  ASSUME NEW x, IsInode(x), NEW i
  PROVE  /\ DOMAIN Repaired(i, x) = DOMAIN x
         /\ Repaired(i, x).type = x.type /\ Repaired(i, x).links = x.links
         /\ Repaired(i, x).dtime = 0
         /\ Repaired(i, x).ctime = Earliest(x.ctime, st.sb.wtime)
         /\ Repaired(i, x).mtime = Earliest(x.mtime, st.sb.wtime)
         /\ Repaired(i, x).atime = IF x.atime > st.sb.wtime THEN st.sb.mtime ELSE x.atime
         /\ Repaired(i, x).flags = IF i = RootIno THEN x.flags \cup {"TOPDIR"}
                                   ELSE x.flags \ {"TOPDIR"}
         /\ Repaired(i, x).size = IF Device(x) THEN 0 ELSE x.size
         /\ Repaired(i, x).high = IF Device(x) THEN 0 ELSE x.high
<1> DEFINE c == Earliest(x.ctime, st.sb.wtime)
           m == Earliest(x.mtime, st.sb.wtime)
           a == IF x.atime > st.sb.wtime THEN st.sb.mtime ELSE x.atime
           f == IF i = RootIno THEN x.flags \cup {"TOPDIR"} ELSE x.flags \ {"TOPDIR"}
           s == IF Device(x) THEN 0 ELSE x.size
           h == IF Device(x) THEN 0 ELSE x.high
           t == [x EXCEPT !.dtime = 0, !.ctime = c, !.mtime = m, !.atime = a]
           r == [t EXCEPT !.flags = f, !.size = s, !.high = h]
<1>1. t.type = x.type /\ t.flags = x.flags /\ t.size = x.size /\ t.high = x.high
  <2> HIDE DEF c, m, a
  <2>1. QED
    BY DEF IsInode, Numbered
<1>2. InTime(x) = t
  BY DEF InTime
<1>3. Repaired(i, x) = r
  BY <1>1, <1>2 DEF Repaired, Device
<1>4. /\ DOMAIN r = DOMAIN x /\ r.type = x.type /\ r.links = x.links /\ r.dtime = 0
      /\ r.ctime = c /\ r.mtime = m /\ r.atime = a /\ r.flags = f /\ r.size = s /\ r.high = h
  <2> HIDE DEF c, m, a, f, s, h
  <2>1. QED
    BY DEF IsInode, Numbered
<1>5. QED
  BY <1>3, <1>4

(* A repaired inode needs no repair. *)
LEMMA RepairedStays ==
  ASSUME Handed, st.pc = "pass3", NEW x, IsInode(x), NEW i
  PROVE  LET r == Repaired(i, x)
         IN  Repaired(i, r) = r /\ r.atime <= st.sb.wtime
<1> DEFINE r == Repaired(i, x)
           q == Repaired(i, r)
<1>1. st.sb.wtime \in Nat /\ st.sb.mtime \in Nat /\ st.sb.mtime <= st.sb.wtime
  BY Pass3 DEF Handed, HandedOn
<1>2. /\ DOMAIN r = DOMAIN x /\ r.type = x.type /\ r.links = x.links /\ r.dtime = 0
      /\ r.ctime = Earliest(x.ctime, st.sb.wtime) /\ r.mtime = Earliest(x.mtime, st.sb.wtime)
      /\ r.atime = IF x.atime > st.sb.wtime THEN st.sb.mtime ELSE x.atime
      /\ r.flags = IF i = RootIno THEN x.flags \cup {"TOPDIR"} ELSE x.flags \ {"TOPDIR"}
      /\ r.size = IF Device(x) THEN 0 ELSE x.size
      /\ r.high = IF Device(x) THEN 0 ELSE x.high
  BY RepairedIs
<1>3. \A n \in Numbered : x[n] \in Nat
  BY DEF IsInode
<1> HIDE DEF r
<1>4. /\ x.links \in Nat /\ x.ctime \in Nat /\ x.mtime \in Nat /\ x.atime \in Nat
      /\ x.size \in Nat /\ x.high \in Nat
  BY <1>3 DEF Numbered
<1>5. /\ r.links \in Nat /\ r.dtime = 0 /\ r.size \in Nat /\ r.high \in Nat
      /\ r.ctime \in Nat /\ r.ctime <= st.sb.wtime /\ r.mtime \in Nat /\ r.mtime <= st.sb.wtime
      /\ r.atime \in Nat /\ r.atime <= st.sb.wtime
  BY <1>1, <1>2, <1>4 DEF Earliest
<1>6. IsInode(r)
  BY <1>2, <1>5 DEF IsInode, Numbered
<1>7. /\ DOMAIN q = DOMAIN r /\ q.type = r.type /\ q.links = r.links /\ q.dtime = 0
      /\ q.ctime = Earliest(r.ctime, st.sb.wtime) /\ q.mtime = Earliest(r.mtime, st.sb.wtime)
      /\ q.atime = IF r.atime > st.sb.wtime THEN st.sb.mtime ELSE r.atime
      /\ q.flags = IF i = RootIno THEN r.flags \cup {"TOPDIR"} ELSE r.flags \ {"TOPDIR"}
      /\ q.size = IF Device(r) THEN 0 ELSE r.size
      /\ q.high = IF Device(r) THEN 0 ELSE r.high
  BY <1>6, RepairedIs
<1> HIDE DEF q
<1>8. Device(r) <=> Device(x)
  BY <1>2 DEF Device
<1>9. /\ q.ctime = r.ctime /\ q.mtime = r.mtime /\ q.atime = r.atime
  BY <1>1, <1>5, <1>7 DEF Earliest
<1>10. q.flags = r.flags /\ q.size = r.size /\ q.high = r.high
  BY <1>2, <1>7, <1>8
<1>11. \A n \in DOMAIN r : q[n] = r[n]
  BY <1>5, <1>6, <1>7, <1>9, <1>10 DEF IsInode, Numbered
<1>12. q = r
  <2>1. q = [n \in DOMAIN q |-> q[n]] /\ r = [n \in DOMAIN r |-> r[n]]
    <3>1. \A k : Repaired(i, k) = [n \in DOMAIN Repaired(i, k) |-> Repaired(i, k)[n]]
      BY DEF Repaired
    <3>2. QED
      BY <3>1 DEF q, r
  <2>2. QED
    BY <1>7, <1>11, <2>1
<1>13. QED
  BY <1>5, <1>12 DEF q, r

(* It has the wrong flags that it had: TOPDIR is none.                     *)
LEMMA SameWrongFlags ==
  ASSUME NEW x, IsInode(x), x.type \in Types, NEW i
  PROVE  WrongFlags(Repaired(i, x)) = WrongFlags(x)
<1>1. OnlyFor("TOPDIR") = Types
  BY DEF OnlyFor
<1>2. /\ Repaired(i, x).type = x.type
      /\ Repaired(i, x).flags = IF i = RootIno THEN x.flags \cup {"TOPDIR"}
                                ELSE x.flags \ {"TOPDIR"}
  BY RepairedIs
<1>3. QED
  BY <1>1, <1>2 DEF WrongFlags

LEMMA StepRepairs ==
  ASSUME Handed, Placed, FreeInv, RepairsSettle, [CheckStep]_CheckVars
  PROVE  RepairsSettle'
<1>0. DOMAIN scan = Parts
  BY DEF Placed, Parts
<1>1. ASSUME UNCHANGED st, Kept({"is", "copy", "wrong"})
      PROVE  RepairsSettle'
  <2>1. \A x : WrongFlags(x)' = WrongFlags(x)
    BY <1>1 DEF WrongFlags, OnlyFor
  <2>2. \A i, x : Repaired(i, x)' = Repaired(i, x)
    BY <1>1 DEF Repaired, InTime
  <2>3. scan'.is = scan.is /\ scan'.copy = scan.copy /\ scan'.wrong = scan.wrong
    BY <1>1 DEF Kept
  <2>4. QED
    BY <1>1, <2>1, <2>2, <2>3 DEF RepairsSettle
<1>2. CASE UNCHANGED CheckVars
  BY <1>1, <1>2 DEF CheckVars, Kept
<1>3. CASE Next /\ UNCHANGED <<disk, scan>>
  <2>1. scan' = CheckStart
    BY <1>3, NextBefore3 DEF Placed
  <2>2. scan'.is = Unset
    BY <2>1 DEF CheckStart
  <2>3. QED
    BY <2>2 DEF RepairsSettle
<1>4. CASE ReadTables
  BY <1>0, <1>1, <1>4, ReadTablesDoes DEF Kept, Results
<1>5. CASE SkipGroup
  BY <1>0, <1>1, <1>5, SkipGroupDoes DEF Kept, Results
<1>6. CASE AllChecked
  BY <1>0, <1>1, <1>6, AllCheckedDoes DEF Kept, Results
<1>7. CASE LookUpTypes
  BY <1>0, <1>1, <1>7, LookUpTypesDoes DEF Kept, Results
<1>8. CASE Unreadable
  BY <1>0, <1>1, <1>8, UnreadableDoes DEF Moved, Kept, Results
<1>9. CASE NeverUsed
  BY <1>0, <1>1, <1>9, NeverUsedDoes DEF Moved, Kept, Results
<1>10. CASE NotInUse
  BY <1>0, <1>1, <1>10, NotInUseDoes DEF Moved, Kept, Results
<1>11. CASE InUse
  <2>1. PICK x \in InSlot(scan.i) : Checking /\ Moved /\ x.links > 0 /\ Taken(x)
    BY <1>0, <1>11, InUseDoes
  <2>2. CASE x.type \notin Types
    <3>1. Kept({"is", "copy", "wrong", "scanned"})
      BY <2>1, <2>2 DEF Taken
    <3>2. QED
      BY <1>1, <2>1, <3>1 DEF Moved, Kept
  <2>3. CASE x.type \in Types
    <3>1. /\ scan'.is = scan.i /\ scan'.copy = Repaired(scan.i, x)
          /\ scan'.wrong = scan.wrong \cup {<<scan.i, f>> : f \in WrongFlags(x)}
      BY <2>1, <2>3 DEF Taken
    <3>2. /\ scan.i \in Inodes /\ st.pc = "pass3" /\ scan.pc = "inodes" /\ scan.i \in Nat
      BY <2>1, CheckingAt DEF Placed
    <3>3. IsInode(x)
      BY <2>1, <2>3, <3>2, SlotIsInode
    <3>4. /\ Repaired(scan.i, scan'.copy) = scan'.copy /\ scan'.copy.atime <= st.sb.wtime
      BY <3>1, <3>2, <3>3, RepairedStays
    <3>5. WrongFlags(scan'.copy) = WrongFlags(x)
      BY <2>3, <3>1, <3>3, SameWrongFlags
    <3>6. \A w \in scan.wrong : w[1] # scan.i
      BY <3>2 DEF FreeInv, Once
    <3>7. {w[2] : w \in {y \in scan'.wrong : y[1] = scan.i}} = WrongFlags(x)
      <4> DEFINE P == {y \in scan'.wrong : y[1] = scan.i}
      <4>1. ASSUME NEW w \in P PROVE w[2] \in WrongFlags(x)
        <5>1. w \notin scan.wrong
          BY <3>6
        <5>2. \E f \in WrongFlags(x) : w = <<scan.i, f>>
          BY <3>1, <5>1
        <5>3. QED
          BY <5>2
      <4>2. \A f \in WrongFlags(x) : <<scan.i, f>> \in P /\ <<scan.i, f>>[2] = f
        BY <3>1
      <4> HIDE DEF P
      <4>3. {w[2] : w \in P} = WrongFlags(x)
        BY <4>1, <4>2
      <4>4. QED
        BY <4>3 DEF P
    <3>8. UNCHANGED st /\ (\A k : WrongFlags(k)' = WrongFlags(k))
          /\ (\A i, k : Repaired(i, k)' = Repaired(i, k))
      BY <2>1 DEF Moved, WrongFlags, OnlyFor, Repaired, InTime
    <3>9. QED
      BY <3>1, <3>4, <3>5, <3>7, <3>8 DEF RepairsSettle
  <2>4. QED
    BY <2>2, <2>3
<1>12. QED
  BY <1>2, <1>3, <1>4, <1>5, <1>6, <1>7, <1>8, <1>9, <1>10, <1>11 DEF CheckStep, CheckNext

------------------------------------------------------------------------------
(***************************************************************************)
(* The inodes that are known.                                              *)
(***************************************************************************)

(* As many blocks are read as it takes to read all inodes that were used,  *)
(* and if the tables fill their clusters, not those of the next.           *)
LEMMA BlocksOfTable ==
  ASSUME Handed, st.pc = "pass3", Inodes # {}, NEW g \in Groups
  PROVE  /\ disk.virgin[g] \in 0..Ipg /\ BlocksRead(g) \in Nat
         /\ Ipg - disk.virgin[g] <= 4 * BlocksRead(g)
         /\ WholeClusters => 4 * BlocksRead(g) <= Ipg
<1>1. /\ Ipg \in Nat /\ Ipg > 0 /\ fs.cs \in Nat /\ fs.cs > 0 /\ ClusterBytes(fs.cs) = 512 * fs.cs
  BY Pass3
<1>2. disk.virgin[g] \in 0..Ipg
  <2>1. 0 \in 0..Ipg - 1
    BY <1>1
  <2>2. PICK i : i \in Inodes /\ GroupOf(i) = g
    BY <2>1, IsThere
  <2>3. st.sb.inodes = fs.sb.inodes /\ st.sb.ipg = fs.sb.ipg
    BY DEF Handed, HandedOn
  <2>4. QED
    BY <2>2, <2>3 DEF Handed, Describes, Inodes, GroupOf, Ipg
<1> DEFINE bytes == (Ipg - disk.virgin[g]) * 128
           K == ClusterBytes(fs.cs)
           q == (bytes + K - 1) \div K
           m == (Ipg * 128) \div K
<1>3. bytes \in Nat /\ bytes <= Ipg * 128 /\ K \in Nat /\ K > 0
  BY <1>1, <1>2
<1>4. BlocksRead(g) = fs.cs * q
  BY DEF BlocksRead
<1>5. q \in Nat /\ K * q >= bytes /\ \A k \in Int : bytes <= K * k => q <= k
  <2> HIDE DEF bytes, K
  <2>1. QED
    BY <1>3, RoundedUp
<1> HIDE DEF q
<1>6. fs.cs * q \in Nat /\ K * q = 512 * (fs.cs * q)
  BY <1>1, <1>5
<1>7. Ipg - disk.virgin[g] <= 4 * (fs.cs * q)
  <2> DEFINE p == fs.cs * q
             u == Ipg - disk.virgin[g]
  <2>1. u * 128 <= 512 * p /\ p \in Nat /\ u \in Nat
    BY <1>1, <1>2, <1>5, <1>6
  <2> HIDE DEF p, u
  <2>2. u <= 4 * p
    BY <2>1
  <2>3. QED
    BY <2>2 DEF p, u
<1>8. ASSUME WholeClusters PROVE 4 * (fs.cs * q) <= Ipg
  <2>1. (Ipg * 128) % K = 0
    BY <1>8 DEF WholeClusters
  <2>2. m \in Int /\ Ipg * 128 = K * m
    <3> DEFINE t == Ipg * 128
    <3>1. t \in Int /\ K \in Int
      BY <1>1, <1>3
    <3> HIDE DEF t, K
    <3>2. t \div K \in Int /\ t = K * (t \div K) + (t % K) /\ K * (t \div K) \in Int
      BY <1>3, <3>1, DivMod
    <3>3. QED
      BY <2>1, <3>2 DEF t
  <2> HIDE DEF m
  <2>3. q <= m
    <3> HIDE DEF bytes, K
    <3>1. bytes <= K * m
      BY <1>3, <2>2
    <3>2. QED
      BY <1>5, <2>2, <3>1
  <2>4. fs.cs * q <= fs.cs * m /\ fs.cs * m \in Int
    BY <1>1, <1>5, <2>2, <2>3, Grows
  <2>5. K * m = 512 * (fs.cs * m)
    BY <1>1, <2>2
  <2> DEFINE p == fs.cs * q
             s == fs.cs * m
  <2>6. p \in Nat /\ s \in Int /\ p <= s /\ Ipg * 128 = 512 * s
    BY <1>6, <2>2, <2>4, <2>5
  <2> HIDE DEF p, s
  <2>7. 4 * p <= Ipg
    BY <1>1, <2>6
  <2>8. QED
    BY <2>7 DEF p
<1>9. QED
  BY <1>2, <1>4, <1>6, <1>7, <1>8

(* The inodes of the blocks that cannot be read. *)
LEMMA EioOfGroup ==
  ASSUME Handed, st.pc = "pass3", Inodes # {}, NEW g \in Groups, WholeClusters \/ disk.lost = {}
  PROVE  EioInodes(g) = {i \in Inodes : GroupOf(i) = g /\ Bad(i)}
<1>0. InodesPerBlock = 4
  BY DEF InodesPerBlock
<1>1. CASE disk.lost = {}
  BY <1>1 DEF EioInodes, Bad, Lost
<1>2. CASE WholeClusters
  <2>1. /\ Ipg \in Nat /\ Ipg > 0 /\ g \in Nat /\ BlocksRead(g) \in Nat /\ 4 * BlocksRead(g) <= Ipg
    BY <1>2, Pass3, BlocksOfTable DEF Groups
  <2>2. g * Ipg \in Nat
    BY <2>1
  <2>3. ASSUME NEW b \in 0..BlocksRead(g) - 1, <<g, b>> \in disk.lost,
               NEW i \in FirstOf(g, b)..FirstOf(g, b) + InodesPerBlock - 1
        PROVE  i \in Inodes /\ GroupOf(i) = g /\ Bad(i)
    <3> DEFINE s == i - FirstOf(g, b)
               r == 4 * b + s
    <3>1. FirstOf(g, b) = 1 + g * Ipg + b * 4
      BY <1>0 DEF FirstOf
    <3>2. b \in Nat /\ s \in 0..3 /\ i = 1 + g * Ipg + r /\ r \in 0..Ipg - 1
      BY <1>0, <2>1, <2>2, <3>1
    <3> HIDE DEF s, r
    <3>3. i \in Inodes /\ GroupOf(i) = g /\ (i - 1) % Ipg = r
      BY <3>2, IsThere
    <3>4. r \div 4 = b
      <4>1. (4 * b + s) \div 4 = b
        BY <3>2, Quotient
      <4>2. QED
        BY <4>1 DEF r
    <3>5. b < BlocksRead(g)
      BY <2>1
    <3>6. QED
      BY <1>0, <2>3, <3>3, <3>4, <3>5 DEF Bad, Lost
  <2>4. ASSUME NEW i \in Inodes, GroupOf(i) = g, Bad(i)
        PROVE  \E b \in 0..BlocksRead(g) - 1 :
                 <<g, b>> \in disk.lost /\ i \in FirstOf(g, b)..FirstOf(g, b) + InodesPerBlock - 1
    <3> DEFINE r == (i - 1) % Ipg
               b == r \div 4
    <3>1. /\ r \in 0..Ipg - 1 /\ i - 1 = Ipg * g + r /\ i \in Nat
      BY <2>4, InodeAt DEF Inodes
    <3>2. <<g, b>> \in disk.lost /\ b < BlocksRead(g)
      BY <1>0, <2>4 DEF Bad, Lost
    <3> HIDE DEF r
    <3>3. b \in Nat /\ r = 4 * b + (r % 4) /\ r % 4 \in 0..3
      <4>1. r \in Nat
        BY <2>1, <3>1
      <4>2. QED
        BY <4>1
    <3> HIDE DEF b
    <3>4. FirstOf(g, b) = 1 + g * Ipg + b * 4 /\ g * Ipg = Ipg * g
      BY <1>0, <2>1 DEF FirstOf
    <3>5. i = FirstOf(g, b) + (r % 4) /\ FirstOf(g, b) \in Int
      BY <2>2, <3>1, <3>3, <3>4
    <3>6. b \in 0..BlocksRead(g) - 1
      BY <2>1, <3>2, <3>3
    <3>7. i \in FirstOf(g, b)..FirstOf(g, b) + InodesPerBlock - 1
      BY <1>0, <3>1, <3>3, <3>5
    <3>8. QED
      BY <3>2, <3>6, <3>7
  <2> DEFINE Blocks == {c \in 0..BlocksRead(g) - 1 : <<g, c>> \in disk.lost}
             Of(b) == FirstOf(g, b)..FirstOf(g, b) + InodesPerBlock - 1
  <2>5. /\ \A b \in Blocks : \A i \in Of(b) : i \in Inodes /\ GroupOf(i) = g /\ Bad(i)
        /\ \A i \in Inodes : GroupOf(i) = g /\ Bad(i) => \E b \in Blocks : i \in Of(b)
    BY <2>3, <2>4
  <2>6. EioInodes(g) = UNION {Of(b) : b \in Blocks}
    BY DEF EioInodes
  <2> HIDE DEF Blocks, Of
  <2>7. QED
    BY <2>5, <2>6
<1>3. QED
  BY <1>1, <1>2

(* What is known refers to what does not change. *)
LEMMA SameDisk ==
  ASSUME UNCHANGED <<fs, st, disk>>
  PROVE  /\ Inodes' = Inodes /\ Groups' = Groups /\ AllInitialised' = AllInitialised
         /\ WholeClusters' = WholeClusters /\ MapOnDisk' = MapOnDisk
         /\ \A i : /\ GroupOf(i)' = GroupOf(i) /\ Used(i)' = Used(i) /\ Bad(i)' = Bad(i)
<1>1. Inodes' = Inodes /\ Ipg' = Ipg /\ \A i : GroupOf(i)' = GroupOf(i)
  BY DEF Inodes, Ipg, GroupOf
<1>2. Groups' = Groups
  BY DEF Groups
<1>3. /\ AllInitialised' = AllInitialised /\ WholeClusters' = WholeClusters
      /\ MapOnDisk' = MapOnDisk
  BY <1>1, <1>2 DEF AllInitialised, WholeClusters, MapOnDisk
<1>4. \A i : Used(i)' = Used(i) /\ Lost(i)' = Lost(i)
  BY <1>1 DEF Used, Virgin, Lost
<1>5. \A g : BlocksRead(g)' = BlocksRead(g)
  BY <1>1 DEF BlocksRead
<1>6. \A i : Bad(i)' = Bad(i)
  BY <1>1, <1>4, <1>5 DEF Bad
<1>7. QED
  BY <1>1, <1>2, <1>3, <1>4, <1>6

(* The next inode is the one that is looked at. *)
LEMMA InPlace ==
  ASSUME Handed, Placed, Known, Knowable, Checking
  PROVE  /\ InSlot(scan.i) = {disk.inode[scan.i]}
         /\ scan.i \in scan.eio <=> Bad(scan.i)
<1>1. /\ st.pc = "pass3" /\ scan.i \in Inodes /\ scan.pc = "inodes"
      /\ scan.group \in Groups /\ scan.group \in Nat /\ Row = scan.group
  BY CheckingAt DEF Knowable
<1>2. scan.in_slot = scan.group /\ scan.eio = {i \in Inodes : GroupOf(i) < Begun /\ Bad(i)}
  BY <1>1 DEF Known
<1>3. GroupOf(scan.i) = scan.group /\ Begun = scan.group + 1
  BY <1>1 DEF Row, Begun
<1>4. scan.i - 1 = Ipg * scan.group + ((scan.i - 1) % Ipg) /\ (scan.i - 1) % Ipg \in 0..Ipg - 1
  BY <1>1, <1>3, InodeAt
<1>5. 1 + scan.group * Ipg + ((scan.i - 1) % Ipg) = scan.i
  <2> DEFINE r == (scan.i - 1) % Ipg
  <2>1. Ipg \in Nat /\ scan.i \in Nat /\ r \in Int /\ scan.i - 1 = Ipg * scan.group + r
    BY <1>1, <1>4, Pass3 DEF Inodes
  <2> HIDE DEF r
  <2>2. Ipg * scan.group = scan.group * Ipg /\ Ipg * scan.group \in Int
    BY <1>1, <2>1
  <2>3. 1 + scan.group * Ipg + r = scan.i
    BY <2>1, <2>2
  <2>4. QED
    BY <2>3 DEF r
<1>6. InSlot(scan.i) = {disk.inode[scan.i]}
  BY <1>1, <1>2, <1>5 DEF InSlot
<1>7. scan.i \in scan.eio <=> Bad(scan.i)
  BY <1>1, <1>2, <1>3
<1>8. QED
  BY <1>6, <1>7

LEMMA KnownOnwards ==
  ASSUME Handed, Placed, Known, Checking, Moved, Kept({"in_slot", "eio", "map", "differs"}),
         Knowable =>
           LET add == IF Used(scan.i) /\ ~Bad(scan.i) THEN {scan.i} ELSE {}
           IN  /\ scan'.calculated = scan.calculated \cup add
               /\ scan'.scanned = scan.scanned \cup {i \in add : HasClusters(disk.inode[i])}
  PROVE  Known'
<1>1. /\ st.pc = "pass3" /\ scan.i \in Inodes /\ scan.pc = "inodes"
      /\ scan.i \in Nat \ {0} /\ scan'.i = scan.i + 1
      /\ scan'.pc = IF scan.i % Ipg = 0 THEN "table" ELSE "inodes"
      /\ scan'.group = IF scan.i % Ipg = 0 THEN scan.group + 1 ELSE scan.group
      /\ UNCHANGED <<fs, st, disk>>
  BY CheckingAt, NextInode DEF Moved
<1>2. Begun' = Begun
  BY <1>1 DEF Begun
<1>3. Looping /\ Looping' /\ Seen' = Seen \cup {scan.i}
  <2>1. Looping /\ Looping'
    BY <1>1 DEF Looping
  <2>2. 1..scan'.i - 1 = (1..scan.i - 1) \cup {scan.i}
    BY <1>1
  <2>3. QED
    BY <2>1, <2>2 DEF Seen
<1>4. Read' = Read \cup IF Used(scan.i) /\ ~Bad(scan.i) THEN {scan.i} ELSE {}
  <2> PICK i : i = scan.i
    OBVIOUS
  <2>1. Seen' = Seen \cup {i} /\ \A k : Used(k)' = Used(k) /\ Bad(k)' = Bad(k)
    BY <1>1, <1>3, SameDisk
  <2>2. Read' = Read \cup IF Used(i) /\ ~Bad(i) THEN {i} ELSE {}
    BY <2>1 DEF Read
  <2>3. QED
    BY <2>2
<1>5. SUFFICES ASSUME Knowable' PROVE Known'
  BY DEF Known
<1>6. Knowable
  BY <1>1, <1>5, SameDisk DEF Knowable
<1>7. /\ scan.eio = {i \in Inodes : GroupOf(i) < Begun /\ Bad(i)}
      /\ scan.scanned = {i \in Read : HasClusters(disk.inode[i])}
      /\ scan.calculated = Read
      /\ disk.map /\ disk.uninit = {} => scan.map = {i \in MapOnDisk : GroupOf(i) < Begun}
      /\ ~scan.differs /\ scan.in_slot = scan.group
  BY <1>1, <1>3, <1>6 DEF Known
<1>8. /\ scan'.in_slot = scan.in_slot /\ scan'.eio = scan.eio /\ scan'.map = scan.map
      /\ scan'.differs = scan.differs
  BY DEF Kept
<1>9. scan'.calculated = Read' /\ scan'.scanned = {i \in Read' : HasClusters(disk.inode[i])}
  BY <1>4, <1>6, <1>7
<1>10. scan'.pc = "inodes" => scan'.in_slot = scan'.group
  BY <1>1, <1>7, <1>8
<1>11. scan'.eio = {i \in Inodes' : GroupOf(i)' < Begun' /\ Bad(i)'}
  BY <1>1, <1>2, <1>7, <1>8, SameDisk
<1>12. disk'.map /\ disk'.uninit = {} => scan'.map = {i \in MapOnDisk' : GroupOf(i)' < Begun'}
  BY <1>1, <1>2, <1>7, <1>8, SameDisk
<1>13. QED
  BY <1>1, <1>3, <1>7, <1>8, <1>9, <1>10, <1>11, <1>12 DEF Known, HasClusters

LEMMA StepKnown ==
  ASSUME Handed, Numbers3', Placed, Known, [CheckStep]_CheckVars
  PROVE  Known'
<1>0. DOMAIN scan = Parts
  BY DEF Placed, Parts
<1>1. ASSUME UNCHANGED <<fs, st, disk>>, Kept(Results), scan'.pc = scan.pc, scan'.i = scan.i,
             scan'.group = scan.group
      PROVE  Known'
  <2>1. Begun' = Begun /\ Looping' = Looping /\ Seen' = Seen
    BY <1>1, SameDisk DEF Begun, Looping, Seen
  <2>2. Read' = Read
    BY <1>1, <2>1, SameDisk DEF Read
  <2>3. SUFFICES ASSUME Knowable' PROVE Known'
    BY DEF Known
  <2>4. Knowable
    BY <1>1, <2>3, SameDisk DEF Knowable
  <2>5. /\ scan'.in_slot = scan.in_slot /\ scan'.eio = scan.eio /\ scan'.map = scan.map
        /\ scan'.differs = scan.differs /\ scan'.scanned = scan.scanned
        /\ scan'.calculated = scan.calculated
    BY <1>1 DEF Kept, Results
  <2>6. scan'.eio = {i \in Inodes' : GroupOf(i)' < Begun' /\ Bad(i)'}
    BY <1>1, <2>1, <2>4, <2>5, SameDisk DEF Known
  <2>7. disk'.map /\ disk'.uninit = {} => scan'.map = {i \in MapOnDisk' : GroupOf(i)' < Begun'}
    BY <1>1, <2>1, <2>4, <2>5, SameDisk DEF Known
  <2>8. QED
    BY <1>1, <2>1, <2>2, <2>4, <2>5, <2>6, <2>7 DEF Known
<1>2. CASE UNCHANGED CheckVars
  BY <1>1, <1>2 DEF CheckVars, Kept
<1>3. CASE Next /\ UNCHANGED <<disk, scan>>
  <2>1. scan' = CheckStart
    BY <1>3, NextBefore3 DEF Placed
  <2>2. /\ scan'.pc = "table" /\ scan'.i = 1 /\ scan'.group = 0 /\ scan'.eio = {}
        /\ scan'.scanned = {} /\ scan'.calculated = {} /\ scan'.map = {} /\ scan'.differs = FALSE
    BY <2>1 DEF CheckStart
  <2>3. Begun' = 0 /\ Looping' /\ Seen' = {} /\ Read' = {}
    <3>1. Begun' = 0 /\ Looping'
      BY <2>2 DEF Begun, Looping
    <3>2. Seen' = {}
      BY <2>2, <3>1 DEF Seen
    <3>3. QED
      BY <3>1, <3>2 DEF Read
  <2>4. SUFFICES ASSUME st'.pc = "pass3" PROVE Known'
    BY DEF Known, Knowable
  <2>5. \A i \in Inodes' : ~(GroupOf(i)' < Begun')
    BY <2>3, <2>4 DEF Numbers3
  <2>6. {i \in Inodes' : GroupOf(i)' < Begun' /\ Bad(i)'} = {}
    BY <2>5
  <2>7. {i \in MapOnDisk' : GroupOf(i)' < Begun'} = {}
    BY <2>5 DEF MapOnDisk
  <2>8. {i \in Read' : HasClusters(disk'.inode[i])} = {}
    BY <2>3
  <2>9. QED
    BY <2>2, <2>3, <2>6, <2>7, <2>8 DEF Known
<1>4. CASE ReadTables
  <2>1. /\ UNCHANGED <<fs, st, disk>> /\ scan'.i = scan.i
        /\ Kept(Results \ {"in_slot", "eio", "marks", "map"})
        /\ \/ scan'.pc = "beyond"
           \/ /\ scan'.pc = "inodes" /\ scan.group \in Groups
              /\ scan'.map = scan.map \cup MapRead(scan.group)
              /\ scan.group \in st.flags =>
                   scan'.in_slot = scan.group /\ scan'.eio = scan.eio \cup EioInodes(scan.group)
        /\ st.pc = "pass3" /\ scan.pc = "table" /\ scan.i < st.sb.inodes
        /\ scan'.group = scan.group
    BY <1>0, <1>4, ReadTablesDoes
  <2>2. SUFFICES ASSUME Knowable' PROVE Known'
    BY DEF Known
  <2>3. Knowable /\ scan'.pc = "inodes" /\ scan.group \in st.flags /\ scan.group \in Groups
    BY <2>1, <2>2, SameDisk DEF Knowable, AllInitialised
  <2>4. scan.group \in Nat /\ Begun = scan.group /\ Begun' = scan.group + 1
    BY <2>1, <2>3 DEF Placed, Begun
  <2>5. Looping /\ Looping' /\ Seen' = Seen /\ Read' = Read
    <3>1. Looping /\ Looping'
      BY <2>1, <2>3 DEF Looping
    <3>2. Seen' = Seen
      BY <2>1, <3>1 DEF Seen
    <3>3. QED
      BY <2>1, <3>1, <3>2, SameDisk DEF Read
  <2>6. Inodes # {} /\ \A i \in Inodes : GroupOf(i) \in Nat
    <3>1. scan.i \in Nat \ {0} /\ st.sb.inodes \in Nat
      BY <2>1, Pass3 DEF Placed
    <3>2. QED
      BY <2>1, <3>1, InodeAt DEF Inodes
  <2>7. EioInodes(scan.group) = {i \in Inodes : GroupOf(i) = scan.group /\ Bad(i)}
    BY <2>1, <2>3, <2>6, EioOfGroup DEF Knowable
  <2>8. \A i \in Inodes : GroupOf(i) < Begun' <=> GroupOf(i) < Begun \/ GroupOf(i) = scan.group
    BY <2>4, <2>6
  <2>9. scan'.eio = {i \in Inodes : GroupOf(i) < Begun' /\ Bad(i)}
    BY <2>1, <2>3, <2>7, <2>8 DEF Known
  <2>10. disk.map /\ disk.uninit = {} => scan'.map = {i \in MapOnDisk : GroupOf(i) < Begun'}
    <3>1. SUFFICES ASSUME disk.map, disk.uninit = {}
                   PROVE  scan'.map = {i \in MapOnDisk : GroupOf(i) < Begun'}
      OBVIOUS
    <3>2. MapRead(scan.group) = {i \in MapOnDisk : GroupOf(i) = scan.group}
      BY <3>1 DEF MapRead, MapSkipped
    <3>3. scan.map = {i \in MapOnDisk : GroupOf(i) < Begun}
      BY <2>3, <3>1 DEF Known
    <3>4. MapOnDisk \subseteq Inodes
      BY DEF MapOnDisk
    <3>5. QED
      BY <2>1, <2>3, <2>8, <3>2, <3>3, <3>4
  <2>11. /\ scan'.scanned = scan.scanned /\ scan'.calculated = scan.calculated
         /\ scan'.differs = scan.differs
    BY <2>1 DEF Kept, Results
  <2>12. /\ scan'.scanned = {i \in Read' : HasClusters(disk.inode[i])}
         /\ scan'.calculated = Read' /\ ~scan'.differs
    BY <2>1, <2>3, <2>5, <2>11 DEF Known
  <2>13. /\ scan'.eio = {i \in Inodes' : GroupOf(i)' < Begun' /\ Bad(i)'}
         /\ disk'.map /\ disk'.uninit = {} => scan'.map = {i \in MapOnDisk' : GroupOf(i)' < Begun'}
    BY <2>1, <2>9, <2>10, SameDisk
  <2>14. QED
    BY <2>1, <2>3, <2>5, <2>12, <2>13 DEF Known
<1>5. CASE SkipGroup
  <2>1. /\ UNCHANGED <<fs, st, disk>> /\ scan.pc = "inodes" /\ scan.group \notin st.flags
    BY <1>0, <1>5, SkipGroupDoes
  <2>2. st.pc = "pass3"
    BY <2>1 DEF Placed, CheckStart
  <2>3. scan.group \in Groups
    BY <2>1, <2>2, Pass3 DEF Placed, Groups
  <2>4. ~AllInitialised'
    BY <2>1, <2>3, SameDisk DEF AllInitialised
  <2>5. QED
    BY <2>4 DEF Known, Knowable
<1>6. CASE AllChecked
  <2>1. /\ UNCHANGED <<fs, st, disk>> /\ scan'.i = scan.i /\ scan'.pc = "checked"
        /\ scan.pc = "table" /\ scan.i >= st.sb.inodes /\ st.pc = "pass3"
        /\ Kept(Results \ {"calculated"}) /\ scan'.group = scan.group
        /\ scan'.calculated = scan.calculated \cup 1..st.sb.first_inode - 1
    BY <1>0, <1>6, AllCheckedDoes
  <2>2. SUFFICES ASSUME Knowable' PROVE Known'
    BY DEF Known
  <2>3. Knowable /\ AllInitialised
    BY <2>1, <2>2, SameDisk DEF Knowable
  <2>4. Begun' = Begun /\ Looping /\ ~Looping'
    BY <2>1 DEF Begun, Looping
  <2>5. Seen = Inodes
    <3>1. st.sb.inodes \in Nat /\ scan.i \in Nat \ {0}
      BY <2>1, Pass3 DEF Placed
    <3>2. CASE Inodes = {}
      <4>1. scan.i = 1
        BY <2>1, <3>2 DEF Placed, CheckStart
      <4>2. QED
        BY <2>4, <3>2, <4>1 DEF Seen
    <3>3. CASE Inodes # {}
      <4>1. scan.group = st.num_groups /\ Row = scan.group /\ (scan.i - 1) % Ipg = 0
        BY <2>1, <2>3, <3>3, LoopEnds DEF Placed
      <4>2. /\ Ipg \in Nat /\ Ipg > 0 /\ st.sb.inodes = Ipg * st.num_groups
            /\ st.num_groups \in Nat
        BY <2>1, <3>3, Pass3
      <4>3. scan.i - 1 = st.sb.inodes
        <5>1. PICK k \in Int : k = scan.i - 1
          BY <3>1
        <5>2. k = Ipg * (k \div Ipg) + (k % Ipg)
          BY <4>2, DivMod
        <5>3. k \div Ipg = st.num_groups /\ k % Ipg = 0
          BY <4>1, <5>1 DEF Row, GroupOf
        <5>4. QED
          BY <4>2, <5>1, <5>2, <5>3
      <4>4. QED
        BY <2>4, <4>3 DEF Seen, Inodes
    <3>4. QED
      BY <3>2, <3>3
  <2>6. Seen' = Seen
    BY <2>1, <2>4, <2>5, SameDisk DEF Seen
  <2>7. Read' = Read
    BY <2>1, <2>6, SameDisk DEF Read
  <2>8. /\ scan'.eio = scan.eio /\ scan'.map = scan.map
        /\ scan'.differs = scan.differs /\ scan'.scanned = scan.scanned
    BY <2>1 DEF Kept, Results
  <2>9. /\ scan'.scanned = {i \in Read' : HasClusters(disk.inode[i])}
        /\ scan'.calculated = Read' \cup 1..st.sb.first_inode - 1 /\ ~scan'.differs
    BY <2>1, <2>3, <2>4, <2>7, <2>8 DEF Known
  <2>10. /\ scan'.eio = {i \in Inodes' : GroupOf(i)' < Begun' /\ Bad(i)'}
         /\ disk'.map /\ disk'.uninit = {} => scan'.map = {i \in MapOnDisk' : GroupOf(i)' < Begun'}
    BY <2>1, <2>3, <2>4, <2>8, SameDisk DEF Known
  <2>11. QED
    BY <2>1, <2>4, <2>9, <2>10 DEF Known
<1>7. CASE LookUpTypes
  <2>1. /\ UNCHANGED <<fs, st, disk>> /\ scan'.i = scan.i /\ scan'.pc \in {"compared", "died"}
        /\ scan.pc = "checked" /\ scan'.group = scan.group
        /\ Kept(Results \ {"differs"}) /\ scan'.differs = (scan.map # scan.calculated)
    BY <1>0, <1>7, LookUpTypesDoes
  <2>2. SUFFICES ASSUME Knowable' PROVE Known'
    BY DEF Known
  <2>3. Knowable
    BY <2>1, <2>2, SameDisk DEF Knowable
  <2>4. Begun' = Begun /\ ~Looping /\ ~Looping' /\ Seen' = Seen
    BY <2>1, SameDisk DEF Begun, Looping, Seen
  <2>5. Read' = Read
    BY <2>1, <2>4, SameDisk DEF Read
  <2>6. /\ scan'.eio = scan.eio /\ scan'.map = scan.map
        /\ scan'.calculated = scan.calculated /\ scan'.scanned = scan.scanned
    BY <2>1 DEF Kept, Results
  <2>7. /\ scan'.scanned = {i \in Read' : HasClusters(disk.inode[i])}
        /\ scan'.calculated = Read' \cup 1..st.sb.first_inode - 1
        /\ scan'.differs => scan'.map # scan'.calculated
    BY <2>1, <2>3, <2>4, <2>5, <2>6 DEF Known
  <2>8. /\ scan'.eio = {i \in Inodes' : GroupOf(i)' < Begun' /\ Bad(i)'}
        /\ disk'.map /\ disk'.uninit = {} => scan'.map = {i \in MapOnDisk' : GroupOf(i)' < Begun'}
    BY <2>1, <2>3, <2>4, <2>6, SameDisk DEF Known
  <2>9. QED
    BY <2>1, <2>4, <2>7, <2>8 DEF Known
<1>8. CASE Unreadable
  <2>1. /\ Checking /\ scan.i \in scan.eio /\ Moved /\ Kept(Results \ {"never"})
    BY <1>0, <1>8, UnreadableDoes
  <2>2. /\ Kept({"in_slot", "eio", "map", "differs"})
        /\ scan'.calculated = scan.calculated /\ scan'.scanned = scan.scanned
    BY <2>1 DEF Kept, Results
  <2>3. Knowable => Bad(scan.i)
    BY <2>1, InPlace
  <2>4. QED
    BY <2>1, <2>2, <2>3, KnownOnwards
<1>9. CASE NeverUsed
  <2>1. /\ Checking /\ Virgin(scan.i) /\ Moved /\ Kept(Results)
    BY <1>0, <1>9, NeverUsedDoes
  <2>2. /\ Kept({"in_slot", "eio", "map", "differs"})
        /\ scan'.calculated = scan.calculated /\ scan'.scanned = scan.scanned
    BY <2>1 DEF Kept, Results
  <2>3. ~Used(scan.i)
    BY <2>1 DEF Used
  <2>4. QED
    BY <2>1, <2>2, <2>3, KnownOnwards
<1>10. CASE NotInUse
  <2>1. PICK x \in InSlot(scan.i) :
          /\ Checking /\ Moved /\ Kept(Results \ {"type"}) /\ x.links = 0
    BY <1>0, <1>10, NotInUseDoes
  <2>2. /\ Kept({"in_slot", "eio", "map", "differs"})
        /\ scan'.calculated = scan.calculated /\ scan'.scanned = scan.scanned
    BY <2>1 DEF Kept, Results
  <2>3. Knowable => ~Used(scan.i)
    <3>1. Knowable => x = disk.inode[scan.i]
      BY <2>1, InPlace
    <3>2. ~(0 > 0)
      OBVIOUS
    <3>3. QED
      BY <2>1, <3>1, <3>2 DEF Used
  <2>4. QED
    BY <2>1, <2>2, <2>3, KnownOnwards
<1>11. CASE InUse
  <2>1. PICK x \in InSlot(scan.i) :
          /\ Checking /\ scan.i \notin scan.eio /\ ~Virgin(scan.i)
          /\ Moved /\ x.links > 0 /\ Taken(x)
    BY <1>0, <1>11, InUseDoes
  <2>2. /\ Kept({"in_slot", "eio", "map", "differs"})
        /\ scan'.calculated = scan.calculated \cup {scan.i}
    BY <2>1 DEF Taken, Kept
  <2>3. SUFFICES ASSUME Knowable
                 PROVE  /\ Used(scan.i) /\ ~Bad(scan.i)
                        /\ scan'.scanned = scan.scanned
                             \cup {i \in {scan.i} : HasClusters(disk.inode[i])}
    BY <2>1, <2>2, KnownOnwards
  <2>4. x = disk.inode[scan.i] /\ ~Bad(scan.i)
    BY <2>1, <2>3, InPlace
  <2>5. Used(scan.i)
    BY <2>1, <2>4 DEF Used
  <2>6. CASE x.type \notin Types
    <3>1. scan'.scanned = scan.scanned
      BY <2>1, <2>6 DEF Taken, Kept
    <3>2. ~HasClusters(x)
      BY <2>6 DEF HasClusters, Types
    <3>3. QED
      BY <2>4, <2>5, <3>1, <3>2
  <2>7. CASE x.type \in Types
    <3>1. scan'.scanned = IF HasClusters(Repaired(scan.i, x)) THEN scan.scanned \cup {scan.i}
                          ELSE scan.scanned
      BY <2>1, <2>7 DEF Taken
    <3>2. IsInode(x)
      BY <2>1, <2>7, CheckingAt, SlotIsInode
    <3>3. /\ Repaired(scan.i, x).type = x.type
          /\ Repaired(scan.i, x).size = IF Device(x) THEN 0 ELSE x.size
      BY <3>2, RepairedIs
    <3>4. HasClusters(Repaired(scan.i, x)) <=> HasClusters(x)
      BY <3>3 DEF HasClusters, Device
    <3>5. QED
      BY <2>4, <2>5, <3>1, <3>4
  <2>8. QED
    BY <2>6, <2>7
<1>12. QED
  BY <1>2, <1>3, <1>4, <1>5, <1>6, <1>7, <1>8, <1>9, <1>10, <1>11 DEF CheckStep, CheckNext

(* A block that is not read holds only inodes that were never used. *)
LEMMA NotReadIsVirgin ==
  ASSUME Handed, st.pc = "pass3", NEW i \in Inodes, Lost(i), ~Bad(i)
  PROVE  Virgin(i)
<1> DEFINE g == GroupOf(i)
           r == (i - 1) % Ipg
<1>1. g \in Groups /\ r \in 0..Ipg - 1 /\ Inodes # {}
  BY InodeAt
<1>2. /\ disk.virgin[g] \in 0..Ipg /\ BlocksRead(g) \in Nat
      /\ Ipg - disk.virgin[g] <= 4 * BlocksRead(g) /\ Ipg \in Nat
  <2> HIDE DEF g, r
  <2>1. QED
    BY <1>1, Pass3, BlocksOfTable
<1>3. ~(r \div 4 < BlocksRead(g))
  BY DEF Bad, InodesPerBlock
<1> HIDE DEF g, r
<1>4. r \in Nat /\ r \div 4 >= BlocksRead(g)
  BY <1>1, <1>2, <1>3
<1>5. r >= 4 * BlocksRead(g)
  BY <1>2, <1>4
<1>6. r >= Ipg - disk.virgin[g]
  BY <1>2, <1>4, <1>5
<1>7. QED
  BY <1>6 DEF Virgin, g, r

(* After the loop all groups were begun. *)
LEMMA AllBegun ==
  ASSUME Handed, Placed, scan.pc \in {"checked", "compared", "died"}
  PROVE  /\ st.pc = "pass3" /\ ~Looping /\ Seen = Inodes
         /\ \A i \in Inodes : GroupOf(i) < Begun
<1>1. st.pc = "pass3" /\ ~Looping /\ Begun = scan.group
  BY DEF Placed, CheckStart, Looping, Begun
<1>2. ASSUME NEW i \in Inodes PROVE GroupOf(i) < Begun
  <2>1. Begun = st.num_groups /\ st.num_groups \in Nat
    BY <1>1, <1>2, Pass3 DEF Placed
  <2>2. GroupOf(i) \in Groups
    BY <1>1, InodeAt
  <2>3. QED
    BY <2>1, <2>2 DEF Groups
<1>3. QED
  BY <1>1, <1>2 DEF Seen

LEMMA KnownIsRight ==
  ASSUME Handed, Placed, Known
  PROVE  ScanRight
<1>1. SUFFICES ASSUME scan.pc = "checked", AllInitialised, WholeClusters
               PROVE  LET read == {i \in Inodes : ~Lost(i)}
                      IN  /\ \A i \in Inodes \ scan.eio : Lost(i) => Virgin(i)
                          /\ scan.eio \cap read = {}
                          /\ scan.calculated = {i \in read : Used(i)} \cup 1..st.sb.first_inode - 1
                          /\ scan.scanned = {i \in read : Used(i) /\ HasClusters(disk.inode[i])}
  BY DEF ScanRight
<1>2. /\ st.pc = "pass3" /\ ~Looping /\ Seen = Inodes
      /\ \A i \in Inodes : GroupOf(i) < Begun
  BY <1>1, AllBegun
<1>3. Knowable
  BY <1>1, <1>2 DEF Knowable
<1>4. /\ scan.eio = {i \in Inodes : GroupOf(i) < Begun /\ Bad(i)}
      /\ scan.scanned = {i \in Read : HasClusters(disk.inode[i])}
      /\ scan.calculated = Read \cup 1..st.sb.first_inode - 1
  BY <1>2, <1>3 DEF Known
<1>5. \A i \in Inodes : (Bad(i) => Lost(i)) /\ (Lost(i) /\ ~Bad(i) => Virgin(i))
  BY <1>2, NotReadIsVirgin DEF Bad
<1>6. \A i \in Inodes : Used(i) => ~Virgin(i)
  BY DEF Used
<1>7. Read = {i \in Inodes : Used(i) /\ ~Lost(i)}
  BY <1>2, <1>5, <1>6 DEF Read
<1>8. QED
  BY <1>2, <1>4, <1>5, <1>7

LEMMA KnownAcceptsMap ==
  ASSUME Handed, Placed, Known
  PROVE  CleanMapAccepted
<1>1. SUFFICES ASSUME scan.pc \in {"compared", "died"}, AllInitialised, disk.map,
                      st.sb.first_inode <= st.sb.inodes + 1, disk.lost = {}, disk.uninit = {},
                      \A i \in Inodes : Virgin(i) => disk.inode[i] = Zero
               PROVE  ~scan.differs
  BY DEF CleanMapAccepted
<1>2. /\ st.pc = "pass3" /\ ~Looping /\ Seen = Inodes
      /\ \A i \in Inodes : GroupOf(i) < Begun
  BY <1>1, AllBegun
<1>3. Knowable
  BY <1>1, <1>2 DEF Knowable
<1>4. /\ scan.calculated = Read \cup 1..st.sb.first_inode - 1
      /\ scan.map = {i \in MapOnDisk : GroupOf(i) < Begun}
      /\ scan.differs => scan.map # scan.calculated
  BY <1>1, <1>2, <1>3 DEF Known
<1>5. scan.map = MapOnDisk
  BY <1>2, <1>4 DEF MapOnDisk
<1>6. Read = {i \in Inodes : Used(i)}
  BY <1>1, <1>2 DEF Read, Bad, Lost
<1>7. \A i \in Inodes : disk.inode[i].links > 0 => Used(i)
  <2>1. Zero.links = 0 /\ ~(0 > 0)
    BY DEF Zero
  <2>2. QED
    BY <1>1, <2>1 DEF Used
<1>8. \A i \in Inodes : Used(i) => disk.inode[i].links > 0
  BY DEF Used
<1>9. \A i : i \in 1..st.sb.first_inode - 1 <=> i \in Inodes /\ i < st.sb.first_inode
  <2>1. st.sb.first_inode \in Nat /\ st.sb.inodes \in Nat
    BY <1>2, Pass3
  <2>2. QED
    BY <1>1, <2>1 DEF Inodes
<1>10. MapOnDisk = Read \cup 1..st.sb.first_inode - 1
  BY <1>6, <1>7, <1>8, <1>9 DEF MapOnDisk
<1>11. QED
  BY <1>4, <1>5, <1>10

------------------------------------------------------------------------------
(***************************************************************************)
(* The theorems.                                                           *)
(***************************************************************************)

LEMMA StartsHanded == Init /\ CheckInit => Handed
<1>1. SUFFICES ASSUME Init, CheckInit PROVE Handed
  OBVIOUS
<1>2. st = Start /\ fs \in FileSystems
  BY <1>1 DEF Init
<1>3. NumbersInv
  <2>1. st.pc = "super" /\ st.sb = fs.sb
    BY <1>2 DEF Start
  <2>2. QED
    BY <1>2, <2>1, U32Assumption, FileSystemsAssumption
    DEF NumbersInv, Plausible, Numerals, Using
<1>4. QED
  BY <1>1, <1>3, InitInv, HandedInit DEF Handed, CheckInit

LEMMA StartsPlaced == Init /\ CheckInit => Placed /\ Marked
<1>1. SUFFICES ASSUME Init, CheckInit PROVE Placed /\ Marked
  OBVIOUS
<1>2. st.pc = "super" /\ scan = CheckStart
  BY <1>1 DEF Init, Start, CheckInit
<1>3. /\ scan.pc = "table" /\ scan.i = 1 /\ scan.group = 0
  BY <1>2 DEF CheckStart
<1>4. QED
  BY <1>2, <1>3 DEF Placed, Marked

LEMMA AlwaysHanded == CheckSpec => [](Handed /\ Numbers3)
<1>1. Init /\ CheckInit => Handed
  BY StartsHanded
<1>2. Handed /\ [CheckStep]_CheckVars => Handed'
  BY StepHanded
<1>3. Handed => Numbers3
  BY HandsOn
<1>4. CheckSpec => Init /\ CheckInit /\ [][CheckStep]_CheckVars
  BY DEF CheckSpec, CheckStep, CheckVars
<1>5. QED
  BY <1>1, <1>2, <1>3, <1>4, PTL

LEMMA AlwaysPlaced == CheckSpec => [](Placed /\ Marked)
<1>1. Init /\ CheckInit => Placed /\ Marked
  BY StartsPlaced
<1>2. Handed /\ Numbers3' /\ Placed /\ Marked /\ [CheckStep]_CheckVars => Placed' /\ Marked'
  BY StepPlaced, StepMarked
<1>3. CheckSpec => Init /\ CheckInit /\ [][CheckStep]_CheckVars
  BY DEF CheckSpec, CheckStep, CheckVars
<1>4. QED
  BY <1>1, <1>2, <1>3, AlwaysHanded, PTL

(* The clusters that pass 3 marks for the copies of the super block and of *)
(* the table, which it finds by counting blocks from the start of the      *)
(* device, are those they were written to, for every size of clusters and  *)
(* groups and every set of groups that is not initialised.                 *)
THEOREM MarksOfPass3 == CheckSpec => []MarksRight
<1>1. Handed /\ Placed /\ Marked => MarksRight
  BY MarkedIsRight
<1>2. QED
  BY <1>1, AlwaysHanded, AlwaysPlaced, PTL

LEMMA StartsRight == Init /\ CheckInit => FreeInv /\ RepairsSettle /\ Known
<1>1. SUFFICES ASSUME Init, CheckInit PROVE FreeInv /\ RepairsSettle /\ Known
  OBVIOUS
<1>2. st.pc = "super" /\ scan = CheckStart
  BY <1>1 DEF Init, Start, CheckInit
<1>3. /\ scan.pc = "table" /\ scan.i = 1 /\ scan.calculated = {} /\ DOMAIN scan.type = {}
      /\ scan.never = {} /\ scan.wrong = {} /\ scan.is = Unset
  BY <1>2 DEF CheckStart
<1>4. QED
  BY <1>2, <1>3 DEF FreeInv, Once, HaveFree, NeverUsedClaims, RepairsSettle, Known, Knowable

(* What pass 3 makes of the inodes is right for file systems of every size *)
(* and inode tables with whatever content, of which any block may be lost: *)
(* which inodes are said to have never been used, how an inode is          *)
(* repaired, and that a map that is right is not said to be wrong; if the  *)
(* tables of all groups are initialised, also who is in use, what has      *)
(* clusters and what cannot be known.                                      *)
THEOREM InodesOfPass3 == CheckSpec => []InodesRight
<1>1. Init /\ CheckInit => FreeInv /\ RepairsSettle /\ Known
  BY StartsRight
<1>2. Handed /\ Numbers3' /\ Placed /\ FreeInv /\ RepairsSettle /\ Known
      /\ [CheckStep]_CheckVars => FreeInv' /\ RepairsSettle' /\ Known'
  BY StepFree, StepRepairs, StepKnown
<1>3. Handed /\ Placed /\ FreeInv /\ RepairsSettle /\ Known => InodesRight
  BY KnownIsRight, KnownAcceptsMap DEF FreeInv, InodesRight
<1>4. CheckSpec => Init /\ CheckInit /\ [][CheckStep]_CheckVars
  BY DEF CheckSpec, CheckStep, CheckVars
<1>5. QED
  BY <1>1, <1>2, <1>3, <1>4, AlwaysHanded, AlwaysPlaced, PTL
=============================================================================
