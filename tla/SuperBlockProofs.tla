-------------------------- MODULE SuperBlockProofs --------------------------
(***************************************************************************)
(* What passes 1b and 2 use as the group descriptor table, what they tell  *)
(* of its copies, and with which numbers pass 3 begins, proved for file    *)
(* systems of any number and size of groups, whichever copies are lost.    *)
(***************************************************************************)
EXTENDS SuperBlock, Lemmas

(* Pass 1b looks for a copy of the table where mke2fs writes it, in spite  *)
(* of counting in blocks of 512 bytes and rounding.                        *)
LEMMA PlacesAgree ==
  ASSUME NEW f \in FileSystems, NEW group \in Nat
  PROVE  SearchedAt(f.cs, f.cpg, group) = WrittenAt(f.first, f.cs, f.cpg, group)
<1> DEFINE k == group * f.cpg
<1>1. /\ f.cs \in {2, 4, 8, 16, 32, 64, 128} /\ f.cpg \in Nat
      /\ f.first = IF f.cs = 2 THEN 1 ELSE 0
  BY FileSystemsAssumption
<1>2. k \in Nat
  BY <1>1, SMT
<1>3. group * (f.cpg * f.cs) = k * f.cs
  BY <1>1, SMT
<1>4. SearchedAt(f.cs, f.cpg, group) = (1 + (2 + k * f.cs) \div f.cs) * f.cs
  BY <1>3 DEF SearchedAt
<1>5. WrittenAt(f.first, f.cs, f.cpg, group) = (f.first + k + 1) * f.cs
  BY DEF WrittenAt
<1> HIDE DEF k
<1>6. CASE f.cs = 2
  <2>1. (2 + k * 2) \div 2 = k + 1
    BY <1>2, SMT
  <2>2. f.first = 1
    BY <1>1, <1>6
  <2>3. QED
    BY <1>2, <1>4, <1>5, <1>6, <2>1, <2>2, SMT
<1>7. CASE f.cs # 2
  <2>1. /\ (2 + k * 4) \div 4 = k /\ (2 + k * 8) \div 8 = k /\ (2 + k * 16) \div 16 = k
        /\ (2 + k * 32) \div 32 = k /\ (2 + k * 64) \div 64 = k
        /\ (2 + k * 128) \div 128 = k
    BY <1>2, SMT
  <2>2. f.first = 0
    BY <1>1, <1>7
  <2>3. (2 + k * f.cs) \div f.cs = k
    BY <1>1, <1>7, <2>1
  <2>4. QED
    BY <1>2, <1>4, <1>5, <2>2, <2>3, SMT
<1>8. QED
  BY <1>6, <1>7

-----------------------------------------------------------------------------
Fields == {"pc", "sb", "num_groups", "wide", "pass", "group", "table", "flags", "offset",
           "reports", "retval"}
Using  == {"compare", "numbers", "features", "times", "pass3"}   \* a table is in use

(* During the search, every table of a group with a super block that was   *)
(* passed by is lost: all of them, once the other groups are searched.     *)
PassedByLost ==
  Sane => \A g \in Groups :
            (st.pass > 0 \/ g < st.group) /\ GroupHasSuperBlock(fs.sb, g) => ~Readable(g)
SearchInv ==
  /\ st.pass \in Nat /\ st.group \in Nat /\ st.sb = fs.sb
  /\ PassedByLost

(* The table in use is right, whatever becomes of the super block later.   *)
TableInUse ==
  Sane => /\ \/ st.table.is \in {"same", "differs"}
             \/ \A g \in Groups : GroupHasSuperBlock(fs.sb, g) => fs.table[g] = "lost"
          /\ fs.init \cap Groups \subseteq st.flags

IInv ==
  /\ fs \in FileSystems
  /\ DOMAIN st = Fields
  /\ st.pc \in {"super", "sizes"} => st.pass = 0 /\ st.group = 0 /\ st.sb = fs.sb
  /\ st.pc = "search" => SearchInv
  /\ st.pc \in Using => TableInUse

(* Before the search nothing was passed by. *)
LEMMA InitInv == Init => IInv
<1> SUFFICES ASSUME Init PROVE IInv
  OBVIOUS
<1>1. st = Start /\ fs \in FileSystems
  BY DEF Init
<1>2. /\ DOMAIN Start = Fields /\ Start.pc = "super" /\ Start.pass = 0 /\ Start.group = 0
      /\ Start.sb = fs.sb
  BY DEF Start, Fields
<1>3. QED
  BY <1>1, <1>2 DEF IInv, Using

(* A state that goes on from this one with the same table. *)
Keeps(s) ==
  /\ DOMAIN s = Fields /\ s.pc \in Using \cup {"failed", "crashed"}
  /\ s.num_groups = st.num_groups /\ s.table = st.table /\ s.flags = st.flags

LEMMA KeepsTable ==
  ASSUME IInv, st.pc \in Using, NEW s, Keeps(s), Go(s)
  PROVE  IInv'
<1>1. TableInUse
  BY DEF IInv
<1>2. st' = s /\ fs' = fs
  BY DEF Go
<1>3. TableInUse'
  BY <1>1, <1>2 DEF TableInUse, Sane, Groups, Keeps
<1>4. QED
  BY <1>2, <1>3 DEF IInv, Using, Keeps

(* And a program that has failed keeps nothing. *)
LEMMA Fails ==
  ASSUME IInv, NEW s, DOMAIN s = Fields, Go(s), s.pc \in {"failed", "crashed"}
  PROVE  IInv'
BY DEF IInv, Go, Using

(* The table a search in the groups with a super block ends with is one. *)
LEMMA FoundIsReal ==
  ASSUME fs \in FileSystems, Sane, st.sb = fs.sb, NEW group \in Groups, Readable(group),
         GroupHasSuperBlock(fs.sb, group)
  PROVE  TableFrom(group, SearchedAt(fs.cs, st.sb.cpg, group)) \in {"same", "differs"}
<1>1. /\ fs.table \in [0..fs.groups - 1 -> {"same", "differs", "lost"}]
      /\ fs.groups \in Nat
  BY FileSystemsAssumption
<1>2. group \in DOMAIN fs.table /\ fs.table[group] # "lost"
  BY DEF Readable
<1>3. fs.table[group] \in {"same", "differs"}
  BY <1>1, <1>2
<1>4. group \in Nat
  BY <1>1 DEF Groups, Sane
<1>5. SearchedAt(fs.cs, st.sb.cpg, group) = WrittenAt(fs.first, fs.cs, fs.cpg, group)
  BY <1>4, PlacesAgree DEF Sane
<1>6. QED
  BY <1>2, <1>3, <1>5 DEF TableFrom

-----------------------------------------------------------------------------
(* The steps of the search. *)

LEMMA SearchTableStep == IInv /\ SearchTable => IInv'
<1> SUFFICES ASSUME IInv, SearchTable PROVE IInv'
  OBVIOUS
<1>1. /\ fs \in FileSystems /\ DOMAIN st = Fields /\ st.pc = "search" /\ SearchInv
      /\ st.group \in Groups
  BY DEF IInv, SearchTable
<1> DEFINE passed == \/ (st.pass = 0) # GroupHasSuperBlock(st.sb, st.group)
                     \/ ~Readable(st.group)
<1>2. CASE passed
  <2> DEFINE s == [st EXCEPT !.group = @ + 1]
  <2>1. st' = s /\ fs' = fs
    BY <1>2 DEF SearchTable, Go
  <2>2. /\ DOMAIN s = Fields /\ s.pc = "search" /\ s.group = st.group + 1
        /\ s.pass = st.pass /\ s.sb = st.sb /\ s.num_groups = st.num_groups
    BY <1>1 DEF Fields
  <2>3. st.pass = 0 /\ GroupHasSuperBlock(fs.sb, st.group) => ~Readable(st.group)
    BY <1>1, <1>2 DEF SearchInv
  <2>4. PassedByLost'
    <3> SUFFICES ASSUME Sane, NEW g \in Groups, GroupHasSuperBlock(fs.sb, g),
                        st.pass > 0 \/ g < st.group + 1
                 PROVE  ~Readable(g)
      BY <2>1, <2>2 DEF PassedByLost, Sane, Groups, Readable
    <3>1. g \in Int /\ st.group \in Nat /\ st.pass \in Nat
      BY <1>1 DEF Groups, SearchInv
    <3>2. CASE st.pass > 0 \/ g < st.group
      BY <1>1, <3>2 DEF SearchInv, PassedByLost
    <3>3. CASE ~(st.pass > 0 \/ g < st.group)
      <4>1. g = st.group /\ st.pass = 0
        BY <3>1, <3>3
      <4>2. QED
        BY <2>3, <4>1
    <3>4. QED
      BY <3>2, <3>3
  <2>5. SearchInv'
    BY <1>1, <2>1, <2>2, <2>4 DEF SearchInv
  <2>6. QED
    BY <1>1, <2>1, <2>2, <2>5 DEF IInv, Using
<1>3. CASE ~passed
  <2> DEFINE at == SearchedAt(fs.cs, st.sb.cpg, st.group)
             s  == [st EXCEPT !.pc = "compare", !.group = 1, !.flags = FixFlags(st.group),
                              !.table = [group |-> st.group, is |-> TableFrom(st.group, at)]]
  <2>1. st' = s /\ fs' = fs
    BY <1>3 DEF SearchTable, Go
  <2>2. /\ DOMAIN s = Fields /\ s.pc = "compare" /\ s.num_groups = st.num_groups
        /\ s.flags = FixFlags(st.group) /\ s.table.is = TableFrom(st.group, at)
    BY <1>1 DEF Fields
  <2>3. Readable(st.group) /\ (st.pass = 0 <=> GroupHasSuperBlock(fs.sb, st.group))
    BY <1>1, <1>3 DEF SearchInv, GroupHasSuperBlock
  <2>4. ASSUME Sane
        PROVE  \/ TableFrom(st.group, at) \in {"same", "differs"}
               \/ \A g \in Groups : GroupHasSuperBlock(fs.sb, g) => fs.table[g] = "lost"
    <3>1. CASE st.pass = 0
      BY <1>1, <2>3, <2>4, <3>1, FoundIsReal DEF SearchInv
    <3>2. CASE st.pass # 0
      <4>1. st.pass > 0
        BY <1>1, <3>2 DEF SearchInv
      <4>2. \A g \in Groups : GroupHasSuperBlock(fs.sb, g) => ~Readable(g)
        BY <1>1, <2>4, <4>1 DEF SearchInv, PassedByLost
      <4>3. DOMAIN fs.table = Groups
        BY <1>1, <2>4, FileSystemsAssumption DEF Sane, Groups
      <4>4. QED
        BY <4>2, <4>3 DEF Readable
    <3>3. QED
      BY <3>1, <3>2
  <2>5. fs.init \cap Groups \subseteq FixFlags(st.group)
    BY DEF FixFlags
  <2>6. TableInUse'
    BY <2>1, <2>2, <2>4, <2>5 DEF TableInUse, Sane, Groups
  <2>7. QED
    BY <1>1, <2>1, <2>2, <2>6 DEF IInv, Using
<1>4. QED
  BY <1>2, <1>3

LEMMA NextPassStep == IInv /\ NextPass => IInv'
<1> SUFFICES ASSUME IInv, NextPass PROVE IInv'
  OBVIOUS
<1>1. /\ fs \in FileSystems /\ DOMAIN st = Fields /\ st.pc = "search" /\ SearchInv
      /\ st.group \notin Groups
  BY DEF IInv, NextPass
<1>2. CASE st.pass < 2
  <2> DEFINE s == [st EXCEPT !.pass = @ + 1, !.group = 0]
  <2>1. st' = s /\ fs' = fs
    BY <1>2 DEF NextPass, Go
  <2>2. /\ DOMAIN s = Fields /\ s.pc = "search" /\ s.group = 0 /\ s.pass = st.pass + 1
        /\ s.sb = st.sb /\ s.num_groups = st.num_groups
    BY <1>1 DEF Fields
  <2>3. PassedByLost'
    <3> SUFFICES ASSUME Sane, NEW g \in Groups, GroupHasSuperBlock(fs.sb, g)
                 PROVE  ~Readable(g)
      BY <2>1, <2>2 DEF PassedByLost, Sane, Groups, Readable
    <3>1. st.num_groups \in Nat /\ st.group \in Nat
      BY <1>1, FileSystemsAssumption DEF Sane, SearchInv
    <3>2. g < st.group
      BY <1>1, <3>1 DEF Groups
    <3>3. QED
      BY <1>1, <3>2 DEF SearchInv, PassedByLost
  <2>4. SearchInv'
    BY <1>1, <2>1, <2>2, <2>3 DEF SearchInv
  <2>5. QED
    BY <1>1, <2>1, <2>2, <2>4 DEF IInv, Using
<1>3. CASE ~(st.pass < 2)
  <2> DEFINE s == [st EXCEPT !.pc = "failed", !.retval = TRUE]
  <2>1. Go(s)
    BY <1>3 DEF NextPass
  <2>2. DOMAIN s = Fields /\ s.pc = "failed"
    BY <1>1 DEF Fields
  <2>3. QED
    BY <2>1, <2>2, Fails
<1>4. QED
  BY <1>2, <1>3

-----------------------------------------------------------------------------
(* Before and behind the search. *)

(* The cleanup only ends the program. *)
LEMMA CleanUpStep ==
  ASSUME IInv, CleanUp(st)
  PROVE  IInv'
<1>1. PICK pc \in {"failed", "crashed"} : Go([st EXCEPT !.pc = pc])
  BY DEF CleanUp
<1>2. DOMAIN [st EXCEPT !.pc = pc] = Fields /\ [st EXCEPT !.pc = pc].pc = pc
  BY DEF IInv, Fields
<1>3. QED
  BY <1>1, <1>2, Fails

LEMMA ReadMasterStep == IInv /\ ReadMaster => IInv'
<1> SUFFICES ASSUME IInv, ReadMaster PROVE IInv'
  OBVIOUS
<1> DEFINE s == [st EXCEPT !.pc = "sizes", !.sb = fs.sb]
<1>1. CASE fs.copy[0] = "same"
  <2>1. st' = s /\ fs' = fs
    BY <1>1 DEF ReadMaster, Go
  <2>2. DOMAIN s = Fields /\ s.pc = "sizes" /\ s.sb = fs.sb /\ s.pass = 0 /\ s.group = 0
    BY DEF IInv, ReadMaster, Fields
  <2>3. QED
    BY <2>1, <2>2 DEF IInv, Using
<1>2. CASE fs.copy[0] # "same"
  BY <1>2, CleanUpStep DEF ReadMaster
<1>3. QED
  BY <1>1, <1>2

LEMMA SizesStep == IInv /\ Sizes => IInv'
<1> SUFFICES ASSUME IInv, Sizes PROVE IInv'
  OBVIOUS
<1> DEFINE n == NumGroups(st.sb)
           w == st.sb.entry = 64 \/ (st.sb.entry = 0 /\ IN_64BIT \in st.sb.in)
           s == [st EXCEPT !.num_groups = n, !.pc = "search", !.wide = w]
<1>1. CASE st.sb.cpg = 0
  <2>1. Go([st EXCEPT !.pc = "crashed"])
    BY <1>1 DEF Sizes
  <2>2. DOMAIN [st EXCEPT !.pc = "crashed"] = Fields /\ [st EXCEPT !.pc = "crashed"].pc = "crashed"
    BY DEF IInv, Fields
  <2>3. QED
    BY <2>1, <2>2, Fails
<1>2. CASE st.sb.cpg # 0 /\ st.sb.entry \in {0, 32, 64}
  <2>1. st' = s /\ fs' = fs
    BY <1>2 DEF Sizes, Go
  <2>2. /\ DOMAIN s = Fields /\ s.pc = "search" /\ s.sb = st.sb /\ s.num_groups = n
        /\ s.pass = 0 /\ s.group = 0 /\ st.sb = fs.sb
    <3> HIDE DEF n, w
    <3>1. QED
      BY DEF IInv, Sizes, Fields
  <2> HIDE DEF n
  <2>3. PassedByLost'
    <3> SUFFICES ASSUME Sane', NEW g \in Groups' PROVE ~(st'.pass > 0 \/ g < st'.group)
      BY DEF PassedByLost
    <3>1. fs.groups \in Nat /\ st'.num_groups = fs.groups
      BY <2>1, FileSystemsAssumption DEF IInv, Sane
    <3>2. g >= 0 /\ g \in Int
      BY <3>1 DEF Groups
    <3>3. QED
      BY <2>1, <2>2, <3>2
  <2>4. SearchInv'
    BY <2>1, <2>2, <2>3 DEF SearchInv
  <2>5. QED
    BY <2>1, <2>2, <2>4 DEF IInv, Using
<1>3. CASE st.sb.cpg # 0 /\ st.sb.entry \notin {0, 32, 64}
  BY <1>3, CleanUpStep DEF Sizes
<1>4. QED
  BY <1>1, <1>2, <1>3

-----------------------------------------------------------------------------
(* The steps behind the search: the place in the program, the super block  *)
(* and the reports change, the table does not.                             *)

LEMMA CompareStep == IInv /\ (Compare \/ Compared) => IInv'
<1> SUFFICES ASSUME IInv, Compare \/ Compared PROVE IInv'
  OBVIOUS
<1>1. DOMAIN st = Fields /\ st.pc = "compare" /\ st.pc \in Using
  BY DEF IInv, Compare, Compared, Using
<1> DEFINE next(o) == [st EXCEPT !.group = @ + 1, !.offset = o]
<1>2. ASSUME NEW o PROVE Keeps(next(o))
  BY <1>1 DEF Keeps, Fields, Using
<1>3. ASSUME NEW o, NEW r PROVE Keeps([next(o) EXCEPT !.reports = r])
  BY <1>1 DEF Keeps, Fields, Using
<1>4. Keeps([st EXCEPT !.pc = "crashed"]) /\ Keeps([st EXCEPT !.pc = "numbers"])
  BY <1>1 DEF Keeps, Fields, Using
<1>5. CASE Compared
  BY <1>1, <1>4, <1>5, KeepsTable DEF Compared
<1>6. CASE Compare
  <2> DEFINE o == IF GroupHasSuperBlock(st.sb, st.group) THEN {Offset(fs.cs)} ELSE st.offset
  <2>1. \/ Go(next(o))
        \/ Go([st EXCEPT !.pc = "crashed"])
        \/ \E r : Go([next(o) EXCEPT !.reports = r])
    BY <1>6 DEF Compare
  <2> HIDE DEF next, o
  <2>2. QED
    BY <1>1, <1>2, <1>3, <1>4, <2>1, KeepsTable
<1>7. QED
  BY <1>5, <1>6

LEMMA NumbersStep == IInv /\ Numbers => IInv'
<1> SUFFICES ASSUME IInv, Numbers PROVE IInv'
  OBVIOUS
<1>1. DOMAIN st = Fields /\ st.pc \in Using
  BY DEF IInv, Numbers, Using
<1> DEFINE features(sb) == [st EXCEPT !.pc = "features", !.sb = sb]
<1>2. \A sb : Keeps(features(sb))
  BY <1>1 DEF Keeps, Fields, Using
<1>3. Keeps([st EXCEPT !.pc = "crashed"]) /\ Keeps([st EXCEPT !.pc = "failed"])
  BY <1>1 DEF Keeps, Fields, Using
<1>4. \/ Go([st EXCEPT !.pc = "crashed"]) \/ Go([st EXCEPT !.pc = "failed"])
      \/ \E sb : Go(features(sb))
  BY DEF Numbers
<1> HIDE DEF features
<1>5. QED
  BY <1>1, <1>2, <1>3, <1>4, KeepsTable

LEMMA FeaturesStep == IInv /\ Features => IInv'
<1> SUFFICES ASSUME IInv, Features PROVE IInv'
  OBVIOUS
<1>1. DOMAIN st = Fields /\ st.pc \in Using
  BY DEF IInv, Features, Using
<1> DEFINE times(sb) == [st EXCEPT !.pc = "times", !.sb = sb]
           journal   == [st EXCEPT !.pc = "numbers", !.sb.rw = @ \cup {HAS_JOURNAL}]
<1>2. \A sb : Keeps(times(sb))
  BY <1>1 DEF Keeps, Fields, Using
<1>3. Keeps(journal) /\ Keeps([st EXCEPT !.pc = "failed"])
  BY <1>1 DEF Keeps, Fields, Using
<1>4. Go(journal) \/ Go([st EXCEPT !.pc = "failed"]) \/ \E sb : Go(times(sb))
  BY DEF Features
<1> HIDE DEF times, journal
<1>5. QED
  BY <1>1, <1>2, <1>3, <1>4, KeepsTable

LEMMA TimesStep == IInv /\ Times => IInv'
<1> SUFFICES ASSUME IInv, Times PROVE IInv'
  OBVIOUS
<1>1. DOMAIN st = Fields /\ st.pc \in Using
  BY DEF IInv, Times, Using
<1> DEFINE t  == Clamp(st.sb.wtime, st.sb.mtime, fs.now)
           pc == IF Asserts(st.sb) THEN "pass3" ELSE "crashed"
           s  == [st EXCEPT !.pc = pc, !.sb.wtime = t.wtime, !.sb.mtime = t.mtime]
<1>2. Go(s)
  BY DEF Times
<1>3. pc \in {"pass3", "crashed"}
  OBVIOUS
<1>4. Keeps(s)
  <2> HIDE DEF t, pc
  <2>1. QED
    BY <1>1, <1>3 DEF Keeps, Fields, Using
<1> HIDE DEF s
<1>5. QED
  BY <1>1, <1>2, <1>4, KeepsTable

-----------------------------------------------------------------------------
LEMMA Step == IInv /\ [Next]_<<fs, st>> => IInv'
<1>1. IInv /\ UNCHANGED <<fs, st>> => IInv'
  BY DEF IInv, SearchInv, PassedByLost, TableInUse, Sane, Groups, Readable
<1>2. QED
  BY <1>1, ReadMasterStep, SizesStep, SearchTableStep, NextPassStep, CompareStep, NumbersStep,
     FeaturesStep, TimesStep DEF Next

(* Pass 1b never uses data that is not a group descriptor table while a    *)
(* table is left that can be read, and never relies on flags that leave    *)
(* out an inode table, for every number and size of groups, with and       *)
(* without sparse super blocks.                                            *)
THEOREM TableIsRight == Spec => []TableRight
<1>1. IInv => TableRight
  BY DEF IInv, TableInUse, Using, TableRight, UsesARealTable, NoTableSkipped
<1>2. QED
  BY <1>1, InitInv, Step, PTL DEF Spec

-----------------------------------------------------------------------------
(***************************************************************************)
(* Pass 2: the copies that are told of.                                    *)
(***************************************************************************)

(* Pass 2 looks for the copies of both where mke2fs writes them, too, but  *)
(* for group 0, which it does not compare.                                 *)
LEMMA CopiesFound ==
  ASSUME NEW f \in FileSystems, NEW group \in Nat \ {0}, f.cpg # 0
  PROVE  /\ CopyAt(f.cs, f.cpg, group)
               = WrittenAt(f.first, f.cs, f.cpg, group) - f.cs
         /\ ComparedAt(f.cs, f.cpg, group)
               = WrittenAt(f.first, f.cs, f.cpg, group)
<1> DEFINE k == group * f.cpg
<1>1. /\ f.cs \in {2, 4, 8, 16, 32, 64, 128} /\ f.cpg \in Nat
      /\ f.first = IF f.cs = 2 THEN 1 ELSE 0
  BY FileSystemsAssumption
<1>2. k \in Nat /\ k > 0
  BY <1>1, SMT
<1>3. group * (f.cpg * f.cs) = k * f.cs
  BY <1>1, SMT
<1>4. WrittenAt(f.first, f.cs, f.cpg, group) = (f.first + k + 1) * f.cs
  BY DEF WrittenAt
<1>5. CopyAt(f.cs, f.cpg, group) = LET at == f.cs * Offset(f.cs) + k * f.cs
                                   IN  IF at = 0 THEN 2 ELSE at
  BY <1>3 DEF CopyAt
<1> HIDE DEF k
<1>6. CASE f.cs = 2
  <2>1. CopyAt(f.cs, f.cpg, group) = 2 + k * 2 /\ f.first = 1
    BY <1>1, <1>2, <1>5, <1>6, SMT DEF Offset
  <2>2. (2 + k * 2) \div 2 = k + 1
    BY <1>2, SMT
  <2>3. QED
    BY <1>2, <1>4, <1>6, <2>1, <2>2, SMT DEF ComparedAt
<1>7. CASE f.cs # 2
  <2>1. Offset(f.cs) = 0 /\ f.first = 0
    BY <1>1, <1>7 DEF Offset
  <2>2. k * f.cs \in Nat /\ k * f.cs > 0 /\ f.cs * 0 = 0
    BY <1>1, <1>2, SMT
  <2>3. CopyAt(f.cs, f.cpg, group) = k * f.cs
    BY <1>5, <2>1, <2>2
  <2>4. /\ (k * 4) \div 4 = k /\ (k * 8) \div 8 = k /\ (k * 16) \div 16 = k
        /\ (k * 32) \div 32 = k /\ (k * 64) \div 64 = k /\ (k * 128) \div 128 = k
    BY <1>2, SMT
  <2>5. (k * f.cs) \div f.cs = k
    BY <1>1, <1>7, <2>4
  <2>6. (k + 1) * f.cs - f.cs = k * f.cs
    BY <1>1, <1>2, SMT
  <2>7. QED
    BY <1>2, <1>4, <2>1, <2>3, <2>5, <2>6 DEF ComparedAt
<1>8. QED
  BY <1>6, <1>7

(* What pass 2 has told of when it has compared the groups below n. *)
ReportsBelow(f, n) ==
  LET copies == {g \in 1..n - 1 : GroupHasSuperBlock(f.sb, g)
                                  /\ f.copy[g] \in {"same", "differs"}}
  IN  {<<"super", g>> : g \in {h \in copies : f.copy[h] = "differs"}}
      \cup {<<"table", g>> : g \in {h \in copies : f.table[h] = "differs"}}
      \cup {<<"unread", g>> : g \in {h \in copies : f.table[h] = "lost"}}
FromMaster == Sane /\ st.table = [group |-> 0, is |-> "same"]

ReportsInv ==
  /\ st.pc \in {"super", "sizes", "search"} => st.sb = fs.sb /\ st.reports = {}
  /\ st.pc \in {"search", "compare"} => st.sb.cpg # 0
  /\ st.pc = "compare" => /\ st.sb = fs.sb /\ st.group \in Nat \ {0}
                          /\ st.group = 1 \/ st.group - 1 \in Groups
                          /\ FromMaster => st.reports = ReportsBelow(fs, st.group)
  /\ st.pc \in {"numbers", "features", "times"} /\ FromMaster
        => st.reports = ReportsBelow(fs, st.num_groups)

(* One group more. *)
LEMMA ReportsOfGroup ==
  ASSUME NEW n \in Nat \ {0}
  PROVE  ReportsBelow(fs, n + 1) =
           ReportsBelow(fs, n) \cup
           IF GroupHasSuperBlock(fs.sb, n) /\ fs.copy[n] \in {"same", "differs"}
           THEN (IF fs.copy[n] = "differs" THEN {<<"super", n>>} ELSE {})
                \cup (IF fs.table[n] = "differs" THEN {<<"table", n>>} ELSE {})
                \cup (IF fs.table[n] = "lost" THEN {<<"unread", n>>} ELSE {})
           ELSE {}
<1>1. 1..(n + 1) - 1 = (1..n - 1) \cup {n} /\ n \notin 1..n - 1
  OBVIOUS
<1>2. QED
  BY <1>1 DEF ReportsBelow

(* Comparing a group: with one that has a copy, both copies are found. *)
LEMMA CompareReports ==
  ASSUME IInv, ReportsInv, Compare
  PROVE  ReportsInv'
<1> DEFINE g    == st.group
           o    == IF GroupHasSuperBlock(st.sb, g) THEN {Offset(fs.cs)} ELSE st.offset
           next == [st EXCEPT !.group = @ + 1, !.offset = o]
           copy == CopyFrom(g, CopyAt(fs.cs, st.sb.cpg, g))
           sb   == IF copy = "differs" THEN {<<"super", g>>} ELSE {}
           gdt  == IF ~Readable(g) THEN {<<"unread", g>>}
                   ELSE IF TableFrom(g, ComparedAt(fs.cs, st.sb.cpg, g)) # st.table.is
                   THEN {<<"table", g>>} ELSE {}
           told == st.reports \cup sb \cup gdt
<1>1. /\ fs \in FileSystems /\ DOMAIN st = Fields /\ st.pc = "compare" /\ g \in Groups
      /\ st.sb = fs.sb /\ fs.sb.cpg # 0 /\ g \in Nat \ {0}
      /\ FromMaster => st.reports = ReportsBelow(fs, g)
  BY DEF IInv, ReportsInv, Compare
<1>2. ASSUME FromMaster
      PROVE  /\ g \in DOMAIN fs.copy /\ g \in DOMAIN fs.table
             /\ fs.copy[g] \in {"same", "differs", "foreign", "lost"}
             /\ fs.table[g] \in {"same", "differs", "lost"}
             /\ fs.cpg = fs.sb.cpg /\ st.table.is = "same"
  <2>1. /\ fs.copy \in [Groups -> {"same", "differs", "foreign", "lost"}]
        /\ fs.table \in [Groups -> {"same", "differs", "lost"}]
    BY <1>1, <1>2, FileSystemsAssumption DEF FromMaster, Sane, Groups
  <2>2. QED
    BY <1>1, <1>2, <2>1 DEF FromMaster, Sane
<1>3. ASSUME FromMaster, GroupHasSuperBlock(fs.sb, g)
      PROVE  /\ copy = fs.copy[g]
             /\ TableFrom(g, ComparedAt(fs.cs, st.sb.cpg, g)) = fs.table[g]
  BY <1>1, <1>2, <1>3, CopiesFound DEF CopyFrom, TableFrom
<1>4. /\ DOMAIN next = Fields /\ next.pc = "compare" /\ next.sb = st.sb
      /\ next.num_groups = st.num_groups /\ next.table = st.table
      /\ next.group = g + 1 /\ next.reports = st.reports
  <2> HIDE DEF o
  <2>1. QED
    BY <1>1 DEF Fields
<1>5. ASSUME NEW s, Go(s), s.pc = "compare", s.sb = st.sb, s.group = g + 1,
             s.num_groups = st.num_groups, s.table = st.table,
             FromMaster => s.reports = ReportsBelow(fs, g + 1)
      PROVE  ReportsInv'
  <2>1. fs' = fs /\ st' = s
    BY <1>5 DEF Go
  <2>2. FromMaster' <=> FromMaster
    BY <1>5, <2>1 DEF FromMaster, Sane
  <2>3. FromMaster => st'.reports = ReportsBelow(fs', st'.group)
    BY <1>5, <2>1
  <2>4. g + 1 \in Nat \ {0} /\ (g + 1) - 1 \in Groups'
    BY <1>1, <1>5, <2>1 DEF Groups
  <2>5. /\ st'.pc = "compare" /\ st'.sb = fs'.sb /\ st'.sb.cpg # 0
        /\ st'.group = g + 1
    BY <1>1, <1>5, <2>1
  <2> HIDE DEF g
  <2>6. QED
    BY <2>2, <2>3, <2>4, <2>5 DEF ReportsInv
<1>6. CASE ~GroupHasSuperBlock(st.sb, g)
  <2>1. Go(next)
    BY <1>6 DEF Compare
  <2>2. FromMaster => st.reports = ReportsBelow(fs, g + 1)
    BY <1>1, <1>6, ReportsOfGroup
  <2> HIDE DEF next, g
  <2>3. QED
    BY <1>1, <1>4, <1>5, <2>1, <2>2
<1>7. CASE GroupHasSuperBlock(st.sb, g) /\ fs.cs \notin {2, 4, 8, 16}
  <2>1. fs' = fs /\ st' = [st EXCEPT !.pc = "crashed"]
    BY <1>7 DEF Compare, Go
  <2>2. st'.pc = "crashed"
    BY <1>1, <2>1 DEF Fields
  <2>3. QED
    BY <2>2 DEF ReportsInv
<1>8. CASE /\ GroupHasSuperBlock(st.sb, g) /\ fs.cs \in {2, 4, 8, 16}
           /\ copy \in {"lost", "foreign"}
  <2>1. Go(next)
    BY <1>8 DEF Compare
  <2>2. FromMaster => st.reports = ReportsBelow(fs, g + 1)
    BY <1>1, <1>3, <1>8, ReportsOfGroup
  <2> HIDE DEF next, g, copy
  <2>3. QED
    BY <1>1, <1>4, <1>5, <2>1, <2>2
<1>9. CASE /\ GroupHasSuperBlock(st.sb, g) /\ fs.cs \in {2, 4, 8, 16}
           /\ copy \notin {"lost", "foreign"}
  <2> DEFINE s == [next EXCEPT !.reports = told]
  <2>1. Go(s)
    BY <1>9 DEF Compare
  <2>2. FromMaster => told = ReportsBelow(fs, g + 1)
    <3> SUFFICES ASSUME FromMaster PROVE told = ReportsBelow(fs, g + 1)
      OBVIOUS
    <3>1. copy = fs.copy[g] /\ copy \in {"same", "differs"}
      BY <1>1, <1>2, <1>3, <1>9
    <3>2. gdt = (IF fs.table[g] = "differs" THEN {<<"table", g>>} ELSE {})
                \cup (IF fs.table[g] = "lost" THEN {<<"unread", g>>} ELSE {})
      <4>1. Readable(g) <=> fs.table[g] # "lost"
        BY <1>2 DEF Readable
      <4>2. TableFrom(g, ComparedAt(fs.cs, st.sb.cpg, g)) = fs.table[g]
        BY <1>1, <1>3, <1>9
      <4>3. QED
        BY <1>2, <4>1, <4>2
    <3>3. GroupHasSuperBlock(fs.sb, g) /\ st.reports = ReportsBelow(fs, g)
      BY <1>1, <1>9
    <3> HIDE DEF copy, gdt, g
    <3>4. QED
      BY <1>1, <3>1, <3>2, <3>3, ReportsOfGroup
  <2>3. /\ s.pc = "compare" /\ s.sb = st.sb /\ s.num_groups = st.num_groups
        /\ s.table = st.table /\ s.group = g + 1 /\ s.reports = told
    <3> HIDE DEF next, told, g
    <3>1. QED
      BY <1>4 DEF Fields
  <2> HIDE DEF s, g, told
  <2>4. QED
    BY <1>5, <2>1, <2>2, <2>3
<1>10. QED
  BY <1>6, <1>7, <1>8, <1>9

(* Steps behind pass 2 leave the reports and the table alone. *)
LEMMA ReportsStay ==
  ASSUME IInv, ReportsInv, st.pc \in {"numbers", "features", "times"},
         NEW s, Go(s), s.pc \in {"numbers", "features", "times", "pass3", "failed",
                                 "crashed"},
         s.num_groups = st.num_groups, s.table = st.table, s.reports = st.reports
  PROVE  ReportsInv'
<1>1. fs' = fs /\ st' = s
  BY DEF Go
<1>2. FromMaster' <=> FromMaster
  BY <1>1 DEF FromMaster, Sane
<1>3. FromMaster => s.reports = ReportsBelow(fs, s.num_groups)
  BY DEF ReportsInv
<1>4. QED
  BY <1>1, <1>2, <1>3 DEF ReportsInv

(* Every step. *)
LEMMA ReportsStep ==
  ASSUME IInv, ReportsInv, [Next]_<<fs, st>>
  PROVE  ReportsInv'
<1>1. DOMAIN st = Fields
  BY DEF IInv
<1>2. ASSUME NEW s, Go(s), s.pc \in {"failed", "crashed"}
      PROVE  ReportsInv'
  BY <1>2 DEF Go, ReportsInv
<1>3. ASSUME CleanUp(st) PROVE ReportsInv'
  <2>1. PICK pc \in {"failed", "crashed"} : Go([st EXCEPT !.pc = pc])
    BY <1>3 DEF CleanUp
  <2>2. [st EXCEPT !.pc = pc].pc = pc
    BY <1>1 DEF Fields
  <2>3. QED
    BY <1>2, <2>1, <2>2
<1>4. CASE ReadMaster
  <2>1. CASE fs.copy[0] = "same"
    <3> DEFINE s == [st EXCEPT !.pc = "sizes", !.sb = fs.sb]
    <3>1. fs' = fs /\ st' = s /\ st.pc = "super"
      BY <1>4, <2>1 DEF ReadMaster, Go
    <3>2. s.pc = "sizes" /\ s.sb = fs.sb /\ s.reports = st.reports
      BY <1>1 DEF Fields
    <3> HIDE DEF s
    <3>3. QED
      BY <3>1, <3>2 DEF ReportsInv
  <2>2. QED
    BY <1>3, <1>4, <2>1 DEF ReadMaster
<1>5. CASE Sizes
  <2>1. CASE st.sb.cpg = 0
    <3>1. Go([st EXCEPT !.pc = "crashed"]) /\ [st EXCEPT !.pc = "crashed"].pc = "crashed"
      BY <1>1, <1>5, <2>1 DEF Sizes, Fields
    <3>2. QED
      BY <1>2, <3>1
  <2>2. CASE st.sb.cpg # 0 /\ st.sb.entry \in {0, 32, 64}
    <3> DEFINE n == NumGroups(st.sb)
               w == st.sb.entry = 64 \/ (st.sb.entry = 0 /\ IN_64BIT \in st.sb.in)
               s == [st EXCEPT !.num_groups = n, !.pc = "search", !.wide = w]
    <3>1. fs' = fs /\ st' = s /\ st.pc = "sizes"
      BY <1>5, <2>2 DEF Sizes, Go
    <3>2. s.pc = "search" /\ s.sb = st.sb /\ s.reports = st.reports
      <4> HIDE DEF n, w
      <4>1. QED
        BY <1>1 DEF Fields
    <3> HIDE DEF s
    <3>3. QED
      BY <2>2, <3>1, <3>2 DEF ReportsInv
  <2>3. QED
    BY <1>3, <1>5, <2>1, <2>2 DEF Sizes
<1>6. CASE SearchTable
  <2> DEFINE at == SearchedAt(fs.cs, st.sb.cpg, st.group)
             t  == [group |-> st.group, is |-> TableFrom(st.group, at)]
             f  == FixFlags(st.group)
             passed == [st EXCEPT !.group = @ + 1]
             found  == [st EXCEPT !.pc = "compare", !.group = 1, !.flags = f, !.table = t]
  <2>1. st.pc = "search" /\ fs' = fs /\ (st' = passed \/ st' = found)
    BY <1>6 DEF SearchTable, Go
  <2>2. /\ passed.pc = st.pc /\ passed.sb = st.sb /\ passed.reports = st.reports
        /\ found.pc = "compare" /\ found.sb = st.sb /\ found.reports = st.reports
        /\ found.group = 1
    <3> HIDE DEF t, f
    <3>1. QED
      BY <1>1 DEF Fields
  <2>3. ReportsBelow(fs, 1) = {}
    BY DEF ReportsBelow
  <2> HIDE DEF passed, found
  <2>4. CASE st' = passed
    BY <2>1, <2>2, <2>4 DEF ReportsInv
  <2>5. CASE st' = found
    <3>1. /\ st'.sb = fs'.sb /\ st'.sb.cpg # 0 /\ st'.pc = "compare"
          /\ st'.group = 1 /\ st'.reports = {} /\ fs' = fs
      BY <2>1, <2>2, <2>5 DEF ReportsInv
    <3>2. st'.reports = ReportsBelow(fs', st'.group)
      BY <2>3, <3>1
    <3>3. QED
      BY <3>1, <3>2 DEF ReportsInv
  <2>6. QED
    BY <2>1, <2>4, <2>5
<1>7. CASE NextPass
  <2> DEFINE again == [st EXCEPT !.pass = @ + 1, !.group = 0]
             end   == [st EXCEPT !.pc = "failed", !.retval = TRUE]
  <2>1. st.pc = "search" /\ (Go(again) \/ Go(end))
    BY <1>7 DEF NextPass
  <2>2. /\ again.pc = st.pc /\ again.sb = st.sb /\ again.reports = st.reports
        /\ end.pc = "failed"
    BY <1>1 DEF Fields
  <2> HIDE DEF again, end
  <2>3. CASE Go(again)
    BY <2>1, <2>2, <2>3 DEF ReportsInv, Go
  <2>4. QED
    BY <1>2, <2>1, <2>2, <2>3
<1>8. CASE Compare
  BY <1>8, CompareReports
<1>9. CASE Compared
  <2> DEFINE s == [st EXCEPT !.pc = "numbers"]
  <2>1. st.pc = "compare" /\ st.group \notin Groups /\ fs' = fs /\ st' = s
    BY <1>9 DEF Compared, Go
  <2>2. /\ s.pc = "numbers" /\ s.num_groups = st.num_groups /\ s.table = st.table
        /\ s.reports = st.reports
    BY <1>1 DEF Fields
  <2>3. ASSUME FromMaster PROVE st.group = st.num_groups
    <3>1. st.num_groups \in Nat \ {0}
      BY <2>3, FileSystemsAssumption DEF FromMaster, Sane, IInv
    <3>2. st.group \in Nat \ {0} /\ (st.group = 1 \/ st.group - 1 \in Groups)
      BY <2>1 DEF ReportsInv
    <3>3. QED
      BY <2>1, <3>1, <3>2 DEF Groups
  <2>4. FromMaster => st.reports = ReportsBelow(fs, st.num_groups)
    BY <2>1, <2>3 DEF ReportsInv
  <2>5. FromMaster' <=> FromMaster
    BY <2>1, <2>2 DEF FromMaster, Sane
  <2> HIDE DEF s
  <2>6. QED
    BY <2>1, <2>2, <2>4, <2>5 DEF ReportsInv
<1>10. CASE Numbers
  <2> DEFINE features(sb) == [st EXCEPT !.pc = "features", !.sb = sb]
             ends(pc) == [st EXCEPT !.pc = pc]
  <2>1. /\ st.pc = "numbers"
        /\ Go(ends("crashed")) \/ Go(ends("failed")) \/ \E sb : Go(features(sb))
    BY <1>10 DEF Numbers
  <2>2. \A sb : /\ features(sb).pc = "features" /\ features(sb).table = st.table
                /\ features(sb).num_groups = st.num_groups
                /\ features(sb).reports = st.reports
    BY <1>1 DEF Fields
  <2>3. ends("crashed").pc = "crashed" /\ ends("failed").pc = "failed"
    BY <1>1 DEF Fields
  <2> HIDE DEF features, ends
  <2>4. QED
    BY <1>2, <2>1, <2>2, <2>3, ReportsStay
<1>11. CASE Features
  <2> DEFINE times(sb) == [st EXCEPT !.pc = "times", !.sb = sb]
             journal   == [st EXCEPT !.pc = "numbers", !.sb.rw = @ \cup {HAS_JOURNAL}]
             end       == [st EXCEPT !.pc = "failed"]
  <2>1. st.pc = "features" /\ (Go(journal) \/ Go(end) \/ \E sb : Go(times(sb)))
    BY <1>11 DEF Features
  <2>2. \A sb : /\ times(sb).pc = "times" /\ times(sb).table = st.table
                /\ times(sb).num_groups = st.num_groups
                /\ times(sb).reports = st.reports
    BY <1>1 DEF Fields
  <2>3. /\ journal.pc = "numbers" /\ journal.table = st.table
        /\ journal.num_groups = st.num_groups /\ journal.reports = st.reports
        /\ end.pc = "failed"
    BY <1>1 DEF Fields
  <2> HIDE DEF times, journal, end
  <2>4. QED
    BY <1>2, <2>1, <2>2, <2>3, ReportsStay
<1>12. CASE Times
  <2> DEFINE t  == Clamp(st.sb.wtime, st.sb.mtime, fs.now)
             pc == IF Asserts(st.sb) THEN "pass3" ELSE "crashed"
             s  == [st EXCEPT !.pc = pc, !.sb.wtime = t.wtime, !.sb.mtime = t.mtime]
  <2>1. st.pc = "times" /\ Go(s) /\ pc \in {"pass3", "crashed"}
    BY <1>12 DEF Times
  <2>2. s.pc = pc /\ s.table = st.table /\ s.num_groups = st.num_groups
        /\ s.reports = st.reports
    <3> HIDE DEF t, pc
    <3>1. QED
      BY <1>1 DEF Fields
  <2> HIDE DEF s
  <2>3. QED
    BY <2>1, <2>2, ReportsStay
<1>13. CASE UNCHANGED <<fs, st>>
  BY <1>13 DEF ReportsInv, FromMaster, Sane, Groups
<1>14. QED
  BY <1>4, <1>5, <1>6, <1>7, <1>8, <1>9, <1>10, <1>11, <1>12, <1>13 DEF Next

(* If the table in use is that of group 0 and undamaged, pass 2 tells of   *)
(* every copy that differs or cannot be read, and of no other, for every   *)
(* number and size of groups, clusters up to 8 KiB, and every feature.     *)
THEOREM CopiesTold == Spec => []DifferencesReported
<1>1. Init => ReportsInv
  BY DEF Init, Start, ReportsInv
<1>2. IInv /\ ReportsInv => DifferencesReported
  <2>1. SUFFICES ASSUME IInv, ReportsInv, st.pc = "numbers", FromMaster
                 PROVE  DifferencesReported
    BY DEF DifferencesReported, FromMaster
  <2>2. 1..st.num_groups - 1 = Groups \ {0}
    <3>1. st.num_groups \in Nat
      BY <2>1, FileSystemsAssumption DEF IInv, FromMaster, Sane
    <3>2. QED
      BY <3>1 DEF Groups
  <2>3. st.reports = ReportsBelow(fs, st.num_groups)
    BY <2>1 DEF ReportsInv
  <2>4. QED
    BY <2>2, <2>3 DEF ReportsBelow, DifferencesReported
<1>3. IInv /\ ReportsInv /\ [Next]_<<fs, st>> => ReportsInv'
  BY ReportsStep
<1>4. QED
  BY <1>1, <1>2, <1>3, InitInv, Step, PTL DEF Spec

-----------------------------------------------------------------------------
(***************************************************************************)
(* The numbers pass 3 begins with.                                         *)
(***************************************************************************)

Plausible(sb) ==
  /\ DOMAIN sb = Masks \cup Numerals
  /\ \A n \in Numerals : sb[n] \in Nat
  /\ sb.clusters < U32

(* What recheck_compat_flags has made sure of when it comes to the flags. *)
Checked(sb) ==
  LET bytes == ClusterBytes(fs.cs)
  IN  /\ sb.clusters <= fs.size \div fs.cs
      /\ sb.inode_size \in 1..bytes
      /\ sb.cpg > 1 => sb.ipg \div (bytes \div sb.inode_size) <= sb.cpg - 2

NumbersInv ==
  /\ Plausible(st.sb)
  /\ st.pc \in {"search"} \cup Using =>
        st.sb.cpg # 0 /\ st.num_groups = NumGroups(st.sb)
  /\ st.pc \in {"features", "times", "pass3"} => Checked(st.sb)
  /\ st.pc = "pass3" => Asserts(st.sb)

(* As many clusters as the device has room for are on the device. *)
LEMMA ClustersFit ==
  ASSUME NEW size \in Nat, NEW cs \in Nat, cs > 0, NEW n \in Nat, n <= size \div cs
  PROVE  n * cs <= size
<1>1. /\ size \div cs \in Int /\ size % cs \in 0..cs - 1
      /\ size = cs * (size \div cs) + (size % cs)
      /\ cs * (size \div cs) \in Int
  BY DivMod
<1>2. cs * n <= cs * (size \div cs) /\ cs * n = n * cs /\ cs * n \in Int
  BY <1>1, Grows
<1>3. QED
  BY <1>1, <1>2

(* A number of inode tables' clusters leaves room for the two bitmaps. *)
LEMMA TableFits ==
  ASSUME NEW ipg \in Nat, NEW size \in Nat, NEW bytes \in Nat, NEW cpg \in Nat,
         1 <= size, size <= bytes, ipg \div (bytes \div size) <= cpg - 2
  PROVE  ipg * size <= (cpg - 1) * bytes
<1> DEFINE k == bytes \div size
           q == ipg \div k
<1>1. /\ k \in Int /\ bytes % size \in 0..size - 1 /\ size * k \in Int
      /\ bytes = size * k + (bytes % size)
  BY DivMod
<1> HIDE DEF k
<1>2. k >= 1
  <2>1. SUFFICES ASSUME k <= 0 PROVE FALSE
    BY <1>1
  <2>2. size * k <= size * 0
    BY <1>1, <2>1, Grows
  <2>3. QED
    BY <1>1, <2>2
<1>3. /\ q \in Int /\ ipg % k \in 0..k - 1 /\ k * q \in Int
      /\ ipg = k * q + (ipg % k)
  BY <1>1, <1>2, DivMod
<1>4. q <= cpg - 2
  BY DEF k
<1> HIDE DEF q
<1>5. k * q <= k * (cpg - 2) /\ k * (cpg - 2) \in Int
  BY <1>1, <1>2, <1>3, <1>4, Grows
<1>6. k * (cpg - 2) + k = k * (cpg - 1)
  BY <1>1
<1>7. ipg <= k * (cpg - 1) /\ k * (cpg - 1) \in Int
  BY <1>1, <1>3, <1>5, <1>6
<1>8. size * ipg <= size * (k * (cpg - 1))
  BY <1>7, Grows
<1>9. size * (k * (cpg - 1)) = (cpg - 1) * (size * k)
  BY <1>1
<1>10. cpg - 1 \in Nat
  <2>1. q >= 0
    <3>1. SUFFICES ASSUME q <= -1 PROVE FALSE
      BY <1>3
    <3>2. k * q <= k * (-1)
      BY <1>1, <1>2, <1>3, <3>1, Grows
    <3>3. QED
      BY <1>1, <1>3, <3>2
  <2>2. QED
    BY <1>3, <1>4, <2>1
<1>11. (cpg - 1) * (size * k) <= (cpg - 1) * bytes
  BY <1>1, <1>10, Grows
<1>12. QED
  BY <1>1, <1>7, <1>8, <1>9, <1>10, <1>11, Grows

(* A super block with the same numbers is as plausible. *)
LEMMA SamePlausible ==
  ASSUME NEW a, Plausible(a), NEW b, DOMAIN b = DOMAIN a,
         \A n \in Numerals \ {"wtime", "mtime", "inode_size", "first_inode"} : b[n] = a[n],
         \A n \in {"wtime", "mtime", "inode_size", "first_inode"} : b[n] \in Nat
  PROVE  /\ Plausible(b) /\ NumGroups(b) = NumGroups(a)
         /\ Checked(a) /\ b.inode_size = a.inode_size => Checked(b)
         /\ Asserts(a) => Asserts(b)
<1>1. /\ b.cpg = a.cpg /\ b.clusters = a.clusters /\ b.first = a.first /\ b.ipg = a.ipg
      /\ b.inodes = a.inodes
  BY DEF Numerals
<1>2. Plausible(b)
  <2>1. \A n \in Numerals : b[n] \in Nat
    BY DEF Plausible
  <2>2. QED
    BY <1>1, <2>1 DEF Plausible
<1>3. QED
  BY <1>1, <1>2 DEF NumGroups, Checked, Asserts

(* Of the numbers only those of inodes that are fixed in revision 0 change. *)
LEMMA OldRevisionPlausible ==
  ASSUME NEW sb, Plausible(sb)
  PROVE  /\ Plausible(OldRevision(sb)) /\ NumGroups(OldRevision(sb)) = NumGroups(sb)
         /\ OldRevision(sb).cpg = sb.cpg /\ OldRevision(sb).clusters = sb.clusters
         /\ OldRevision(sb).ipg = sb.ipg
         /\ OldRevision(sb).inode_size = IF sb.rev >= 1 THEN sb.inode_size ELSE 128
<1> DEFINE old == [sb EXCEPT !.inode_size = 128, !.first_inode = 11, !.rw = {}, !.ro = {},
                             !.in = {}]
<1>1. CASE sb.rev >= 1
  BY <1>1 DEF OldRevision
<1>2. CASE ~(sb.rev >= 1)
  <2>1. DOMAIN sb = Masks \cup Numerals
    BY DEF Plausible
  <2>2. /\ DOMAIN old = DOMAIN sb /\ old.inode_size = 128 /\ old.first_inode = 11
        /\ \A n \in Numerals \ {"inode_size", "first_inode"} : old[n] = sb[n]
    BY <2>1 DEF Masks, Numerals
  <2>3. sb.wtime \in Nat /\ sb.mtime \in Nat
    BY DEF Plausible, Numerals
  <2>4. old.wtime = sb.wtime /\ old.mtime = sb.mtime
    BY <2>2 DEF Numerals
  <2> HIDE DEF old
  <2>5. Plausible(old) /\ NumGroups(old) = NumGroups(sb)
    BY <2>2, <2>3, <2>4, SamePlausible DEF Plausible
  <2>6. old.cpg = sb.cpg /\ old.clusters = sb.clusters /\ old.ipg = sb.ipg
    BY <2>2 DEF Numerals
  <2>7. OldRevision(sb) = old
    BY <1>2 DEF OldRevision, old
  <2>8. QED
    BY <1>2, <2>2, <2>5, <2>6, <2>7
<1>3. QED
  BY <1>1, <1>2

(* Flags are no numbers. *)
LEMMA FlagsPlausible ==
  ASSUME NEW sb, Plausible(sb), NEW m \in Masks, NEW b, b = [sb EXCEPT ![m] = b[m]]
  PROVE  /\ Plausible(b) /\ NumGroups(b) = NumGroups(sb) /\ b.cpg = sb.cpg
         /\ Checked(sb) => Checked(b)
<1>1. DOMAIN sb = Masks \cup Numerals
  BY DEF Plausible
<1>2. DOMAIN b = DOMAIN sb /\ \A n \in Numerals : b[n] = sb[n]
  BY <1>1 DEF Masks, Numerals
<1>3. \A n \in Numerals : sb[n] \in Nat
  BY DEF Plausible
<1>4. b.inode_size = sb.inode_size /\ b.cpg = sb.cpg
  BY <1>2 DEF Numerals
<1>5. \A n \in {"wtime", "mtime", "inode_size", "first_inode"} : b[n] \in Nat
  BY <1>2, <1>3 DEF Numerals
<1>6. QED
  BY <1>2, <1>4, <1>5, SamePlausible

(* Steps that leave the super block alone. *)
LEMMA NumbersStay ==
  ASSUME NumbersInv, NEW s, Go(s), s.sb = st.sb,
         \/ s.pc \in {"failed", "crashed", "super", "sizes"}
         \/ /\ s.num_groups = st.num_groups
            /\ s.pc \in {"search", "compare", "numbers"}
            /\ st.pc \in {"search"} \cup Using
  PROVE  NumbersInv'
BY DEF NumbersInv, Go, Using

(* Every step. *)
LEMMA NumbersInvStep ==
  ASSUME IInv, NumbersInv, [Next]_<<fs, st>>
  PROVE  NumbersInv'
<1>1. DOMAIN st = Fields /\ fs \in FileSystems
  BY DEF IInv
<1> DEFINE ends(pc) == [st EXCEPT !.pc = pc]
<1>2. ASSUME NEW pc \in {"failed", "crashed"}, Go(ends(pc)) PROVE NumbersInv'
  <2>1. ends(pc).pc = pc /\ ends(pc).sb = st.sb
    BY <1>1 DEF Fields
  <2>2. QED
    BY <1>2, <2>1, NumbersStay
<1>3. ASSUME CleanUp(st) PROVE NumbersInv'
  BY <1>2, <1>3 DEF CleanUp
<1>4. CASE ReadMaster
  <2> DEFINE s == [st EXCEPT !.pc = "sizes", !.sb = fs.sb]
  <2>1. CASE fs.copy[0] = "same"
    <3>1. fs' = fs /\ st' = s
      BY <1>4, <2>1 DEF ReadMaster, Go
    <3>2. s.pc = "sizes" /\ s.sb = fs.sb
      BY <1>1 DEF Fields
    <3>3. Plausible(fs.sb)
      BY <1>1, U32Assumption, FileSystemsAssumption DEF Plausible, Numerals
    <3> HIDE DEF s
    <3>4. QED
      BY <3>1, <3>2, <3>3 DEF NumbersInv, Using
  <2>2. QED
    BY <1>3, <1>4, <2>1 DEF ReadMaster
<1>5. CASE Sizes
  <2> DEFINE w == st.sb.entry = 64 \/ (st.sb.entry = 0 /\ IN_64BIT \in st.sb.in)
             n == NumGroups(st.sb)
             s == [st EXCEPT !.num_groups = n, !.pc = "search", !.wide = w]
  <2>1. CASE st.sb.cpg # 0 /\ st.sb.entry \in {0, 32, 64}
    <3>1. fs' = fs /\ st' = s
      BY <1>5, <2>1 DEF Sizes, Go, NumGroups
    <3>2. s.pc = "search" /\ s.sb = st.sb /\ s.num_groups = n
      <4> HIDE DEF w, n
      <4>1. QED
        BY <1>1 DEF Fields
    <3> HIDE DEF s
    <3>3. QED
      BY <2>1, <3>1, <3>2 DEF NumbersInv, Using
  <2>2. QED
    BY <1>2, <1>3, <1>5, <2>1 DEF Sizes
<1>6. CASE SearchTable
  <2> DEFINE at == SearchedAt(fs.cs, st.sb.cpg, st.group)
             t  == [group |-> st.group, is |-> TableFrom(st.group, at)]
             f  == FixFlags(st.group)
             passed == [st EXCEPT !.group = @ + 1]
             found  == [st EXCEPT !.pc = "compare", !.group = 1, !.flags = f, !.table = t]
  <2>1. st.pc = "search" /\ (Go(passed) \/ Go(found))
    BY <1>6 DEF SearchTable
  <2>2. /\ passed.pc = st.pc /\ passed.sb = st.sb /\ passed.num_groups = st.num_groups
        /\ found.pc = "compare" /\ found.sb = st.sb /\ found.num_groups = st.num_groups
    <3> HIDE DEF t, f
    <3>1. QED
      BY <1>1 DEF Fields
  <2> HIDE DEF passed, found
  <2>3. QED
    BY <2>1, <2>2, NumbersStay
<1>7. CASE NextPass
  <2> DEFINE again == [st EXCEPT !.pass = @ + 1, !.group = 0]
             end   == [st EXCEPT !.pc = "failed", !.retval = TRUE]
  <2>1. st.pc = "search" /\ (Go(again) \/ Go(end))
    BY <1>7 DEF NextPass
  <2>2. /\ again.pc = st.pc /\ again.sb = st.sb /\ again.num_groups = st.num_groups
        /\ end.pc = "failed" /\ end.sb = st.sb
    BY <1>1 DEF Fields
  <2> HIDE DEF again, end
  <2>3. QED
    BY <2>1, <2>2, NumbersStay
<1>8. CASE Compare
  <2> DEFINE o == IF GroupHasSuperBlock(st.sb, st.group) THEN {Offset(fs.cs)} ELSE st.offset
             next    == [st EXCEPT !.group = @ + 1, !.offset = o]
             told(r) == [next EXCEPT !.reports = r]
  <2>1. /\ st.pc = "compare"
        /\ Go(next) \/ Go(ends("crashed")) \/ \E r : Go(told(r))
    BY <1>8 DEF Compare
  <2>2. /\ next.pc = "compare" /\ next.sb = st.sb /\ next.num_groups = st.num_groups
        /\ \A r : /\ told(r).pc = "compare" /\ told(r).sb = st.sb
                  /\ told(r).num_groups = st.num_groups
    <3> HIDE DEF o
    <3>1. QED
      BY <1>1, <2>1 DEF Fields
  <2> HIDE DEF next, told, ends
  <2>3. QED
    BY <1>2, <2>1, <2>2, NumbersStay DEF Using
<1>9. CASE Compared
  <2> DEFINE s == [st EXCEPT !.pc = "numbers"]
  <2>1. st.pc = "compare" /\ Go(s)
    BY <1>9 DEF Compared
  <2>2. s.pc = "numbers" /\ s.sb = st.sb /\ s.num_groups = st.num_groups
    BY <1>1 DEF Fields
  <2> HIDE DEF s
  <2>3. QED
    BY <2>1, <2>2, NumbersStay DEF Using
<1>10. CASE Numbers
  <2> DEFINE sb    == OldRevision(st.sb)
             bytes == ClusterBytes(fs.cs)
             s     == [st EXCEPT !.pc = "features", !.sb = sb]
             bad   == \/ st.sb.cpg > 8 * bytes
                      \/ st.sb.clusters > fs.size \div fs.cs
                      \/ st.sb.rev >= 1 /\ st.sb.inode_size < 128
                      \/ st.sb.rev >= 1 /\ st.sb.first_inode > st.sb.inodes
             good  == /\ ~bad /\ ~(sb.inode_size > bytes)
                      /\ ~(sb.cpg > 1
                           /\ sb.ipg \div (bytes \div sb.inode_size) > sb.cpg - 2)
  <2>1. CASE good /\ Go(s)
    <3>1. fs' = fs /\ st' = s /\ st.pc = "numbers" /\ st.pc \in Using
      BY <1>10, <2>1 DEF Numbers, Go, Using
    <3>2. s.pc = "features" /\ s.sb = sb /\ s.num_groups = st.num_groups
      <4> HIDE DEF sb
      <4>1. QED
        BY <1>1 DEF Fields
    <3>3. Plausible(st.sb) /\ st.sb.cpg # 0 /\ st.num_groups = NumGroups(st.sb)
      BY <3>1 DEF NumbersInv
    <3>4. /\ Plausible(sb) /\ NumGroups(sb) = NumGroups(st.sb) /\ sb.cpg = st.sb.cpg
          /\ sb.clusters = st.sb.clusters
          /\ sb.inode_size = IF st.sb.rev >= 1 THEN st.sb.inode_size ELSE 128
      BY <3>3, OldRevisionPlausible
    <3>5. Checked(sb)
      <4> HIDE DEF sb
      <4>1. /\ sb.cpg \in Nat /\ sb.clusters \in Nat /\ sb.inode_size \in Nat
            /\ sb.ipg \in Nat
        BY <3>4 DEF Plausible, Numerals
      <4>2. bytes \in Nat /\ bytes > 0 /\ fs.size \in Nat /\ fs.cs \in Nat /\ fs.cs > 0
        BY <1>1, FileSystemsAssumption DEF ClusterBytes, BlockBytes
      <4>3. fs.size \div fs.cs \in Int
        BY <4>2, DivMod
      <4>4. sb.clusters <= fs.size \div fs.cs
        BY <2>1, <3>4, <4>1, <4>3
      <4>5. sb.inode_size >= 1 /\ sb.inode_size <= bytes
        BY <2>1, <3>4, <4>1, <4>2
      <4> HIDE DEF bytes
      <4>6. bytes \div sb.inode_size \in Int
        BY <4>1, <4>2, <4>5, DivMod
      <4>7. bytes \div sb.inode_size > 0
        <5>1. bytes = sb.inode_size * (bytes \div sb.inode_size) + (bytes % sb.inode_size)
              /\ bytes % sb.inode_size \in 0..sb.inode_size - 1
          BY <4>1, <4>2, <4>5, DivMod
        <5>2. SUFFICES ASSUME bytes \div sb.inode_size <= 0 PROVE FALSE
          BY <4>6
        <5>3. sb.inode_size * (bytes \div sb.inode_size) <= sb.inode_size * 0
          BY <4>1, <4>6, <5>2, Grows
        <5>4. QED
          BY <4>1, <4>2, <4>5, <4>6, <5>1, <5>3
      <4>8. sb.ipg \div (bytes \div sb.inode_size) \in Int
        BY <4>1, <4>6, <4>7, DivMod
      <4>9. sb.cpg > 1 => sb.ipg \div (bytes \div sb.inode_size) <= sb.cpg - 2
        BY <2>1, <4>1, <4>8
      <4>10. QED
        BY <4>1, <4>2, <4>4, <4>5, <4>9 DEF Checked, bytes
    <3> HIDE DEF s, sb
    <3>6. QED
      BY <3>1, <3>2, <3>3, <3>4, <3>5 DEF NumbersInv, Checked
  <2>2. CASE ~(good /\ Go(s))
    <3>1. Go(ends("failed")) \/ Go(ends("crashed"))
      BY <1>10, <2>2 DEF Numbers
    <3>2. QED
      BY <1>2, <3>1
  <2>3. QED
    BY <2>1, <2>2
<1>11. CASE Features
  <2> DEFINE times(sb) == [st EXCEPT !.pc = "times", !.sb = sb]
             journal   == [st EXCEPT !.pc = "numbers", !.sb.rw = @ \cup {HAS_JOURNAL}]
             clear     == ClearRecover(st.sb)
             written   == [st.sb EXCEPT !.rw = @ \cup {HAS_JOURNAL}]
  <2>1. /\ st.pc = "features" /\ st.pc \in Using
        /\ \/ Go(times(ForExternal(st.sb))) \/ Go(times(ForExternal(clear)))
           \/ Go(journal) \/ Go(ends("failed"))
    BY <1>11 DEF Features, Using
  <2>2. /\ Plausible(st.sb) /\ Checked(st.sb) /\ st.sb.cpg # 0
        /\ st.num_groups = NumGroups(st.sb)
    BY <2>1 DEF NumbersInv
  <2> DEFINE Good(sb) == /\ Plausible(sb) /\ Checked(sb) /\ sb.cpg # 0
                         /\ st.num_groups = NumGroups(sb)
  <2>3. ASSUME NEW sb, Good(sb) PROVE Good(ClearRecover(sb)) /\ Good(ForExternal(sb))
    <3>1. DOMAIN sb = Masks \cup Numerals
      BY <2>3 DEF Plausible
    <3>2. ClearRecover(sb) = [sb EXCEPT !["ro"] = ClearRecover(sb)["ro"]]
      BY <3>1 DEF ClearRecover, Masks
    <3>3. Good(ClearRecover(sb))
      BY <2>3, <3>2, FlagsPlausible DEF Masks
    <3>4. QED
      BY <2>3, <3>3 DEF ForExternal
  <2>4. Good(written)
    <3>1. DOMAIN st.sb = Masks \cup Numerals
      BY <2>2 DEF Plausible
    <3>2. written = [st.sb EXCEPT !["rw"] = written["rw"]]
      BY <3>1 DEF Masks
    <3> HIDE DEF written
    <3>3. QED
      BY <2>2, <3>2, FlagsPlausible DEF Masks
  <2>5. ASSUME NEW sb, Good(sb), Go(times(sb)) PROVE NumbersInv'
    <3>1. /\ times(sb).pc = "times" /\ times(sb).sb = sb
          /\ times(sb).num_groups = st.num_groups
      BY <1>1 DEF Fields
    <3>2. fs' = fs /\ st' = times(sb)
      BY <2>5 DEF Go
    <3> HIDE DEF times
    <3>3. QED
      BY <2>5, <3>1, <3>2 DEF NumbersInv, Checked, Using
  <2>6. ASSUME Go(journal) PROVE NumbersInv'
    <3>1. /\ journal.pc = "numbers" /\ journal.sb = written
          /\ journal.num_groups = st.num_groups
      BY <1>1 DEF Fields
    <3>2. fs' = fs /\ st' = journal
      BY <2>6 DEF Go
    <3> HIDE DEF journal, written
    <3>3. QED
      BY <2>4, <3>1, <3>2 DEF NumbersInv, Using
  <2>7. Good(st.sb) /\ Good(clear) /\ Good(ForExternal(st.sb)) /\ Good(ForExternal(clear))
    BY <2>2, <2>3
  <2> HIDE DEF Good, times, journal, ends, clear
  <2>8. QED
    BY <1>2, <2>1, <2>5, <2>6, <2>7
<1>12. CASE Times
  <2> DEFINE t  == Clamp(st.sb.wtime, st.sb.mtime, fs.now)
             sb == [st.sb EXCEPT !.wtime = t.wtime, !.mtime = t.mtime]
             pc == IF Asserts(st.sb) THEN "pass3" ELSE "crashed"
             s  == [st EXCEPT !.pc = pc, !.sb.wtime = t.wtime, !.sb.mtime = t.mtime]
  <2>1. fs' = fs /\ st' = s /\ st.pc = "times" /\ st.pc \in Using
    BY <1>12 DEF Times, Go, Using
  <2>2. /\ Plausible(st.sb) /\ Checked(st.sb) /\ st.sb.cpg # 0
        /\ st.num_groups = NumGroups(st.sb)
    BY <2>1 DEF NumbersInv
  <2>3. t.wtime \in Nat /\ t.mtime \in Nat
    BY <1>1, <2>2, FileSystemsAssumption DEF Clamp, Plausible, Numerals
  <2>4. s.pc = pc /\ s.sb = sb /\ s.num_groups = st.num_groups
    <3> HIDE DEF t, pc
    <3>1. QED
      BY <1>1 DEF Fields
  <2>5. /\ DOMAIN sb = DOMAIN st.sb /\ sb.wtime = t.wtime /\ sb.mtime = t.mtime
        /\ \A n \in Numerals \ {"wtime", "mtime"} : sb[n] = st.sb[n]
    <3> HIDE DEF t
    <3>1. QED
      BY <2>2 DEF Plausible, Numerals, Masks
  <2> HIDE DEF t, sb, s
  <2>6. /\ sb.inode_size = st.sb.inode_size /\ sb.first_inode \in Nat /\ sb.cpg = st.sb.cpg
        /\ sb.inode_size \in Nat
    BY <2>2, <2>5 DEF Plausible, Numerals
  <2>7. /\ Plausible(sb) /\ NumGroups(sb) = NumGroups(st.sb) /\ Checked(sb)
        /\ Asserts(st.sb) => Asserts(sb)
    BY <2>2, <2>3, <2>5, <2>6, SamePlausible
  <2>8. QED
    BY <2>1, <2>2, <2>4, <2>6, <2>7 DEF NumbersInv, Checked, Asserts, Using
<1>13. CASE UNCHANGED <<fs, st>>
  BY <1>13 DEF NumbersInv, Checked, Asserts
<1>14. QED
  BY <1>4, <1>5, <1>6, <1>7, <1>8, <1>9, <1>10, <1>11, <1>12, <1>13 DEF Next

(* The maps of pass 3 are as large as the file system, which is on the     *)
(* device, every inode is in a group and every inode table fits its group. *)
LEMMA NumbersImplyFit ==
  ASSUME IInv, NumbersInv
  PROVE  NumbersFit
<1> DEFINE sb    == st.sb
           bytes == ClusterBytes(fs.cs)
<1>1. SUFFICES ASSUME st.pc = "pass3"
      PROVE  /\ st.num_groups * 8 * bytes >= sb.clusters - sb.first
             /\ sb.clusters * fs.cs <= fs.size
             /\ sb.inodes > 0 => (sb.inodes - 1) \div sb.ipg = st.num_groups - 1
             /\ sb.ipg * sb.inode_size <= (sb.cpg - 1) * bytes
  BY DEF NumbersFit
<1>2. /\ Plausible(sb) /\ Checked(sb) /\ Asserts(sb) /\ sb.cpg # 0
      /\ st.num_groups = NumGroups(sb)
  BY <1>1 DEF NumbersInv, Using
<1> HIDE DEF sb
<1>3. /\ sb.cpg \in Nat /\ sb.clusters \in Nat /\ sb.first \in Nat /\ sb.ipg \in Nat
      /\ sb.inodes \in Nat /\ sb.inode_size \in Nat /\ sb.clusters < U32
  BY <1>2 DEF Plausible, Numerals
<1>4. fs.cs \in Nat /\ fs.cs > 0 /\ fs.size \in Nat /\ bytes \in Nat /\ bytes > 0
  <2>1. fs \in FileSystems
    BY DEF IInv
  <2>2. fs.cs \in {2, 4, 8, 16, 32, 64, 128} /\ fs.size \in Nat
    BY <2>1, FileSystemsAssumption
  <2>3. QED
    BY <2>2 DEF ClusterBytes, BlockBytes
<1> HIDE DEF bytes
<1>5. sb.cpg = 8 * bytes
  <2>1. sb.cpg \div 8 = bytes /\ sb.cpg % 8 = 0
    BY <1>2 DEF Asserts, bytes
  <2>2. QED
    BY <1>3, <2>1
<1> DEFINE behind == (sb.clusters - (sb.first + 1)) % U32
           q      == behind \div sb.cpg
<1>0. behind \in Nat /\ sb.clusters - (sb.first + 1) <= behind
  <2> DEFINE d == sb.clusters - (sb.first + 1)
  <2>1. d \in Int /\ d < U32 /\ U32 \in Int /\ U32 > 0
    BY <1>3, U32Assumption
  <2> HIDE DEF d
  <2>2. d % U32 \in 0..U32 - 1
    BY <2>1, DivMod
  <2>3. d >= 0 => d % U32 = d
    BY <2>1
  <2>4. QED
    BY <2>1, <2>2, <2>3 DEF d
<1>6. /\ q \in Int /\ behind % sb.cpg \in 0..sb.cpg - 1 /\ sb.cpg * q \in Int
      /\ behind = sb.cpg * q + (behind % sb.cpg)
  <2>1. behind \in Int /\ sb.cpg \in Int /\ sb.cpg > 0
    BY <1>2, <1>3, <1>0
  <2> HIDE DEF behind
  <2>2. QED
    BY <2>1, DivMod
<1> HIDE DEF behind
<1>7. st.num_groups = q + 1 /\ st.num_groups \in Int
  BY <1>2, <1>6 DEF NumGroups, behind
<1> HIDE DEF q
<1>8. st.num_groups * 8 * bytes >= sb.clusters - sb.first
  <2>1. st.num_groups * 8 * bytes = sb.cpg * q + sb.cpg
    BY <1>3, <1>4, <1>5, <1>6, <1>7
  <2>2. QED
    BY <1>3, <1>0, <1>6, <2>1
<1>9. sb.clusters * fs.cs <= fs.size
  <2>1. sb.clusters <= fs.size \div fs.cs
    BY <1>2 DEF Checked
  <2>2. QED
    BY <1>3, <1>4, <2>1, ClustersFit
<1>10. sb.inodes > 0 => (sb.inodes - 1) \div sb.ipg = st.num_groups - 1
  <2>1. SUFFICES ASSUME sb.inodes > 0 PROVE (sb.inodes - 1) \div sb.ipg = st.num_groups - 1
    OBVIOUS
  <2>2. sb.inodes = sb.ipg * st.num_groups
    BY <1>2 DEF Asserts
  <2>3. sb.ipg > 0
    BY <1>3, <1>7, <2>1, <2>2
  <2>4. (sb.ipg * st.num_groups - 1) \div sb.ipg = st.num_groups - 1
    BY <1>3, <1>7, <2>3, LastPart
  <2>5. QED
    BY <2>2, <2>4
<1>11. sb.ipg * sb.inode_size <= (sb.cpg - 1) * bytes
  <2>1. /\ sb.inode_size >= 1 /\ sb.inode_size <= bytes
        /\ sb.ipg \div (bytes \div sb.inode_size) <= sb.cpg - 2
    BY <1>2, <1>3, <1>4, <1>5 DEF Checked, bytes
  <2>2. QED
    BY <1>3, <1>4, <2>1, TableFits
<1>12. QED
  BY <1>8, <1>9, <1>10, <1>11

(* Pass 3 begins only with numbers it can work with, whatever the super    *)
(* block said: what recheck_compat_flags and the assertions behind it let  *)
(* through is a file system that is on the device and has room for its     *)
(* inode tables, in every size of clusters and number of groups.           *)
THEOREM NumbersOfPass3 == Spec => []NumbersFit
<1>1. Init => NumbersInv
  <2>1. SUFFICES ASSUME Init PROVE NumbersInv
    OBVIOUS
  <2>2. st = Start /\ fs \in FileSystems
    BY <2>1 DEF Init
  <2>3. st.pc = "super" /\ st.sb = fs.sb
    BY <2>2 DEF Start
  <2>4. QED
    BY <2>2, <2>3, U32Assumption, FileSystemsAssumption
    DEF NumbersInv, Plausible, Numerals, Using
<1>2. IInv /\ NumbersInv => NumbersFit
  BY NumbersImplyFit
<1>3. IInv /\ NumbersInv /\ [Next]_<<fs, st>> => NumbersInv'
  BY NumbersInvStep
<1>4. QED
  BY <1>1, <1>2, <1>3, InitInv, Step, PTL DEF Spec
=============================================================================
