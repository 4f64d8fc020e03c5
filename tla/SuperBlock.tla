----------------------------- MODULE SuperBlock -----------------------------
(***************************************************************************)
(* Passes 1a to 2 of the ext2 fsck (fs/ext2/fsck.c) and what is judged     *)
(* before pass 3: the super block, the search for a group descriptor table *)
(* that can be read, the comparison of the copies, the plausibility of the *)
(* numbers and the feature flags.                                          *)
(*                                                                         *)
(* fs is what is on the device: fs.sb the super block of group 0;          *)
(* fs.copy[g] that of group g, and fs.table[g] the table of group g or, in *)
(* a group without one, the data in its place, each "same" (as group 0's), *)
(* "differs", "lost" (cannot be read) or, a copy, "foreign" (it names      *)
(* another group); fs.init the groups whose inode table is initialised,    *)
(* fs.bogus what the copies of the table say of that; fs.first the first   *)
(* data cluster.  A feature mask is a set of bit numbers.                  *)
(***************************************************************************)
EXTENDS Integers

CONSTANTS FileSystems,    \* what may be on the device
          U32             \* how many values a number of 32 bits has

VARIABLES fs, st

Masks == {"in", "ro", "rw"}
Numerals == {"cpg", "clusters", "first", "entry", "rev", "inode_size", "first_inode", "ipg",
             "inodes", "wtime", "mtime"}

\* A cluster has between 1 and 64 KiB; in one of 1 KiB there is no room for the
\* super block behind the boot block.  The copies are compared with what group 0
\* has.
ASSUME U32Assumption == U32 \in Nat \ {0}
ASSUME FileSystemsAssumption ==
    \A f \in FileSystems :
      /\ DOMAIN f.sb = Masks \cup Numerals /\ \A n \in Numerals : f.sb[n] \in 0..U32 - 1
      /\ f.size \in Nat /\ f.now \in 0..U32 - 1
      /\ f.cs \in {2, 4, 8, 16, 32, 64, 128} /\ f.first = IF f.cs = 2 THEN 1 ELSE 0
      /\ f.cpg \in Nat /\ f.groups \in Nat \ {0}
      /\ f.table \in [0..f.groups - 1 -> {"same", "differs", "lost"}]
      /\ f.copy \in [0..f.groups - 1 -> {"same", "differs", "foreign", "lost"}]
      /\ f.table[0] # "differs"

BlockBytes    == 512
SPARSE_SUPER  == 0   \* of ro_compat
BTREE_DIR     == 2
GDT_CSUM      == 4
HAS_JOURNAL   == 2   \* of rw_compat
RECOVER       == 2   \* of in_compat
JOURNAL_DEV   == 3
IN_64BIT      == 7

Groups        == 0..st.num_groups - 1
ClusterBytes(cs) == BlockBytes * cs

-----------------------------------------------------------------------------
(* Which groups have a copy of the super block, and where it is. *)

TestRoot(a, b) ==
    LET grown[num \in Nat] == IF a > num THEN grown[num * b] ELSE num
    IN  grown[b] = a
HasSparsedSuperBlock(group) ==
    \/ group <= 1
    \/ group % 2 = 1 /\ \E b \in {3, 5, 7} : TestRoot(group, b)
GroupHasSuperBlock(sb, group) ==
    SPARSE_SUPER \in sb.ro => HasSparsedSuperBlock(group)

\* Pass 1b looks for the table of a group there, in blocks.
\* Variant: not behind the first data cluster.
SearchedBehind(cs, cpg, group) == (1 + (group * (cpg * cs)) \div cs) * cs
SearchedAt(cs, cpg, group) == (1 + (2 + group * (cpg * cs)) \div cs) * cs

\* Pass 2 looks for the copy of the super block there, and for the table in
\* the cluster behind it.
Offset(cs) == IF cs = 2 THEN 1 ELSE 0
\* Variant: the copy is looked for at the start of its group.
CopyAtStart(cs, cpg, group) == group * (cpg * cs)
CopyAt(cs, cpg, group) ==
    LET at == cs * Offset(cs) + group * (cpg * cs)
    IN  IF at = 0 THEN 2 ELSE at
ComparedAt(cs, cpg, group) == (CopyAt(cs, cpg, group) \div cs + 1) * cs

\* mke2fs puts it there.
WrittenAt(first, cs, cpg, group) == (first + group * cpg + 1) * cs

-----------------------------------------------------------------------------
NoTable == [group |-> 0, is |-> "garbage"]
Start ==
    [pc |-> "super", sb |-> fs.sb, num_groups |-> 0, wide |-> FALSE, pass |-> 0, group |-> 0,
     table |-> NoTable, flags |-> {}, offset |-> {}, reports |-> {}, retval |-> FALSE]
Init == fs \in FileSystems /\ st = Start

Go(s) == st' = s /\ UNCHANGED fs

\* The cleanup frees, and shuts down, what only pass 3 sets up: the pointers
\* are not initialised, and neither is the lock of the reader.
CleanUp(s) == \E pc \in {"failed", "crashed"} : Go([s EXCEPT !.pc = pc])

\* Pass 1a.
ReadMaster ==
    /\ st.pc = "super"
    /\ IF fs.copy[0] = "same" THEN Go([st EXCEPT !.pc = "sizes", !.sb = fs.sb])
       ELSE CleanUp(st)

\* The number of groups, which wraps if the super block has no cluster behind
\* the first one, and the format of their descriptors.
NumGroups(sb) == ((sb.clusters - (sb.first + 1)) % U32) \div sb.cpg + 1
Sizes ==
    /\ st.pc = "sizes"
    /\ IF st.sb.cpg = 0 THEN Go([st EXCEPT !.pc = "crashed"])     \* division by zero
       ELSE LET s == [st EXCEPT !.num_groups = NumGroups(st.sb), !.pc = "search",
                        !.wide = \/ st.sb.entry = 64
                                 \/ st.sb.entry = 0 /\ IN_64BIT \in st.sb.in]
            IN  IF st.sb.entry \in {0, 32, 64} THEN Go(s) ELSE CleanUp(st)

\* What is found if the table of a group, or its super block, is read there.
TableFrom(group, at) ==
    IF /\ group \in DOMAIN fs.table /\ GroupHasSuperBlock(fs.sb, group)
       /\ at = WrittenAt(fs.first, fs.cs, fs.cpg, group)
    THEN fs.table[group] ELSE "garbage"
CopyFrom(group, at) ==
    IF /\ group \in DOMAIN fs.copy
       /\ at = WrittenAt(fs.first, fs.cs, fs.cpg, group) - fs.cs
    THEN fs.copy[group] ELSE "foreign"
Readable(group) == group \in DOMAIN fs.table /\ fs.table[group] # "lost"

\* The inode tables that will be read.  Only the table of group 0 has flags one
\* can rely on.
\* Variant: the copy is believed.
KeepFlags(group) == IF group = 0 THEN fs.init ELSE fs.bogus
FixFlags(group)  == IF group = 0 THEN fs.init ELSE Groups

\* Pass 1b: the groups with a super block first, then, twice, the others.
SearchTable ==
    /\ st.pc = "search" /\ st.group \in Groups
    /\ IF \/ (st.pass = 0) # GroupHasSuperBlock(st.sb, st.group)
          \/ ~Readable(st.group)
       THEN Go([st EXCEPT !.group = @ + 1])
       ELSE LET at == SearchedAt(fs.cs, st.sb.cpg, st.group)
            IN  Go([st EXCEPT !.pc = "compare", !.group = 1, !.flags = FixFlags(st.group),
                      !.table = [group |-> st.group, is |-> TableFrom(st.group, at)]])
NextPass ==
    /\ st.pc = "search" /\ st.group \notin Groups
    /\ IF st.pass < 2 THEN Go([st EXCEPT !.pass = @ + 1, !.group = 0])
       ELSE Go([st EXCEPT !.pc = "failed", !.retval = TRUE])      \* return 2

\* Pass 2, for one group.  What the kernel changes in the master only is
\* taken over before the super blocks are compared; flags, counts and
\* checksums of the tables are left out.
Compare ==
    /\ st.pc = "compare" /\ st.group \in Groups
    /\ LET g    == st.group
           cpg  == st.sb.cpg
           next == [st EXCEPT !.group = @ + 1,
                              !.offset = IF GroupHasSuperBlock(st.sb, g) THEN {Offset(fs.cs)} ELSE @]
           copy == CopyFrom(g, CopyAt(fs.cs, cpg, g))
           sb   == IF copy = "differs" THEN {<<"super", g>>} ELSE {}
           gdt  == IF ~Readable(g) THEN {<<"unread", g>>}
                   ELSE IF TableFrom(g, ComparedAt(fs.cs, cpg, g)) # st.table.is
                   THEN {<<"table", g>>} ELSE {}
       IN  IF ~GroupHasSuperBlock(st.sb, g) THEN Go(next)
           ELSE IF fs.cs \notin {2, 4, 8, 16} THEN Go([st EXCEPT !.pc = "crashed"])
           ELSE IF copy \in {"lost", "foreign"} THEN Go(next)
           ELSE Go([next EXCEPT !.reports = @ \cup sb \cup gdt])
Compared ==
    /\ st.pc = "compare" /\ st.group \notin Groups
    /\ Go([st EXCEPT !.pc = "numbers"])

-----------------------------------------------------------------------------
(* recheck_compat_flags *)

\* File systems of revision 0 have fixed values instead of fields.
OldRevision(sb) ==
    IF sb.rev >= 1 THEN sb
    ELSE [sb EXCEPT !.inode_size = 128, !.first_inode = 11, !.rw = {}, !.ro = {}, !.in = {}]

Numbers ==
    /\ st.pc = "numbers"
    /\ LET sb    == OldRevision(st.sb)
           bytes == ClusterBytes(fs.cs)
           bad   == \/ st.sb.cpg > 8 * bytes
                    \/ st.sb.clusters > fs.size \div fs.cs
                    \/ st.sb.rev >= 1 /\ st.sb.inode_size < 128
                    \/ st.sb.rev >= 1 /\ st.sb.first_inode > st.sb.inodes
       IN  IF bad THEN Go([st EXCEPT !.pc = "failed"])
           ELSE IF sb.inode_size > bytes THEN Go([st EXCEPT !.pc = "crashed"])
           ELSE IF sb.cpg > 1 /\ sb.ipg \div (bytes \div sb.inode_size) > sb.cpg - 2
                THEN Go([st EXCEPT !.pc = "failed"])
           ELSE Go([st EXCEPT !.pc = "features", !.sb = sb])

\* The bit RECOVER of in_compat is to go, and is cleared in ro_compat.
ClearRecover(sb) == [sb EXCEPT !.ro = @ \ {RECOVER}]

ForExternal(sb) == IF JOURNAL_DEV \in sb.in THEN ClearRecover(sb) ELSE sb
Features ==
    /\ st.pc = "features"
    /\ LET go(sb) == Go([st EXCEPT !.pc = "times", !.sb = ForExternal(sb)])
       IN  \/ RECOVER \notin st.sb.in /\ go(st.sb)
           \/ /\ RECOVER \in st.sb.in /\ HAS_JOURNAL \in st.sb.rw
              /\ go(ClearRecover(st.sb))
           \/ /\ RECOVER \in st.sb.in /\ HAS_JOURNAL \notin st.sb.rw
              /\ \/ Go([st EXCEPT !.pc = "numbers", !.sb.rw = @ \cup {HAS_JOURNAL}])   \* j
                 \/ go(ClearRecover(st.sb))                                            \* r
                 \/ Go([st EXCEPT !.pc = "failed"])                                    \* q

\* Neither time is in the future, nor was the last mount after the last write.
Clamp(wtime, mtime, now) ==
    LET w == IF wtime > now THEN now ELSE wtime
        m == IF mtime > now THEN now ELSE mtime
    IN  [wtime |-> IF w < m THEN m ELSE w, mtime |-> m]

\* And the assertions before pass 3 is set up.
\* Variant: not all that is asserted.
AssertsOfBits(sb) == sb.ipg % 8 = 0 /\ sb.cpg % 8 = 0
Asserts(sb) ==
    /\ sb.inodes = sb.ipg * st.num_groups
    /\ sb.ipg % 8 = 0 /\ sb.cpg % 8 = 0
    /\ sb.cpg \div 8 = ClusterBytes(fs.cs)
Times ==
    /\ st.pc = "times"
    /\ LET t == Clamp(st.sb.wtime, st.sb.mtime, fs.now)
       IN  Go([st EXCEPT !.pc = IF Asserts(st.sb) THEN "pass3" ELSE "crashed",
                         !.sb.wtime = t.wtime, !.sb.mtime = t.mtime])

Next == \/ ReadMaster \/ Sizes \/ SearchTable \/ NextPass \/ Compare \/ Compared
        \/ Numbers \/ Features \/ Times
Halted == st.pc \in {"failed", "crashed", "pass3"}
Spec == Init /\ [][Next]_<<fs, st>>

-----------------------------------------------------------------------------
\* The super block on the device has the numbers of the file system.
Sane == fs.sb.cpg = fs.cpg /\ st.num_groups = fs.groups

\* If any group that has a table has one that can be read, the table used is
\* one and not the data of some other group.
UsesARealTable ==
    st.pc \in {"compare", "numbers", "features", "times", "pass3"} /\ Sane
      => \/ st.table.is \in {"same", "differs"}
         \/ \A g \in Groups : GroupHasSuperBlock(fs.sb, g) => fs.table[g] = "lost"

\* Whichever table is used, the inode tables that will not be read are not
\* initialised.
NoTableSkipped ==
    st.pc \in {"compare", "numbers", "features", "times", "pass3"} /\ Sane
      => fs.init \cap Groups \subseteq st.flags

\* What the search for a table is for: nothing on the disk but the loss of all
\* of them can make a wrong one be used, or an inode table be left out.
TableRight == UsesARealTable /\ NoTableSkipped

\* With the table of group 0, pass 2 tells of exactly the copies that differ,
\* as far as the super block of their group can be read.
DifferencesReported ==
    st.pc = "numbers" /\ Sane /\ st.table = [group |-> 0, is |-> "same"]
      => st.reports =
           LET copies == {g \in Groups \ {0} : GroupHasSuperBlock(fs.sb, g)
                                               /\ fs.copy[g] \in {"same", "differs"}}
           IN  {<<"super", g>> : g \in {h \in copies : fs.copy[h] = "differs"}}
               \cup {<<"table", g>> : g \in {h \in copies : fs.table[h] = "differs"}}
               \cup {<<"unread", g>> : g \in {h \in copies : fs.table[h] = "lost"}}

\* Pass 3 begins only with numbers it can work with: the maps it allocates
\* have all the clusters of the file system, these are on the device, every
\* inode is in a group and every inode table in its group.
NumbersFit ==
    st.pc = "pass3" =>
      LET sb == st.sb
      IN  /\ st.num_groups * 8 * ClusterBytes(fs.cs) >= sb.clusters - sb.first
          /\ sb.clusters * fs.cs <= fs.size
          /\ sb.inodes > 0 => (sb.inodes - 1) \div sb.ipg = st.num_groups - 1
          /\ sb.ipg * sb.inode_size <= (sb.cpg - 1) * ClusterBytes(fs.cs)

\* A flag that says that recovery is needed does not get to pass 3.
RecoverRemoved == st.pc = "pass3" => RECOVER \notin st.sb.in
=============================================================================
