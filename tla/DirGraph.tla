------------------------------ MODULE DirGraph ------------------------------
(***************************************************************************)
(* Passes 4a to 5 of src/fs/ext2/fsck.c: from the directory entries that   *)
(* pass 3 collected per inode they are found in, the parent of every       *)
(* inode, the defects of the directory structure, the group of every inode *)
(* (the root, an orphan or a loop that its chain of parents ends in), and  *)
(* the path that is printed for it.                                        *)
(*                                                                         *)
(* An entry is what mk_iome makes: the directory it stands in (parent),    *)
(* its name, and whether pass 4b made it up (virtual).  Every name but "." *)
(* and ".." is "name".  A problem context is the set of its problem bits   *)
(* and its loop group; the lists in it are left out.                       *)
(***************************************************************************)
EXTENDS Naturals, Sequences, FiniteSets, SequencesExt

CONSTANTS NumInodes,    \* sb->num_inodes
          Kinds,        \* what pass 3 may have found the inodes to be
          Entries,      \* directory entries the disk may hold: from, name, to
          MaxEntries,   \* bound: entries on the disk
          LinkCount     \* inode_link_count

Inodes == 1..NumInodes
Root == 2
Names == {".", "..", "name"}

\* "dirEio" is a directory some block of which could not be read, "eio" an
\* inode that could not be read itself.
KindNames == {"dir", "dirEio", "file", "eio"}

DirGraphAssumption ==
  /\ NumInodes \in Nat /\ Root <= NumInodes
  /\ Kinds \subseteq [Inodes -> KindNames]
  /\ Entries \subseteq [from : Inodes, name : Names, to : Inodes]
  /\ MaxEntries \in Nat
  /\ LinkCount \in [Inodes -> Nat]

VARIABLES
  kind,       \* inode_type
  ents,       \* inode_owning_map: the entries that name each inode
  pass,       \* where the main thread is
  up,         \* inode_parent
  mark,       \* loop_protect
  problems,   \* problem_mask of the problem contexts
  loopGroup,  \* loop_group of the problem contexts
  ino,        \* inode_num
  scan, group, isLoop,  \* locals of pass 4d; scan also walks in pass 5
  loops,      \* local of pass 5
  steps       \* length of the path built in pass 5

vars == <<kind, ents, pass, up, mark, problems, loopGroup, ino, scan, group,
          isLoop, loops, steps>>

walk == <<scan, group, isLoop>>
path == <<loops, steps>>

Entry == [parent : Inodes, name : Names, virtual : BOOLEAN]
NoEntry == [parent |-> 0, name |-> "none", virtual |-> FALSE]
Problems == {"loop", "invalid dot", "multiple dots", "no dot", "no parent",
             "multiple parents", "wrong link count", "parent missing entry",
             "parent does not point to us", "double dot to non dir"}

IsDir(i) == kind[i] \in {"dir", "dirEio"}
Has(i) == up[i] # NoEntry
Parent(i) == up[i].parent

\* A bound on every walk of pass 5: a loop of n inodes is passed up to n + 1 times.
MaxSteps == NumInodes * (NumInodes + 2)

Init ==
  /\ kind \in Kinds
  /\ ents = [i \in Inodes |-> <<>>]
  /\ pass = "3"
  /\ up = [i \in Inodes |-> NoEntry]
  /\ mark = [i \in Inodes |-> 0]
  /\ problems = [i \in Inodes |-> {}]
  /\ loopGroup = [i \in Inodes |-> 0]
  /\ ino = 0 /\ scan = 0 /\ group = 0 /\ isLoop = FALSE
  /\ loops = 0 /\ steps = 0

-----------------------------------------------------------------------------
(* Pass 3: the workers append the entries of their directories in any      *)
(* order.  Only a directory is read for entries.                           *)

Written == {e \in Entries : \E k \in DOMAIN ents[e.to] :
              ents[e.to][k].parent = e.from /\ ents[e.to][k].name = e.name}

AddEntry(e) ==
  /\ pass = "3" /\ e \notin Written /\ Cardinality(Written) < MaxEntries
  /\ IsDir(e.from)
  /\ ents' = [ents EXCEPT ![e.to] =
       Append(@, [parent |-> e.from, name |-> e.name, virtual |-> FALSE])]
  /\ UNCHANGED <<kind, pass, up, mark, problems, loopGroup, ino, walk, path>>

-----------------------------------------------------------------------------
(* Passes 4a and 4b.  The last forward entry is the parent; a directory    *)
(* without one gets an entry of its own in the first inode its ".." names. *)

IsForward(e) == ~e.virtual /\ e.name = "name"
Forward(i) == SelectSeq(ents[i], IsForward)
ForwardParent(i) == IF Forward(i) = <<>> THEN NoEntry ELSE Last(Forward(i))

Pass4a ==
  /\ pass = "3" /\ pass' = "4b"
  /\ up' = [i \in Inodes |-> ForwardParent(i)]
  /\ UNCHANGED <<kind, ents, mark, problems, loopGroup, ino, walk, path>>

\* The inodes that are named ".." by directory d.
DotDots(d) == {i \in Inodes : \E k \in DOMAIN ents[i] :
                 ents[i][k].name = ".." /\ ents[i][k].parent = d}
Virtual(d) == [parent |-> Min(DotDots(d)), name |-> "name", virtual |-> TRUE]
Adopted == {d \in Inodes : ~Has(d) /\ DotDots(d) # {}}

Pass4b ==
  /\ pass = "4b" /\ pass' = "4c"
  /\ up' = [d \in Inodes |-> IF d \in Adopted THEN Virtual(d) ELSE up[d]]
  /\ ents' = [d \in Inodes |-> IF d \in Adopted THEN Append(ents[d], Virtual(d))
                                                ELSE ents[d]]
  /\ UNCHANGED <<kind, mark, problems, loopGroup, ino, walk, path>>

-----------------------------------------------------------------------------
(* Pass 4c: the defects of every inode, from the entries that name it.     *)

Count(i, P(_)) == Cardinality({k \in DOMAIN ents[i] : ~ents[i][k].virtual /\ P(ents[i][k])})

\* Directory d calls i its parent; the first entry of d that stands in i
\* decides whether i knows d.
Acknowledges(i, d) ==
  LET here == {k \in DOMAIN ents[d] : ents[d][k].name = "name" /\ ents[d][k].parent = i}
  IN  here # {} /\ ~ents[d][Min(here)].virtual

DirProblems(i) ==
  LET ownDots == Count(i, LAMBDA e : e.name = "." /\ e.parent = i)
      forward == Count(i, IsForward)
  IN  {p \in Problems :
        \/ p = "invalid dot" /\ Count(i, LAMBDA e : e.name = "." /\ e.parent # i) > 0
        \/ p = "multiple dots" /\ ownDots > 1
        \/ p = "no dot" /\ ownDots = 0
        \/ p = "multiple parents" /\ forward > 1
        \/ p = "no parent" /\ forward = 0
        \/ p = "parent missing entry" /\ kind[i] = "dirEio"
             /\ \E d \in Inodes : i \in DotDots(d) /\ ~Acknowledges(i, d)}

FileProblems(i) ==
  {p \in Problems :
     \/ p = "invalid dot" /\ Count(i, LAMBDA e : e.name = ".") > 0
     \/ p = "double dot to non dir" /\ Count(i, LAMBDA e : e.name = "..") > 0}

\* What the ".." entries of directory i add to the context of i itself.
DotDotProblems(d) ==
  {p \in {"parent does not point to us"} :
     \E i \in DotDots(d) : kind[i] = "dir" /\ ~Acknowledges(i, d)}

\* The virtual entries are counted as links.
LinkProblems(i) ==
  {p \in {"wrong link count"} : kind[i] # "eio" /\ LinkCount[i] # Len(ents[i])}

Pass4c ==
  /\ pass = "4c" /\ pass' = "4d" /\ ino' = 0
  /\ problems' = [i \in Inodes |-> DotDotProblems(i) \cup LinkProblems(i) \cup
                    IF IsDir(i) THEN DirProblems(i) ELSE FileProblems(i)]
  /\ mark' = [i \in Inodes |-> IF i = Root THEN Root ELSE 0]
  /\ UNCHANGED <<kind, ents, up, loopGroup, walk, path>>

-----------------------------------------------------------------------------
(* Pass 4d: from every directory up to the root, an inode without parent,  *)
(* an inode of this walk (a loop) or one of an earlier walk; then the      *)
(* inodes of the walk get its group.                                       *)

NextDir ==
  /\ pass = "4d" /\ ino < NumInodes
  /\ ino' = ino + 1
  /\ IF IsDir(ino')
     THEN pass' = "walk" /\ scan' = ino' /\ group' = 0 /\ isLoop' = FALSE
     ELSE UNCHANGED <<pass, walk>>
  /\ UNCHANGED <<kind, ents, up, mark, problems, loopGroup, path>>

WalkUp ==
  /\ pass = "walk" /\ scan # Root /\ Has(scan) /\ mark[scan] = 0
  /\ mark' = [mark EXCEPT ![scan] = ino]
  /\ scan' = Parent(scan)
  /\ UNCHANGED <<kind, ents, pass, up, problems, loopGroup, ino, group, isLoop, path>>

\* Variant: the walk does not stop at the marks of earlier walks as such.
WalkEndOwn ==
  /\ pass = "walk" /\ ~(scan # Root /\ Has(scan) /\ mark[scan] = 0)
  /\ group' = scan
  /\ isLoop' = (scan # Root /\ Has(scan) /\ mark[scan] = ino)
  /\ pass' = "remark" /\ scan' = ino
  /\ UNCHANGED <<kind, ents, up, mark, problems, loopGroup, ino, path>>

WalkEnd ==
  /\ pass = "walk" /\ ~(scan # Root /\ Has(scan) /\ mark[scan] = 0)
  /\ group' = IF scan # Root /\ Has(scan) /\ mark[scan] # ino THEN mark[scan] ELSE scan
  /\ isLoop' = (scan # Root /\ Has(scan) /\ mark[scan] = ino)
  /\ pass' = "remark" /\ scan' = ino
  /\ UNCHANGED <<kind, ents, up, mark, problems, loopGroup, ino, path>>

Remark ==
  /\ pass = "remark" /\ group # ino /\ mark[scan] = ino
  /\ mark' = [mark EXCEPT ![scan] = group]
  /\ scan' = Parent(scan)
  /\ UNCHANGED <<kind, ents, pass, up, problems, loopGroup, ino, group, isLoop, path>>

\* Variant: where the walk ended the mark is left alone.
RemarkEndUnmarked ==
  /\ pass = "remark" /\ ~(group # ino /\ mark[scan] = ino)
  /\ problems' = [problems EXCEPT ![ino] = @ \cup {p \in {"loop"} : isLoop}]
  /\ loopGroup' = IF isLoop THEN [loopGroup EXCEPT ![ino] = group] ELSE loopGroup
  /\ pass' = "4d"
  /\ UNCHANGED <<kind, ents, up, mark, ino, walk, path>>

\* The problem is added to the inode the walk began at, once per member.
RemarkEnd ==
  /\ pass = "remark" /\ ~(group # ino /\ mark[scan] = ino)
  /\ mark' = [mark EXCEPT ![scan] = group]
  /\ problems' = [problems EXCEPT ![ino] = @ \cup {p \in {"loop"} : isLoop}]
  /\ loopGroup' = IF isLoop THEN [loopGroup EXCEPT ![ino] = group] ELSE loopGroup
  /\ pass' = "4d"
  /\ UNCHANGED <<kind, ents, up, ino, walk, path>>

-----------------------------------------------------------------------------
(* Pass 4e: a file belongs to the group of the directory of its last       *)
(* entry, or of its first one in a directory of the root's group.          *)

FileEntry(i) ==
  LET f == Forward(i)
      inRoot == {k \in DOMAIN f : mark[f[k].parent] = Root}
  IN  IF inRoot # {} THEN f[Min(inRoot)] ELSE ForwardParent(i)

Pass4e ==
  /\ pass = "4d" /\ ino = NumInodes
  /\ pass' = "5" /\ ino' = 0
  /\ up' = [i \in Inodes |->
       IF i = Root THEN NoEntry ELSE IF IsDir(i) THEN up[i] ELSE FileEntry(i)]
  /\ mark' = [i \in Inodes |->
       IF IsDir(i) THEN mark[i]
       ELSE IF FileEntry(i) = NoEntry THEN i ELSE mark[FileEntry(i).parent]]
  /\ UNCHANGED <<kind, ents, problems, loopGroup, walk, path>>

-----------------------------------------------------------------------------
(* Pass 5: the path of every inode that an entry names.  The members of    *)
(* its loop are counted first, then the walk up to the root of its group   *)
(* stops when it meets that many inodes with the loop problem.             *)

NextPath ==
  /\ pass = "5" /\ ino < NumInodes
  /\ ino' = ino + 1
  /\ loops' = 0 /\ steps' = 0
  /\ IF ents[ino'] = <<>>
     THEN UNCHANGED <<pass, scan>>
     ELSE IF mark[ino'] # Root /\ Has(mark[ino'])
     THEN pass' = "count" /\ scan' = mark[ino']
     ELSE pass' = "path" /\ scan' = IF Has(ino') THEN Parent(ino') ELSE 0
  /\ UNCHANGED <<kind, ents, up, mark, problems, loopGroup, group, isLoop>>

CountLoop ==
  /\ pass = "count" /\ Has(scan) /\ loops < MaxSteps
  /\ loops' = loops + 1
  /\ IF Parent(scan) = mark[ino]
     THEN pass' = "path" /\ scan' = IF Has(ino) THEN Parent(ino) ELSE 0
     ELSE pass' = pass /\ scan' = Parent(scan)
  /\ UNCHANGED <<kind, ents, up, mark, problems, loopGroup, ino, group, isLoop, steps>>

GoesOn == scan # 0 /\ Has(scan) /\ ("loop" \in problems[scan] => loops > 0)

PathUp ==
  /\ pass = "path" /\ GoesOn /\ steps < MaxSteps
  /\ loops' = IF "loop" \in problems[scan] THEN loops - 1 ELSE loops
  /\ steps' = steps + 1
  /\ scan' = Parent(scan)
  /\ UNCHANGED <<kind, ents, pass, up, mark, problems, loopGroup, ino, group, isLoop>>

PathEnd ==
  /\ pass = "path" /\ ~GoesOn
  /\ pass' = "5"
  /\ UNCHANGED <<kind, ents, up, mark, problems, loopGroup, ino, walk, path>>

\* What pass 5 prints of an inode.  Of one that cannot be read, only that.  A
\* wrong link count is not printed of one without entries, but that it is linked;
\* the problem of a parent that misses an entry is never printed.
Printed(i) ==
  IF kind[i] = "eio" THEN {"eio"}
  ELSE {p \in problems[i] : /\ p # "parent missing entry"
                            /\ p = "wrong link count" => ents[i] # <<>>}
         \cup {p \in {"unlinked"} : ents[i] = <<>> /\ LinkCount[i] # 0}

Next ==
  \/ \E e \in Entries : AddEntry(e)
  \/ Pass4a \/ Pass4b \/ Pass4c
  \/ NextDir \/ WalkUp \/ WalkEnd \/ Remark \/ RemarkEnd
  \/ Pass4e
  \/ NextPath \/ CountLoop \/ PathUp \/ PathEnd

Spec == Init /\ [][Next]_vars

-----------------------------------------------------------------------------
(* Properties *)

TypeOK ==
  /\ kind \in [Inodes -> KindNames]
  /\ ents \in [Inodes -> Seq(Entry)]
  /\ pass \in {"3", "4b", "4c", "4d", "walk", "remark", "5", "count", "path"}
  /\ up \in [Inodes -> Entry \cup {NoEntry}]
  /\ mark \in [Inodes -> 0..NumInodes]
  /\ problems \in [Inodes -> SUBSET Problems]
  /\ loopGroup \in [Inodes -> 0..NumInodes]
  /\ ino \in 0..NumInodes /\ scan \in 0..NumInodes /\ group \in 0..NumInodes
  /\ isLoop \in BOOLEAN
  /\ loops \in 0..MaxSteps /\ steps \in 0..MaxSteps

\* The assertions of pass 4d (fsck.c:1798 and 1801): where the marks of a walk
\* end there is no mark yet, or the one of the group the walk found.
AssertionsHold ==
  pass = "remark" /\ (group = ino \/ mark[scan] # ino) => mark[scan] \in {0, group}

\* The inodes on the way up from i that are n or fewer entries away; nothing
\* is above the root.
Ancestors(i) ==
  LET above[n \in 0..NumInodes] ==
        IF n = 0 THEN {i}
        ELSE above[n - 1] \cup {Parent(j) : j \in {k \in above[n - 1] : k # Root /\ Has(k)}}
  IN  above[NumInodes]
OnLoop(i) == i # Root /\ Has(i) /\ i \in Ancestors(Parent(i))

Analysed == pass = "4d" /\ ino = NumInodes

\* The loop analysis, fsck.c:1763-1803: a directory is in the group of the root
\* if and only if its chain of parents leads there; otherwise its group is the
\* inode without parent, or a member of the loop, that the chain ends in; and
\* two directories on the same chain are in the same group.
GroupsRight ==
  Analysed => \A d \in Inodes : IsDir(d) =>
    /\ (mark[d] = Root) <=> (Root \in Ancestors(d))
    /\ mark[d] \in Ancestors(d)
    /\ mark[d] = Root \/ ~Has(mark[d]) \/ OnLoop(mark[d])
    /\ \A j \in Ancestors(d) : IsDir(j) => mark[j] = mark[d]

\* No directory gets lost silently: of some inode in every group but the root's
\* it is printed that it has no parent or is part of a loop; and of every inode
\* that can be read, that its links are not as many as the entries that name it.
UnreachableReported ==
  Analysed =>
    /\ \A d \in Inodes : IsDir(d) /\ mark[d] # Root =>
         \E j \in Inodes : mark[j] = mark[d] /\ Printed(j) \cap {"eio", "loop", "no parent"} # {}
    /\ \A i \in Inodes : kind[i] # "eio" /\ LinkCount[i] # Len(ents[i]) =>
         Printed(i) \cap {"unlinked", "wrong link count"} # {}

\* Pass 5 follows parents until there is none, or until it met the loop problem
\* once for every member of the loop (fsck.c:1903-1938), while pass 4e has given
\* files other parents.  As long as no ".." names something that is not a
\* directory, it meets no missing parent while it counts and every walk ends.
DotDotsNameDirs == \A d \in Inodes : \A i \in DotDots(d) : IsDir(i)
PathsEnd ==
  DotDotsNameDirs =>
    /\ pass = "count" => Has(scan) /\ loops < MaxSteps
    /\ pass = "path" => ~GoesOn \/ steps < MaxSteps

\* pc.h:61 and 155-161: the loop problem means that the directory is part of
\* the loop, and all members of a loop have the same loop_group.
LoopMembersMarked ==
  Analysed => \A d \in Inodes : IsDir(d) =>
    /\ ("loop" \in problems[d]) <=> OnLoop(d)
    /\ OnLoop(d) => \A j \in Ancestors(d) : loopGroup[j] = loopGroup[d]

=============================================================================
