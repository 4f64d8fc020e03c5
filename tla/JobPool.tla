------------------------------- MODULE JobPool -------------------------------
(***************************************************************************)
(* The background cluster checks of the ext2 fsck: the main thread scans   *)
(* the inodes in order, queues the expensive ones and starts worker        *)
(* threads for them, up to hard_child_limit; a worker that is done with a  *)
(* job takes the next one from the queues, or ends; the main thread reaps  *)
(* ended workers when it queues a job, and at the end of the scan until    *)
(* none is left (fs/ext2/ext2.c, fs/ext2/fsck.c).                          *)
(*                                                                         *)
(* A struct thread is named by the inode it was made for.  Its lock is a   *)
(* btlock, used as module Mutex specifies it; the queues are only touched  *)
(* under ind_lock, so an access to them is one step.                       *)
(***************************************************************************)
EXTENDS Integers, Sequences, FiniteSets

CONSTANTS NumInodes,          \* sc->sb->num_inodes: those in use
          InodesPerGroup,     \* sc->sb->inodes_per_group
          MaxLevel,           \* the levels of ind: 5 in the code, 0..4
          hard_child_limit

ASSUME PoolAssumption ==
    /\ NumInodes \in Nat
    /\ InodesPerGroup \in Nat \ {0}
    /\ NumInodes % InodesPerGroup = 0
    /\ MaxLevel \in Nat \ {0}
    /\ hard_child_limit \in Nat \ {0}

Inodes == 1..NumInodes
Levels == 1..MaxLevel    \* level 0 is checked by the main thread at once

None == 0                \* no struct thread, no owner of a lock
Main == NumInodes + 1    \* the main thread as the owner of a lock
Gone == NumInodes + 2    \* the lock is freed

VARIABLES
    inode_num,   \* the inode the main thread is at
    ind,         \* ind[l]: the queued jobs of level l
    list,        \* the structs between thread_head and thread_tail
    live_child,
    lock,        \* lock[t]: who holds t->lock
    isc,         \* isc[t]: the inode t->isc is about
    wpc,         \* where the thread of t is
    mpc,         \* where the main thread is
    cur,         \* the struct thread the main thread is starting
    walk,        \* its position in the list while it reaps
    scans        \* how often do_chk_block ran for an inode

vars == <<inode_num, ind, list, live_child, lock, isc, wpc, mpc, cur, walk,
          scans>>

WorkerLabels == {"none", "start", "started", "work", "next", "exit", "dead",
                 "reaped"}
MainLabels == {"group", "reapgroup", "scan", "reap", "clone", "create",
               "register", "link", "unlock", "wait", "reapwait", "pass4"}

(* Where the main thread goes before it looks at inode i: the nested loops *)
(* over the groups and over the inodes of a group.                         *)
BeforeInode(i) == IF i > NumInodes THEN "wait"
                  ELSE IF (i - 1) % InodesPerGroup = 0 THEN "group"
                  ELSE "scan"

Init ==
    /\ inode_num = 1
    /\ ind = [l \in Levels |-> <<>>]
    /\ list = <<>>
    /\ live_child = 0
    /\ lock = [t \in Inodes |-> None]
    /\ isc = [t \in Inodes |-> t]
    /\ wpc = [t \in Inodes |-> "none"]
    /\ mpc = BeforeInode(1)
    /\ cur = None
    /\ walk = 1
    /\ scans = [j \in Inodes |-> 0]

-----------------------------------------------------------------------------
(* find_next_job: the oldest job of the highest level that has one. *)

Queued == {l \in Levels : ind[l] # <<>>}

BestLevel == CHOOSE l \in Queued : \A k \in Queued : k <= l

NextJob == Head(ind[BestLevel])

\* Variant: the remaining jobs are not moved up.
DequeueNothing == ind' = ind

Dequeue == ind' = [ind EXCEPT ![BestLevel] = Tail(@)]

-----------------------------------------------------------------------------
(* The main thread: cluster_scan_inode for one inode after the other. *)

DoChkBlock(j) == scans' = [scans EXCEPT ![j] = @ + 1]

(* While the table reader has not delivered the group the main thread      *)
(* calls try_clone.                                                        *)
CloneWhileWaiting ==
    /\ mpc = "group"
    /\ mpc' = "reap"
    /\ walk' = 1
    /\ UNCHANGED <<inode_num, ind, list, live_child, lock, isc, wpc, cur,
                   scans>>

(* The group is there: ended workers are reaped, but none is started.      *)
EnterGroup ==
    /\ mpc = "group"
    /\ mpc' = "reapgroup"
    /\ walk' = 1
    /\ UNCHANGED <<inode_num, ind, list, live_child, lock, isc, wpc, cur,
                   scans>>

(* Level 0: try_clone_failed checks the inode in the main thread; lock and *)
(* struct are freed.                                                       *)
CheckInline ==
    /\ mpc = "scan"
    /\ DoChkBlock(inode_num)
    /\ lock' = [lock EXCEPT ![inode_num] = Gone]
    /\ inode_num' = inode_num + 1
    /\ mpc' = BeforeInode(inode_num + 1)
    /\ UNCHANGED <<ind, list, live_child, isc, wpc, cur, walk>>

(* The three loops over the list of threads: in try_clone, at the start of *)
(* a group and at the end of the scan.                                     *)
Reaping == {"reap", "reapgroup", "reapwait"}

(* The lock is taken before anybody else can see the struct. *)
Queue(l) ==
    /\ mpc = "scan"
    /\ lock' = [lock EXCEPT ![inode_num] = Main]
    /\ ind' = [ind EXCEPT ![l] = Append(@, inode_num)]
    /\ inode_num' = inode_num + 1
    /\ mpc' = "reap"
    /\ walk' = 1
    /\ UNCHANGED <<list, live_child, isc, wpc, cur, scans>>

\* Variant: the ended worker stays counted.
ReapUncounted ==
    /\ mpc \in Reaping
    /\ walk <= Len(list)
    /\ wpc[list[walk]] = "dead"
    /\ wpc' = [wpc EXCEPT ![list[walk]] = "reaped"]
    /\ lock' = [lock EXCEPT ![list[walk]] = Gone]
    /\ list' = SubSeq(list, 1, walk - 1) \o SubSeq(list, walk + 1, Len(list))
    /\ UNCHANGED <<inode_num, ind, live_child, isc, mpc, cur, walk, scans>>

(* The loop over the list: a terminated thread is unlinked and freed. *)
Reap ==
    /\ mpc \in Reaping
    /\ walk <= Len(list)
    /\ wpc[list[walk]] = "dead"
    /\ wpc' = [wpc EXCEPT ![list[walk]] = "reaped"]
    /\ lock' = [lock EXCEPT ![list[walk]] = Gone]
    /\ list' = SubSeq(list, 1, walk - 1) \o SubSeq(list, walk + 1, Len(list))
    /\ live_child' = live_child - 1
    /\ UNCHANGED <<inode_num, ind, isc, mpc, cur, walk, scans>>

ReapSkip ==
    /\ mpc \in Reaping
    /\ walk <= Len(list)
    /\ wpc[list[walk]] # "dead"
    /\ walk' = walk + 1
    /\ UNCHANGED <<inode_num, ind, list, live_child, lock, isc, wpc, mpc, cur,
                   scans>>

ReapEnd ==
    /\ mpc \in Reaping
    /\ walk > Len(list)
    /\ mpc' = CASE mpc = "reap" -> "clone"
                 [] mpc = "reapgroup" -> "scan"
                 [] mpc = "reapwait" -> "wait"
    /\ UNCHANGED <<inode_num, ind, list, live_child, lock, isc, wpc, cur, walk,
                   scans>>

(* The second loop of try_clone. *)
CloneNext ==
    /\ mpc = "clone"
    /\ live_child < hard_child_limit
    /\ Queued # {}
    /\ Dequeue
    /\ cur' = NextJob
    /\ mpc' = "create"
    /\ UNCHANGED <<inode_num, list, live_child, lock, isc, wpc, walk, scans>>

\* Variant: one worker is started for each queued job, and no more.
CloneEndEarly ==
    /\ mpc = "clone"
    /\ mpc' = BeforeInode(inode_num)
    /\ UNCHANGED <<inode_num, ind, list, live_child, lock, isc, wpc, cur, walk,
                   scans>>

CloneEnd ==
    /\ mpc = "clone"
    /\ live_child >= hard_child_limit \/ Queued = {}
    /\ mpc' = BeforeInode(inode_num)
    /\ UNCHANGED <<inode_num, ind, list, live_child, lock, isc, wpc, cur, walk,
                   scans>>

(* No thread can be created: the main thread does the job itself. *)
CreateFails ==
    /\ mpc = "create"
    /\ lock' = [lock EXCEPT ![cur] = Gone]
    /\ DoChkBlock(isc[cur])
    /\ mpc' = "clone"
    /\ UNCHANGED <<inode_num, ind, list, live_child, isc, wpc, cur, walk>>

CreateSucceeds ==
    /\ mpc = "create"
    /\ wpc' = [wpc EXCEPT ![cur] = "start"]
    /\ live_child' = live_child + 1
    /\ mpc' = "register"
    /\ UNCHANGED <<inode_num, ind, list, lock, isc, cur, walk, scans>>

(* register_job takes the locks of thread_tail, which only it uses, and of *)
(* the last struct of the list, which that thread may be holding.          *)
RegisterLock ==
    /\ mpc = "register"
    /\ list # <<>> => lock[list[Len(list)]] = None
    /\ lock' = IF list = <<>> THEN lock
               ELSE [lock EXCEPT ![list[Len(list)]] = Main]
    /\ mpc' = "link"
    /\ UNCHANGED <<inode_num, ind, list, live_child, isc, wpc, cur, walk,
                   scans>>

\* Variant: the struct in front of the new one stays locked.
RegisterLinkLocked ==
    /\ mpc = "link"
    /\ list' = Append(list, cur)
    /\ mpc' = "unlock"
    /\ UNCHANGED <<inode_num, ind, live_child, lock, isc, wpc, cur, walk,
                   scans>>

RegisterLink ==
    /\ mpc = "link"
    /\ lock' = IF list = <<>> THEN lock
               ELSE [lock EXCEPT ![list[Len(list)]] = None]
    /\ list' = Append(list, cur)
    /\ mpc' = "unlock"
    /\ UNCHANGED <<inode_num, ind, live_child, isc, wpc, cur, walk,
                   scans>>

LetStart ==
    /\ mpc = "unlock"
    /\ lock' = [lock EXCEPT ![cur] = None]
    /\ mpc' = "clone"
    /\ UNCHANGED <<inode_num, ind, list, live_child, isc, wpc, cur, walk,
                   scans>>

(* All inodes are scanned: wait until the list of threads is empty.  No    *)
(* job is taken from the queues any more: that loop is commented out.      *)
WaitMore ==
    /\ mpc = "wait" /\ list # <<>>
    /\ mpc' = "reapwait"
    /\ walk' = 1
    /\ UNCHANGED <<inode_num, ind, list, live_child, lock, isc, wpc, cur,
                   scans>>

WaitEnd ==
    /\ mpc = "wait" /\ list = <<>>
    /\ mpc' = "pass4"
    /\ UNCHANGED <<inode_num, ind, list, live_child, lock, isc, wpc, cur, walk,
                   scans>>

MainStep ==
    \/ CloneWhileWaiting \/ EnterGroup
    \/ CheckInline \/ (\E l \in Levels : Queue(l))
    \/ Reap \/ ReapSkip \/ ReapEnd
    \/ CloneNext \/ CloneEnd \/ CreateFails \/ CreateSucceeds
    \/ RegisterLock \/ RegisterLink \/ LetStart
    \/ WaitMore \/ WaitEnd

-----------------------------------------------------------------------------
(* A worker: chk_block_function. *)

WorkerSame == UNCHANGED <<inode_num, list, live_child, mpc, cur, walk>>

Start(t) ==
    /\ wpc[t] = "start"
    /\ lock[t] = None
    /\ lock' = [lock EXCEPT ![t] = t]
    /\ wpc' = [wpc EXCEPT ![t] = "started"]
    /\ UNCHANGED <<ind, isc, scans>>
    /\ WorkerSame

Started(t) ==
    /\ wpc[t] = "started"
    /\ lock' = [lock EXCEPT ![t] = None]
    /\ wpc' = [wpc EXCEPT ![t] = "work"]
    /\ UNCHANGED <<ind, isc, scans>>
    /\ WorkerSame

Work(t) ==
    /\ wpc[t] = "work"
    /\ DoChkBlock(isc[t])
    /\ wpc' = [wpc EXCEPT ![t] = "next"]
    /\ UNCHANGED <<ind, isc, lock>>
    /\ WorkerSame

\* Variant: the worker takes the job over, but not its scan context.
TakeNextKeepsIsc(t) ==
    /\ wpc[t] = "next"
    /\ Queued # {}
    /\ lock' = [lock EXCEPT ![NextJob] = Gone]
    /\ Dequeue
    /\ wpc' = [wpc EXCEPT ![t] = "work"]
    /\ UNCHANGED <<isc, scans>>
    /\ WorkerSame

(* The worker takes over the scan context of the next job; the struct that *)
(* was made for it is never given a thread and is freed.                   *)
TakeNext(t) ==
    /\ wpc[t] = "next"
    /\ Queued # {}
    /\ isc' = [isc EXCEPT ![t] = isc[NextJob]]
    /\ lock' = [lock EXCEPT ![NextJob] = Gone]
    /\ Dequeue
    /\ wpc' = [wpc EXCEPT ![t] = "work"]
    /\ UNCHANGED <<scans>>
    /\ WorkerSame

NoNext(t) ==
    /\ wpc[t] = "next"
    /\ Queued = {}
    /\ wpc' = [wpc EXCEPT ![t] = "exit"]
    /\ UNCHANGED <<ind, isc, lock, scans>>
    /\ WorkerSame

(* The thread has returned; from now on terminated_thread says so. *)
Terminate(t) ==
    /\ wpc[t] = "exit"
    /\ wpc' = [wpc EXCEPT ![t] = "dead"]
    /\ UNCHANGED <<ind, isc, lock, scans>>
    /\ WorkerSame

WorkerStep(t) ==
    \/ Start(t) \/ Started(t) \/ Work(t)
    \/ TakeNext(t) \/ NoNext(t) \/ Terminate(t)

Next == MainStep \/ \E t \in Inodes : WorkerStep(t)

(* The main thread and the workers are threads of one process: each that   *)
(* can run is eventually scheduled.  The table reader delivers every group *)
(* (module TableReader): the main thread does not wait for it for ever.    *)
Fairness ==
    /\ WF_vars(MainStep)
    /\ SF_vars(EnterGroup)
    /\ \A t \in Inodes : WF_vars(WorkerStep(t))

Spec == Init /\ [][Next]_vars /\ Fairness

-----------------------------------------------------------------------------
RangeOf(s) == {s[i] : i \in DOMAIN s}

Waiting == UNION {RangeOf(ind[l]) : l \in Levels}

TypeOK ==
    /\ inode_num \in 1..(NumInodes + 1)
    /\ ind \in [Levels -> Seq(Inodes)]
    /\ list \in Seq(Inodes)
    /\ live_child \in Int
    /\ lock \in [Inodes -> 0..(NumInodes + 2)]
    /\ isc \in [Inodes -> Inodes]
    /\ wpc \in [Inodes -> WorkerLabels]
    /\ mpc \in MainLabels
    /\ cur \in Inodes \cup {None}
    /\ walk \in Nat
    /\ scans \in [Inodes -> Nat]

(* No inode is checked twice: neither by two workers that took the same    *)
(* job, nor by a worker and the main thread after a failed clone.          *)
ScannedOnce == \A j \in Inodes : scans[j] <= 1

(* The job in the hands of the main thread between find_next_job and the   *)
(* thread it creates for it.                                               *)
InHand == IF mpc = "create" THEN {cur} ELSE {}

(* The workers that have a job they have not run yet. *)
Busy == {t \in Inodes : wpc[t] \in {"start", "started", "work"}}

(* A job that was handed over is in exactly one place: done, queued, in    *)
(* the hands of the main thread, or of exactly one worker.                 *)
JobsAccounted ==
    \A j \in 1..(inode_num - 1) :
       LET workers == {t \in Busy : isc[t] = j}
       IN  scans[j] + Cardinality(workers)
             + (IF j \in Waiting THEN 1 ELSE 0)
             + (IF j \in InHand THEN 1 ELSE 0) = 1

(* live_child is the number of threads that are not reaped yet, linked or  *)
(* about to be, and never exceeds hard_child_limit.                        *)
ChildrenCounted ==
    /\ live_child = Len(list) + (IF mpc \in {"register", "link"} THEN 1 ELSE 0)
    /\ live_child = Cardinality({t \in Inodes :
                                    wpc[t] \notin {"none", "reaped"}})
    /\ live_child <= hard_child_limit

(* A worker runs its first job only after the main thread has linked it:   *)
(* what the hand-over of t->lock is for.                                   *)
RunsOnlyRegistered ==
    \A t \in Inodes :
       wpc[t] \in {"started", "work", "next", "exit", "dead"}
          => \E i \in DOMAIN list : list[i] = t

(* Every thread is accounted for: those that run are linked, and all of    *)
(* them, no more than hard_child_limit, are in live_child.                 *)
WorkersCounted == ChildrenCounted /\ RunsOnlyRegistered

(* The main thread leaves no job in the queues as long as the number of    *)
(* threads stays below the limit, whoever creates, ends and reaps them.    *)
NothingLeftBelowLimit ==
    [](live_child < hard_child_limit) => [](mpc = "pass4" => Queued = {})

(* The wait at the end of the inode scan ends, with or without failing     *)
(* clones: no worker and no lock can hold the main thread up for ever.     *)
ScanTerminates == <>(mpc = "pass4")

(* "Waiting for unfinished background jobs to finish ..." (fsck.c): when   *)
(* the main thread goes on with pass 4, every inode has been checked.      *)
AllJobsFinished == mpc = "pass4" => \A j \in Inodes : scans[j] = 1

-----------------------------------------------------------------------------
(* What the proofs need besides: the inductive strengthening. *)

(* A struct whose thread was never started: its job waits to be run. *)
Untouched(j) == /\ j \in Inodes /\ wpc[j] = "none" /\ isc[j] = j
                /\ scans[j] = 0
                /\ \A t \in Busy : isc[t] # j

(* The main thread looks for a group or an inode only if there is one. *)
ScanInRange ==
    /\ mpc \in {"group", "reapgroup", "scan"} => inode_num <= NumInodes
    /\ walk # 0

(* The inodes the main thread has not reached. *)
AheadUntouched == \A j \in inode_num..NumInodes : Untouched(j)

(* A queued job waits in one place of one queue. *)
QueuedOnce ==
    \A l, m \in Levels : \A i \in DOMAIN ind[l], k \in DOMAIN ind[m] :
       ind[l][i] = ind[m][k] => l = m /\ i = k

(* A queued job was handed over, and nobody runs it or has run it. *)
QueuedUntouched == \A j \in Waiting : j < inode_num /\ Untouched(j)

(* Nor the job the main thread creates a thread for. *)
InHandUntouched ==
    mpc = "create" => cur < inode_num /\ Untouched(cur) /\ cur \notin Waiting

(* A job that a worker has taken is not done yet, and nobody else's. *)
BusyApart ==
    \A t \in Busy : /\ isc[t] < inode_num /\ scans[isc[t]] = 0
                    /\ \A u \in Busy : isc[u] = isc[t] => u = t

(* The list has the threads that run, each once, but for the one the main  *)
(* thread is about to link.                                                *)
Unlinked == IF mpc \in {"register", "link"} THEN {cur} ELSE {}

ListedOnce ==
    /\ \A i, k \in DOMAIN list : list[i] = list[k] => i = k
    /\ RangeOf(list)
         = {t \in Inodes \ Unlinked : wpc[t] \notin {"none", "reaped"}}

(* The lock of a struct is taken before it is queued, and given back when  *)
(* its thread is linked.                                                   *)
HeldBack ==
    /\ \A j \in Waiting : lock[j] = Main
    /\ mpc \in {"create", "register", "link", "unlock"} => lock[cur] = Main
    /\ mpc \in {"register", "link", "unlock"} =>
          cur \in Inodes /\ wpc[cur] = "start"

(* Nothing that was handed over gets lost. *)
Placed(j) == \/ scans[j] = 1 \/ j \in Waiting \/ j \in InHand
             \/ \E t \in Busy : isc[t] = j

NoneLost == \A j \in 1..(inode_num - 1) : Placed(j)

(* A thread is only created while there is room for it. *)
RoomForOne == mpc = "create" => live_child < hard_child_limit

(* The jobs are apart, the threads are listed; together they are inductive. *)
JobInv == /\ AheadUntouched /\ QueuedOnce /\ QueuedUntouched
          /\ InHandUntouched /\ BusyApart /\ ScannedOnce

ThreadInv == ListedOnce /\ HeldBack

IInv == TypeOK /\ ScanInRange /\ JobInv /\ ThreadInv

(* Besides, for the number of threads. *)
CountInv == ChildrenCounted /\ RoomForOne
=============================================================================
