---------------------------- MODULE TableReader ----------------------------
(***************************************************************************)
(* The threads of the ext2 fsck around its main loop (fs/ext2/fsck.c): the *)
(* table reader, that reads the tables of the groups ahead into a ring of  *)
(* slots (fs/ext2/threads.c, read_table_for_one_group); the main thread,   *)
(* that checks the inodes group by group; and the com cache thread, as far *)
(* as it is shut down at the end.  They wait for each other with           *)
(* btlock_wait and btlock_wake (btlib/btlock.c), modelled as they are.     *)
(*                                                                         *)
(* The number of inodes done is counted in groups.  create_thread may fail *)
(* for the reader; then the main thread reads the tables, and the macros   *)
(* TRE_* and TRF_* (fs/ext2/threads.h) do nothing.                         *)
(***************************************************************************)
EXTENDS Integers, FiniteSets

CONSTANTS num_groups,
          MAX_INODE_TABLE_PREREADED,
          INODE_TABLE_ROUNDROUBIN,
          Uninitialized,   \* the groups without BG_INODE_TABLE_INITIALIZED
          MaxWorkers       \* bound: the workers started during the scan

ASSUME ReaderAssumption ==
    /\ num_groups \in Nat \ {0}
    /\ MAX_INODE_TABLE_PREREADED \in Nat \ {0}
    /\ INODE_TABLE_ROUNDROUBIN \in Nat
    /\ MAX_INODE_TABLE_PREREADED <= INODE_TABLE_ROUNDROUBIN
    /\ Uninitialized \subseteq 0..(num_groups - 1)
    /\ MaxWorkers \in Nat

VARIABLES
    allow_concurrent_table_reader,
    table_reader_group,
    prereaded,
    slot,          \* slot[s]: the group whose inode table is there
    group,         \* the group the main thread is at
    inodes_done,   \* inode_num, in groups
    live_child,
    started, ended,    \* the workers started, and reaped, so far
    exit_request_com_cache_thread,
    pc,            \* where each thread is
    tmp,           \* what a thread read of live_child to change it
    locked,        \* locked[l]: -1, or 0 for "woken, once or more"
    wait           \* wait[p]: what p does in btlock_wait or btlock_wake

vars == <<allow_concurrent_table_reader, table_reader_group, prereaded, slot,
          group, inodes_done, live_child, started, ended,
          exit_request_com_cache_thread, pc, tmp, locked, wait>>
reader == <<table_reader_group, prereaded, slot>>
scan == <<group, inodes_done>>
child == <<live_child, started, ended, tmp>>
flags == <<allow_concurrent_table_reader, exit_request_com_cache_thread>>
sync == <<locked, wait>>

Threads == {"main", "reader", "cct"}
Locks == {"empty", "full", "cct"}   \* table_reader_*, com_cache_thread_lock
Torn == -1                          \* a table that is not read completely

(* The labels at which a thread waits, and wakes, and with which lock.     *)
WaitsFor == [tre_wait |-> "empty", trf_wait |-> "full", cct_wait |-> "cct",
             reset_wait |-> "full", exit_wait |-> "full"]
Wakes == [tre_wake |-> "empty", trf_wake |-> "full", cct_wake |-> "cct",
          exit_wake |-> "full"]

(* Where a thread goes on after that.                                      *)
After == [tre_wait |-> "poll", trf_wait |-> "check", cct_wait |-> "again",
          reset_wait |-> "exit", exit_wait |-> "exited",
          tre_wake |-> "next", trf_wake |-> "loop", cct_wake |-> "handed",
          exit_wake |-> "gone"]

Labels == {"create", "count", "counted", "loop", "poll", "readnow", "inodes",
           "starting", "ending", "done", "finish", "assert", "exit", "handed",
           "exited", "end",
           "off", "check", "read", "fill", "inc", "publish", "next", "quit",
           "quitting", "gone", "work", "again"}
          \cup DOMAIN WaitsFor \cup DOMAIN Wakes

Init ==
    /\ allow_concurrent_table_reader = TRUE
    /\ table_reader_group = 0 /\ prereaded = 0
    /\ slot = [s \in 0..(INODE_TABLE_ROUNDROUBIN - 1) |-> Torn]
    /\ group = 0 /\ inodes_done = 0
    /\ live_child = 0 /\ started = 0 /\ ended = 0
    /\ exit_request_com_cache_thread = FALSE
    /\ pc = [p \in Threads |-> CASE p = "main" -> "create"
                                 [] p = "reader" -> "off"
                                 [] p = "cct" -> "work"]
    /\ tmp = [p \in Threads |-> 0]
    /\ locked = [l \in Locks |-> -1]
    /\ wait = [p \in Threads |-> "no"]

Goto(p, from, to) == pc[p] = from /\ pc' = [pc EXCEPT ![p] = to]

(* TRE_* and TRF_* at label l, if they do anything. *)
IfReader(l) == IF allow_concurrent_table_reader THEN l ELSE After[l]

-----------------------------------------------------------------------------
(* btlock_wait and btlock_wake *)

\* Variant: futex_wait does not look at the value.
SleepUnchecked(p) ==
    /\ pc[p] \in DOMAIN WaitsFor /\ wait[p] = "no"
    /\ wait' = [wait EXCEPT ![p] = "asleep"]
    /\ UNCHANGED <<flags, reader, scan, child, pc, locked>>

(* futex_wait(&lock->locked,-1) *)
Sleep(p) ==
    /\ pc[p] \in DOMAIN WaitsFor /\ wait[p] = "no"
    /\ wait' = [wait EXCEPT ![p] = IF locked[WaitsFor[pc[p]]] = -1
                                   THEN "asleep" ELSE "reset"]
    /\ UNCHANGED <<flags, reader, scan, child, pc, locked>>

(* atomic_set(&lock->locked,-1) *)
Reset(p) ==
    /\ wait[p] = "reset"
    /\ locked' = [locked EXCEPT ![WaitsFor[pc[p]]] = -1]
    /\ wait' = [wait EXCEPT ![p] = "no"]
    /\ pc' = [pc EXCEPT ![p] = After[pc[p]]]
    /\ UNCHANGED <<flags, reader, scan, child>>

(* atomic_inc; only the first one after a reset calls futex_wake. *)
Wake(p) ==
    /\ pc[p] \in DOMAIN Wakes /\ wait[p] = "no"
    /\ IF locked[Wakes[pc[p]]] = -1
       THEN /\ locked' = [locked EXCEPT ![Wakes[pc[p]]] = 0]
            /\ wait' = [wait EXCEPT ![p] = "futex"]
            /\ UNCHANGED pc
       ELSE /\ pc' = [pc EXCEPT ![p] = After[pc[p]]]
            /\ UNCHANGED sync
    /\ UNCHANGED <<flags, reader, scan, child>>

FutexWake(p) ==
    /\ wait[p] = "futex"
    /\ LET sleepers == {q \in Threads : /\ wait[q] = "asleep"
                                        /\ WaitsFor[pc[q]] = Wakes[pc[p]]}
           others == [wait EXCEPT ![p] = "no"]
       IN  \/ sleepers = {} /\ wait' = others
           \/ \E q \in sleepers : wait' = [others EXCEPT ![q] = "reset"]
    /\ pc' = [pc EXCEPT ![p] = After[pc[p]]]
    /\ UNCHANGED <<flags, reader, scan, child, locked>>

-----------------------------------------------------------------------------
(* ++live_child and --live_child are a load and a store. *)

LoadChild(p, from, to) ==
    /\ Goto(p, from, to)
    /\ tmp' = [tmp EXCEPT ![p] = live_child]

StoreChild(p, delta) == live_child' = tmp[p] + delta

-----------------------------------------------------------------------------
(* The table reader *)

\* Variant: one table too many is read ahead.
CheckFullLate ==
    /\ Goto("reader", "check",
            IF prereaded > MAX_INODE_TABLE_PREREADED
            THEN "trf_wait" ELSE "read")
    /\ UNCHANGED <<flags, reader, scan, child, sync>>

CheckFull ==
    /\ Goto("reader", "check",
            IF prereaded = MAX_INODE_TABLE_PREREADED
            THEN "trf_wait" ELSE "read")
    /\ UNCHANGED <<flags, reader, scan, child, sync>>

SlotOf(g) == g % INODE_TABLE_ROUNDROUBIN

ReadTable ==
    /\ Goto("reader", "read", "fill")
    /\ slot' = [slot EXCEPT ![SlotOf(table_reader_group)] = Torn]
    /\ UNCHANGED <<flags, table_reader_group, prereaded, scan, child, sync>>

(* A group without the flag leaves the slot as the allocation map left it. *)
TableRead ==
    /\ Goto("reader", "fill", "inc")
    /\ slot' = IF table_reader_group \in Uninitialized THEN slot
               ELSE [slot EXCEPT ![SlotOf(table_reader_group)] =
                                    table_reader_group]
    /\ UNCHANGED <<flags, table_reader_group, prereaded, scan, child, sync>>

CountTable ==
    /\ Goto("reader", "inc", "publish")
    /\ prereaded' = prereaded + 1
    /\ UNCHANGED <<flags, table_reader_group, slot, scan, child, sync>>

\* Variant: the main thread is not woken.
PublishSilently ==
    /\ Goto("reader", "publish", "next")
    /\ table_reader_group' = table_reader_group + 1
    /\ UNCHANGED <<flags, prereaded, slot, scan, child, sync>>

(* Between the two: the clusters of the tables are marked. *)
Publish ==
    /\ Goto("reader", "publish", "tre_wake")
    /\ table_reader_group' = table_reader_group + 1
    /\ UNCHANGED <<flags, prereaded, slot, scan, child, sync>>

NextTable ==
    /\ Goto("reader", "next",
            IF table_reader_group < num_groups THEN "check" ELSE "quit")
    /\ UNCHANGED <<flags, reader, scan, child, sync>>

Quit ==
    /\ LoadChild("reader", "quit", "quitting")
    /\ UNCHANGED <<flags, reader, scan, live_child, started, ended, sync>>

Quitting ==
    /\ Goto("reader", "quitting", "gone")
    /\ StoreChild("reader", -1)
    /\ UNCHANGED <<flags, reader, scan, started, ended, tmp, sync>>

Reader == CheckFull \/ ReadTable \/ TableRead \/ CountTable \/ Publish
          \/ NextTable \/ Quit \/ Quitting

-----------------------------------------------------------------------------
(* The main thread *)

CreateReader ==
    /\ pc["main"] = "create"
    /\ pc' = [pc EXCEPT !["main"] = "count", !["reader"] = "check"]
    /\ UNCHANGED <<flags, reader, scan, child, sync>>

CreateFails ==
    /\ Goto("main", "create", "loop")
    /\ allow_concurrent_table_reader' = FALSE
    /\ UNCHANGED <<exit_request_com_cache_thread, reader, scan, child, sync>>

CountReader ==
    /\ LoadChild("main", "count", "counted")
    /\ UNCHANGED <<flags, reader, scan, live_child, started, ended, sync>>

ReaderCounted ==
    /\ Goto("main", "counted", "loop")
    /\ StoreChild("main", 1)
    /\ UNCHANGED <<flags, reader, scan, started, ended, tmp, sync>>

Loop ==
    /\ Goto("main", "loop",
            IF inodes_done >= num_groups THEN "finish"
            ELSE IF allow_concurrent_table_reader THEN "poll" ELSE "readnow")
    /\ UNCHANGED <<flags, reader, scan, child, sync>>

Poll ==
    /\ Goto("main", "poll",
            IF table_reader_group = group THEN "tre_wait" ELSE "inodes")
    /\ UNCHANGED <<flags, reader, scan, child, sync>>

(* read_table_for_one_group in the main thread: there is one slot. *)
ReadNow ==
    /\ Goto("main", "readnow", "inodes")
    /\ slot' = IF table_reader_group \in Uninitialized THEN slot
               ELSE [slot EXCEPT ![0] = table_reader_group]
    /\ prereaded' = prereaded + 1
    /\ table_reader_group' = table_reader_group + 1
    /\ UNCHANGED <<flags, scan, child, sync>>

(* try_clone, and the loop over the threads: a worker is started, or an    *)
(* ended one is reaped (module JobPool), while the main thread waits for a *)
(* group, while it checks one, and at the end.                             *)
StartWorker ==
    /\ started < MaxWorkers
    /\ \E from \in {"poll", "inodes"} : LoadChild("main", from, "starting")
    /\ UNCHANGED <<flags, reader, scan, live_child, started, ended, sync>>

WorkerStarted ==
    /\ Goto("main", "starting", "poll")
    /\ StoreChild("main", 1)
    /\ started' = started + 1
    /\ UNCHANGED <<flags, reader, scan, ended, tmp, sync>>

ReapWorker ==
    /\ ended < started
    /\ \E from \in {"poll", "inodes", "finish"} :
          LoadChild("main", from, "ending")
    /\ UNCHANGED <<flags, reader, scan, live_child, started, ended, sync>>

WorkerReaped ==
    /\ Goto("main", "ending",
            IF inodes_done < num_groups THEN "poll" ELSE "finish")
    /\ StoreChild("main", -1)
    /\ ended' = ended + 1
    /\ UNCHANGED <<flags, reader, scan, started, tmp, sync>>

(* check_inode for the inodes of the group, if its table is initialized;   *)
(* the number of the inode, not that of the group, tells where it is.      *)
CheckInodes ==
    /\ Goto("main", "inodes", "done")
    /\ inodes_done' = IF group \in Uninitialized THEN inodes_done
                      ELSE inodes_done + 1
    /\ UNCHANGED <<flags, reader, group, child, sync>>

GroupDone ==
    /\ Goto("main", "done", IfReader("trf_wake"))
    /\ group' = group + 1
    /\ prereaded' = prereaded - 1
    /\ UNCHANGED <<flags, table_reader_group, slot, inodes_done, child, sync>>

(* No worker is left: assert(!live_child). *)
Finish ==
    /\ ended = started
    /\ Goto("main", "finish", "assert")
    /\ UNCHANGED <<flags, reader, scan, child, sync>>

-----------------------------------------------------------------------------
(* shutdown_com_cache_thread, and the com cache thread *)

\* Variant: the lock is not reset first.
ShutdownUnreset ==
    /\ Goto("main", "assert", "exit")
    /\ UNCHANGED <<flags, reader, scan, child, sync>>

Shutdown ==
    /\ Goto("main", "assert", IfReader("reset_wait"))
    /\ UNCHANGED <<flags, reader, scan, child, sync>>

RequestExit ==
    /\ Goto("main", "exit", "cct_wake")
    /\ exit_request_com_cache_thread' = TRUE
    /\ UNCHANGED <<allow_concurrent_table_reader, reader, scan, child, sync>>

AwaitExit ==
    /\ Goto("main", "handed", IfReader("exit_wait"))
    /\ UNCHANGED <<flags, reader, scan, child, sync>>

(* assert(!exit_request_com_cache_thread) *)
Exited ==
    /\ Goto("main", "exited", "end")
    /\ UNCHANGED <<flags, reader, scan, child, sync>>

(* com_cache_work has written something, or not. *)
CctWork ==
    /\ \/ Goto("cct", "work", "again")
       \/ ~exit_request_com_cache_thread /\ Goto("cct", "work", "cct_wait")
    /\ UNCHANGED <<flags, reader, scan, child, sync>>

CctAgain ==
    /\ ~exit_request_com_cache_thread
    /\ Goto("cct", "again", "work")
    /\ UNCHANGED <<flags, reader, scan, child, sync>>

CctExit ==
    /\ exit_request_com_cache_thread
    /\ Goto("cct", "again", IfReader("exit_wake"))
    /\ exit_request_com_cache_thread' = FALSE
    /\ UNCHANGED <<allow_concurrent_table_reader, reader, scan, child, sync>>

-----------------------------------------------------------------------------
Main ==
    \/ CreateReader \/ CreateFails \/ CountReader \/ ReaderCounted
    \/ Loop \/ Poll \/ ReadNow \/ CheckInodes \/ GroupDone
    \/ StartWorker \/ WorkerStarted \/ ReapWorker \/ WorkerReaped
    \/ Finish \/ Shutdown \/ RequestExit \/ AwaitExit \/ Exited

CacheThread == CctWork \/ CctAgain \/ CctExit

Btlock(p) == Sleep(p) \/ Reset(p) \/ Wake(p) \/ FutexWake(p)

Next == Main \/ Reader \/ CacheThread \/ \E p \in Threads : Btlock(p)

(* The three are threads of one process: each that can run is scheduled.   *)
Fairness ==
    /\ WF_vars(Main \/ Btlock("main"))
    /\ WF_vars(Reader \/ Btlock("reader"))
    /\ WF_vars(CacheThread \/ Btlock("cct"))

Spec == Init /\ [][Next]_vars /\ Fairness

-----------------------------------------------------------------------------
TypeOK ==
    /\ allow_concurrent_table_reader \in BOOLEAN
    /\ table_reader_group \in Nat /\ prereaded \in Nat
    /\ slot \in [0..(INODE_TABLE_ROUNDROUBIN - 1) -> Nat \cup {Torn}]
    /\ group \in Nat /\ inodes_done \in 0..num_groups
    /\ live_child \in Int /\ started \in 0..MaxWorkers /\ ended \in 0..started
    /\ exit_request_com_cache_thread \in BOOLEAN
    /\ pc \in [Threads -> Labels]
    /\ tmp \in [Threads -> Int]
    /\ locked \in [Locks -> {-1, 0}]
    /\ wait \in [Threads -> {"no", "asleep", "reset", "futex"}]

(* While the main thread checks the inodes of a group, the ring holds the  *)
(* whole table of that group in the slot check_inode looks in: the reader  *)
(* never overtakes it by a lap.                                            *)
TableIsThere ==
    LET home == IF allow_concurrent_table_reader THEN SlotOf(inodes_done) ELSE 0
    IN  /\ pc["main"] \in {"inodes", "starting", "ending"}
        /\ group < table_reader_group
        => slot[home] = group

(* Nobody sleeps for something that has happened, unless the one that made *)
(* it happen is about to wake the sleeper.                                 *)
Asleep(p, l) == pc[p] = l /\ wait[p] = "asleep"

NoLostWake ==
    /\ Asleep("reader", "trf_wait") /\ prereaded < MAX_INODE_TABLE_PREREADED
          => pc["main"] = "trf_wake"
    /\ Asleep("main", "tre_wait") /\ table_reader_group > group
          => pc["reader"] = "tre_wake"
    /\ Asleep("cct", "cct_wait") /\ exit_request_com_cache_thread
          => pc["main"] = "cct_wake"
    /\ Asleep("main", "exit_wait") /\ ~exit_request_com_cache_thread
          => pc["cct"] = "exit_wake"

(* With the table reader, shutdown_com_cache_thread finds its lock "in the *)
(* waked state", and returns only after the thread has left its work.      *)
HandshakeWorks ==
    allow_concurrent_table_reader =>
       /\ pc["main"] = "reset_wait" => ~(wait["main"] = "asleep")
       /\ pc["main"] \in {"exited", "end"} =>
             /\ ~exit_request_com_cache_thread
             /\ pc["cct"] \in {"exit_wake", "gone"}

(* The scan gets to its end: neither thread waits for the other for ever.  *)
Terminates == <>(pc["main"] = "end")

(* assert(!exit_request_com_cache_thread) in shutdown_com_cache_thread.    *)
ShutdownAssertion == pc["main"] = "exited" => ~exit_request_com_cache_thread

(* assert(!live_child) behind the loop that waits for the workers.         *)
NoChildLeft == pc["main"] = "assert" => live_child = 0

(* The inodes and the groups end together, as fsck.c asserts of their      *)
(* numbers: no group is asked for after the last one.                      *)
GroupsEndWithInodes ==
    pc["main"] \in {"poll", "readnow", "inodes"} => group < num_groups

-----------------------------------------------------------------------------
(* Why the invariants above hold.  Where each thread can be: without the   *)
(* reader, the labels that only it or the macros lead to are not reached.  *)
Ending == {"finish", "assert", "reset_wait", "exit", "cct_wake", "handed",
           "exit_wait", "exited", "end"}
Leaving == {"cct_wake", "handed", "exit_wait", "exited", "end"}
MainLabels == {"create", "count", "counted", "loop", "poll", "tre_wait",
               "readnow", "inodes", "starting", "ending", "done",
               "trf_wake"} \cup Ending
Filling == {"check", "trf_wait", "read", "fill", "inc", "publish"}
ReaderLabels == Filling \cup {"off", "tre_wake", "next", "quit", "quitting",
                              "gone"}
CctLabels == {"work", "again", "cct_wait", "exit_wake", "gone"}

Places ==
    /\ pc["main"] \in MainLabels /\ pc["reader"] \in ReaderLabels
    /\ pc["cct"] \in CctLabels
    /\ \A p \in Threads :
          /\ wait[p] \in {"asleep", "reset"} => pc[p] \in DOMAIN WaitsFor
          /\ wait[p] = "futex" => pc[p] \in DOMAIN Wakes
    /\ IF allow_concurrent_table_reader
       THEN /\ pc["main"] # "readnow"
            /\ pc["main"] = "create" <=> pc["reader"] = "off"
       ELSE /\ pc["main"] \notin {"create", "count", "counted", "tre_wait",
                                  "trf_wake", "reset_wait", "exit_wait"}
            /\ pc["reader"] = "off" /\ pc["cct"] # "exit_wake"

(* How far the two are: prereaded counts the tables the main thread has    *)
(* not done with, and the one the reader is about to publish.              *)
At(p, l) == IF pc[p] = l THEN 1 ELSE 0

Counts ==
    /\ prereaded + group = table_reader_group + At("reader", "publish")
    /\ group <= table_reader_group
    /\ pc["main"] \in {"inodes", "done"} => group < table_reader_group
    /\ inodes_done <= group + At("main", "done")
    /\ pc["main"] \in {"poll", "readnow", "inodes", "starting", "tre_wait"}
          => inodes_done < num_groups
    /\ pc["main"] \in Ending => inodes_done = num_groups
    /\ pc["main"] = "ending" => ended < started
    /\ pc["main"] = "starting" => started < MaxWorkers
    /\ pc["main"] \in {"create", "count", "counted"} => inodes_done < num_groups
    /\ pc["main"] = "create" => table_reader_group = 0
    /\ IF allow_concurrent_table_reader
       THEN /\ prereaded <= MAX_INODE_TABLE_PREREADED
            /\ pc["reader"] \in {"read", "fill", "inc"}
                  => prereaded < MAX_INODE_TABLE_PREREADED
            /\ table_reader_group <= num_groups
            /\ pc["reader"] \in Filling => table_reader_group < num_groups
       ELSE table_reader_group =
               IF \/ pc["main"] \in {"poll", "inodes", "starting", "done"}
                  \/ pc["main"] = "ending" /\ inodes_done < num_groups
               THEN group + 1 ELSE group

(* If every table is initialized, the slots hold the tables of the groups  *)
(* from the one the main thread is at to the last one that was read.       *)
Ring ==
    /\ inodes_done = group + At("main", "done")
    /\ \A g \in group..table_reader_group :
          \/ g < table_reader_group
          \/ pc["reader"] \in {"inc", "publish"}
          => slot[IF allow_concurrent_table_reader THEN SlotOf(g) ELSE 0] = g

(* A thread at a wait for what is not there yet, or has been woken, or is  *)
(* about to be.                                                            *)
Missed(p, l, there, q, k) ==
    pc[p] = l =>
       /\ wait[p] = "no" =>
             \/ ~there
             \/ locked[WaitsFor[l]] = 0
             \/ pc[q] = k /\ wait[q] = "no"
       /\ wait[p] = "asleep" =>
             \/ /\ locked[WaitsFor[l]] = -1
                /\ ~there \/ (pc[q] = k /\ wait[q] = "no")
             \/ pc[q] = k /\ wait[q] = "futex"

NothingMissed ==
    /\ Missed("reader", "trf_wait", prereaded < MAX_INODE_TABLE_PREREADED,
              "main", "trf_wake")
    /\ Missed("main", "tre_wait", group < table_reader_group,
              "reader", "tre_wake")
    /\ Missed("cct", "cct_wait", exit_request_com_cache_thread,
              "main", "cct_wake")
    /\ Missed("main", "exit_wait", ~exit_request_com_cache_thread,
              "cct", "exit_wake")

(* The last wake of table_reader_full by the main thread is still there at *)
(* reset_wait; after that only the com cache thread wakes that lock.       *)
Handshake ==
    /\ exit_request_com_cache_thread => pc["main"] \in Leaving
    /\ pc["cct"] \in {"exit_wake", "gone"} =>
          ~exit_request_com_cache_thread /\ pc["main"] \in Leaving
    /\ allow_concurrent_table_reader =>
          /\ /\ inodes_done = num_groups
             /\ \/ pc["main"] \in {"loop", "ending", "finish", "assert",
                                    "reset_wait"}
                \/ pc["main"] = "trf_wake" /\ wait["main"] = "futex"
             => locked["full"] = 0
          /\ pc["main"] = "reset_wait" => wait["main"] # "asleep"
          /\ \/ pc["main"] \in {"exit", "cct_wake", "handed", "exit_wait"}
                /\ locked["full"] = 0
             \/ pc["main"] = "exit_wait" /\ wait["main"] = "reset"
             \/ pc["main"] \in {"exited", "end"}
             => pc["cct"] \in {"exit_wake", "gone"}
          /\ pc["main"] \in {"cct_wake", "handed"} =>
                \/ exit_request_com_cache_thread
                \/ locked["full"] = 0
                \/ pc["cct"] = "exit_wake" /\ wait["cct"] = "no"

IInv == TypeOK /\ Places /\ Counts /\ NothingMissed /\ Handshake
RingInv == Uninitialized = {} => IInv /\ Ring
=============================================================================
