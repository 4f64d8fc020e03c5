------------------------------- MODULE BtLock -------------------------------
(***************************************************************************)
(* btlib/btlock.c, the futex implementation of btlock_lock and             *)
(* btlock_unlock: one lock, any number of threads, one step per access to  *)
(* the memory the threads share and per system call.                       *)
(*                                                                         *)
(* locked is -1 (free) or 0 (held); num_waiters counts the threads inside  *)
(* btlock_lock, from its first to its last but one instruction.  The       *)
(* kernel's futex queue is the set of the threads that are "asleep".       *)
(*                                                                         *)
(* A definition introduced as a Variant is a mistake this code could have  *)
(* made: a property is checked to notice it.                               *)
(***************************************************************************)
EXTENDS Integers, FiniteSets

CONSTANTS Threads,   \* the threads that share the lock
          NoTid      \* the value 0 of lock->tid

ASSUME ThreadsAssumption == IsFiniteSet(Threads) /\ NoTid \notin Threads

VARIABLES locked, num_waiters, tid,
          pc         \* pc[t]: the next instruction of thread t

vars == <<locked, num_waiters, tid, pc>>

(***************************************************************************)
(* idle    outside of the two functions, not holding the lock              *)
(* try     btlock_lock, before the atomic_cmpxchg                          *)
(* wait    btlock_lock, before futex_wait                                  *)
(* asleep  in the kernel, in futex_wait                                    *)
(* got     btlock_lock, the cmpxchg succeeded                              *)
(* stamp   btlock_lock, before the store to tid                            *)
(* cs      btlock_lock has returned: the thread owns the lock              *)
(* rel     btlock_unlock, tid is cleared                                   *)
(* chk     btlock_unlock, the lock is released                             *)
(* wake    btlock_unlock, num_waiters was not 0                            *)
(***************************************************************************)
Labels == {"idle", "try", "wait", "asleep", "got", "stamp", "cs", "rel",
           "chk", "wake"}

Counted == {"try", "wait", "asleep", "got"}
Holding == {"got", "stamp", "cs", "rel"}

Goto(t, from, to) == /\ pc[t] = from
                     /\ pc' = [pc EXCEPT ![t] = to]

Init ==
    /\ locked = -1
    /\ num_waiters = 0
    /\ tid = NoTid
    /\ pc = [t \in Threads |-> "idle"]

-----------------------------------------------------------------------------
(* btlock_lock *)

Lock(t) ==
    /\ Goto(t, "idle", "try")
    /\ num_waiters' = num_waiters + 1
    /\ UNCHANGED <<locked, tid>>

\* Variant: the exchange stores without comparing.
TryTakeBlind(t) ==
    /\ Goto(t, "try", "got")
    /\ locked' = 0
    /\ UNCHANGED <<num_waiters, tid>>

TryTake(t) ==
    /\ locked = -1
    /\ Goto(t, "try", "got")
    /\ locked' = 0
    /\ UNCHANGED <<num_waiters, tid>>

TryFails(t) ==
    /\ locked # -1
    /\ Goto(t, "try", "wait")
    /\ UNCHANGED <<locked, num_waiters, tid>>

\* Variant: the value is compared before the thread is queued, not with it.
FutexWaitUnchecked(t) ==
    /\ Goto(t, "wait", "asleep")
    /\ UNCHANGED <<locked, num_waiters, tid>>

(* The kernel compares and queues in one step. *)
FutexWait(t) ==
    /\ locked = 0
    /\ Goto(t, "wait", "asleep")
    /\ UNCHANGED <<locked, num_waiters, tid>>

FutexAgain(t) ==
    /\ locked # 0
    /\ Goto(t, "wait", "try")
    /\ UNCHANGED <<locked, num_waiters, tid>>

(* futex_wait may return on a signal; its result is not looked at. *)
FutexInterrupted(t) ==
    /\ Goto(t, "asleep", "try")
    /\ UNCHANGED <<locked, num_waiters, tid>>

StopCounting(t) ==
    /\ Goto(t, "got", "stamp")
    /\ num_waiters' = num_waiters - 1
    /\ UNCHANGED <<locked, tid>>

Stamp(t) ==
    /\ Goto(t, "stamp", "cs")
    /\ tid' = t
    /\ UNCHANGED <<locked, num_waiters>>

-----------------------------------------------------------------------------
(* btlock_unlock *)

Unlock(t) ==
    /\ Goto(t, "cs", "rel")
    /\ tid' = NoTid
    /\ UNCHANGED <<locked, num_waiters>>

(* atomic_cmpxchg(&lock->locked,0,-1): nothing is stored if it is not 0. *)
Release(t) ==
    /\ Goto(t, "rel", "chk")
    /\ locked' = IF locked = 0 THEN -1 ELSE locked
    /\ UNCHANGED <<num_waiters, tid>>

\* Variant: the last waiter is taken for the unlocking thread itself.
CheckWaitersOffByOne(t) ==
    /\ Goto(t, "chk", IF num_waiters <= 1 THEN "idle" ELSE "wake")
    /\ UNCHANGED <<locked, num_waiters, tid>>

CheckWaiters(t) ==
    /\ Goto(t, "chk", IF num_waiters = 0 THEN "idle" ELSE "wake")
    /\ UNCHANGED <<locked, num_waiters, tid>>

(* futex_wake(&lock->locked,1): any one of the sleepers, if there is one. *)
FutexWake(t) ==
    /\ pc[t] = "wake"
    /\ LET sleepers == {u \in Threads : pc[u] = "asleep"}
       IN  \/ /\ sleepers = {}
              /\ pc' = [pc EXCEPT ![t] = "idle"]
           \/ \E u \in sleepers :
                 pc' = [pc EXCEPT ![t] = "idle", ![u] = "try"]
    /\ UNCHANGED <<locked, num_waiters, tid>>

-----------------------------------------------------------------------------
\* Variant: the owner hands the lock on and unlocks it, too.
PassCopies(t, u) ==
    /\ pc[t] = "cs"
    /\ pc[u] = "idle"
    /\ pc' = [pc EXCEPT ![u] = "cs"]
    /\ UNCHANGED <<locked, num_waiters, tid>>

(* The owner leaves the lock to another thread, which will unlock it: a    *)
(* queued job travels like that from the main thread to a worker.          *)
Pass(t, u) ==
    /\ pc[t] = "cs"
    /\ pc[u] = "idle"
    /\ pc' = [pc EXCEPT ![t] = "idle", ![u] = "cs"]
    /\ UNCHANGED <<locked, num_waiters, tid>>

(* What a thread does on its own once it has called one of the functions. *)
Run(t) ==
    \/ TryTake(t) \/ TryFails(t) \/ FutexWait(t) \/ FutexAgain(t)
    \/ StopCounting(t) \/ Stamp(t)
    \/ Release(t) \/ CheckWaiters(t) \/ FutexWake(t)

Next ==
    \/ \E t \in Threads : Lock(t) \/ Unlock(t) \/ FutexInterrupted(t) \/ Run(t)
    \/ \E t, u \in Threads : Pass(t, u)

(***************************************************************************)
(* A running thread is scheduled; nobody has to call a function, to give   *)
(* the lock back or to be interrupted by a signal.                         *)
(***************************************************************************)
Fairness == \A t \in Threads : WF_vars(Run(t))

Spec == Init /\ [][Next]_vars /\ Fairness

-----------------------------------------------------------------------------
TypeOK ==
    /\ locked \in {-1, 0}
    /\ num_waiters \in Nat
    /\ tid \in Threads \cup {NoTid}
    /\ pc \in [Threads -> Labels]

(* At most one thread is past its cmpxchg in btlock_lock and before the    *)
(* one in btlock_unlock, whichever thread took the lock first.             *)
MutualExclusion ==
    \A t, u \in Threads : pc[t] \in Holding /\ pc[u] \in Holding => t = u

(* The assertion of btlock_unlock: the lock it gives back was held.        *)
UnlockAssertion ==
    \A t \in Threads : pc[t] = "rel" => locked = 0

(* While the lock is free a thread only sleeps on it if somebody is still  *)
(* going to try the lock or to wake a sleeper: no wake-up is lost between  *)
(* a waiter's failed cmpxchg and the unlocker's look at num_waiters.       *)
NoStrandedWaiter ==
    locked = -1 /\ (\E t \in Threads : pc[t] = "asleep")
       => \E u \in Threads : pc[u] \in {"try", "wait", "chk", "wake"}

(* The lock implements the promise of btlock.h, including that a free      *)
(* lock somebody wants is eventually taken.                                *)
PhaseOf(l) == CASE l \in {"try", "wait", "asleep"} -> "want"
                [] l \in Holding -> "hold"
                [] OTHER -> "idle"

Abstract == INSTANCE Mutex WITH phase <- [t \in Threads |-> PhaseOf(pc[t])]

ImplementsMutex == Abstract!Spec

-----------------------------------------------------------------------------
(* What the proofs need besides: the inductive strengthening. *)

(* num_waiters is the number of the threads inside btlock_lock. *)
WaitersCounted ==
    num_waiters = Cardinality({t \in Threads : pc[t] \in Counted})

(* locked says whether some thread holds the lock. *)
LockedIffHeld == locked = 0 <=> \E t \in Threads : pc[t] \in Holding

IInv == TypeOK /\ WaitersCounted /\ LockedIffHeld /\ MutualExclusion
        /\ NoStrandedWaiter
=============================================================================
