---------------------------- MODULE BtLockProofs ----------------------------
(***************************************************************************)
(* Proofs about BtLock for any finite set of threads.                      *)
(***************************************************************************)
EXTENDS BtLock, FiniteSetTheorems, TLAPS

(***************************************************************************)
(* Counting: how num_waiters follows the threads inside btlock_lock.       *)
(***************************************************************************)

(* The threads that num_waiters stands for are finitely many. *)
LEMMA CountedFinite ==
  ASSUME NEW f
  PROVE  LET S == {t \in Threads : f[t] \in Counted}
         IN  IsFiniteSet(S) /\ Cardinality(S) \in Nat
<1> DEFINE S == {t \in Threads : f[t] \in Counted}
<1>1. IsFiniteSet(Threads)
  BY ThreadsAssumption
<1>2. S \in SUBSET Threads
  OBVIOUS
<1>3. IsFiniteSet(S)
  BY <1>1, <1>2, FS_Subset
<1>4. QED
  BY <1>3, FS_CardinalityType

(* A thread that starts to be counted adds one. *)
LEMMA CountEnter ==
  ASSUME NEW f, NEW g, NEW t \in Threads,
         f[t] \notin Counted, g[t] \in Counted,
         \A u \in Threads \ {t} : g[u] = f[u]
  PROVE  Cardinality({u \in Threads : g[u] \in Counted})
           = Cardinality({u \in Threads : f[u] \in Counted}) + 1
<1> DEFINE S == {u \in Threads : f[u] \in Counted}
           T == {u \in Threads : g[u] \in Counted}
<1>1. T = S \cup {t} /\ t \notin S
  OBVIOUS
<1>2. IsFiniteSet(S)
  BY CountedFinite
<1>3. QED
  BY <1>1, <1>2, FS_AddElement

(* A thread that stops to be counted takes one away. *)
LEMMA CountLeave ==
  ASSUME NEW f, NEW g, NEW t \in Threads,
         f[t] \in Counted, g[t] \notin Counted,
         \A u \in Threads \ {t} : g[u] = f[u]
  PROVE  Cardinality({u \in Threads : g[u] \in Counted})
           = Cardinality({u \in Threads : f[u] \in Counted}) - 1
<1> DEFINE S == {u \in Threads : f[u] \in Counted}
           T == {u \in Threads : g[u] \in Counted}
<1>1. T = S \ {t} /\ t \in S
  OBVIOUS
<1>2. IsFiniteSet(S)
  BY CountedFinite
<1>3. QED
  BY <1>1, <1>2, FS_RemoveElement

(* Nothing is counted differently when every thread stays on its side. *)
LEMMA CountSame ==
  ASSUME NEW f, NEW g,
         \A u \in Threads : g[u] \in Counted <=> f[u] \in Counted
  PROVE  Cardinality({u \in Threads : g[u] \in Counted})
           = Cardinality({u \in Threads : f[u] \in Counted})
<1>1. {u \in Threads : g[u] \in Counted} = {u \in Threads : f[u] \in Counted}
  OBVIOUS
<1>2. QED
  BY <1>1

(* A sleeper is counted, so num_waiters is not 0 while somebody sleeps. *)
LEMMA SleeperCounted ==
  ASSUME WaitersCounted, NEW t \in Threads, pc[t] \in Counted
  PROVE  num_waiters \in Nat \ {0}
<1> DEFINE S == {u \in Threads : pc[u] \in Counted}
<1>1. t \in S
  OBVIOUS
<1>2. IsFiniteSet(S) /\ Cardinality(S) \in Nat
  BY CountedFinite
<1>3. Cardinality(S) # 0
  BY <1>1, <1>2, FS_EmptySet
<1>4. QED
  BY <1>2, <1>3 DEF WaitersCounted

-----------------------------------------------------------------------------

(* In the state a lock is created in, every part of the invariant holds. *)
LEMMA InitIInv == Init => IInv
<1> SUFFICES ASSUME Init
             PROVE  IInv
  OBVIOUS
<1> USE DEF Init
<1>1. TypeOK
  BY DEF TypeOK, Labels
<1>2. WaitersCounted
  <2>1. {t \in Threads : pc[t] \in Counted} = {}
    BY DEF Counted
  <2>2. QED
    BY <2>1, FS_EmptySet DEF WaitersCounted
<1>3. LockedIffHeld /\ MutualExclusion /\ NoStrandedWaiter
  BY DEF LockedIffHeld, MutualExclusion, NoStrandedWaiter, Holding
<1>4. QED
  BY <1>1, <1>2, <1>3 DEF IInv

(***************************************************************************)
(* Every step keeps the invariant: one step of the proof per action, one   *)
(* step below it per part of the invariant.                                *)
(***************************************************************************)
LEMMA NextIInv == IInv /\ [Next]_vars => IInv'
<1> SUFFICES ASSUME IInv, [Next]_vars
             PROVE  IInv'
  OBVIOUS
<1> USE DEF IInv, TypeOK, Labels, Goto, Counted, Holding
<1>1. ASSUME NEW t \in Threads, Lock(t)
       PROVE  IInv'
  <2>1. TypeOK'
    BY <1>1 DEF Lock
  <2>2. WaitersCounted'
    <3>1. /\ pc[t] \notin Counted
          /\ pc'[t] \in Counted
          /\ \A u \in Threads \ {t} : pc'[u] = pc[u]
      BY <1>1 DEF Lock
    <3>2. num_waiters' = num_waiters + 1
      BY <1>1 DEF Lock
    <3>3. QED
      BY <3>1, <3>2, CountEnter DEF WaitersCounted
  <2>3. LockedIffHeld'
    BY <1>1 DEF Lock, LockedIffHeld, MutualExclusion
  <2>4. MutualExclusion'
    BY <1>1 DEF Lock, LockedIffHeld, MutualExclusion
  <2>5. NoStrandedWaiter'
    BY <1>1 DEF Lock, NoStrandedWaiter
  <2>6. QED
    BY <2>1, <2>2, <2>3, <2>4, <2>5
<1>2. ASSUME NEW t \in Threads, TryTake(t)
       PROVE  IInv'
  <2>1. TypeOK'
    BY <1>2 DEF TryTake
  <2>2. WaitersCounted'
    <3>1. \A u \in Threads : pc'[u] \in Counted <=> pc[u] \in Counted
      BY <1>2 DEF TryTake
    <3>2. num_waiters' = num_waiters
      BY <1>2 DEF TryTake
    <3>3. QED
      BY <3>1, <3>2, CountSame DEF WaitersCounted
  <2>3. LockedIffHeld'
    BY <1>2 DEF TryTake, LockedIffHeld, MutualExclusion
  <2>4. MutualExclusion'
    BY <1>2 DEF TryTake, LockedIffHeld, MutualExclusion
  <2>5. NoStrandedWaiter'
    BY <1>2 DEF TryTake, NoStrandedWaiter
  <2>6. QED
    BY <2>1, <2>2, <2>3, <2>4, <2>5
<1>3. ASSUME NEW t \in Threads, TryFails(t)
       PROVE  IInv'
  <2>1. TypeOK'
    BY <1>3 DEF TryFails
  <2>2. WaitersCounted'
    <3>1. \A u \in Threads : pc'[u] \in Counted <=> pc[u] \in Counted
      BY <1>3 DEF TryFails
    <3>2. num_waiters' = num_waiters
      BY <1>3 DEF TryFails
    <3>3. QED
      BY <3>1, <3>2, CountSame DEF WaitersCounted
  <2>3. LockedIffHeld'
    BY <1>3 DEF TryFails, LockedIffHeld, MutualExclusion
  <2>4. MutualExclusion'
    BY <1>3 DEF TryFails, LockedIffHeld, MutualExclusion
  <2>5. NoStrandedWaiter'
    BY <1>3 DEF TryFails, NoStrandedWaiter
  <2>6. QED
    BY <2>1, <2>2, <2>3, <2>4, <2>5
<1>4. ASSUME NEW t \in Threads, FutexWait(t)
       PROVE  IInv'
  <2>1. TypeOK'
    BY <1>4 DEF FutexWait
  <2>2. WaitersCounted'
    <3>1. \A u \in Threads : pc'[u] \in Counted <=> pc[u] \in Counted
      BY <1>4 DEF FutexWait
    <3>2. num_waiters' = num_waiters
      BY <1>4 DEF FutexWait
    <3>3. QED
      BY <3>1, <3>2, CountSame DEF WaitersCounted
  <2>3. LockedIffHeld'
    BY <1>4 DEF FutexWait, LockedIffHeld, MutualExclusion
  <2>4. MutualExclusion'
    BY <1>4 DEF FutexWait, LockedIffHeld, MutualExclusion
  <2>5. NoStrandedWaiter'
    BY <1>4 DEF FutexWait, NoStrandedWaiter
  <2>6. QED
    BY <2>1, <2>2, <2>3, <2>4, <2>5
<1>5. ASSUME NEW t \in Threads, FutexAgain(t)
       PROVE  IInv'
  <2>1. TypeOK'
    BY <1>5 DEF FutexAgain
  <2>2. WaitersCounted'
    <3>1. \A u \in Threads : pc'[u] \in Counted <=> pc[u] \in Counted
      BY <1>5 DEF FutexAgain
    <3>2. num_waiters' = num_waiters
      BY <1>5 DEF FutexAgain
    <3>3. QED
      BY <3>1, <3>2, CountSame DEF WaitersCounted
  <2>3. LockedIffHeld'
    BY <1>5 DEF FutexAgain, LockedIffHeld, MutualExclusion
  <2>4. MutualExclusion'
    BY <1>5 DEF FutexAgain, LockedIffHeld, MutualExclusion
  <2>5. NoStrandedWaiter'
    BY <1>5 DEF FutexAgain, NoStrandedWaiter
  <2>6. QED
    BY <2>1, <2>2, <2>3, <2>4, <2>5
<1>6. ASSUME NEW t \in Threads, FutexInterrupted(t)
       PROVE  IInv'
  <2>1. TypeOK'
    BY <1>6 DEF FutexInterrupted
  <2>2. WaitersCounted'
    <3>1. \A u \in Threads : pc'[u] \in Counted <=> pc[u] \in Counted
      BY <1>6 DEF FutexInterrupted
    <3>2. num_waiters' = num_waiters
      BY <1>6 DEF FutexInterrupted
    <3>3. QED
      BY <3>1, <3>2, CountSame DEF WaitersCounted
  <2>3. LockedIffHeld'
    BY <1>6 DEF FutexInterrupted, LockedIffHeld, MutualExclusion
  <2>4. MutualExclusion'
    BY <1>6 DEF FutexInterrupted, LockedIffHeld, MutualExclusion
  <2>5. NoStrandedWaiter'
    BY <1>6 DEF FutexInterrupted, NoStrandedWaiter
  <2>6. QED
    BY <2>1, <2>2, <2>3, <2>4, <2>5
<1>7. ASSUME NEW t \in Threads, StopCounting(t)
       PROVE  IInv'
  <2>0. num_waiters \in Nat \ {0}
    BY <1>7, SleeperCounted DEF StopCounting
  <2>1. TypeOK'
    BY <1>7, <2>0 DEF StopCounting
  <2>2. WaitersCounted'
    <3>1. /\ pc[t] \in Counted
          /\ pc'[t] \notin Counted
          /\ \A u \in Threads \ {t} : pc'[u] = pc[u]
      BY <1>7 DEF StopCounting
    <3>2. num_waiters' = num_waiters - 1
      BY <1>7 DEF StopCounting
    <3>3. QED
      BY <3>1, <3>2, CountLeave DEF WaitersCounted
  <2>3. LockedIffHeld'
    BY <1>7 DEF StopCounting, LockedIffHeld, MutualExclusion
  <2>4. MutualExclusion'
    BY <1>7 DEF StopCounting, LockedIffHeld, MutualExclusion
  <2>5. NoStrandedWaiter'
    BY <1>7 DEF StopCounting, NoStrandedWaiter
  <2>6. QED
    BY <2>1, <2>2, <2>3, <2>4, <2>5
<1>8. ASSUME NEW t \in Threads, Stamp(t)
       PROVE  IInv'
  <2>1. TypeOK'
    BY <1>8 DEF Stamp
  <2>2. WaitersCounted'
    <3>1. \A u \in Threads : pc'[u] \in Counted <=> pc[u] \in Counted
      BY <1>8 DEF Stamp
    <3>2. num_waiters' = num_waiters
      BY <1>8 DEF Stamp
    <3>3. QED
      BY <3>1, <3>2, CountSame DEF WaitersCounted
  <2>3. LockedIffHeld'
    BY <1>8 DEF Stamp, LockedIffHeld, MutualExclusion
  <2>4. MutualExclusion'
    BY <1>8 DEF Stamp, LockedIffHeld, MutualExclusion
  <2>5. NoStrandedWaiter'
    BY <1>8 DEF Stamp, NoStrandedWaiter
  <2>6. QED
    BY <2>1, <2>2, <2>3, <2>4, <2>5
<1>9. ASSUME NEW t \in Threads, Unlock(t)
       PROVE  IInv'
  <2>1. TypeOK'
    BY <1>9 DEF Unlock
  <2>2. WaitersCounted'
    <3>1. \A u \in Threads : pc'[u] \in Counted <=> pc[u] \in Counted
      BY <1>9 DEF Unlock
    <3>2. num_waiters' = num_waiters
      BY <1>9 DEF Unlock
    <3>3. QED
      BY <3>1, <3>2, CountSame DEF WaitersCounted
  <2>3. LockedIffHeld'
    BY <1>9 DEF Unlock, LockedIffHeld, MutualExclusion
  <2>4. MutualExclusion'
    BY <1>9 DEF Unlock, LockedIffHeld, MutualExclusion
  <2>5. NoStrandedWaiter'
    BY <1>9 DEF Unlock, NoStrandedWaiter
  <2>6. QED
    BY <2>1, <2>2, <2>3, <2>4, <2>5
<1>10. ASSUME NEW t \in Threads, Release(t)
       PROVE  IInv'
  <2>1. TypeOK'
    BY <1>10 DEF Release
  <2>2. WaitersCounted'
    <3>1. \A u \in Threads : pc'[u] \in Counted <=> pc[u] \in Counted
      BY <1>10 DEF Release
    <3>2. num_waiters' = num_waiters
      BY <1>10 DEF Release
    <3>3. QED
      BY <3>1, <3>2, CountSame DEF WaitersCounted
  <2>3. LockedIffHeld'
    BY <1>10 DEF Release, LockedIffHeld, MutualExclusion
  <2>4. MutualExclusion'
    BY <1>10 DEF Release, LockedIffHeld, MutualExclusion
  <2>5. NoStrandedWaiter'
    BY <1>10 DEF Release, NoStrandedWaiter
  <2>6. QED
    BY <2>1, <2>2, <2>3, <2>4, <2>5
<1>11. ASSUME NEW t \in Threads, CheckWaiters(t)
       PROVE  IInv'
  <2>1. TypeOK'
    BY <1>11 DEF CheckWaiters
  <2>2. WaitersCounted'
    <3>1. \A u \in Threads : pc'[u] \in Counted <=> pc[u] \in Counted
      BY <1>11 DEF CheckWaiters
    <3>2. num_waiters' = num_waiters
      BY <1>11 DEF CheckWaiters
    <3>3. QED
      BY <3>1, <3>2, CountSame DEF WaitersCounted
  <2>3. LockedIffHeld'
    BY <1>11 DEF CheckWaiters, LockedIffHeld, MutualExclusion
  <2>4. MutualExclusion'
    BY <1>11 DEF CheckWaiters, LockedIffHeld, MutualExclusion
  <2>5. NoStrandedWaiter'
    <3>1. CASE \E u \in Threads : pc[u] = "asleep"
      <4>1. num_waiters # 0
        BY <3>1, SleeperCounted
      <4>2. QED
        BY <1>11, <4>1 DEF CheckWaiters, NoStrandedWaiter
    <3>2. CASE ~ \E u \in Threads : pc[u] = "asleep"
      BY <1>11, <3>2 DEF CheckWaiters, NoStrandedWaiter
    <3>3. QED
      BY <3>1, <3>2
  <2>6. QED
    BY <2>1, <2>2, <2>3, <2>4, <2>5
<1>12. ASSUME NEW t \in Threads, FutexWake(t)
       PROVE  IInv'
  <2>1. /\ locked' = locked
        /\ num_waiters' = num_waiters
        /\ tid' = tid
    BY <1>12 DEF FutexWake
  <2>2. CASE /\ ~ \E u \in Threads : pc[u] = "asleep"
             /\ pc' = [pc EXCEPT ![t] = "idle"]
    <3>1. TypeOK'
      BY <1>12, <2>1, <2>2 DEF FutexWake
    <3>2. \A u \in Threads : pc'[u] \in Counted <=> pc[u] \in Counted
      BY <1>12, <2>2 DEF FutexWake
    <3>3. WaitersCounted'
      BY <2>1, <3>2, CountSame DEF WaitersCounted
    <3>4. LockedIffHeld' /\ MutualExclusion'
      BY <1>12, <2>1, <2>2 DEF FutexWake, LockedIffHeld, MutualExclusion
    <3>5. NoStrandedWaiter'
      BY <1>12, <2>1, <2>2 DEF FutexWake, NoStrandedWaiter
    <3>6. QED
      BY <3>1, <3>3, <3>4, <3>5
  <2>3. ASSUME NEW u \in Threads, pc[u] = "asleep",
               pc' = [pc EXCEPT ![t] = "idle", ![u] = "try"]
        PROVE  IInv'
    <3>0. pc[t] = "wake" /\ t # u
      BY <1>12, <2>3 DEF FutexWake
    <3>1. TypeOK'
      BY <2>1, <2>3
    <3>2. \A v \in Threads : pc'[v] \in Counted <=> pc[v] \in Counted
      BY <2>3, <3>0
    <3>3. WaitersCounted'
      BY <2>1, <3>2, CountSame DEF WaitersCounted
    <3>4. LockedIffHeld' /\ MutualExclusion'
      BY <2>1, <2>3, <3>0 DEF LockedIffHeld, MutualExclusion
    <3>5. NoStrandedWaiter'
      BY <2>3, <3>0 DEF NoStrandedWaiter
    <3>6. QED
      BY <3>1, <3>3, <3>4, <3>5
  <2>4. QED
    BY <1>12, <2>2, <2>3 DEF FutexWake
<1>13. ASSUME NEW t \in Threads, NEW u \in Threads, Pass(t, u)
       PROVE  IInv'
  <2>0. t # u
    BY <1>13 DEF Pass
  <2>1. TypeOK'
    BY <1>13 DEF Pass
  <2>2. \A v \in Threads : pc'[v] \in Counted <=> pc[v] \in Counted
    BY <1>13 DEF Pass
  <2>3. WaitersCounted'
    BY <1>13, <2>2, CountSame DEF Pass, WaitersCounted
  <2>4. LockedIffHeld' /\ MutualExclusion'
    BY <1>13, <2>0 DEF Pass, LockedIffHeld, MutualExclusion
  <2>5. NoStrandedWaiter'
    BY <1>13 DEF Pass, NoStrandedWaiter
  <2>6. QED
    BY <2>1, <2>3, <2>4, <2>5
<1>14. CASE UNCHANGED vars
  BY <1>14 DEF vars, WaitersCounted, LockedIffHeld, MutualExclusion,
               NoStrandedWaiter
<1>15. QED
  BY <1>1, <1>2, <1>3, <1>4, <1>5, <1>6, <1>7, <1>8, <1>9, <1>10, <1>11,
     <1>12, <1>13, <1>14
  DEF Next, Run

-----------------------------------------------------------------------------
(* The strengthened invariant holds in every reachable state of the lock. *)
THEOREM Invariant == Spec => []IInv
<1>1. QED
  BY InitIInv, NextIInv, PTL DEF Spec

(* The variables of btlock.c keep their types: in particular num_waiters   *)
(* never drops below 0, whatever the threads do.                           *)
THEOREM TypeCorrect == Spec => []TypeOK
<1>1. IInv => TypeOK
  BY DEF IInv
<1>2. QED
  BY <1>1, Invariant, PTL

(* btlock_lock and btlock_unlock enclose a critical section, for any       *)
(* number of threads and with locks that change their owner.               *)
THEOREM MutexSafe == Spec => []MutualExclusion
<1>1. IInv => MutualExclusion
  BY DEF IInv
<1>2. QED
  BY <1>1, Invariant, PTL

(* The assertion of btlock_unlock never fails. *)
THEOREM AssertionHolds == Spec => []UnlockAssertion
<1>1. IInv => UnlockAssertion
  BY DEF IInv, LockedIffHeld, UnlockAssertion, Holding
<1>2. QED
  BY <1>1, Invariant, PTL

(* No waiter is left asleep on a free lock without somebody on the way to  *)
(* it: the order "count, then compare" of btlock_lock against "release,    *)
(* then look at the count" of btlock_unlock loses no wake-up.              *)
THEOREM NoLostWakeup == Spec => []NoStrandedWaiter
<1>1. IInv => NoStrandedWaiter
  BY DEF IInv
<1>2. QED
  BY <1>1, Invariant, PTL

(***************************************************************************)
(* BtLock implements the safety part of Mutex: each step of the code is a  *)
(* step of the abstract lock or leaves it alone.                           *)
(***************************************************************************)
LEMMA InitMaps == Init => Abstract!Init
<1>1. PhaseOf("idle") = "idle"
  BY DEF PhaseOf, Holding
<1>2. QED
  BY <1>1 DEF Init, Abstract!Init

(* A step of the lock is a step of the abstract lock, or changes no phase. *)
LEMMA NextMaps == IInv /\ [Next]_vars => [Abstract!Next]_(Abstract!vars)
<1> DEFINE phase == [u \in Threads |-> PhaseOf(pc[u])]
<1> SUFFICES ASSUME IInv, [Next]_vars
             PROVE  Abstract!Next \/ phase' = phase
  BY DEF Abstract!vars
<1>0. TypeOK
  BY DEF IInv
<1>p. /\ \A l \in {"try", "wait", "asleep"} : PhaseOf(l) = "want"
      /\ \A l \in {"got", "stamp", "cs", "rel"} : PhaseOf(l) = "hold"
      /\ \A l \in {"idle", "chk", "wake"} : PhaseOf(l) = "idle"
  BY DEF PhaseOf, Holding
<1>1. ASSUME NEW t \in Threads, Lock(t)
      PROVE  Abstract!Next
  <2>1. pc[t] = "idle" /\ pc' = [pc EXCEPT ![t] = "try"]
    BY <1>1 DEF Lock, Goto
  <2>2. phase' = [phase EXCEPT ![t] = "want"]
    BY <2>1, <1>0, <1>p DEF TypeOK
  <2>3. Abstract!Request(t)
    BY <2>1, <2>2, <1>p DEF Abstract!Request
  <2>4. QED
    BY <2>3 DEF Abstract!Next
<1>2. ASSUME NEW t \in Threads, TryTake(t)
      PROVE  Abstract!Next
  <2>1. pc[t] = "try" /\ pc' = [pc EXCEPT ![t] = "got"] /\ locked # 0
    BY <1>2 DEF TryTake, Goto
  <2>2. phase' = [phase EXCEPT ![t] = "hold"]
    BY <2>1, <1>0, <1>p DEF TypeOK
  <2>3. \A u \in Threads : pc[u] \notin Holding
    BY <2>1 DEF IInv, LockedIffHeld
  <2>4. Abstract!Free
    BY <2>3 DEF Abstract!Free, PhaseOf
  <2>5. Abstract!Acquire(t)
    BY <2>1, <2>2, <2>4, <1>p DEF Abstract!Acquire
  <2>6. QED
    BY <2>5 DEF Abstract!Next
<1>3. ASSUME NEW t \in Threads, Release(t)
      PROVE  Abstract!Next
  <2>1. pc[t] = "rel" /\ pc' = [pc EXCEPT ![t] = "chk"]
    BY <1>3 DEF Release, Goto
  <2>2. phase' = [phase EXCEPT ![t] = "idle"]
    BY <2>1, <1>0, <1>p DEF TypeOK
  <2>3. Abstract!Release(t)
    BY <2>1, <2>2, <1>p DEF Abstract!Release
  <2>4. QED
    BY <2>3 DEF Abstract!Next
<1>4. ASSUME NEW t \in Threads,
             \/ TryFails(t) \/ FutexWait(t) \/ FutexAgain(t)
             \/ FutexInterrupted(t) \/ StopCounting(t) \/ Stamp(t)
             \/ Unlock(t) \/ CheckWaiters(t)
      PROVE  phase' = phase
  <2>1. PICK l \in Labels : /\ pc' = [pc EXCEPT ![t] = l]
                            /\ PhaseOf(l) = PhaseOf(pc[t])
    BY <1>4, <1>p DEF TryFails, FutexWait, FutexAgain, FutexInterrupted,
         StopCounting, Stamp, Unlock, CheckWaiters, Goto, Labels
  <2>2. phase' = [phase EXCEPT ![t] = PhaseOf(pc[t])]
    BY <2>1, <1>0 DEF TypeOK
  <2>3. QED
    BY <2>2
<1>5. ASSUME NEW t \in Threads, FutexWake(t)
      PROVE  phase' = phase
  <2>1. pc[t] = "wake"
    BY <1>5 DEF FutexWake
  <2>2. CASE pc' = [pc EXCEPT ![t] = "idle"]
    <3>1. phase' = [phase EXCEPT ![t] = "idle"]
      BY <2>2, <1>0, <1>p DEF TypeOK
    <3>2. QED
      BY <2>1, <3>1, <1>p
  <2>3. ASSUME NEW u \in Threads, pc[u] = "asleep",
               pc' = [pc EXCEPT ![t] = "idle", ![u] = "try"]
        PROVE  phase' = phase
    <3>1. \A v \in Threads : PhaseOf(pc'[v]) = PhaseOf(pc[v])
      BY <2>1, <2>3, <1>0, <1>p DEF TypeOK
    <3>2. QED
      BY <3>1
  <2>4. QED
    BY <1>5, <2>2, <2>3 DEF FutexWake
<1>6. ASSUME NEW t \in Threads, NEW u \in Threads, Pass(t, u)
      PROVE  Abstract!Next
  <2>1. /\ pc[t] = "cs" /\ pc[u] = "idle" /\ t # u
        /\ pc' = [pc EXCEPT ![t] = "idle", ![u] = "cs"]
    BY <1>6 DEF Pass
  <2>2. phase' = [phase EXCEPT ![t] = "idle", ![u] = "hold"]
    BY <2>1, <1>0, <1>p DEF TypeOK
  <2>3. Abstract!Pass(t, u)
    BY <2>1, <2>2, <1>p DEF Abstract!Pass
  <2>4. QED
    BY <2>3 DEF Abstract!Next
<1>7. CASE UNCHANGED vars
  BY <1>7 DEF vars
<1>8. QED
  BY <1>1, <1>2, <1>3, <1>4, <1>5, <1>6, <1>7 DEF Next, Run

(* Every behaviour of the futex lock is a behaviour of the abstract lock.  *)
(* (That a wanted free lock is eventually taken needs fairness, and is     *)
(* model-checked as part of ImplementsMutex.)                              *)
THEOREM Refinement == Spec => Abstract!Safety
<1>1. QED
  BY Invariant, InitMaps, NextMaps, PTL DEF Spec, Abstract!Safety
=============================================================================
