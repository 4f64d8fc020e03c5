-------------------------------- MODULE Mutex --------------------------------
(***************************************************************************)
(* What btlib/btlock.h promises its callers: at any time at most one       *)
(* thread is between the return of btlock_lock and its call of             *)
(* btlock_unlock.  A lock may be unlocked by another thread than the one   *)
(* that locked it (fs/ext2/ext2.c locks a job in the main thread and       *)
(* unlocks it in a worker); that is a transfer of ownership, Pass.         *)
(***************************************************************************)
CONSTANT Threads

VARIABLE phase    \* phase[t]: what t is doing with the lock

vars == <<phase>>

Phases == {"idle", "want", "hold"}

TypeOK == phase \in [Threads -> Phases]

Init == phase = [t \in Threads |-> "idle"]

Free == \A t \in Threads : phase[t] # "hold"

Request(t) ==
    /\ phase[t] = "idle"
    /\ phase' = [phase EXCEPT ![t] = "want"]

Acquire(t) ==
    /\ phase[t] = "want"
    /\ Free
    /\ phase' = [phase EXCEPT ![t] = "hold"]

Release(t) ==
    /\ phase[t] = "hold"
    /\ phase' = [phase EXCEPT ![t] = "idle"]

Pass(t, u) ==
    /\ phase[t] = "hold"
    /\ phase[u] = "idle"
    /\ phase' = [phase EXCEPT ![t] = "idle", ![u] = "hold"]

AcquireByAny == \E t \in Threads : Acquire(t)

Next ==
    \/ \E t \in Threads : Request(t) \/ Acquire(t) \/ Release(t)
    \/ \E t, u \in Threads : Pass(t, u)

Safety == Init /\ [][Next]_vars

(***************************************************************************)
(* A free lock somebody wants is eventually taken by somebody.  Who gets   *)
(* it is not promised: a thread that arrives late may overtake a sleeper   *)
(* for ever.                                                               *)
(***************************************************************************)
Spec == Safety /\ WF_vars(AcquireByAny)
==============================================================================
