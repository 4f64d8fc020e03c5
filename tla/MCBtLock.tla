------------------------------ MODULE MCBtLock ------------------------------
(***************************************************************************)
(* BtLock on three threads: enough for one to hold or give back the lock   *)
(* while a second one sleeps on it and a third one barges in.  The state   *)
(* space is finite without any bound: num_waiters counts threads.          *)
(***************************************************************************)
EXTENDS BtLock
=============================================================================
