----------------------------- MODULE MCJobPool -----------------------------
(***************************************************************************)
(* JobPool with four inodes, two levels and at most two workers: jobs      *)
(* queue up behind the limit, workers end and are replaced, and clones     *)
(* fail.  The program stops when it reaches pass 4.                        *)
(***************************************************************************)
EXTENDS JobPool
=============================================================================
