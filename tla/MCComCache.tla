----------------------------- MODULE MCComCache -----------------------------
(***************************************************************************)
(* ComCache with two clients and four groups, as many as the limits leave  *)
(* room for, so that entries are written out, dropped and loaded again.    *)
(***************************************************************************)
EXTENDS ComCache, TLC

Symmetric == Permutations(Clients) \cup Permutations(Groups)
=============================================================================
