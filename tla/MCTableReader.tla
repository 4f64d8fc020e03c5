--------------------------- MODULE MCTableReader ---------------------------
(***************************************************************************)
(* TableReader with more groups than slots, so that the ring wraps around  *)
(* and the reader has to wait, and one worker, started and reaped.         *)
(***************************************************************************)
EXTENDS TableReader
=============================================================================
