----------------------------- MODULE MC_NodeLocks -----------------------------
(***************************************************************************)
(* Two threads, as two connections, or a connection and the miner; two     *)
(* suffice for a circle of two locks.                                      *)
(***************************************************************************)
EXTENDS NodeLocks
=============================================================================
