------------------------------- MODULE MC_Miner -------------------------------
(***************************************************************************)
(* Two threads.  Three blocks found or brought where the question is what  *)
(* is hashed; two callers of stop, who may overlap with each other and     *)
(* with a start, where it is whether stop returns.                         *)
(***************************************************************************)
EXTENDS Miner
=============================================================================
