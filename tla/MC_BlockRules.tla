---------------------------- MODULE MC_BlockRules ----------------------------
(* An instance of BlockRules: windows short enough to be filled and passed. *)
EXTENDS BlockRules

MCTimes == 0..3
=============================================================================
