--------------------------- MODULE MC_Checkpoints ---------------------------
(***************************************************************************)
(* A tree with a checkpoint at height 2, the block x2.  Below it           *)
(* signatures are neither checked nor kept, above it they are.  t3 has a   *)
(* wrong signature; t1 loses its signatures when a1 stores it.             *)
(*                                                                         *)
(*   g -- a1(t1) -- a2           a2 contradicts the checkpoint             *)
(*    \-- x1 -- x2 -- w3(t2) -- w4                                         *)
(*                \-- v3(t3)     v3 is as heavy as three blocks            *)
(*                \-- u3(t1)     u3 as two                                 *)
(***************************************************************************)
EXTENDS TxIntake, TLC

CPBlocks == {"g", "a1", "a2", "x1", "x2", "w3", "w4", "v3", "u3"}

CPPrev == "a1" :> "g" @@ "a2" :> "a1" @@ "x1" :> "g" @@ "x2" :> "x1" @@ "w3" :> "x2"
          @@ "w4" :> "w3" @@ "v3" :> "x2" @@ "u3" :> "x2"

CPPath[b \in CPBlocks] == IF b = "g" THEN <<b>> ELSE Append(CPPath[CPPrev[b]], b)

CPWork[b \in CPBlocks] ==
  IF b = "g" THEN 1 ELSE CPWork[CPPrev[b]] + (CASE b = "v3" -> 3 [] b = "u3" -> 2 [] OTHER -> 1)

CPTxs == {"t1", "t2", "t3"}

CPBlockTxs ==
  [b \in CPBlocks |-> CASE b \in {"a1", "u3"} -> <<"t1">>
                        [] b = "w3" -> <<"t2">>
                        [] b = "v3" -> <<"t3">>
                        [] OTHER -> <<>>]

CPImages  == "t1" :> {"k1"} @@ "t2" :> {"k2"} @@ "t3" :> {"k3"}
CPSources == [t \in CPTxs |-> {"g"}]
CPUnlock  == [s \in CPBlocks \cup CPTxs |-> 0]
CPSigned  == CPTxs \ {"t3"}
CPPoints  == 2 :> "x2"
=============================================================================
