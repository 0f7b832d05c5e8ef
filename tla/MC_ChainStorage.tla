--------------------------- MODULE MC_ChainStorage ---------------------------
(***************************************************************************)
(* A block tree with every outcome of a switch.  t1 and t2 spend the same  *)
(* key image, t3 spends an output of t2 and t4 one of t3.                  *)
(*                                                                         *)
(*   g -- a1 -- a2(t1) -- a3          a3 has a wrong reward                *)
(*    \-- x1(t2) -- x2(t1) -- x3      x2 spends k1 twice on its branch     *)
(*              \-- y2(t3,t4) -- y3                                        *)
(*                                                                         *)
(* a1 and a2 count double: the chain can move from x1 to a1, to y3 and     *)
(* back to a2 while one transaction is taken in, a1 and y2 are of the same *)
(* weight, and the branch of a2 is heavier than the longer one of y3.      *)
(***************************************************************************)
EXTENDS TxIntake, TLC

MCBlocks == {"g", "a1", "a2", "a3", "x1", "x2", "x3", "y2", "y3"}

MCPrev == "a1" :> "g" @@ "a2" :> "a1" @@ "a3" :> "a2" @@ "x1" :> "g" @@ "x2" :> "x1"
          @@ "x3" :> "x2" @@ "y2" :> "x1" @@ "y3" :> "y2"

MCPath[b \in MCBlocks] == IF b = "g" THEN <<b>> ELSE Append(MCPath[MCPrev[b]], b)

MCWork[b \in MCBlocks] ==
  IF b = "g" THEN 1
  ELSE MCWork[MCPrev[b]] + (IF b \in {"a1", "a2"} THEN 2 ELSE 1)

MCTxs == {"t1", "t2", "t3", "t4"}

MCBlockTxs ==
  [b \in MCBlocks |-> CASE b \in {"a2", "x2"} -> <<"t1">>
                        [] b = "x1" -> <<"t2">>
                        [] b = "y2" -> <<"t3", "t4">>
                        [] OTHER -> <<>>]

MCImages  == "t1" :> {"k1"} @@ "t2" :> {"k1"} @@ "t3" :> {"k2"} @@ "t4" :> {"k3"}
MCSources == "t1" :> {"g"} @@ "t2" :> {"g"} @@ "t3" :> {"t2"} @@ "t4" :> {"t3"}
MCUnlock  == [s \in MCBlocks \cup MCTxs |-> 0]
MCReward  == MCBlocks \ {"a3"}
NoCheckpoints == [h \in {} |-> "g"]
=============================================================================
