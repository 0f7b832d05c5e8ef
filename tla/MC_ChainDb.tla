------------------------------ MODULE MC_ChainDb ------------------------------
(***************************************************************************)
(* A genesis block and five more, with addenda of two and three entries    *)
(* that hit the same index, the first and the last one; one entry occurs   *)
(* in two blocks, as a repeated miner output could.  Block a registers a   *)
(* name, b gives it to an address that may have another one by d, c        *)
(* registers it for somebody else, e carries none.                         *)
(***************************************************************************)
EXTENDS ChainDb, TLC

MCAddendum == "g" :> <<3, 4>> @@ "a" :> <<2, 4, 7>> @@ "b" :> <<5, 9>> @@ "c" :> <<9, 6>>
              @@ "d" :> <<8, 1>> @@ "e" :> <<1, 6>>
MCAtoms    == 0..9

Info(n, x, signer) == [m_alias |-> n, m_address |-> x, m_sign |-> signer]

MCAliasOf == "a" :> Info("n1", "x", "none") @@ "b" :> Info("n1", "y", "x")
             @@ "c" :> Info("n1", "y", "none") @@ "d" :> Info("n2", "y", "none")
=============================================================================
