------------------------------ MODULE MC_NetNode ------------------------------
(***************************************************************************)
(* Two nodes besides this one: a answers, f may answer or not and may      *)
(* claim a's id in a handshake.  The seed is f.  A list that is sent names *)
(* a and this node under ids of their past, or comes from the future.      *)
(***************************************************************************)
EXTENDS NetNode, TLC

MCAddrs  == {"a", "f", "self"}
MCPeerId == "a" :> "ia" @@ "f" :> "if"
MCClaims == "a" :> {"ia"} @@ "f" :> {"if", "ia"}
MCStored == {[white |-> <<>>, gray |-> <<[adr |-> "f", id |-> "if"]>>]}
MCSeeds  == <<"f">>
MCLists  == {<<Entry("a", "ia0", 0), Entry("self", "me0", 1)>>,
             <<Entry("f", "if", -1)>>}
=============================================================================
