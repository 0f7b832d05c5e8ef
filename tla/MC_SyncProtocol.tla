--------------------------- MODULE MC_SyncProtocol ---------------------------
(***************************************************************************)
(* p's chain grows from a1 to a3.  q first serves z1, which is not the     *)
(* checkpoint's block at height 1, and later a3 as well; it may send other *)
(* signatures with what it serves, so that a2 is spoilt.  The node can     *)
(* find c2 on top of a1.                                                   *)
(*                                                                         *)
(*   g -- a1 -- a2 -- a3                                                   *)
(*    |     \-- c2                                                         *)
(*    \-- z1                                                               *)
(***************************************************************************)
EXTENDS SyncProtocol, TLC

MCBlocks == {"g", "a1", "a2", "a3", "c2", "z1"}
MCPath == "g" :> <<"g">> @@ "a1" :> <<"g", "a1">> @@ "a2" :> <<"g", "a1", "a2">>
          @@ "a3" :> <<"g", "a1", "a2", "a3">>
          @@ "c2" :> <<"g", "a1", "c2">> @@ "z1" :> <<"g", "z1">>
MCWork == "g" :> 1 @@ "a1" :> 2 @@ "a2" :> 3 @@ "a3" :> 4 @@ "c2" :> 3 @@ "z1" :> 2
MCServed == "p" :> {"a3"} @@ "q" :> {"a3"}
MCStart == "p" :> "a1" @@ "q" :> "z1"
\* p may come back once after its connection broke.
MCConnects == "p" :> 2 @@ "q" :> 1
MCRemote == "p" :> 0 @@ "q" :> 2
=============================================================================
