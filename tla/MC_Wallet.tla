----------------------------- MODULE MC_Wallet -----------------------------
(* A fork after the first block: the second branch spends our first output *)
(* from another copy of the wallet; one output repeats a key image.        *)
EXTENDS Wallet, TLC

MC_Parent == [a1 |-> "g", a2 |-> "a1", a3 |-> "a2", b2 |-> "a1", b3 |-> "b2"]
MC_Work == [g |-> 0, a1 |-> 1, a2 |-> 2, b2 |-> 3, a3 |-> 4, b3 |-> 5]
MC_TxsOf == [g |-> <<>>, a1 |-> <<"c1">>, a2 |-> <<"c2", "c3">>, a3 |-> <<"t1">>,
             b2 |-> <<"c3", "f1">>, b3 |-> <<"c2">>]
MC_Txs == {"c1", "c2", "c3", "f1", "t1", "t2"}
MC_Ins == [c1 |-> {}, c2 |-> {}, c3 |-> {}, f1 |-> {"k1"}, t1 |-> {"k1"}, t2 |-> {"k1"}]
MC_Outs == [c1 |-> <<"o1">>, c2 |-> <<"o2">>, c3 |-> <<"o3", "o1twin">>, f1 |-> <<>>,
            t1 |-> <<"o4">>, t2 |-> <<>>]
MC_KeyImage == [o1 |-> "k1", o2 |-> "k2", o3 |-> "k3", o1twin |-> "k1", o4 |-> "k4"]
=============================================================================
