------------------------------ MODULE BestChain ------------------------------
(***************************************************************************)
(* What blockchain_storage promises its users: at any moment one ledger, a *)
(* path of the block tree from the genesis block; it changes only to a     *)
(* path of strictly greater cumulative difficulty on which every block is  *)
(* acceptable and nothing is spent twice; and it changes in one step,      *)
(* however many blocks are disconnected and connected on the way.          *)
(***************************************************************************)
EXTENDS Integers, Sequences

CONSTANTS Blocks, Genesis, Path, Work, Txs, BlockTxs, Images,
          GoodBlocks      \* blocks acceptable on their own

VARIABLE ledger

TxAt(b, i, n) == BlockTxs[Path[b][i]][n]

Positions(b) ==
  {p \in (DOMAIN Path[b]) \X (UNION {DOMAIN BlockTxs[x] : x \in Blocks}) :
     p[2] \in DOMAIN BlockTxs[Path[b][p[1]]]}

SpendsOnce(b) ==
  \A p, q \in Positions(b) :
    p # q => /\ TxAt(b, p[1], p[2]) # TxAt(b, q[1], q[2])
             /\ Images[TxAt(b, p[1], p[2])] \cap Images[TxAt(b, q[1], q[2])] = {}

Acceptable(b) ==
  /\ \A i \in DOMAIN Path[b] : Path[b][i] = Genesis \/ Path[b][i] \in GoodBlocks
  /\ SpendsOnce(b)

Init == ledger = <<Genesis>>

Adopt(b) ==
  /\ ledger' = Path[b]
  /\ Work[ledger[Len(ledger)]] < Work[b]
  /\ Acceptable(b)

Next == \E b \in Blocks : Adopt(b)

Spec == Init /\ [][Next]_ledger
=============================================================================
