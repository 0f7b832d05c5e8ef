--------------------------- MODULE BestChainProofs ---------------------------
(***************************************************************************)
(* ChainStorage implements BestChain, for every block tree, every set of   *)
(* transactions and every table of checkpoints: a reorganisation is all or *)
(* nothing, its rollback restores the old chain, and whatever else has to  *)
(* be true of a reorganisation for that (ReorgInv).                        *)
(*                                                                         *)
(* The argument.  Whether a block connects depends on the node's state, on *)
(* the pool most of all; but all of it that the pool does not decide is a  *)
(* fact about the block and its ancestors (ValidBlock).  Every block of    *)
(* the main chain is valid in that sense, and stays so when it is popped.  *)
(* So an old block connects again if its transactions are in the pool and  *)
(* still have their signatures, above the checkpoint zone; that, in turn,  *)
(* needs that no part of a branch is in the zone when some part of the old *)
(* chain is not, which is what the checkpoints are for.                    *)
(***************************************************************************)
EXTENDS ChainStorageProofs

-----------------------------------------------------------------------------
(***************************************************************************)
(* What handle_block_to_main_chain asks of a block apart from the pool: a  *)
(* matter of the block and its ancestors.                                  *)
(***************************************************************************)
BlocksBelow(b) == {Path[Prev[b]][i] : i \in DOMAIN Path[Prev[b]]}
TxsBelow(b)    == UNION {TxSet(x) : x \in BlocksBelow(b)}

ValidTx(b, i) ==
  LET t == BlockTxs[b][i] IN
  /\ t \notin TxsBelow(b) \cup Earlier(b, i)
  /\ Images[t] \cap ImagesOf(TxsBelow(b) \cup Earlier(b, i)) = {}
  /\ \A s \in Sources[t] : /\ s \in BlocksBelow(b) \cup TxsBelow(b) \cup {b} \cup Earlier(b, i)
                           /\ UnlockHeight[s] <= Height(b)
  /\ is_in_checkpoint_zone(Height(b)) \/ t \in SignedTxs

ValidBlock(b) == b \in GoodBlocks /\ \A i \in DOMAIN BlockTxs[b] : ValidTx(b, i)

(* The part of the old main chain that is still in place.                  *)
Kept == IF pc \in {"idle", "pop"} THEN Len(m_db_blocks) ELSE Split

OldTop == IF disconnected_chain = <<>> THEN Top
                                       ELSE disconnected_chain[Len(disconnected_chain)]

(* The main chain is the path to its top, all of it valid.                 *)
ChainInv ==
  /\ m_db_blocks = Path[Top]
  /\ \A i \in DOMAIN m_db_blocks : m_db_blocks[i] = Genesis \/ ValidBlock(m_db_blocks[i])
  /\ PastZoneSigned

(* What is kept and what was disconnected make up the path to the old top. *)
OldInv ==
  /\ pc = "idle" => disconnected_chain = <<>>
  /\ Len(Path[OldTop]) = Kept + Len(disconnected_chain)
  /\ \A i \in 1..Kept : Path[OldTop][i] = m_db_blocks[i]
  /\ \A i \in DOMAIN disconnected_chain :
       /\ Path[OldTop][Kept + i] = disconnected_chain[i]
       /\ ValidBlock(disconnected_chain[i])

(* The transactions of disconnected blocks are not lost, and above the     *)
(* checkpoint zone neither are their signatures.                           *)
Held(t) == have_tx(t) \/ have_tx_chain(t)

Unpruned(t) ==
  /\ have_tx(t) => m_transactions[t].sigs
  /\ have_tx_chain(t) => m_db_transactions[t] = "signed"

HeldInv ==
  \A i \in DOMAIN disconnected_chain : \A t \in TxSet(disconnected_chain[i]) :
    Held(t) /\ (~is_in_checkpoint_zone(Split) => Unpruned(t))

(* The branch of a switch: known, heavier than the old chain, and in the   *)
(* checkpoint zone only if all of the old chain is.  What stands on the    *)
(* kept part is the branch, and during the last loop the old chain.        *)
BranchInv ==
  pc # "idle" =>
    /\ \A i \in DOMAIN alt_chain : alt_chain[i] \in m_alternative_chains
    /\ Work[OldTop] < Work[alt_chain[Len(alt_chain)]]
    /\ is_in_checkpoint_zone(Split) => is_in_checkpoint_zone(Kept + Len(disconnected_chain) - 1)
    /\ pc \in {"connect", "to_alt"} =>
         \A i \in 1..(Len(m_db_blocks) - Split) : m_db_blocks[Split + i] = alt_chain[i]
    /\ pc = "to_alt" => Len(m_db_blocks) = Split + Len(alt_chain)
    /\ pc = "rollback_push" =>
         \A i \in 1..(Len(m_db_blocks) - Split) : m_db_blocks[Split + i] = disconnected_chain[i]

(* Where a block is known: the strengthening of KnownOnce to the states    *)
(* inside a switch.                                                        *)
Dropping == IF pc \in {"rollback_pop", "rollback_push"} THEN DroppedBlocks ELSE {}

KnownInv ==
  /\ \A b \in m_alternative_chains : check_block(Height(b), b)
  /\ \A i \in 1..Kept : m_db_blocks[i] \notin m_alternative_chains \cup m_invalid_blocks
  /\ \A i \in DOMAIN disconnected_chain :
       /\ disconnected_chain[i] \notin m_invalid_blocks
       /\ disconnected_chain[i] \in m_alternative_chains <=> pc = "to_alt" /\ i < pos
  /\ (m_alternative_chains \ Dropping) \cap m_invalid_blocks = {}
  /\ pc = "to_alt" /\ pos > 1 => ~is_height_passed_zone(Split, Len(m_db_blocks) - 1)

ReorgInv == ChainInv /\ OldInv /\ HeldInv /\ BranchInv /\ KnownInv
-----------------------------------------------------------------------------
(***************************************************************************)
(* Facts about paths.                                                      *)
(***************************************************************************)

(* A path ends with its block, and goes through the parent before that.    *)
LEMMA PathFacts ==
  /\ \A b \in Blocks :
       /\ Path[b] \in Seq(Blocks) /\ Len(Path[b]) \in Nat \ {0}
       /\ DOMAIN Path[b] = 1..Len(Path[b])
       /\ \A i \in 1..Len(Path[b]) : Path[b][i] \in Blocks
       /\ Path[b][1] = Genesis
       /\ Path[b][Len(Path[b])] = b
  /\ \A b \in Blocks \ {Genesis} :
       /\ Prev[b] \in Blocks
       /\ Path[b] = Append(Path[Prev[b]], b)
       /\ Len(Path[b]) = Len(Path[Prev[b]]) + 1
       /\ \A i \in 1..Len(Path[Prev[b]]) : Path[b][i] = Path[Prev[b]][i]
<1>1. ASSUME NEW b \in Blocks
      PROVE  /\ Path[b] \in Seq(Blocks) /\ Len(Path[b]) \in Nat \ {0}
             /\ DOMAIN Path[b] = 1..Len(Path[b])
             /\ \A i \in 1..Len(Path[b]) : Path[b][i] \in Blocks
             /\ Path[b][1] = Genesis
  BY TreeAssumption, TreeFacts, LenProperties, ElementOfSeq
<1>2. ASSUME NEW b \in Blocks \ {Genesis}
      PROVE  /\ Prev[b] \in Blocks
             /\ Path[b] = Append(Path[Prev[b]], b)
             /\ Len(Path[b]) = Len(Path[Prev[b]]) + 1
             /\ \A i \in 1..Len(Path[Prev[b]]) : Path[b][i] = Path[Prev[b]][i]
             /\ Path[b][Len(Path[b])] = b
  <2>1. Prev[b] \in Blocks /\ Path[b] = Append(Path[Prev[b]], b)
    BY TreeAssumption
  <2>2. Path[Prev[b]] \in Seq(Blocks)
    BY <1>1, <2>1
  <2> QED BY <2>1, <2>2, AppendProperties, LenProperties
<1>3. Path[Genesis][Len(Path[Genesis])] = Genesis
  BY TreeAssumption, TreeFacts
<1> QED BY <1>1, <1>2, <1>3

(* In a set of blocks there is one with a shortest path.                   *)
LEMMA ShortestPath ==
  ASSUME NEW S, S \subseteq Blocks, S # {}
  PROVE  \E x \in S : \A y \in S : ~(Len(Path[y]) < Len(Path[x]))
<1> DEFINE R == OpToRel(<, Nat)
           T == {Len(Path[x]) : x \in S}
<1>1. \A x \in S : Len(Path[x]) \in Nat
  BY PathFacts
<1>2. T \subseteq Nat /\ T # {}
  BY <1>1
<1>3. IsWellFoundedOn(R, Nat)
  BY NatLessThanWellFounded
<1>4. \E n \in T : \A m \in T : ~(<<m, n>> \in R)
  <2> HIDE DEF R, T
  <2> QED BY <1>2, <1>3, WFMin
<1>5. PICK n \in T : \A m \in T : ~(m < n)
  <2> HIDE DEF T
  <2> QED BY <1>2, <1>4 DEF OpToRel
<1>6. PICK x \in S : n = Len(Path[x])
  BY <1>5
<1> QED BY <1>5, <1>6

(* The path to a block on a path is the beginning of that path.  The proof *)
(* takes a shortest path for which it is not.                              *)
LEMMA PathPrefix ==
  ASSUME NEW b \in Blocks, NEW i \in 1..Len(Path[b])
  PROVE  /\ Path[b][i] \in Blocks
         /\ Len(Path[Path[b][i]]) = i
         /\ \A j \in 1..i : Path[Path[b][i]][j] = Path[b][j]
<1> DEFINE Good(x) == \A k \in 1..Len(Path[x]) :
             /\ Len(Path[Path[x][k]]) = k
             /\ \A j \in 1..k : Path[Path[x][k]][j] = Path[x][j]
           Bad == {x \in Blocks : ~Good(x)}
<1>1. Bad = {}
  <2> SUFFICES ASSUME Bad # {} PROVE FALSE
    OBVIOUS
  <2>5. PICK x \in Bad : \A y \in Bad : ~(Len(Path[y]) < Len(Path[x]))
    <3>1. Bad \subseteq Blocks
      OBVIOUS
    <3> HIDE DEF Bad
    <3> QED BY <3>1, ShortestPath
  <2>6. x \in Blocks /\ ~Good(x) /\ \A y \in Bad : ~(Len(Path[y]) < Len(Path[x]))
    BY <2>5
  <2>7. x # Genesis
    <3>1. Len(Path[Genesis]) = 1 /\ Path[Genesis][1] = Genesis
      BY TreeAssumption, TreeFacts
    <3>2. Good(Genesis)
      BY <3>1
    <3> QED BY <2>6, <3>2
  <2>8. Prev[x] \in Blocks /\ Len(Path[Prev[x]]) < Len(Path[x])
    BY <2>6, <2>7, PathFacts
  <2>9. Good(Prev[x])
    BY <2>6, <2>8
  <2>10. Good(x)
    <3> SUFFICES ASSUME NEW k \in 1..Len(Path[x])
                 PROVE  /\ Len(Path[Path[x][k]]) = k
                        /\ \A j \in 1..k : Path[Path[x][k]][j] = Path[x][j]
      OBVIOUS
    <3> HIDE DEF Good
    <3>1. CASE k = Len(Path[x])
      <4>1. Path[x][k] = x
        BY <2>6, <3>1, PathFacts
      <4> QED BY <3>1, <4>1
    <3>2. CASE k # Len(Path[x])
      <4>1. k \in 1..Len(Path[Prev[x]]) /\ Len(Path[Prev[x]]) \in Nat
        BY <2>6, <2>7, <3>2, PathFacts
      <4>2. \A j \in 1..k : Path[x][j] = Path[Prev[x]][j]
        BY <2>6, <2>7, <4>1, PathFacts
      <4>3. /\ Len(Path[Path[Prev[x]][k]]) = k
            /\ \A j \in 1..k : Path[Path[Prev[x]][k]][j] = Path[Prev[x]][j]
        BY <2>9, <4>1 DEF Good
      <4>4. Path[x][k] = Path[Prev[x]][k]
        BY <4>1, <4>2
      <4> QED BY <4>2, <4>3, <4>4
    <3> QED BY <3>1, <3>2
  <2> QED BY <2>6, <2>10
<1>2. Good(b)
  <2> HIDE DEF Good
  <2> QED BY <1>1
<1>3. Path[b][i] \in Blocks
  BY PathFacts
<1> QED BY <1>2, <1>3

(* Consecutive blocks of a path are parent and child.                      *)
LEMMA PathParent ==
  ASSUME NEW b \in Blocks, NEW i \in 2..Len(Path[b])
  PROVE  Path[b][i] \in Blocks \ {Genesis} /\ Prev[Path[b][i]] = Path[b][i - 1]
<1> DEFINE x == Path[b][i]
<1>1. Len(Path[b]) \in Nat
  BY PathFacts
<1>2. x \in Blocks /\ Len(Path[x]) = i /\ Path[x][i - 1] = Path[b][i - 1]
  BY <1>1, PathPrefix
<1>3. x # Genesis
  <2>1. Len(Path[Genesis]) = 1 /\ i # 1
    BY <1>1, TreeFacts
  <2> QED BY <1>2, <2>1
<1>4. /\ Len(Path[Prev[x]]) = i - 1 /\ Path[x][i - 1] = Path[Prev[x]][i - 1]
      /\ Path[Prev[x]][i - 1] = Prev[x]
  <2> HIDE DEF x
  <2>1. Prev[x] \in Blocks /\ Len(Path[Prev[x]]) \in Nat /\ i = Len(Path[Prev[x]]) + 1
    BY <1>2, <1>3, PathFacts
  <2>2. Len(Path[Prev[x]]) = i - 1 /\ i - 1 \in 1..Len(Path[Prev[x]])
    BY <1>1, <2>1
  <2>3. /\ \A k \in 1..Len(Path[Prev[x]]) : Path[x][k] = Path[Prev[x]][k]
        /\ Path[Prev[x]][Len(Path[Prev[x]])] = Prev[x]
    BY <1>2, <1>3, <2>1, PathFacts
  <2> QED BY <2>2, <2>3
<1> QED BY <1>2, <1>3, <1>4
-----------------------------------------------------------------------------
(***************************************************************************)
(* Which blocks connect.                                                   *)
(***************************************************************************)

(* On top of the main chain, what is below a block is the main chain.      *)
LEMMA BelowIsChain ==
  ASSUME DbTypeOK, TablesMatchChain, ChainHeights, m_db_blocks = Path[Top],
         NEW b \in Blocks \ {Genesis}, Prev[b] = Top
  PROVE  /\ BlocksBelow(b) = OnChain
         /\ TxsBelow(b) = ChainTxs
         /\ ChainSources = BlocksBelow(b) \cup TxsBelow(b)
         /\ m_db_spent_keys = ImagesOf(TxsBelow(b))
         /\ Height(b) = Len(m_db_blocks)
<1>1. BlocksBelow(b) = OnChain
  BY DEF BlocksBelow, OnChain
<1>2. TxsBelow(b) = ChainTxs
  BY <1>1 DEF TxsBelow, ChainTxs
<1>3. Height(b) = Len(m_db_blocks)
  BY TreeFacts
<1> QED BY <1>1, <1>2, <1>3 DEF ChainSources, TablesMatchChain

(* The i-th transaction is added: a matter of the ancestors and the pool.  *)
LEMMA TxAddedIff ==
  ASSUME DbTypeOK, TablesMatchChain, ChainHeights, m_db_blocks = Path[Top],
         NEW b \in Blocks \ {Genesis}, Prev[b] = Top, b \in PowBlocks,
         NEW i \in DOMAIN BlockTxs[b]
  PROVE  TxAdded(b, i) <=>
           /\ ValidTx(b, i)
           /\ have_tx(BlockTxs[b][i])
           /\ is_in_checkpoint_zone(Height(b)) \/ m_transactions[BlockTxs[b][i]].sigs
<1> DEFINE t == BlockTxs[b][i]
           E == Earlier(b, i)
<1>1. /\ ChainSources = BlocksBelow(b) \cup TxsBelow(b)
      /\ m_db_spent_keys = ImagesOf(TxsBelow(b))
      /\ Height(b) = Len(m_db_blocks)
      /\ TxsBelow(b) = ChainTxs
  BY BelowIsChain
<1>2. ZoneFor(b) <=> is_in_checkpoint_zone(Height(b))
  BY <1>1 DEF ZoneFor
<1>3. t \in Txs
  BY TxSetType DEF TxSet
<1>4. have_tx_chain(t) <=> t \in TxsBelow(b)
  BY <1>1, <1>3 DEF TablesMatchChain
<1>5. ImagesOf(TxsBelow(b) \cup E) = m_db_spent_keys \cup ImagesOf(E)
  BY <1>1 DEF ImagesOf
<1>6. \A s \in Sources[t] : is_tx_spendtime_unlocked(s) <=> UnlockHeight[s] <= Height(b)
  <2>1. \A s \in Sources[t] : UnlockHeight[s] \in Nat
    BY <1>3, TxAssumption
  <2> QED BY <1>1, <2>1, ChainFacts DEF is_tx_spendtime_unlocked
<1>7. ChainSources \cup {b} \cup E = BlocksBelow(b) \cup TxsBelow(b) \cup {b} \cup E
  BY <1>1
<1> HIDE DEF E
<1>8. TxInputsOk(b, i) <=>
        /\ Images[t] \cap ImagesOf(TxsBelow(b) \cup E) = {}
        /\ \A s \in Sources[t] : /\ s \in BlocksBelow(b) \cup TxsBelow(b) \cup {b} \cup E
                                 /\ UnlockHeight[s] <= Height(b)
        /\ ZoneFor(b) \/ (m_transactions[t].sigs /\ t \in SignedTxs)
  <2>1. TxInputsOk(b, i) <=>
          check_tx_inputs(t, m_transactions[t].sigs, ZoneFor(b),
                          BlocksBelow(b) \cup TxsBelow(b) \cup {b} \cup E,
                          ImagesOf(TxsBelow(b) \cup E))
    BY <1>5, <1>7 DEF TxInputsOk, E
  <2> QED BY <1>6, <2>1 DEF check_tx_inputs
<1>9. TxTaken(b, i) <=> have_tx(t) /\ t \notin E
  BY DEF TxTaken, E
<1>10. ValidTx(b, i) <=>
        /\ t \notin TxsBelow(b) \cup E
        /\ Images[t] \cap ImagesOf(TxsBelow(b) \cup E) = {}
        /\ \A s \in Sources[t] : /\ s \in BlocksBelow(b) \cup TxsBelow(b) \cup {b} \cup E
                                 /\ UnlockHeight[s] <= Height(b)
        /\ is_in_checkpoint_zone(Height(b)) \/ t \in SignedTxs
  BY DEF ValidTx, E
<1> QED BY <1>2, <1>4, <1>8, <1>9, <1>10 DEF TxAdded

(* A block connects on the top iff it is valid and the pool has what it    *)
(* needs.                                                                  *)
LEMMA ConnectsIff ==
  ASSUME DbTypeOK, TablesMatchChain, ChainHeights, m_db_blocks = Path[Top],
         NEW b \in Blocks \ {Genesis}, Prev[b] = Top
  PROVE  Connects(b) <=>
           /\ ValidBlock(b)
           /\ \A t \in TxSet(b) : /\ have_tx(t)
                                  /\ is_in_checkpoint_zone(Height(b)) \/ m_transactions[t].sigs
<1>1. Height(b) = Len(m_db_blocks)
  BY BelowIsChain
<1>2. HeaderOk(b) /\ b \in RewardBlocks <=> b \in GoodBlocks
  BY <1>1 DEF HeaderOk, GoodBlocks, check_block
<1>3. CASE b \notin GoodBlocks
  BY <1>2, <1>3 DEF Connects, ValidBlock
<1>4. CASE b \in GoodBlocks
  <2>1. b \in PowBlocks
    BY <1>4 DEF GoodBlocks
  <2>2. (\A i \in DOMAIN BlockTxs[b] : TxAdded(b, i)) <=>
          \A i \in DOMAIN BlockTxs[b] :
            /\ ValidTx(b, i)
            /\ have_tx(BlockTxs[b][i])
            /\ is_in_checkpoint_zone(Height(b)) \/ m_transactions[BlockTxs[b][i]].sigs
    BY <2>1, TxAddedIff
  <2> QED BY <1>2, <1>4, <2>2 DEF Connects, ValidBlock, TxSet
<1> QED BY <1>3, <1>4
-----------------------------------------------------------------------------
(***************************************************************************)
(* The three ways the main chain and the pool change.                      *)
(***************************************************************************)

(* The chain is the path to the connected block, which is valid.           *)
LEMMA ConnectChain ==
  ASSUME NEW b \in Blocks \ {Genesis},
         DbTypeOK, PoolTypeOK, ChainHeights, LedgerInv, ChainInv, Connect(b)
  PROVE  /\ ChainInv'
         /\ Prev[b] = Top /\ Top' = b /\ ValidBlock(b)
         /\ Len(m_db_blocks') = Len(m_db_blocks) + 1
         /\ \A i \in 1..Len(m_db_blocks) : m_db_blocks'[i] = m_db_blocks[i]
         /\ m_db_blocks'[Len(m_db_blocks) + 1] = b
<1> DEFINE n == Len(m_db_blocks)
<1>1. Connects(b) /\ Prev[b] = Top /\ b \in PowBlocks
  BY DEF Connect, Connects, HeaderOk
<1>2. n \in Nat \ {0} /\ DOMAIN m_db_blocks = 1..n
  BY ChainFacts
<1>3. /\ m_db_blocks' = Append(m_db_blocks, b)
      /\ Len(m_db_blocks') = n + 1
      /\ DOMAIN m_db_blocks' = 1..(n + 1)
      /\ \A i \in 1..n : m_db_blocks'[i] = m_db_blocks[i]
      /\ m_db_blocks'[n + 1] = b
  <2>1. m_db_blocks \in Seq(Blocks) /\ m_db_blocks' = Append(m_db_blocks, b)
    BY DEF DbTypeOK, Connect
  <2> QED BY <2>1, AppendProperties, LenProperties
<1>4. Top' = b
  BY <1>3 DEF Top
<1>5. m_db_blocks' = Path[b]
  BY <1>1, <1>3, PathFacts DEF ChainInv
<1>6. ValidBlock(b)
  BY <1>1, ConnectsIff DEF ChainInv, LedgerInv
<1>7. \A i \in DOMAIN m_db_blocks' : m_db_blocks'[i] = Genesis \/ ValidBlock(m_db_blocks'[i])
  BY <1>2, <1>3, <1>6 DEF ChainInv
<1>8. PastZoneSigned'
  <2> SUFFICES ASSUME NEW i \in 1..(n + 1), \A p \in DOMAIN CheckpointAt : p < i - 1,
                      NEW t \in TxSet(m_db_blocks'[i])
               PROVE  t \in SignedTxs /\ m_db_transactions'[t] = "signed"
    BY <1>3 DEF PastZoneSigned
  <2>1. CASE i \in 1..n
    <3>1. t \in TxSet(m_db_blocks[i])
      BY <1>3, <2>1
    <3>2. t \in SignedTxs /\ m_db_transactions[t] = "signed"
      BY <1>2, <2>1, <3>1 DEF ChainInv, PastZoneSigned
    <3>3. t \notin TxSet(b)
      BY <1>1, <3>2, ConnectedTxs DEF have_tx_chain
    <3> QED BY <3>2, <3>3, TxAssumption DEF Connect
  <2>2. CASE i = n + 1
    <3>1. t \in TxSet(b) /\ t \in Txs
      BY <1>3, <2>2, TxSetType
    <3>2. ~ZoneFor(b)
      BY <1>1, <1>2, <2>2, CheckpointAssumption DEF ZoneFor, is_in_checkpoint_zone
    <3>3. m_transactions[t].sigs /\ t \in SignedTxs
      BY <1>1, <3>1, <3>2 DEF TxSet, Connects, TxAdded, TxInputsOk, check_tx_inputs
    <3> QED BY <3>1, <3>2, <3>3 DEF Connect
  <2> QED BY <1>2, <2>1, <2>2
<1> QED BY <1>1, <1>3, <1>4, <1>5, <1>6, <1>7, <1>8 DEF ChainInv

(* Popping leaves the path to the parent.                                  *)
LEMMA PopChain ==
  ASSUME DbTypeOK, PoolTypeOK, ChainHeights, LedgerInv, ChainInv, Len(m_db_blocks) > 1,
         PopSucceeds, PopTop
  PROVE  /\ ChainInv'
         /\ Top \in Blocks \ {Genesis} /\ Top' = Prev[Top]
         /\ m_db_blocks' = SubSeq(m_db_blocks, 1, Len(m_db_blocks) - 1)
         /\ Len(m_db_blocks') = Len(m_db_blocks) - 1
         /\ \A i \in 1..(Len(m_db_blocks) - 1) : m_db_blocks'[i] = m_db_blocks[i]
<1> DEFINE n == Len(m_db_blocks)
<1>1. n \in Nat \ {0} /\ DOMAIN m_db_blocks = 1..n /\ Top \in Blocks /\ Top = m_db_blocks[n]
  BY ChainFacts DEF Top
<1>3. /\ m_db_blocks' = SubSeq(m_db_blocks, 1, n - 1)
      /\ m_db_blocks' \in Seq(Blocks)
      /\ Len(m_db_blocks') = n - 1
      /\ DOMAIN m_db_blocks' = 1..(n - 1)
      /\ \A i \in 1..(n - 1) : m_db_blocks'[i] = m_db_blocks[i]
  <2>1. m_db_blocks' = SubSeq(m_db_blocks, 1, n - 1) /\ m_db_blocks \in Seq(Blocks)
    BY DEF PopTop, DbTypeOK
  <2> QED BY <2>1, DropLast
<1>4. Len(Path[Top]) = n /\ m_db_blocks = Path[Top]
  BY DEF ChainInv
<1>5. Top # Genesis
  BY <1>1, <1>4, TreeFacts
<1>6. /\ Prev[Top] \in Blocks /\ Path[Prev[Top]] \in Seq(Blocks)
      /\ Len(Path[Prev[Top]]) = n - 1
      /\ \A i \in 1..(n - 1) : Path[Top][i] = Path[Prev[Top]][i]
      /\ Path[Prev[Top]][n - 1] = Prev[Top]
  <2>1. /\ Prev[Top] \in Blocks /\ Path[Prev[Top]] \in Seq(Blocks)
        /\ Len(Path[Prev[Top]]) \in Nat /\ n = Len(Path[Prev[Top]]) + 1
        /\ Path[Prev[Top]][Len(Path[Prev[Top]])] = Prev[Top]
        /\ \A i \in 1..Len(Path[Prev[Top]]) : Path[Top][i] = Path[Prev[Top]][i]
    <3>1. Top \in Blocks \ {Genesis} /\ n = Len(Path[Top])
      BY <1>1, <1>4, <1>5
    <3>2. Prev[Top] \in Blocks /\ Len(Path[Top]) = Len(Path[Prev[Top]]) + 1
      BY <3>1, PathFacts
    <3> HIDE DEF n
    <3> QED BY <3>1, <3>2, PathFacts
  <2>2. Len(Path[Prev[Top]]) = n - 1
    BY <2>1
  <2> HIDE DEF n
  <2> QED BY <2>1, <2>2
<1>7. m_db_blocks' = Path[Prev[Top]]
  BY <1>3, <1>4, <1>6, SeqEqual
<1>8. Top' = Prev[Top]
  BY <1>3, <1>6, <1>7 DEF Top
<1>9. \A i \in DOMAIN m_db_blocks' : m_db_blocks'[i] = Genesis \/ ValidBlock(m_db_blocks'[i])
  <2>1. \A i \in 1..n : m_db_blocks[i] = Genesis \/ ValidBlock(m_db_blocks[i])
    BY <1>1 DEF ChainInv
  <2>2. \A i \in 1..(n - 1) : i \in 1..n
    <3>1. n \in Nat
      BY <1>1
    <3> HIDE DEF n
    <3> QED BY <3>1
  <2> HIDE DEF n
  <2> QED BY <1>3, <2>1, <2>2
<1>10. PastZoneSigned'
  <2> SUFFICES ASSUME NEW i \in 1..(n - 1), \A p \in DOMAIN CheckpointAt : p < i - 1,
                      NEW t \in TxSet(m_db_blocks'[i])
               PROVE  t \in SignedTxs /\ m_db_transactions'[t] = "signed"
    BY <1>3 DEF PastZoneSigned
  <2>1. i \in DOMAIN m_db_blocks /\ n \in DOMAIN m_db_blocks /\ i # n
        /\ t \in TxSet(m_db_blocks[i])
    <3>1. m_db_blocks'[i] = m_db_blocks[i]
      BY <1>3
    <3>2. i \in 1..n /\ n \in 1..n /\ i # n
      <4>1. n \in Nat \ {0} /\ i \in 1..(n - 1)
        BY <1>1
      <4> HIDE DEF n
      <4> QED BY <4>1
    <3>3. DOMAIN m_db_blocks = 1..n
      BY <1>1
    <3> HIDE DEF n
    <3> QED BY <3>1, <3>2, <3>3
  <2>2. t \in SignedTxs /\ m_db_transactions[t] = "signed"
    BY <2>1 DEF ChainInv, PastZoneSigned
  <2>3. t \notin TxSet(Top)
    BY <1>1, <2>1 DEF LedgerInv, NoDoubleSpend
  <2> QED BY <2>2, <2>3, TxAssumption DEF PopTop
<1> QED BY <1>1, <1>3, <1>5, <1>7, <1>8, <1>9, <1>10 DEF ChainInv

(* Steps that leave the main chain alone.                                  *)
LEMMA ChainUnchanged ==
  ASSUME ChainInv, UNCHANGED dbVars
  PROVE  ChainInv' /\ Top' = Top
BY DEF ChainInv, PastZoneSigned, dbVars, Top

(* Connecting a block loses no transaction, and no signature above the     *)
(* checkpoint zone.                                                        *)
LEMMA ConnectHolds ==
  ASSUME NEW b \in Blocks \ {Genesis}, DbTypeOK, Connect(b), NEW t \in Txs, Held(t)
  PROVE  /\ Held(t)'
         /\ ~is_in_checkpoint_zone(Len(m_db_blocks)) /\ Unpruned(t) => Unpruned(t)'
<1>1. Connects(b) /\ b \in PowBlocks
  BY DEF Connect, Connects, HeaderOk
<1>2. CASE t \in TxSet(b)
  <2>1. have_tx(t)
    BY <1>1, <1>2, ConnectedTxs DEF PoolTxs
  <2>2. /\ m_transactions'[t] = NoEntry
        /\ m_db_transactions'[t] =
             IF ZoneFor(b) \/ ~m_transactions[t].sigs THEN "pruned" ELSE "signed"
    BY <1>2 DEF Connect
  <2>3. ZoneFor(b) <=> is_in_checkpoint_zone(Len(m_db_blocks))
    BY <1>1 DEF ZoneFor
  <2> QED BY <2>1, <2>2, <2>3 DEF Held, Unpruned, have_tx, have_tx_chain
<1>3. CASE t \notin TxSet(b)
  <2>1. m_transactions'[t] = m_transactions[t] /\ m_db_transactions'[t] = m_db_transactions[t]
    BY <1>3 DEF Connect
  <2> QED BY <2>1 DEF Held, Unpruned, have_tx, have_tx_chain
<1> QED BY <1>2, <1>3

(* So does refusing one.                                                   *)
LEMMA RejectHolds ==
  ASSUME NEW b \in Blocks, DbTypeOK, PoolTypeOK, Reject(b), NEW t \in Txs, Held(t)
  PROVE  /\ Held(t)'
         /\ ~is_in_checkpoint_zone(Len(m_db_blocks)) /\ Unpruned(t) => Unpruned(t)'
<1>1. m_db_transactions' = m_db_transactions
  BY DEF Reject, dbVars
<1>2. CASE t \in TxsToReturn(b)
  <2>1. have_tx(t) /\ b \in PowBlocks
    BY <1>2 DEF TxsToReturn, TxTaken, HeaderOk
  <2>2. m_transactions'[t] = ReturnedEntry(b, t)
    BY <1>2 DEF Reject
  <2>3. ReturnedEntry(b, t) # NoEntry
    <3>1. MaxUsedBlock(t) \in Blocks
      BY MaxUsedBlockType
    <3> QED BY <3>1, CheckedType DEF ReturnedEntry
  <2>4. ReturnedEntry(b, t).sigs = (m_transactions[t].sigs /\ ~ZoneFor(b))
    BY DEF ReturnedEntry, Checked
  <2>5. ZoneFor(b) <=> is_in_checkpoint_zone(Len(m_db_blocks))
    BY <2>1 DEF ZoneFor
  <2> QED BY <1>1, <2>1, <2>2, <2>3, <2>4, <2>5 DEF Held, Unpruned, have_tx, have_tx_chain
<1>3. CASE t \notin TxsToReturn(b)
  <2>1. m_transactions'[t] = m_transactions[t]
    BY <1>3 DEF Reject
  <2> QED BY <1>1, <2>1 DEF Held, Unpruned, have_tx, have_tx_chain
<1> QED BY <1>2, <1>3

(* And popping the top: its transactions go to the pool as they were       *)
(* stored.                                                                 *)
LEMMA PopHolds ==
  ASSUME DbTypeOK, LedgerInv, PopSucceeds, PopTop, NEW t \in Txs
  PROVE  /\ Held(t) => Held(t)'
         /\ Held(t) /\ Unpruned(t) => Unpruned(t)'
         /\ t \in TxSet(Top) => Held(t)
<1>2. CASE t \in TxSet(Top)
  <2>1. have_tx_chain(t) /\ ~have_tx(t) /\ Returnable(t)
    BY <1>2 DEF PopSucceeds, Returnable
  <2>2. m_db_transactions'[t] = "absent" /\ m_transactions'[t] = PoppedEntry(t)
    BY <1>2, <2>1 DEF PopTop
  <2>3. PoppedEntry(t) # NoEntry
    <3>1. MaxUsedBlock(t) \in Blocks
      BY MaxUsedBlockType
    <3> QED BY <3>1, CheckedType DEF PoppedEntry
  <2>4. PoppedEntry(t).sigs = (m_db_transactions[t] = "signed")
    BY DEF PoppedEntry, Checked
  <2> QED BY <2>1, <2>2, <2>3, <2>4 DEF Held, Unpruned, have_tx, have_tx_chain
<1>3. CASE t \notin TxSet(Top)
  <2>1. m_db_transactions'[t] = m_db_transactions[t] /\ m_transactions'[t] = m_transactions[t]
    BY <1>3 DEF PopTop
  <2> QED BY <1>3, <2>1 DEF Held, Unpruned, have_tx, have_tx_chain
<1> QED BY <1>2, <1>3
-----------------------------------------------------------------------------
(***************************************************************************)
(* ReorgInv between blocks.                                                *)
(***************************************************************************)

(* After a step that leaves no switch in progress ReorgInv says what       *)
(* ChainInv and KnownOnce say.                                             *)
LEMMA IdleAfter ==
  ASSUME DbTypeOK', ChainInv', pc' = "idle", disconnected_chain' = <<>>,
         \A b \in m_alternative_chains' : check_block(Height(b), b),
         \A i \in DOMAIN m_db_blocks' :
           m_db_blocks'[i] \notin m_alternative_chains' \cup m_invalid_blocks',
         m_alternative_chains' \cap m_invalid_blocks' = {}
  PROVE  ReorgInv'
<1>1. DOMAIN m_db_blocks' = 1..Len(m_db_blocks') /\ Len(m_db_blocks') \in Nat
  BY LenProperties DEF DbTypeOK
<1>2. /\ Kept' = Len(m_db_blocks') /\ OldTop' = Top' /\ Dropping' = {}
      /\ DOMAIN disconnected_chain' = {} /\ Len(disconnected_chain') = 0
  BY DEF Kept, OldTop, Dropping
<1>3. OldInv'
  BY <1>1, <1>2 DEF OldInv, ChainInv
<1>4. HeldInv' /\ BranchInv'
  BY <1>2 DEF HeldInv, BranchInv
<1>5. KnownInv'
  BY <1>1, <1>2 DEF KnownInv
<1> QED BY <1>3, <1>4, <1>5 DEF ReorgInv

(* What ReorgInv says while no switch is in progress.                      *)
LEMMA IdleBefore ==
  ASSUME DbTypeOK, ReorgInv, pc = "idle"
  PROVE  /\ disconnected_chain = <<>>
         /\ \A i \in DOMAIN m_db_blocks :
              m_db_blocks[i] \notin m_alternative_chains \cup m_invalid_blocks
         /\ OnChain \cap (m_alternative_chains \cup m_invalid_blocks) = {}
         /\ m_alternative_chains \cap m_invalid_blocks = {}
         /\ \A b \in m_alternative_chains : check_block(Height(b), b)
BY ChainFacts DEF ReorgInv, OldInv, KnownInv, Kept, Dropping, OnChain

(* Steps that leave the chain alone and only forget blocks.                *)
LEMMA IdleReorg ==
  ASSUME Inv, Inv', ReorgInv, pc = "idle", UNCHANGED dbVars, UNCHANGED swVars,
         m_alternative_chains' \subseteq m_alternative_chains,
         m_invalid_blocks' \subseteq m_invalid_blocks
  PROVE  ReorgInv'
<1>1. DbTypeOK /\ DbTypeOK'
  BY DEF Inv, TypeOK
<1>2. ChainInv'
  BY ChainUnchanged DEF ReorgInv
<1>3. pc' = "idle" /\ disconnected_chain' = <<>> /\ m_db_blocks' = m_db_blocks
  BY <1>1, IdleBefore DEF swVars, dbVars
<1>4. \A b \in m_alternative_chains' : check_block(Height(b), b)
  BY <1>1, IdleBefore
<1>5. \A i \in DOMAIN m_db_blocks' :
        m_db_blocks'[i] \notin m_alternative_chains' \cup m_invalid_blocks'
  BY <1>1, <1>3, IdleBefore
<1>6. m_alternative_chains' \cap m_invalid_blocks' = {}
  BY <1>1, IdleBefore
<1> QED BY <1>1, <1>2, <1>3, <1>4, <1>5, <1>6, IdleAfter

(* A block on top of the main chain.                                       *)
LEMMA AddMainBlock_Reorg ==
  ASSUME Inv, Inv', ReorgInv, NEW b \in Blocks \ {Genesis}, AddMainBlock(b)
  PROVE  ReorgInv'
<1>1. /\ DbTypeOK /\ PoolTypeOK /\ ChainHeights /\ LedgerInv /\ DbTypeOK' /\ ChainInv
  BY DEF Inv, TypeOK, SwitchOK, ReorgInv
<1>2. /\ pc = "idle" /\ pc' = "idle" /\ m_alternative_chains' = m_alternative_chains
      /\ disconnected_chain' = <<>>
      /\ b \notin OnChain \cup m_alternative_chains \cup m_invalid_blocks
  BY <1>1, IdleBefore DEF AddMainBlock, swVars, have_block
<1>3. \A c \in m_alternative_chains' : check_block(Height(c), c)
  BY <1>1, <1>2, IdleBefore
<1>4. CASE Connect(b) /\ UNCHANGED m_invalid_blocks
  <2>1. /\ ChainInv'
        /\ Len(m_db_blocks') = Len(m_db_blocks) + 1
        /\ \A i \in 1..Len(m_db_blocks) : m_db_blocks'[i] = m_db_blocks[i]
        /\ m_db_blocks'[Len(m_db_blocks) + 1] = b
    BY <1>1, <1>4, ConnectChain
  <2>2. /\ DOMAIN m_db_blocks' = 1..(Len(m_db_blocks) + 1)
        /\ DOMAIN m_db_blocks = 1..Len(m_db_blocks) /\ Len(m_db_blocks) \in Nat
    BY <1>1, <2>1, ChainFacts, LenProperties DEF DbTypeOK
  <2>3. \A i \in DOMAIN m_db_blocks' :
          m_db_blocks'[i] \notin m_alternative_chains' \cup m_invalid_blocks'
    BY <1>1, <1>2, <1>4, <2>1, <2>2, IdleBefore
  <2>4. m_alternative_chains' \cap m_invalid_blocks' = {}
    BY <1>1, <1>2, <1>4, IdleBefore
  <2> QED BY <1>1, <1>2, <1>3, <2>1, <2>3, <2>4, IdleAfter
<1>5. CASE Reject(b) /\ m_invalid_blocks' = m_invalid_blocks \cup InvalidatedBy(b)
  <2>1. UNCHANGED dbVars /\ m_db_blocks' = m_db_blocks
    BY <1>5 DEF Reject, dbVars
  <2>2. ChainInv'
    BY <1>1, <2>1, ChainUnchanged
  <2>3. InvalidatedBy(b) \subseteq {b}
    BY DEF InvalidatedBy
  <2>4. \A i \in DOMAIN m_db_blocks : m_db_blocks[i] # b
    BY <1>2 DEF OnChain
  <2>5. \A i \in DOMAIN m_db_blocks' :
          m_db_blocks'[i] \notin m_alternative_chains' \cup m_invalid_blocks'
    BY <1>1, <1>2, <1>5, <2>1, <2>3, <2>4, IdleBefore
  <2>6. m_alternative_chains' \cap m_invalid_blocks' = {}
    BY <1>1, <1>2, <1>5, <2>3, IdleBefore
  <2> QED BY <1>1, <1>2, <1>3, <2>2, <2>5, <2>6, IdleAfter
<1> QED BY <1>4, <1>5 DEF AddMainBlock
-----------------------------------------------------------------------------
(***************************************************************************)
(* The start of a switch.                                                  *)
(***************************************************************************)

(* A height below one in the checkpoint zone is in it.                     *)
LEMMA ZoneDown ==
  ASSUME NEW h \in Int, NEW k \in Int, k <= h, is_in_checkpoint_zone(h)
  PROVE  is_in_checkpoint_zone(k)
BY CheckpointAssumption DEF is_in_checkpoint_zone

(* The branch to p is the end of its path: all of it alternative, and the  *)
(* block before it is not.                                                 *)
LEMMA AltBranchPath ==
  ASSUME AltTypeOK, NEW p \in Blocks
  PROVE  \E last \in 1..Len(Path[p]) :
           /\ Path[p][last] \notin m_alternative_chains
           /\ \A i \in 1..Len(Path[p]) : i > last => Path[p][i] \in m_alternative_chains
           /\ AltBranch(p) = SubSeq(Path[p], last + 1, Len(Path[p]))
           /\ Len(AltBranch(p)) = Len(Path[p]) - last
           /\ \A i \in 1..(Len(Path[p]) - last) : AltBranch(p)[i] = Path[p][last + i]
<1> DEFINE off == {i \in DOMAIN Path[p] : Path[p][i] \notin m_alternative_chains}
           last == CHOOSE i \in off : \A j \in off : j <= i
           n == Len(Path[p])
<1>1. Path[p] \in Seq(Blocks) /\ n \in Nat \ {0} /\ DOMAIN Path[p] = 1..n /\ Path[p][1] = Genesis
  BY PathFacts
<1>2. 1 \in off /\ off \subseteq 1..n
  BY <1>1 DEF AltTypeOK
<1>3. \E i \in off : \A j \in off : j <= i
  <2> HIDE DEF off
  <2> QED BY <1>1, <1>2, MaxIndex
<1>4. last \in off /\ \A j \in off : j <= last
  <2> HIDE DEF off
  <2> QED BY <1>3
<1>5. AltBranch(p) = SubSeq(Path[p], last + 1, n)
  BY DEF AltBranch
<1>6. last \in 1..n /\ Path[p][last] \notin m_alternative_chains
  BY <1>2, <1>4
<1> HIDE DEF last
<1>7. \A i \in 1..n : i > last => Path[p][i] \in m_alternative_chains
  <2> SUFFICES ASSUME NEW i \in 1..n, i > last PROVE Path[p][i] \in m_alternative_chains
    OBVIOUS
  <2>1. i \notin off
    <3> HIDE DEF off, n
    <3> QED BY <1>1, <1>4, <1>6
  <2> QED BY <1>1, <2>1
<1>8. /\ Len(AltBranch(p)) = n - last
      /\ \A i \in 1..(n - last) : AltBranch(p)[i] = Path[p][last + i]
  <2> DEFINE q == Path[p]
  <2>1. q \in Seq(Blocks) /\ n = Len(q)
    BY <1>1
  <2> HIDE DEF q, n
  <2>2. last + 1 \in 1..(n + 1) /\ n \in Nat /\ last \in Nat
    BY <1>1, <1>6
  <2>3. /\ Len(SubSeq(q, last + 1, n)) = IF last + 1 <= n THEN n - (last + 1) + 1 ELSE 0
        /\ \A i \in 1..(n - (last + 1) + 1) : SubSeq(q, last + 1, n)[i] = q[last + 1 + i - 1]
    BY <2>1, <2>2, SubSeqProperties
  <2>4. n - (last + 1) + 1 = n - last /\ \A i \in 1..(n - last) : last + 1 + i - 1 = last + i
    BY <2>2
  <2>5. AltBranch(p) = SubSeq(q, last + 1, n)
    BY <1>5 DEF q
  <2>6. Len(AltBranch(p)) = n - last
    BY <1>1, <1>6, <2>2, <2>3, <2>5
  <2>7. \A i \in 1..(n - last) : AltBranch(p)[i] = q[last + i]
    BY <2>3, <2>4, <2>5
  <2> QED BY <2>6, <2>7 DEF q
<1> QED BY <1>5, <1>6, <1>7, <1>8

(* alt_chain as handle_alternative_block builds it: known blocks at        *)
(* consecutive heights, the new one at the end.                            *)
LEMMA BranchFacts ==
  ASSUME AltTypeOK, NEW b \in Blocks \ {Genesis},
         NEW branch, branch = Append(AltBranch(Prev[b]), b)
  PROVE  /\ branch \in Seq(Blocks \ {Genesis}) /\ Len(branch) \in Nat \ {0}
         /\ DOMAIN branch = 1..Len(branch)
         /\ branch[Len(branch)] = b
         /\ Height(branch[1]) \in Nat \ {0}
         /\ \A i \in 1..Len(branch) :
              /\ branch[i] \in Blocks
              /\ branch[i] \in m_alternative_chains \cup {b}
              /\ Height(branch[i]) = Height(branch[1]) + i - 1
<1> DEFINE p == Prev[b]
           n == Len(Path[p])
<1>1. p \in Blocks /\ n \in Nat \ {0} /\ Height(b) = n
  BY PathFacts, TreeFacts
<1>2. PICK last \in 1..n :
        /\ \A i \in 1..n : i > last => Path[p][i] \in m_alternative_chains
        /\ Len(AltBranch(p)) = n - last
        /\ \A i \in 1..(n - last) : AltBranch(p)[i] = Path[p][last + i]
  BY <1>1, AltBranchPath
<1>3. AltBranch(p) \in Seq(Blocks \ {Genesis})
  BY <1>1, AltBranchFacts
<1>4. /\ branch \in Seq(Blocks \ {Genesis})
      /\ Len(branch) = n - last + 1
      /\ \A i \in 1..(n - last) : branch[i] = Path[p][last + i]
      /\ branch[n - last + 1] = b
  <2> HIDE DEF n, p
  <2>1. branch = Append(AltBranch(p), b)
    BY DEF p
  <2> QED BY <1>1, <1>2, <1>3, <2>1, AppendProperties
<1>5. ASSUME NEW i \in 1..(n - last + 1)
      PROVE  /\ branch[i] \in Blocks
             /\ branch[i] \in m_alternative_chains \cup {b}
             /\ Height(branch[i]) = last + i - 1
  <2>1. CASE i = n - last + 1
    BY <1>1, <1>2, <1>4, <2>1
  <2>2. CASE i # n - last + 1
    <3>1. i \in 1..(n - last) /\ last + i \in 1..n /\ last + i > last
      <4> HIDE DEF n
      <4> QED BY <1>1, <2>2
    <3>2. branch[i] = Path[p][last + i] /\ Path[p][last + i] \in m_alternative_chains
      BY <1>2, <1>4, <3>1
    <3>3. Path[p][last + i] \in Blocks /\ Len(Path[Path[p][last + i]]) = last + i
      BY <1>1, <3>1, PathPrefix
    <3>4. Height(branch[i]) = last + i - 1
      BY <3>2, <3>3 DEF Height
    <3> QED BY <3>2, <3>3, <3>4
  <2> QED BY <2>1, <2>2
<1>6. 1 \in 1..(n - last + 1) /\ n - last + 1 \in Nat \ {0} /\ last \in Nat \ {0}
  <2> HIDE DEF n
  <2> QED BY <1>1
<1>7. Height(branch[1]) = last
  BY <1>5, <1>6
<1>8. DOMAIN branch = 1..Len(branch)
  BY <1>4, LenProperties
<1> HIDE DEF n, p
<1> QED BY <1>4, <1>5, <1>6, <1>7, <1>8

(***************************************************************************)
(* If the branch reaches into the checkpoint zone, so does the top of the  *)
(* main chain: otherwise the main chain has passed a checkpoint that the   *)
(* branch goes around, or ends below.                                      *)
(***************************************************************************)
LEMMA ZoneAgrees ==
  ASSUME DbTypeOK, AltTypeOK, ChainHeights, ReorgInv, pc = "idle",
         NEW b \in Blocks \ {Genesis}, ~have_block(b), AltAccepts(b),
         NEW branch, branch = Append(AltBranch(Prev[b]), b),
         is_in_checkpoint_zone(Height(branch[1]))
  PROVE  is_in_checkpoint_zone(Len(m_db_blocks) - 1)
<1> DEFINE n == Len(m_db_blocks)
           s == Height(branch[1])
<1> SUFFICES ASSUME ~is_in_checkpoint_zone(n - 1) PROVE FALSE
  OBVIOUS
<1>1. /\ Len(branch) \in Nat \ {0} /\ branch[Len(branch)] = b /\ s \in Nat \ {0}
      /\ \A i \in 1..Len(branch) : /\ branch[i] \in Blocks
                                   /\ branch[i] \in m_alternative_chains \cup {b}
                                   /\ Height(branch[i]) = s + i - 1
  BY BranchFacts
<1>2. n \in Nat \ {0} /\ DOMAIN m_db_blocks = 1..n
  BY ChainFacts
<1>3. PICK p \in DOMAIN CheckpointAt : s <= p
  BY DEF is_in_checkpoint_zone
<1>4. p \in Nat /\ p < n - 1
  BY <1>2, <1>3, CheckpointAssumption DEF is_in_checkpoint_zone
<1>5. ~(Height(b) <= n - 1 /\ Height(b) <= p)
  BY <1>2, <1>4 DEF AltAccepts, AltPow, is_height_passed_zone
<1>6. Height(b) = s + Len(branch) - 1
  BY <1>1
<1> DEFINE j == p - s + 1
           x == branch[j]
<1> HIDE DEF n, s
<1>7. j \in 1..Len(branch)
  <2>1. s \in Nat /\ Len(branch) \in Nat \ {0} /\ n \in Nat /\ p \in Nat
    BY <1>1, <1>2, <1>4
  <2> QED BY <1>3, <1>4, <1>5, <1>6, <2>1
<1>8. x \in m_alternative_chains \cup {b} /\ Height(x) = p
  <2>1. Height(x) = s + j - 1
    BY <1>1, <1>7
  <2> QED BY <1>1, <1>4, <1>7, <2>1
<1>9. check_block(Height(x), x)
  BY <1>8, IdleBefore DEF AltAccepts
<1>10. x = CheckpointAt[p]
  BY <1>3, <1>8, <1>9 DEF check_block
<1>11. p + 1 \in DOMAIN m_db_blocks
  BY <1>2, <1>4
<1>12. Len(Path[m_db_blocks[p + 1]]) = p + 1
  BY <1>11 DEF ChainHeights
<1>13. m_db_blocks[p + 1] # Genesis /\ Height(m_db_blocks[p + 1]) = p
  <2>1. p + 1 # 1 /\ (p + 1) - 1 = p
    BY <1>1, <1>3, <1>4
  <2>2. Len(Path[Genesis]) = 1
    BY TreeFacts
  <2> QED BY <1>12, <2>1, <2>2 DEF Height
<1>14. m_db_blocks[p + 1] = CheckpointAt[p]
  BY <1>3, <1>11, <1>13 DEF ReorgInv, ChainInv, ValidBlock, GoodBlocks
<1>15. x \in OnChain
  BY <1>10, <1>11, <1>14 DEF OnChain
<1>16. x \notin OnChain
  BY <1>8, IdleBefore DEF have_block
<1> QED BY <1>15, <1>16

(* A block elsewhere: refused, stored, or the start of a switch.           *)
LEMMA AddAltBlock_Reorg ==
  ASSUME Inv, Inv', ReorgInv, NEW b \in Blocks \ {Genesis}, AddAltBlock(b)
  PROVE  ReorgInv'
<1>1. DbTypeOK /\ AltTypeOK /\ ChainHeights /\ DbTypeOK' /\ ChainInv
  BY DEF Inv, TypeOK, SwitchOK, ReorgInv
<1>2. /\ pc = "idle" /\ ~have_block(b) /\ UNCHANGED dbVars /\ m_db_blocks' = m_db_blocks
      /\ m_invalid_blocks' = m_invalid_blocks
      /\ b \notin OnChain \cup m_alternative_chains \cup m_invalid_blocks
  BY DEF AddAltBlock, have_block, dbVars
<1>3. ChainInv' /\ Top' = Top
  BY <1>1, <1>2, ChainUnchanged
<1>4. \/ m_alternative_chains' = m_alternative_chains
      \/ AltAccepts(b) /\ m_alternative_chains' = m_alternative_chains \cup {b}
  BY DEF AddAltBlock
<1>5. \A c \in m_alternative_chains' : check_block(Height(c), c)
  BY <1>1, <1>2, <1>4, IdleBefore DEF AltAccepts
<1>6. \A i \in DOMAIN m_db_blocks' :
        m_db_blocks'[i] \notin m_alternative_chains' \cup m_invalid_blocks'
  BY <1>1, <1>2, <1>4, IdleBefore DEF OnChain
<1>7. m_alternative_chains' \cap m_invalid_blocks' = {}
  BY <1>1, <1>2, <1>4, IdleBefore
<1>8. CASE UNCHANGED swVars
  <2>1. pc' = "idle" /\ disconnected_chain' = <<>>
    BY <1>1, <1>2, <1>8, IdleBefore DEF swVars
  <2> QED BY <1>1, <1>3, <1>5, <1>6, <1>7, <2>1, IdleAfter
<1>9. CASE /\ AltAccepts(b) /\ m_alternative_chains' = m_alternative_chains \cup {b}
           /\ Heavier(b)
           /\ pc' = "pop" /\ alt_chain' = Append(AltBranch(Prev[b]), b)
           /\ disconnected_chain' = <<>> /\ pos' = 1
  <2>1. /\ DOMAIN m_db_blocks' = 1..Len(m_db_blocks') /\ Len(m_db_blocks') \in Nat \ {0}
    BY <1>1, <1>2, ChainFacts
  <2>2. /\ Kept' = Len(m_db_blocks') /\ OldTop' = Top' /\ Dropping' = {}
        /\ DOMAIN disconnected_chain' = {} /\ Len(disconnected_chain') = 0
    BY <1>9 DEF Kept, OldTop, Dropping
  <2>3. OldInv'
    BY <1>3, <1>9, <2>1, <2>2 DEF OldInv, ChainInv
  <2>4. HeldInv'
    BY <2>2 DEF HeldInv
  <2>5. KnownInv'
    BY <1>5, <1>6, <1>7, <1>9, <2>1, <2>2 DEF KnownInv
  <2>6. /\ DOMAIN alt_chain' = 1..Len(alt_chain')
        /\ alt_chain'[Len(alt_chain')] = b
        /\ \A i \in DOMAIN alt_chain' : alt_chain'[i] \in m_alternative_chains'
    <3>1. /\ DOMAIN alt_chain' = 1..Len(alt_chain')
          /\ alt_chain'[Len(alt_chain')] = b
          /\ \A i \in 1..Len(alt_chain') : alt_chain'[i] \in m_alternative_chains \cup {b}
      BY <1>1, <1>9, BranchFacts
    <3> QED BY <1>9, <3>1
  <2>7. is_in_checkpoint_zone(Split') => is_in_checkpoint_zone(Kept' + Len(disconnected_chain') - 1)
    <3>1. ASSUME is_in_checkpoint_zone(Height(alt_chain'[1]))
          PROVE  is_in_checkpoint_zone(Len(m_db_blocks) - 1)
      BY <1>1, <1>2, <1>9, <3>1, ZoneAgrees
    <3>2. Split' = Height(alt_chain'[1])
      BY DEF Split, Height
    <3>3. Kept' + Len(disconnected_chain') - 1 = Len(m_db_blocks) - 1
      BY <1>2, <2>1, <2>2
    <3> QED BY <3>1, <3>2, <3>3
  <2>8. Work[OldTop'] < Work[alt_chain'[Len(alt_chain')]]
    BY <1>3, <1>9, <2>2, <2>6 DEF Heavier
  <2>9. BranchInv'
    BY <1>9, <2>6, <2>7, <2>8 DEF BranchInv, is_in_checkpoint_zone
  <2> QED BY <1>3, <2>3, <2>4, <2>5, <2>9 DEF ReorgInv
<1> QED BY <1>8, <1>9 DEF AddAltBlock
-----------------------------------------------------------------------------
(***************************************************************************)
(* Inside a switch.                                                        *)
(***************************************************************************)

(* The blocks that were disconnected are those of the old chain above the  *)
(* part that is kept.                                                      *)
LEMMA OldFacts ==
  ASSUME DbTypeOK, SwitchTypeOK, OldInv, disconnected_chain # <<>>, Kept \in Nat
  PROVE  /\ Len(disconnected_chain) \in Nat \ {0}
         /\ DOMAIN disconnected_chain = 1..Len(disconnected_chain)
         /\ OldTop = disconnected_chain[Len(disconnected_chain)] /\ OldTop \in Blocks
         /\ \A i \in 1..Len(disconnected_chain) :
              /\ disconnected_chain[i] \in Blocks \ {Genesis}
              /\ Len(Path[disconnected_chain[i]]) = Kept + i
              /\ Height(disconnected_chain[i]) = Kept + i - 1
              /\ \A j \in 1..(Kept + i) :
                   Path[disconnected_chain[i]][j] = Path[OldTop][j]
<1> DEFINE d == disconnected_chain
           l == Len(d)
<1>1. l \in Nat \ {0} /\ DOMAIN d = 1..l /\ \A i \in 1..l : d[i] \in Blocks \ {Genesis}
  BY EmptySeq, LenProperties, ElementOfSeq DEF SwitchTypeOK
<1>2. OldTop = d[l] /\ OldTop \in Blocks
  BY <1>1 DEF OldTop
<1>3. ASSUME NEW i \in 1..l
      PROVE  /\ Len(Path[d[i]]) = Kept + i
             /\ \A j \in 1..(Kept + i) : Path[d[i]][j] = Path[OldTop][j]
  <2>1. Len(Path[OldTop]) = Kept + l /\ Path[OldTop][Kept + i] = d[i]
    BY <1>1 DEF OldInv
  <2> HIDE DEF l, d
  <2>2. Kept + i \in 1..Len(Path[OldTop])
    BY <1>1, <2>1
  <2> QED BY <1>2, <2>1, <2>2, PathPrefix
<1>4. ASSUME NEW i \in 1..l PROVE Height(d[i]) = Kept + i - 1
  BY <1>3 DEF Height
<1> QED BY <1>1, <1>2, <1>3, <1>4

(* Where a switch is, in terms of what ReorgInv talks about.               *)
LEMMA SwitchFacts ==
  ASSUME Inv, pc # "idle"
  PROVE  /\ Len(m_db_blocks) \in Nat \ {0} /\ DOMAIN m_db_blocks = 1..Len(m_db_blocks)
         /\ Len(alt_chain) \in Nat \ {0} /\ DOMAIN alt_chain = 1..Len(alt_chain)
         /\ Len(disconnected_chain) \in Nat
         /\ DOMAIN disconnected_chain = 1..Len(disconnected_chain)
         /\ Split \in Nat \ {0} /\ Split <= Len(m_db_blocks)
         /\ Kept \in Nat \ {0} /\ Kept <= Len(m_db_blocks)
<1>1. DbTypeOK /\ SwitchTypeOK /\ alt_chain # <<>>
  BY DEF Inv, TypeOK, SwitchOK, SwitchTypeOK
<1>2. /\ Len(m_db_blocks) \in Nat \ {0} /\ DOMAIN m_db_blocks = 1..Len(m_db_blocks)
      /\ Split \in Nat \ {0}
  BY <1>1, ChainFacts, SplitFacts
<1>3. /\ Len(alt_chain) \in Nat \ {0} /\ DOMAIN alt_chain = 1..Len(alt_chain)
      /\ Len(disconnected_chain) \in Nat
      /\ DOMAIN disconnected_chain = 1..Len(disconnected_chain)
  BY <1>1, EmptySeq, LenProperties DEF SwitchTypeOK
<1>4. Split <= Len(m_db_blocks)
  <2>1. CASE pc = "connect"
    BY <1>2, <1>3, <2>1 DEF Inv, SwitchOK
  <2>2. CASE pc \in {"pop", "to_alt", "rollback_pop"}
    BY <1>2, <2>2 DEF Inv, SwitchOK
  <2>3. CASE pc = "rollback_push"
    BY <1>2, <1>3, <2>3 DEF Inv, SwitchOK
  <2> QED BY <1>1, <2>1, <2>2, <2>3 DEF SwitchTypeOK
<1> QED BY <1>2, <1>3, <1>4 DEF Kept

(* One block of the old chain is disconnected.                             *)
LEMMA DisconnectOld_Reorg ==
  ASSUME Inv, Inv', ReorgInv, PopSucceeds, DisconnectOld
  PROVE  ReorgInv' /\ OldTop' = OldTop /\ pc' # "idle"
<1> DEFINE n == Len(m_db_blocks)
           d == disconnected_chain
<1>1. /\ DbTypeOK /\ PoolTypeOK /\ ChainHeights /\ LedgerInv /\ SwitchTypeOK /\ DbTypeOK'
      /\ ChainInv /\ OldInv /\ HeldInv /\ BranchInv /\ KnownInv
  BY DEF Inv, TypeOK, SwitchOK, ReorgInv
<1>2. pc = "pop" /\ PopTop /\ UNCHANGED altVars /\ n > Split
  BY DEF DisconnectOld, Inv, SwitchOK
<1>3. /\ n \in Nat \ {0} /\ DOMAIN m_db_blocks = 1..n /\ Split \in Nat \ {0}
      /\ Len(d) \in Nat /\ DOMAIN d = 1..Len(d) /\ Kept = n
  BY <1>2, SwitchFacts DEF Kept
<1>4. n > 1
  <2> HIDE DEF n
  <2> QED BY <1>2, <1>3
<1>5. /\ ChainInv' /\ Top \in Blocks \ {Genesis}
      /\ Len(m_db_blocks') = n - 1
      /\ \A i \in 1..(n - 1) : m_db_blocks'[i] = m_db_blocks[i]
  BY <1>1, <1>2, <1>4, PopChain
<1>6. /\ d' = <<Top>> \o d
      /\ pc' = (IF n - 1 = Split THEN "connect" ELSE "pop")
      /\ UNCHANGED <<alt_chain, pos>>
  BY <1>1, <1>2 DEF DisconnectOld
<1>7. Split' = Split
  BY <1>6 DEF Split
<1>8. Kept' = n - 1
  BY <1>5, <1>6, <1>7 DEF Kept
<1>9. /\ Len(d') = Len(d) + 1 /\ DOMAIN d' = 1..(Len(d) + 1)
      /\ d'[1] = Top
      /\ \A i \in 1..Len(d) : d'[i + 1] = d[i]
  <2>1. d \in Seq(Blocks) /\ <<Top>> \in Seq(Blocks) /\ Len(<<Top>>) = 1 /\ <<Top>>[1] = Top
    BY <1>1, <1>5 DEF SwitchTypeOK
  <2>2. d' \in Seq(Blocks) /\ Len(d') = 1 + Len(d)
    BY <1>6, <2>1, ConcatProperties
  <2>3. \A i \in 1..Len(d') : d'[i] = IF i <= 1 THEN <<Top>>[i] ELSE d[i - 1]
    BY <1>6, <2>1, ConcatProperties
  <2>4. DOMAIN d' = 1..Len(d')
    BY <2>2, LenProperties
  <2> HIDE DEF d
  <2>5. \A i \in 1..Len(d) : i + 1 \in 1..Len(d') /\ ~(i + 1 <= 1) /\ (i + 1) - 1 = i
    BY <1>3, <2>2
  <2>6. d'[1] = Top
    BY <1>3, <2>1, <2>2, <2>3
  <2> QED BY <1>3, <2>2, <2>3, <2>4, <2>5, <2>6
<1>10. OldTop' = OldTop
  <2>1. d' # <<>>
    BY <1>3, <1>9
  <2>2. OldTop' = d'[Len(d')]
    BY <2>1 DEF OldTop
  <2>3. CASE d = <<>>
    <3>1. Len(d) = 0 /\ OldTop = Top
      BY <2>3 DEF OldTop
    <3> QED BY <1>9, <2>2, <3>1
  <2>4. CASE d # <<>>
    <3>1. OldTop = d[Len(d)] /\ Len(d) \in 1..Len(d)
      BY <1>1, <1>3, <2>4, EmptySeq DEF OldTop, SwitchTypeOK
    <3> HIDE DEF d
    <3> QED BY <1>9, <2>2, <3>1
  <2> QED BY <2>3, <2>4
<1>11. Top = m_db_blocks[n] /\ n \in 1..n
  BY <1>3 DEF Top
<1>12. ValidBlock(Top)
  BY <1>1, <1>3, <1>5, <1>11 DEF ChainInv
<1> HIDE DEF n, d
<1>13. \A i \in DOMAIN d' : i = 1 \/ (i - 1 \in DOMAIN d /\ d'[i] = d[i - 1])
  <2> SUFFICES ASSUME NEW i \in 1..(Len(d) + 1), i # 1
               PROVE  i - 1 \in 1..Len(d) /\ d'[i] = d[i - 1]
    BY <1>3, <1>9
  <2>1. i - 1 \in 1..Len(d) /\ (i - 1) + 1 = i
    BY <1>3
  <2> QED BY <1>9, <2>1
<1>14. OldInv'
  <2>1. pc' # "idle"
    BY <1>6
  <2>2. Len(Path[OldTop']) = Kept' + Len(d')
    <3>1. Len(Path[OldTop]) = n + Len(d)
      BY <1>1, <1>3 DEF OldInv, d
    <3> QED BY <1>3, <1>8, <1>9, <1>10, <3>1
  <2>3. \A i \in 1..Kept' : Path[OldTop'][i] = m_db_blocks'[i]
    <3>1. \A i \in 1..n : Path[OldTop][i] = m_db_blocks[i]
      BY <1>1, <1>3 DEF OldInv
    <3>2. \A i \in 1..(n - 1) : i \in 1..n
      BY <1>3
    <3> QED BY <1>5, <1>8, <1>10, <3>1, <3>2
  <2>4. ASSUME NEW i \in DOMAIN d'
        PROVE  Path[OldTop'][Kept' + i] = d'[i] /\ ValidBlock(d'[i])
    <3>1. CASE i = 1
      <4>1. Path[OldTop][n] = m_db_blocks[n] /\ Kept' + i = n
        BY <1>1, <1>3, <1>8, <1>11, <3>1 DEF OldInv
      <4> QED BY <1>9, <1>10, <1>11, <1>12, <3>1, <4>1
    <3>2. CASE i # 1
      <4>1. i - 1 \in DOMAIN d /\ d'[i] = d[i - 1]
        BY <1>13, <3>2
      <4>2. Path[OldTop][n + (i - 1)] = d[i - 1] /\ ValidBlock(d[i - 1])
        BY <1>1, <1>3, <4>1 DEF OldInv, d
      <4>3. Kept' + i = n + (i - 1)
        BY <1>3, <1>8, <1>9
      <4> QED BY <1>10, <4>1, <4>2, <4>3
    <3> QED BY <3>1, <3>2
  <2> QED BY <2>1, <2>2, <2>3, <2>4 DEF OldInv, d
<1>15. HeldInv'
  <2> SUFFICES ASSUME NEW i \in DOMAIN d', NEW t \in TxSet(d'[i])
               PROVE  Held(t)' /\ (~is_in_checkpoint_zone(Split) => Unpruned(t)')
    BY <1>7 DEF HeldInv, d, is_in_checkpoint_zone
  <2>1. CASE i = 1
    <3>1. t \in TxSet(Top) /\ t \in Txs
      BY <1>5, <1>9, <2>1, TxSetType
    <3>2. Held(t) /\ Held(t)'
      BY <1>1, <1>2, <3>1, PopHolds
    <3>3. ASSUME ~is_in_checkpoint_zone(Split) PROVE Unpruned(t)
      <4>1. \A p \in DOMAIN CheckpointAt : p < n - 1
        <5>1. \A p \in DOMAIN CheckpointAt : p \in Nat /\ ~(Split <= p)
          BY <3>3, CheckpointAssumption DEF is_in_checkpoint_zone
        <5> QED BY <1>2, <1>3, <5>1 DEF n
      <4>2. m_db_transactions[t] = "signed"
        BY <1>1, <1>3, <1>11, <3>1, <4>1 DEF ChainInv, PastZoneSigned
      <4>3. ~have_tx(t)
        BY <3>1 DEF PopSucceeds, Returnable
      <4> QED BY <4>2, <4>3 DEF Unpruned
    <3> QED BY <1>1, <1>2, <3>1, <3>2, <3>3, PopHolds
  <2>2. CASE i # 1
    <3>1. i - 1 \in DOMAIN d /\ t \in TxSet(d[i - 1])
      BY <1>13, <2>2
    <3>2. t \in Txs
      <4>1. d[i - 1] \in Blocks
        BY <1>1, <1>3, <3>1, ElementOfSeq DEF SwitchTypeOK, d
      <4> QED BY <3>1, <4>1, TxSetType
    <3>3. Held(t) /\ (~is_in_checkpoint_zone(Split) => Unpruned(t))
      BY <1>1, <3>1 DEF HeldInv, d
    <3> QED BY <1>1, <1>2, <3>2, <3>3, PopHolds
  <2> QED BY <2>1, <2>2
<1>16. BranchInv'
  <2>1. \A i \in DOMAIN alt_chain' : alt_chain'[i] \in m_alternative_chains'
    BY <1>1, <1>2, <1>6 DEF BranchInv, altVars
  <2>2. Work[OldTop'] < Work[alt_chain'[Len(alt_chain')]]
    BY <1>1, <1>2, <1>6, <1>10 DEF BranchInv
  <2>3. Kept' + Len(d') - 1 = Kept + Len(d) - 1
    BY <1>3, <1>8, <1>9
  <2>4. is_in_checkpoint_zone(Split) => is_in_checkpoint_zone(Kept + Len(d) - 1)
    BY <1>1, <1>2 DEF BranchInv, d
  <2>5. pc' = "connect" => 1..(Len(m_db_blocks') - Split') = {}
    BY <1>3, <1>5, <1>6, <1>7
  <2>6. pc' \in {"connect", "pop"}
    BY <1>6
  <2> QED BY <1>7, <2>1, <2>2, <2>3, <2>4, <2>5, <2>6 DEF BranchInv, d, is_in_checkpoint_zone
<1>17. KnownInv'
  <2>1. UNCHANGED <<m_alternative_chains, m_invalid_blocks>>
    BY <1>2 DEF altVars
  <2>2. pc' \in {"connect", "pop"}
    BY <1>6
  <2>3. Dropping = {} /\ Dropping' = {}
    BY <1>2, <2>2 DEF Dropping
  <2>4. \A i \in 1..n : m_db_blocks[i] \notin m_alternative_chains \cup m_invalid_blocks
    BY <1>1, <1>3 DEF KnownInv
  <2>5. \A i \in 1..Kept' : m_db_blocks'[i] \notin m_alternative_chains \cup m_invalid_blocks
    <3>1. \A i \in 1..(n - 1) : i \in 1..n
      BY <1>3
    <3> QED BY <1>5, <1>8, <2>4, <3>1
  <2>6. ASSUME NEW i \in DOMAIN d'
        PROVE  d'[i] \notin m_invalid_blocks /\ d'[i] \notin m_alternative_chains
    <3>1. CASE i = 1
      BY <1>9, <1>11, <2>4, <3>1
    <3>2. CASE i # 1
      <4>1. i - 1 \in DOMAIN d /\ d'[i] = d[i - 1]
        BY <1>13, <3>2
      <4> QED BY <1>1, <1>2, <4>1 DEF KnownInv, d
    <3> QED BY <3>1, <3>2
  <2> QED BY <1>1, <2>1, <2>2, <2>3, <2>5, <2>6 DEF KnownInv, d
<1> QED BY <1>5, <1>6, <1>10, <1>14, <1>15, <1>16, <1>17 DEF ReorgInv
-----------------------------------------------------------------------------
(***************************************************************************)
(* After the disconnecting loop: a switch, forward and back.               *)
(***************************************************************************)
LaterSteps == {"connect", "rollback_pop", "rollback_push", "to_alt"}

(* Steps that do not touch the kept part leave the old chain what it was.  *)
LEMMA InsideSwitch ==
  ASSUME Inv, ReorgInv, pc \in LaterSteps, pc' \in LaterSteps,
         UNCHANGED <<alt_chain, disconnected_chain>>,
         \A i \in 1..Split : m_db_blocks'[i] = m_db_blocks[i]
  PROVE  /\ OldInv' /\ Split' = Split /\ Kept = Split /\ Kept' = Split /\ OldTop' = OldTop
         /\ Work[OldTop'] < Work[alt_chain'[Len(alt_chain')]]
         /\ is_in_checkpoint_zone(Split') =>
              is_in_checkpoint_zone(Kept' + Len(disconnected_chain') - 1)
<1>1. OldInv /\ BranchInv /\ disconnected_chain # <<>>
  BY DEF ReorgInv, Inv, SwitchOK, LaterSteps
<1>2. Split' = Split /\ Kept = Split /\ Kept' = Split
  BY DEF Split, Kept, LaterSteps
<1>3. OldTop' = OldTop
  BY <1>1 DEF OldTop
<1>4. OldInv'
  BY <1>1, <1>2, <1>3 DEF OldInv, LaterSteps
<1> QED BY <1>1, <1>2, <1>3, <1>4 DEF BranchInv, LaterSteps, is_in_checkpoint_zone

(* Steps that lose no transaction keep those of the disconnected blocks.   *)
LEMMA HeldKept ==
  ASSUME Inv, HeldInv, UNCHANGED <<alt_chain, disconnected_chain>>,
         \A t \in Txs : Held(t) => /\ Held(t)'
                                   /\ ~is_in_checkpoint_zone(Split) /\ Unpruned(t) => Unpruned(t)'
  PROVE  HeldInv'
<1>1. \A i \in DOMAIN disconnected_chain : TxSet(disconnected_chain[i]) \subseteq Txs
  BY TxSetType, ElementOfSeq, LenProperties DEF Inv, TypeOK, SwitchTypeOK
<1>2. Split' = Split
  BY DEF Split
<1>3. SUFFICES ASSUME NEW i \in DOMAIN disconnected_chain, NEW t \in TxSet(disconnected_chain[i])
               PROVE  Held(t)' /\ (~is_in_checkpoint_zone(Split) => Unpruned(t)')
  BY <1>2 DEF HeldInv, is_in_checkpoint_zone
<1>4. t \in Txs /\ Held(t) /\ (~is_in_checkpoint_zone(Split) => Unpruned(t))
  BY <1>1, <1>3 DEF HeldInv
<1> QED BY <1>4

(* Nothing above the split is in the checkpoint zone if the split is not.  *)
LEMMA ZoneAboveSplit ==
  ASSUME Inv, pc # "idle", ~is_in_checkpoint_zone(Split)
  PROVE  ~is_in_checkpoint_zone(Len(m_db_blocks))
<1>1. Split \in Int /\ Len(m_db_blocks) \in Int /\ Split <= Len(m_db_blocks)
  BY SwitchFacts
<1> QED BY <1>1, ZoneDown

(* A block of the branch connects, or the rollback starts.                 *)
LEMMA ConnectAlt_Reorg ==
  ASSUME Inv, Inv', ReorgInv, ConnectAlt
  PROVE  ReorgInv'
<1> DEFINE n == Len(m_db_blocks)
           b == alt_chain[pos]
<1>1. /\ DbTypeOK /\ PoolTypeOK /\ ChainHeights /\ LedgerInv /\ SwitchTypeOK
      /\ ChainInv /\ OldInv /\ HeldInv /\ BranchInv /\ KnownInv
  BY DEF Inv, TypeOK, SwitchOK, ReorgInv
<1>2. /\ pc = "connect" /\ UNCHANGED <<m_alternative_chains, alt_chain, disconnected_chain>>
      /\ pos \in DOMAIN alt_chain /\ n = Split + pos - 1
  BY DEF ConnectAlt, Inv, SwitchOK
<1>3. /\ n \in Nat \ {0} /\ DOMAIN m_db_blocks = 1..n /\ Split \in Nat \ {0} /\ Split <= n
      /\ Len(alt_chain) \in Nat \ {0} /\ DOMAIN alt_chain = 1..Len(alt_chain)
      /\ pos \in 1..Len(alt_chain)
  BY <1>2, SwitchFacts
<1>4. b \in Blocks \ {Genesis} /\ b \in m_alternative_chains
  BY <1>1, <1>2, <1>3, ElementOfSeq DEF SwitchTypeOK, BranchInv
<1>5. Split' = Split /\ Kept = Split /\ Dropping = {}
  BY <1>2 DEF Split, Kept, Dropping
<1>6. CASE /\ Connect(b) /\ UNCHANGED m_invalid_blocks
           /\ pc' = (IF pos = Len(alt_chain) THEN "to_alt" ELSE "connect")
           /\ pos' = (IF pos = Len(alt_chain) THEN 1 ELSE pos + 1)
  <2>1. /\ ChainInv' /\ Len(m_db_blocks') = n + 1
        /\ \A i \in 1..n : m_db_blocks'[i] = m_db_blocks[i]
        /\ m_db_blocks'[n + 1] = b
    BY <1>1, <1>4, <1>6, ConnectChain
  <2>2. \A i \in 1..Split : i \in 1..n /\ m_db_blocks'[i] = m_db_blocks[i]
    <3> HIDE DEF n
    <3> QED BY <1>3, <2>1
  <2>3. pc \in LaterSteps /\ pc' \in {"connect", "to_alt"} /\ pc' \in LaterSteps
    BY <1>2, <1>6 DEF LaterSteps
  <2>4. /\ OldInv' /\ Kept' = Split
        /\ Work[OldTop'] < Work[alt_chain'[Len(alt_chain')]]
        /\ is_in_checkpoint_zone(Split') =>
             is_in_checkpoint_zone(Kept' + Len(disconnected_chain') - 1)
    BY <1>2, <2>2, <2>3, InsideSwitch
  <2>5. HeldInv'
    <3>1. ~is_in_checkpoint_zone(Split) => ~is_in_checkpoint_zone(n)
      BY <1>2, ZoneAboveSplit
    <3>2. \A t \in Txs : Held(t) => /\ Held(t)'
                                    /\ ~is_in_checkpoint_zone(n) /\ Unpruned(t) => Unpruned(t)'
      BY <1>1, <1>4, <1>6, ConnectHolds
    <3> QED BY <1>1, <1>2, <3>1, <3>2, HeldKept
  <2>6. BranchInv'
    <3>1. \A i \in DOMAIN alt_chain' : alt_chain'[i] \in m_alternative_chains'
      BY <1>1, <1>2 DEF BranchInv
    <3>2. ASSUME NEW i \in 1..(Len(m_db_blocks') - Split')
          PROVE  m_db_blocks'[Split' + i] = alt_chain'[i]
      <4>1. i \in 1..pos
        <5> HIDE DEF n
        <5> QED BY <1>2, <1>3, <1>5, <2>1
      <4>2. CASE i = pos
        <5>1. Split' + i = n + 1
          <6> HIDE DEF n
          <6> QED BY <1>2, <1>3, <1>5, <4>2
        <5> QED BY <1>2, <2>1, <4>2, <5>1
      <4>3. CASE i # pos
        <5>1. i \in 1..(n - Split) /\ Split + i \in 1..n
          <6> HIDE DEF n
          <6> QED BY <1>2, <1>3, <4>1, <4>3
        <5>2. m_db_blocks[Split + i] = alt_chain[i]
          BY <1>1, <1>2, <5>1 DEF BranchInv
        <5> QED BY <1>2, <1>5, <2>1, <5>1, <5>2
      <4> QED BY <4>2, <4>3
    <3>3. pc' = "to_alt" => Len(m_db_blocks') = Split' + Len(alt_chain')
      <4>1. pc' = "to_alt" => pos = Len(alt_chain)
        BY <1>6
      <4> HIDE DEF n
      <4> QED BY <1>2, <1>3, <1>5, <2>1, <4>1
    <3> QED BY <2>3, <2>4, <3>1, <3>2, <3>3 DEF BranchInv
  <2>7. KnownInv'
    <3>1. Dropping' = {}
      BY <2>3 DEF Dropping
    <3>2. \A i \in 1..Kept' : m_db_blocks'[i] \notin m_alternative_chains \cup m_invalid_blocks
      BY <1>1, <1>5, <2>2, <2>4 DEF KnownInv
    <3>3. \A i \in DOMAIN disconnected_chain :
            /\ disconnected_chain[i] \notin m_invalid_blocks
            /\ disconnected_chain[i] \notin m_alternative_chains
      BY <1>1, <1>2 DEF KnownInv
    <3>4. pc' = "to_alt" => pos' = 1
      BY <1>6
    <3>5. \A i \in DOMAIN disconnected_chain : i \in Nat \ {0}
      BY <1>2, SwitchFacts
    <3>6. \A i \in DOMAIN disconnected_chain : ~(pc' = "to_alt" /\ i < pos')
      BY <3>4, <3>5
    <3>7. ~(pc' = "to_alt" /\ pos' > 1)
      BY <3>4
    <3> QED BY <1>1, <1>2, <1>5, <1>6, <3>1, <3>2, <3>3, <3>6, <3>7 DEF KnownInv
  <2> QED BY <2>1, <2>4, <2>5, <2>6, <2>7 DEF ReorgInv
<1>7. CASE /\ Reject(b) /\ pc' = RollbackStart
           /\ m_invalid_blocks' = m_invalid_blocks \cup InvalidatedBy(b)
           /\ UNCHANGED pos
  <2>1. UNCHANGED dbVars /\ m_db_blocks' = m_db_blocks
    BY <1>7 DEF Reject, dbVars
  <2>2. ChainInv'
    BY <1>1, <2>1, ChainUnchanged
  <2>3. /\ pc \in LaterSteps /\ pc' \in LaterSteps
        /\ pc' \in {"rollback_pop", "rollback_push"}
        /\ pc' = "rollback_push" => n = Split
    BY <1>2, <1>7 DEF LaterSteps, RollbackStart
  <2>4. /\ OldInv' /\ Kept' = Split
        /\ Work[OldTop'] < Work[alt_chain'[Len(alt_chain')]]
        /\ is_in_checkpoint_zone(Split') =>
             is_in_checkpoint_zone(Kept' + Len(disconnected_chain') - 1)
    BY <1>2, <2>1, <2>3, InsideSwitch
  <2>5. HeldInv'
    <3>1. ~is_in_checkpoint_zone(Split) => ~is_in_checkpoint_zone(n)
      BY <1>2, ZoneAboveSplit
    <3>2. \A t \in Txs : Held(t) => /\ Held(t)'
                                    /\ ~is_in_checkpoint_zone(n) /\ Unpruned(t) => Unpruned(t)'
      BY <1>1, <1>4, <1>7, RejectHolds
    <3> QED BY <1>1, <1>2, <3>1, <3>2, HeldKept
  <2>6. BranchInv'
    <3>1. \A i \in DOMAIN alt_chain' : alt_chain'[i] \in m_alternative_chains'
      BY <1>1, <1>2 DEF BranchInv
    <3>2. pc' = "rollback_push" => 1..(Len(m_db_blocks') - Split') = {}
      BY <1>3, <1>5, <2>1, <2>3
    <3> QED BY <2>3, <2>4, <3>1, <3>2 DEF BranchInv
  <2>7. KnownInv'
    <3>1. InvalidatedBy(b) \subseteq {b}
      BY DEF InvalidatedBy
    <3>2. b \in Dropping'
      <4>1. pos > 0 /\ pos \in {j \in DOMAIN alt_chain : pos > 0 /\ j >= pos}
        BY <1>2, <1>3
      <4>2. b \in DroppedBlocks
        BY <4>1 DEF DroppedBlocks
      <4>3. DroppedBlocks' = DroppedBlocks
        BY <1>2, <1>7 DEF DroppedBlocks
      <4> QED BY <2>3, <4>2, <4>3 DEF Dropping
    <3>3. \A i \in 1..Split : m_db_blocks[i] \notin m_alternative_chains \cup m_invalid_blocks
      BY <1>1, <1>5 DEF KnownInv
    <3>4. \A i \in DOMAIN disconnected_chain :
            /\ disconnected_chain[i] \notin m_invalid_blocks
            /\ disconnected_chain[i] \notin m_alternative_chains
      BY <1>1, <1>2 DEF KnownInv
    <3>5. m_invalid_blocks' \subseteq m_invalid_blocks \cup {b}
      BY <1>7, <3>1
    <3>6. \A i \in 1..Kept' : m_db_blocks'[i] \notin m_alternative_chains' \cup m_invalid_blocks'
      BY <1>2, <1>4, <2>1, <2>4, <3>3, <3>5
    <3>7. \A i \in DOMAIN disconnected_chain' :
            /\ disconnected_chain'[i] \notin m_invalid_blocks'
            /\ disconnected_chain'[i] \notin m_alternative_chains'
      BY <1>2, <1>4, <3>4, <3>5
    <3>8. (m_alternative_chains' \ Dropping') \cap m_invalid_blocks' = {}
      BY <1>1, <1>2, <1>5, <3>2, <3>5 DEF KnownInv
    <3> QED BY <1>1, <1>2, <2>3, <3>6, <3>7, <3>8 DEF KnownInv
  <2> QED BY <2>2, <2>4, <2>5, <2>6, <2>7 DEF ReorgInv
<1> QED BY <1>6, <1>7 DEF ConnectAlt
-----------------------------------------------------------------------------
(***************************************************************************)
(* The rollback.                                                           *)
(***************************************************************************)

(* The old block to be returned next stands on the top of the main chain.  *)
LEMMA OldBlockNext ==
  ASSUME Inv, ReorgInv, pc = "rollback_push"
  PROVE  /\ Len(m_db_blocks) - Split + 1 \in DOMAIN disconnected_chain
         /\ OldBlock \in Blocks \ {Genesis} /\ Prev[OldBlock] = Top
         /\ ValidBlock(OldBlock) /\ Height(OldBlock) = Len(m_db_blocks)
<1> DEFINE n == Len(m_db_blocks)
           d == disconnected_chain
           k == n - Split + 1
<1>1. /\ DbTypeOK /\ SwitchTypeOK /\ OldInv /\ BranchInv /\ d # <<>>
      /\ n \in Split..(Split + Len(d) - 1)
  BY DEF Inv, TypeOK, SwitchOK, ReorgInv
<1>2. /\ n \in Nat \ {0} /\ Split \in Nat \ {0} /\ Kept = Split /\ Len(d) \in Nat
      /\ DOMAIN d = 1..Len(d)
  BY SwitchFacts DEF Kept
<1>3. k \in 1..Len(d) /\ n + 1 = Split + k
  <2> HIDE DEF n, d
  <2> QED BY <1>1, <1>2
<1>4. /\ OldTop \in Blocks /\ d[k] \in Blocks \ {Genesis} /\ Height(d[k]) = Split + k - 1
      /\ Len(Path[OldTop]) = Split + Len(d) /\ Path[OldTop][Split + k] = d[k]
      /\ ValidBlock(d[k])
  <2>1. OldTop \in Blocks /\ d[k] \in Blocks \ {Genesis} /\ Height(d[k]) = Kept + k - 1
    <3> HIDE DEF k
    <3> QED BY <1>1, <1>2, <1>3, OldFacts
  <2>2. /\ Len(Path[OldTop]) = Split + Len(d) /\ Path[OldTop][Split + k] = d[k]
        /\ ValidBlock(d[k])
    <3> HIDE DEF k
    <3> QED BY <1>1, <1>2, <1>3 DEF OldInv
  <2> QED BY <1>2, <2>1, <2>2
<1>5. Prev[d[k]] = Path[OldTop][n]
  <2> HIDE DEF n, d, k
  <2>1. n + 1 \in 2..Len(Path[OldTop]) /\ (n + 1) - 1 = n /\ Path[OldTop][n + 1] = d[k]
    <3>1. Len(Path[OldTop]) = Split + Len(d) /\ Path[OldTop][Split + k] = d[k]
      BY <1>4
    <3>2. n \in Nat /\ Split \in Nat \ {0} /\ Len(d) \in Nat /\ k \in 1..Len(d) /\ n + 1 = Split + k
      BY <1>2, <1>3
    <3>3. n + 1 \in 2..(Split + Len(d)) /\ (n + 1) - 1 = n
      BY <3>2
    <3> QED BY <3>1, <3>2, <3>3
  <2>2. Prev[Path[OldTop][n + 1]] = Path[OldTop][(n + 1) - 1]
    BY <1>4, <2>1, PathParent
  <2> QED BY <2>1, <2>2
<1>6. Path[OldTop][n] = Top
  <2>1. Top = m_db_blocks[n]
    BY DEF Top
  <2>2. CASE n = Split
    <3>1. n \in 1..Kept
      BY <1>2, <2>2
    <3>2. \A i \in 1..Kept : Path[OldTop][i] = m_db_blocks[i]
      BY <1>1 DEF OldInv
    <3> QED BY <2>1, <3>1, <3>2
  <2>3. CASE n # Split
    <3>1. n - Split \in 1..(n - Split) /\ n - Split \in 1..Len(d) /\ Split + (n - Split) = n
      <4> HIDE DEF n, d
      <4> QED BY <1>1, <1>2, <2>3
    <3>2. m_db_blocks[Split + (n - Split)] = d[n - Split]
      BY <1>1, <3>1 DEF BranchInv
    <3>3. Path[OldTop][Split + (n - Split)] = d[n - Split]
      BY <1>1, <1>2, <3>1 DEF OldInv
    <3> QED BY <2>1, <3>1, <3>2, <3>3
  <2> QED BY <2>2, <2>3
<1>7. OldBlock = d[k]
  BY DEF OldBlock
<1>8. Split + k - 1 = n
  <2> HIDE DEF n
  <2> QED BY <1>2
<1> QED BY <1>2, <1>3, <1>4, <1>5, <1>6, <1>7, <1>8

(***************************************************************************)
(* The old block connects: its transactions are in the pool, and where     *)
(* signatures are looked at they are still there.                          *)
(***************************************************************************)
LEMMA RollbackConnects ==
  ASSUME Inv, ReorgInv, pc = "rollback_push"
  PROVE  Connects(OldBlock)
<1> DEFINE n == Len(m_db_blocks)
           d == disconnected_chain
           b == OldBlock
<1>1. /\ DbTypeOK /\ ChainHeights /\ TablesMatchChain /\ LedgerInv
      /\ ChainInv /\ HeldInv /\ BranchInv
      /\ n \in Split..(Split + Len(d) - 1)
  BY DEF Inv, TypeOK, SwitchOK, ReorgInv, LedgerInv
<1>2. /\ n \in Nat \ {0} /\ Split \in Nat \ {0} /\ Kept = Split /\ Len(d) \in Nat
  BY SwitchFacts DEF Kept
<1>3. /\ n - Split + 1 \in DOMAIN d /\ b = d[n - Split + 1]
      /\ b \in Blocks \ {Genesis} /\ Prev[b] = Top /\ ValidBlock(b) /\ Height(b) = n
  BY OldBlockNext DEF OldBlock
<1>4. TxsBelow(b) = ChainTxs
  BY <1>1, <1>3, BelowIsChain DEF ChainInv
<1> HIDE DEF b
<1>5. ASSUME NEW t \in TxSet(b)
      PROVE  have_tx(t) /\ (is_in_checkpoint_zone(Height(b)) \/ m_transactions[t].sigs)
  <2>1. PICK i \in DOMAIN BlockTxs[b] : t = BlockTxs[b][i]
    BY DEF TxSet
  <2>2. t \notin ChainTxs
    BY <1>3, <1>4, <2>1 DEF ValidBlock, ValidTx
  <2>3. t \in Txs
    BY <1>3, TxSetType
  <2>4. ~have_tx_chain(t)
    BY <1>1, <2>2, <2>3 DEF TablesMatchChain
  <2>5. Held(t) /\ (~is_in_checkpoint_zone(Split) => Unpruned(t))
    BY <1>1, <1>3 DEF HeldInv
  <2>6. have_tx(t)
    BY <2>4, <2>5 DEF Held
  <2>7. CASE is_in_checkpoint_zone(Split)
    <3>1. is_in_checkpoint_zone(Split + Len(d) - 1)
      BY <1>1, <1>2, <2>7 DEF BranchInv
    <3>2. is_in_checkpoint_zone(n)
      <4> HIDE DEF n, d
      <4>1. n \in Int /\ Split + Len(d) - 1 \in Int /\ n <= Split + Len(d) - 1
        BY <1>1, <1>2
      <4> QED BY <3>1, <4>1, ZoneDown
    <3> QED BY <1>3, <2>6, <3>2
  <2>8. CASE ~is_in_checkpoint_zone(Split)
    BY <2>5, <2>6, <2>8 DEF Unpruned
  <2> QED BY <2>7, <2>8
<1>6. Connects(b)
  BY <1>1, <1>3, <1>5, ConnectsIff DEF ChainInv
<1> QED BY <1>6 DEF b

(* The failed branch is popped.                                            *)
LEMMA RollbackPop_Reorg ==
  ASSUME Inv, Inv', ReorgInv, PopSucceeds, RollbackPop
  PROVE  ReorgInv'
<1> DEFINE n == Len(m_db_blocks)
<1>1. /\ DbTypeOK /\ PoolTypeOK /\ ChainHeights /\ LedgerInv /\ SwitchTypeOK
      /\ ChainInv /\ OldInv /\ HeldInv /\ BranchInv /\ KnownInv
  BY DEF Inv, TypeOK, SwitchOK, ReorgInv
<1>2. pc = "rollback_pop" /\ PopTop /\ n > Split
  BY DEF RollbackPop, Inv, SwitchOK
<1>3. n \in Nat \ {0} /\ Split \in Nat \ {0} /\ Kept = Split
  BY <1>2, SwitchFacts DEF Kept
<1>4. n > 1
  <2> HIDE DEF n
  <2> QED BY <1>2, <1>3
<1>5. /\ pc' = (IF n - 1 = Split THEN "rollback_push" ELSE "rollback_pop")
      /\ UNCHANGED <<altVars, alt_chain, disconnected_chain, pos>>
  BY <1>1 DEF RollbackPop
<1>6. /\ ChainInv' /\ Len(m_db_blocks') = n - 1
      /\ \A i \in 1..(n - 1) : m_db_blocks'[i] = m_db_blocks[i]
  BY <1>1, <1>2, <1>4, PopChain
<1>7. \A i \in 1..Split : m_db_blocks'[i] = m_db_blocks[i]
  <2>1. \A i \in 1..Split : i \in 1..(n - 1)
    <3> HIDE DEF n
    <3> QED BY <1>2, <1>3
  <2> QED BY <1>6, <2>1
<1>8. /\ pc \in LaterSteps /\ pc' \in LaterSteps /\ pc' \in {"rollback_pop", "rollback_push"}
      /\ pc' = "rollback_push" => n - 1 = Split
  BY <1>2, <1>5 DEF LaterSteps
<1>9. /\ OldInv' /\ Split' = Split /\ Kept' = Split
      /\ Work[OldTop'] < Work[alt_chain'[Len(alt_chain')]]
      /\ is_in_checkpoint_zone(Split') =>
           is_in_checkpoint_zone(Kept' + Len(disconnected_chain') - 1)
  BY <1>5, <1>7, <1>8, InsideSwitch
<1>10. HeldInv'
  <2>1. \A t \in Txs : Held(t) => Held(t)' /\ (Unpruned(t) => Unpruned(t)')
    BY <1>1, <1>2, PopHolds
  <2> QED BY <1>1, <1>5, <2>1, HeldKept
<1>11. BranchInv'
  <2>1. \A i \in DOMAIN alt_chain' : alt_chain'[i] \in m_alternative_chains'
    BY <1>1, <1>2, <1>5 DEF BranchInv, altVars
  <2>2. pc' = "rollback_push" => 1..(Len(m_db_blocks') - Split') = {}
    <3> HIDE DEF n
    <3> QED BY <1>3, <1>6, <1>8, <1>9
  <2> QED BY <1>8, <1>9, <2>1, <2>2 DEF BranchInv
<1>12. KnownInv'
  <2>1. UNCHANGED <<m_alternative_chains, m_invalid_blocks, disconnected_chain>>
    BY <1>5 DEF altVars
  <2>2. Dropping' = Dropping
    BY <1>2, <1>5, <1>8 DEF Dropping, DroppedBlocks
  <2>3. \A i \in 1..Kept' : m_db_blocks'[i] \notin m_alternative_chains \cup m_invalid_blocks
    BY <1>1, <1>3, <1>7, <1>9 DEF KnownInv
  <2>4. \A i \in DOMAIN disconnected_chain :
          /\ disconnected_chain[i] \notin m_invalid_blocks
          /\ disconnected_chain[i] \notin m_alternative_chains
    BY <1>1, <1>2 DEF KnownInv
  <2> QED BY <1>1, <1>8, <2>1, <2>2, <2>3, <2>4 DEF KnownInv
<1> QED BY <1>6, <1>9, <1>10, <1>11, <1>12 DEF ReorgInv

(* An old block is returned, the last one or not.                          *)
LEMMA RollbackPush_Reorg ==
  ASSUME Inv, Inv', ReorgInv, RollbackPush
  PROVE  ReorgInv' /\ OldTop' = OldTop
<1> DEFINE n == Len(m_db_blocks)
           d == disconnected_chain
           b == OldBlock
<1>1. /\ DbTypeOK /\ PoolTypeOK /\ ChainHeights /\ LedgerInv /\ SwitchTypeOK /\ DbTypeOK'
      /\ ChainInv /\ OldInv /\ HeldInv /\ BranchInv /\ KnownInv
      /\ d # <<>>
  BY DEF Inv, TypeOK, SwitchOK, ReorgInv, RollbackPush
<1>2. pc = "rollback_push" /\ n \in Split..(Split + Len(d) - 1)
  BY DEF RollbackPush, Inv, SwitchOK
<1>3. /\ n \in Nat \ {0} /\ Split \in Nat \ {0} /\ Kept = Split
      /\ Len(d) \in Nat /\ DOMAIN d = 1..Len(d)
      /\ DOMAIN alt_chain = 1..Len(alt_chain) /\ Len(alt_chain) \in Nat
  BY <1>2, SwitchFacts DEF Kept
<1>4. /\ b \in Blocks \ {Genesis} /\ b = d[n - Split + 1] /\ n - Split + 1 \in 1..Len(d)
  BY <1>2, <1>3, OldBlockNext DEF OldBlock
<1>5. Connects(b) /\ Connect(b)
  BY <1>2, RollbackConnects DEF RollbackPush
<1>6. /\ ChainInv' /\ Len(m_db_blocks') = n + 1 /\ Top' = b
      /\ \A i \in 1..n : m_db_blocks'[i] = m_db_blocks[i]
      /\ m_db_blocks'[n + 1] = b
  BY <1>1, <1>4, <1>5, ConnectChain
<1>7. \A i \in 1..Split : m_db_blocks'[i] = m_db_blocks[i]
  <2>1. \A i \in 1..Split : i \in 1..n
    <3> HIDE DEF n
    <3> QED BY <1>2, <1>3
  <2> QED BY <1>6, <2>1
<1>8. ASSUME NEW i \in 1..(n + 1 - Split) PROVE m_db_blocks'[Split + i] = d[i]
  <2>1. CASE i = n + 1 - Split
    <3>1. Split + i = n + 1 /\ i = n - Split + 1
      <4> HIDE DEF n
      <4> QED BY <1>3, <2>1
    <3> QED BY <1>4, <1>6, <3>1
  <2>2. CASE i # n + 1 - Split
    <3>1. i \in 1..(n - Split) /\ Split + i \in 1..n
      <4> HIDE DEF n
      <4> QED BY <1>2, <1>3, <2>2
    <3>2. m_db_blocks[Split + i] = d[i]
      BY <1>1, <1>2, <3>1 DEF BranchInv
    <3> QED BY <1>6, <3>1, <3>2
  <2> QED BY <2>1, <2>2
<1>9. CASE UNCHANGED <<altVars, swVars>>
  <2>1. UNCHANGED <<m_alternative_chains, m_invalid_blocks, pc, alt_chain, disconnected_chain, pos>>
    BY <1>9 DEF altVars, swVars
  <2>2. pc \in LaterSteps /\ pc' \in LaterSteps /\ pc' = "rollback_push"
    BY <1>2, <2>1 DEF LaterSteps
  <2>3. /\ OldInv' /\ Split' = Split /\ Kept' = Split
        /\ Work[OldTop'] < Work[alt_chain'[Len(alt_chain')]]
        /\ is_in_checkpoint_zone(Split') =>
             is_in_checkpoint_zone(Kept' + Len(disconnected_chain') - 1)
    BY <1>7, <2>1, <2>2, InsideSwitch
  <2>4. HeldInv'
    <3>1. ~is_in_checkpoint_zone(Split) => ~is_in_checkpoint_zone(n)
      BY <1>2, ZoneAboveSplit
    <3>2. \A t \in Txs : Held(t) => /\ Held(t)'
                                    /\ ~is_in_checkpoint_zone(n) /\ Unpruned(t) => Unpruned(t)'
      BY <1>1, <1>4, <1>5, ConnectHolds
    <3> QED BY <1>1, <2>1, <3>1, <3>2, HeldKept
  <2>5. BranchInv'
    <3>1. \A i \in DOMAIN alt_chain' : alt_chain'[i] \in m_alternative_chains'
      BY <1>1, <1>2, <2>1 DEF BranchInv
    <3>2. \A i \in 1..(Len(m_db_blocks') - Split') :
            m_db_blocks'[Split' + i] = disconnected_chain'[i]
      <4>1. Len(m_db_blocks') = n + 1 /\ Split' = Split
        BY <1>6, <2>3
      <4>2. disconnected_chain' = d
        BY <2>1
      <4> HIDE DEF n, d
      <4> QED BY <1>3, <1>8, <4>1, <4>2
    <3> QED BY <2>2, <2>3, <3>1, <3>2 DEF BranchInv
  <2>6. KnownInv'
    <3>1. Dropping' = Dropping
      BY <2>1 DEF Dropping, DroppedBlocks
    <3>2. \A i \in 1..Kept' : m_db_blocks'[i] \notin m_alternative_chains \cup m_invalid_blocks
      BY <1>1, <1>3, <1>7, <2>3 DEF KnownInv
    <3>3. \A i \in DOMAIN disconnected_chain :
            /\ disconnected_chain[i] \notin m_invalid_blocks
            /\ disconnected_chain[i] \notin m_alternative_chains
      BY <1>1, <1>2 DEF KnownInv
    <3> QED BY <1>1, <2>1, <2>2, <3>1, <3>2, <3>3 DEF KnownInv
  <2>7. OldTop' = OldTop
    BY <1>1, <2>1 DEF OldTop
  <2> QED BY <1>6, <2>3, <2>4, <2>5, <2>6, <2>7 DEF ReorgInv
<1>10. CASE FailSwitch({}) /\ ~(n - Split + 1 < Len(d))
  <2>1. /\ pc' = "idle" /\ disconnected_chain' = <<>>
        /\ m_alternative_chains' = m_alternative_chains \ DroppedBlocks
        /\ m_invalid_blocks' = m_invalid_blocks \cup MarkedInvalid
    BY <1>10 DEF FailSwitch, EndSwitch
  <2>2. MarkedInvalid \subseteq DroppedBlocks /\ DroppedBlocks \subseteq m_alternative_chains
    <3>1. \A j \in DOMAIN alt_chain : j \in pos..(pos + 1) => j >= pos
      BY <1>1 DEF SwitchTypeOK
    <3>2. MarkedInvalid \subseteq DroppedBlocks
      BY <3>1 DEF MarkedInvalid, DroppedBlocks
    <3>3. \A i \in DOMAIN alt_chain : alt_chain[i] \in m_alternative_chains
      BY <1>1, <1>2 DEF BranchInv
    <3> QED BY <3>2, <3>3 DEF DroppedBlocks
  <2>3. \A c \in m_alternative_chains' : check_block(Height(c), c)
    BY <1>1, <2>1 DEF KnownInv
  <2>4. m_alternative_chains' \cap m_invalid_blocks' = {}
    <3>1. (m_alternative_chains \ DroppedBlocks) \cap m_invalid_blocks = {}
      BY <1>1, <1>2 DEF KnownInv, Dropping
    <3> QED BY <2>1, <2>2, <3>1
  <2>5. n - Split + 1 = Len(d)
    <3> HIDE DEF n, d
    <3> QED BY <1>3, <1>4, <1>10
  <2>6. ASSUME NEW x \in Blocks, x \notin m_alternative_chains, x \notin m_invalid_blocks
        PROVE  x \notin m_alternative_chains' \cup m_invalid_blocks'
    BY <2>1, <2>2, <2>6
  <2>7. DOMAIN m_db_blocks' = 1..(n + 1) /\ \A i \in 1..(n + 1) : m_db_blocks'[i] \in Blocks
    BY <1>1, <1>6, LenProperties, ElementOfSeq DEF DbTypeOK
  <2>8. ASSUME NEW i \in 1..(n + 1)
        PROVE  m_db_blocks'[i] \notin m_alternative_chains' \cup m_invalid_blocks'
    <3>1. CASE i <= Split
      <4>1. i \in 1..Split
        BY <1>3, <3>1
      <4>2. m_db_blocks[i] \notin m_alternative_chains \cup m_invalid_blocks
        BY <1>1, <1>3, <4>1 DEF KnownInv
      <4> QED BY <1>7, <2>6, <2>7, <4>1, <4>2
    <3>2. CASE ~(i <= Split)
      <4>1. i - Split \in 1..(n + 1 - Split) /\ i - Split \in 1..Len(d) /\ Split + (i - Split) = i
        <5> HIDE DEF n, d
        <5> QED BY <1>3, <2>5, <3>2
      <4>2. m_db_blocks'[i] = d[i - Split]
        BY <1>8, <4>1
      <4>3. d[i - Split] \notin m_alternative_chains \cup m_invalid_blocks
        BY <1>1, <1>2, <1>3, <4>1 DEF KnownInv
      <4> QED BY <2>6, <2>7, <4>2, <4>3
    <3> QED BY <3>1, <3>2
  <2>9. ReorgInv'
    BY <1>1, <1>6, <2>1, <2>3, <2>4, <2>7, <2>8, IdleAfter
  <2>10. OldTop' = OldTop
    <3>1. b = d[Len(d)]
      BY <1>4, <2>5
    <3>2. OldTop = d[Len(d)]
      BY <1>1, <1>3, OldFacts
    <3>3. OldTop' = Top'
      BY <2>1 DEF OldTop
    <3> HIDE DEF b, d
    <3> QED BY <1>6, <3>1, <3>2, <3>3
  <2> QED BY <2>9, <2>10
<1> QED BY <1>5, <1>9, <1>10 DEF RollbackPush
-----------------------------------------------------------------------------
(***************************************************************************)
(* The old chain becomes an alternative one.                               *)
(***************************************************************************)

(* The old blocks are at the heights from the split on, each on the one    *)
(* before, the first on the last block that was kept.                      *)
LEMMA OldChain ==
  ASSUME Inv, ReorgInv, pc \in LaterSteps
  PROVE  /\ Len(disconnected_chain) \in Nat \ {0}
         /\ DOMAIN disconnected_chain = 1..Len(disconnected_chain)
         /\ \A i \in 1..Len(disconnected_chain) :
              /\ disconnected_chain[i] \in Blocks \ {Genesis}
              /\ Height(disconnected_chain[i]) = Split + i - 1
              /\ ValidBlock(disconnected_chain[i])
              /\ i > 1 => Prev[disconnected_chain[i]] = disconnected_chain[i - 1]
              /\ Len(Path[disconnected_chain[i]]) = Split + i
              /\ Path[disconnected_chain[i]][Split] = m_db_blocks[Split]
              /\ \A j \in 1..i :
                   Path[disconnected_chain[i]][Split + j] = disconnected_chain[j]
         /\ Prev[disconnected_chain[1]] = m_db_blocks[Split]
<1> DEFINE d == disconnected_chain
           P == Path[OldTop]
<1>1. DbTypeOK /\ SwitchTypeOK /\ OldInv /\ d # <<>>
  BY DEF Inv, TypeOK, SwitchOK, ReorgInv, LaterSteps
<1>2. Split \in Nat \ {0} /\ Kept = Split
  BY SwitchFacts DEF Kept, LaterSteps
<1>3. /\ Len(d) \in Nat \ {0} /\ DOMAIN d = 1..Len(d) /\ OldTop \in Blocks
      /\ \A i \in 1..Len(d) :
           /\ d[i] \in Blocks \ {Genesis}
           /\ Len(Path[d[i]]) = Split + i
           /\ Height(d[i]) = Split + i - 1
           /\ \A j \in 1..(Split + i) : Path[d[i]][j] = P[j]
  BY <1>1, <1>2, OldFacts
<1>4. /\ Len(P) = Split + Len(d)
      /\ \A i \in 1..Split : P[i] = m_db_blocks[i]
      /\ \A i \in 1..Len(d) : P[Split + i] = d[i] /\ ValidBlock(d[i])
  BY <1>1, <1>2, <1>3 DEF OldInv
<1>5. \A i \in 2..Len(P) : Prev[P[i]] = P[i - 1]
  BY <1>3, PathParent
<1> HIDE DEF d, P
<1>6. ASSUME NEW i \in 1..Len(d)
      PROVE  Prev[d[i]] = P[Split + i - 1]
  <2> DEFINE k == Split + i
  <2>1. k \in 2..Len(P) /\ P[k] = d[i]
    BY <1>2, <1>3, <1>4
  <2>2. Prev[P[k]] = P[k - 1]
    <3> HIDE DEF k
    <3> QED BY <1>5, <2>1
  <2>3. k - 1 = Split + i - 1
    BY <1>2, <1>3
  <2> HIDE DEF k
  <2> QED BY <2>1, <2>2, <2>3
<1>7. Prev[d[1]] = m_db_blocks[Split]
  <2>1. 1 \in 1..Len(d) /\ Split + 1 - 1 = Split /\ Split \in 1..Split
    BY <1>2, <1>3
  <2> QED BY <1>4, <1>6, <2>1
<1>8. ASSUME NEW i \in 1..Len(d), i > 1 PROVE Prev[d[i]] = d[i - 1]
  <2>1. i - 1 \in 1..Len(d) /\ Split + (i - 1) = Split + i - 1
    BY <1>2, <1>3, <1>8
  <2> QED BY <1>4, <1>6, <2>1
<1>9. ASSUME NEW i \in 1..Len(d) PROVE Path[d[i]][Split] = m_db_blocks[Split]
  <2>1. Split \in 1..(Split + i) /\ Split \in 1..Split
    BY <1>2, <1>3
  <2> QED BY <1>3, <1>4, <2>1
<1>10. ASSUME NEW i \in 1..Len(d), NEW j \in 1..i PROVE Path[d[i]][Split + j] = d[j]
  <2>1. Split + j \in 1..(Split + i) /\ j \in 1..Len(d)
    BY <1>2, <1>3
  <2> QED BY <1>3, <1>4, <2>1
<1>11. \A i \in 1..Len(d) : ValidBlock(d[i])
  BY <1>4
<1> QED BY <1>3, <1>7, <1>8, <1>9, <1>10, <1>11 DEF d

(***************************************************************************)
(* Only the first old block can be refused, for going around a checkpoint  *)
(* that the branch has reached.                                            *)
(***************************************************************************)
LEMMA LaterOldAccepted ==
  ASSUME Inv, ReorgInv, pc = "to_alt", pos > 1
  PROVE  AltAccepts(disconnected_chain[pos])
<1> DEFINE n == Len(m_db_blocks)
           d == disconnected_chain
           b == d[pos]
           q == d[pos - 1]
<1>1. /\ AltTypeOK /\ DbTypeOK /\ KnownInv /\ pos \in DOMAIN d /\ n > Split
  BY DEF Inv, TypeOK, SwitchOK, ReorgInv
<1>2. /\ n \in Nat \ {0} /\ Split \in Nat \ {0} /\ Kept = Split /\ Split <= n
  BY SwitchFacts DEF Kept
<1>3. /\ Len(d) \in Nat \ {0} /\ DOMAIN d = 1..Len(d)
      /\ \A i \in 1..Len(d) :
           /\ d[i] \in Blocks \ {Genesis} /\ Height(d[i]) = Split + i - 1 /\ ValidBlock(d[i])
           /\ i > 1 => Prev[d[i]] = d[i - 1]
           /\ Len(Path[d[i]]) = Split + i
           /\ Path[d[i]][Split] = m_db_blocks[Split]
           /\ \A j \in 1..i : Path[d[i]][Split + j] = d[j]
      /\ Prev[d[1]] = m_db_blocks[Split]
  <2>1. pc \in LaterSteps
    BY DEF LaterSteps
  <2> QED BY <2>1, OldChain
<1>4. /\ m_db_blocks[Split] \notin m_alternative_chains
      /\ \A i \in 1..Len(d) : i < pos => d[i] \in m_alternative_chains
      /\ ~is_height_passed_zone(Split, n - 1)
  <2>1. Split \in 1..Kept
    BY <1>2
  <2> QED BY <1>1, <1>3, <2>1 DEF KnownInv
<1> HIDE DEF d, n
<1>5. pos \in 1..Len(d) /\ pos - 1 \in 1..Len(d) /\ 1 \in 1..Len(d) /\ pos \in Nat
  BY <1>1, <1>3
<1>6. /\ b \in Blocks \ {Genesis} /\ Prev[b] = q /\ q \in Blocks /\ Height(b) = Split + pos - 1
      /\ ValidBlock(b) /\ q \in m_alternative_chains
  BY <1>3, <1>4, <1>5
<1>7. ~is_height_passed_zone(Height(b), n - 1)
  <2> SUFFICES ASSUME is_height_passed_zone(Height(b), n - 1) PROVE FALSE
    OBVIOUS
  <2>1. PICK p \in DOMAIN CheckpointAt : Height(b) <= p /\ p <= n - 1
    BY DEF is_height_passed_zone
  <2>2. Split <= p /\ p <= n - 1 /\ Split <= n - 1
    <3>1. p \in Nat
      BY CheckpointAssumption
    <3>2. Height(b) = Split + pos - 1
      BY <1>6
    <3> HIDE DEF b
    <3> QED BY <1>2, <1>5, <2>1, <3>1, <3>2
  <2> QED BY <1>4, <2>2 DEF is_height_passed_zone
<1>8. RightConnection(b)
  <2> DEFINE l == Split + pos - 1
  <2>1. /\ Len(Path[q]) = l /\ Path[q][Split] = m_db_blocks[Split]
        /\ \A j \in 1..(pos - 1) : Path[q][Split + j] = d[j]
    <3>1. Split + (pos - 1) = l
      BY <1>2, <1>5
    <3>2. /\ Len(Path[d[pos - 1]]) = Split + (pos - 1)
          /\ Path[d[pos - 1]][Split] = m_db_blocks[Split]
          /\ \A j \in 1..(pos - 1) : Path[d[pos - 1]][Split + j] = d[j]
      BY <1>3, <1>5
    <3> QED BY <3>1, <3>2
  <2>2. PICK last \in 1..l :
          /\ Path[q][last] \notin m_alternative_chains
          /\ \A i \in 1..l : i > last => Path[q][i] \in m_alternative_chains
          /\ \A i \in 1..(l - last) : AltBranch(q)[i] = Path[q][last + i]
    <3> HIDE DEF q, l
    <3>1. AltTypeOK /\ q \in Blocks /\ Len(Path[q]) = l
      BY <1>1, <1>6, <2>1
    <3> QED BY <3>1, AltBranchPath
  <2>3. last = Split
    <3>1. Split \in 1..l /\ l \in Nat /\ last \in Nat
      BY <1>2, <1>5
    <3>2. ~(Split > last)
      <4>1. Path[q][Split] \notin m_alternative_chains
        BY <1>4, <2>1
      <4> HIDE DEF q, l
      <4> QED BY <2>2, <3>1, <4>1
    <3>3. ~(last > Split)
      <4> SUFFICES ASSUME last > Split PROVE FALSE
        OBVIOUS
      <4>1. last - Split \in 1..(pos - 1) /\ Split + (last - Split) = last
            /\ last - Split \in 1..Len(d) /\ last - Split < pos
        BY <1>2, <1>5, <2>2, <3>1
      <4>2. Path[q][Split + (last - Split)] = d[last - Split]
        <5> HIDE DEF q, l
        <5> QED BY <2>1, <4>1
      <4>3. d[last - Split] \in m_alternative_chains
        BY <1>4, <4>1
      <4> HIDE DEF q, l
      <4> QED BY <2>2, <4>1, <4>2, <4>3
    <3> QED BY <1>2, <3>1, <3>2, <3>3
  <2>4. AltBranch(q)[1] = d[1]
    <3>1. 1 \in 1..(l - last) /\ 1 \in 1..(pos - 1)
      BY <1>2, <1>5, <2>3
    <3> HIDE DEF q, l
    <3> QED BY <2>1, <2>2, <2>3, <3>1
  <2>5. Height(d[1]) = Split
    <3>1. Height(d[1]) = Split + 1 - 1
      BY <1>3, <1>5
    <3> QED BY <1>2, <3>1
  <2>6. n > Split /\ m_db_blocks[Split] = Prev[d[1]]
    BY <1>1, <1>3 DEF n
  <2> HIDE DEF q, b
  <2> QED BY <1>6, <2>4, <2>5, <2>6 DEF RightConnection, n
<1>9. b \in PowBlocks /\ b \in PrevalidBlocks /\ check_block(Height(b), b)
  BY <1>6 DEF ValidBlock, GoodBlocks, check_block
<1>10. ParentKnown(b)
  BY <1>6 DEF ParentKnown
<1>11. AltAccepts(b)
  BY <1>7, <1>8, <1>9, <1>10 DEF AltAccepts, AltPow, n
<1> QED BY <1>11 DEF d

(* An old block becomes alternative, or the first one cannot.              *)
LEMMA OldToAlt_Reorg ==
  ASSUME Inv, Inv', ReorgInv, OldToAlt
  PROVE  /\ ReorgInv'
         /\ \/ OldTop' = OldTop /\ pc' # "idle"
            \/ OldTop' = Top' /\ Work[OldTop] < Work[Top'] /\ Top' = alt_chain[Len(alt_chain)]
<1> DEFINE n == Len(m_db_blocks)
           d == disconnected_chain
           b == d[pos]
<1>1. /\ DbTypeOK /\ ChainHeights /\ SwitchTypeOK /\ DbTypeOK'
      /\ ChainInv /\ OldInv /\ HeldInv /\ BranchInv /\ KnownInv
  BY DEF Inv, TypeOK, SwitchOK, ReorgInv
<1>2. /\ pc = "to_alt" /\ pos \in DOMAIN d /\ n > Split
      /\ UNCHANGED dbVars /\ UNCHANGED poolVars
      /\ m_db_blocks' = m_db_blocks /\ m_invalid_blocks' = m_invalid_blocks
  BY DEF OldToAlt, Inv, SwitchOK, dbVars
<1>3. /\ n \in Nat \ {0} /\ DOMAIN m_db_blocks = 1..n /\ Split \in Nat \ {0} /\ Kept = Split
      /\ DOMAIN alt_chain = 1..Len(alt_chain) /\ Len(alt_chain) \in Nat \ {0}
      /\ Len(d) \in Nat /\ DOMAIN d = 1..Len(d) /\ pos \in 1..Len(d)
  BY <1>2, SwitchFacts DEF Kept
<1>4. \A i \in 1..Len(d) :
        d[i] \in Blocks \ {Genesis} /\ Height(d[i]) = Split + i - 1 /\ ValidBlock(d[i])
  <2>1. pc \in LaterSteps
    BY <1>2 DEF LaterSteps
  <2> QED BY <2>1, OldChain
<1>5. ChainInv' /\ Top' = Top
  BY <1>1, <1>2, ChainUnchanged
<1>6. \A i \in 1..Split : m_db_blocks[i] \notin m_alternative_chains \cup m_invalid_blocks
  BY <1>1, <1>3 DEF KnownInv
<1>7. \A i \in 1..Len(d) : /\ d[i] \notin m_invalid_blocks
                           /\ d[i] \in m_alternative_chains <=> i < pos
  BY <1>1, <1>2, <1>3 DEF KnownInv
<1>8. /\ m_alternative_chains \cap m_invalid_blocks = {}
      /\ \A c \in m_alternative_chains : check_block(Height(c), c)
  BY <1>1, <1>2 DEF KnownInv, Dropping
<1>9. \A i \in 1..Len(d) : d[i] = b => i = pos
  <2> HIDE DEF d
  <2> QED BY <1>3, <1>4
<1>10. \A i \in 1..Split : m_db_blocks[i] # b
  <2> SUFFICES ASSUME NEW i \in 1..Split, m_db_blocks[i] = b PROVE FALSE
    OBVIOUS
  <2>1. i \in 1..n
    <3> HIDE DEF n
    <3> QED BY <1>2, <1>3
  <2>2. Len(Path[m_db_blocks[i]]) = i
    BY <1>1, <1>3, <2>1 DEF ChainHeights
  <2>3. Height(b) = i - 1
    BY <2>2 DEF Height
  <2>4. Height(b) = Split + pos - 1
    BY <1>3, <1>4
  <2> HIDE DEF b
  <2> QED BY <1>3, <2>3, <2>4
<1>11. check_block(Height(b), b) /\ b \notin m_invalid_blocks
  <2>1. ValidBlock(b) /\ b \notin m_invalid_blocks
    BY <1>3, <1>4, <1>7
  <2> QED BY <2>1 DEF ValidBlock, GoodBlocks, check_block
<1>12. \A i \in DOMAIN alt_chain : alt_chain[i] \in m_alternative_chains
  BY <1>1, <1>2 DEF BranchInv
<1>13. /\ \A i \in 1..(n - Split) : m_db_blocks[Split + i] = alt_chain[i]
       /\ n = Split + Len(alt_chain)
  BY <1>1, <1>2 DEF BranchInv
<1>14. CASE AltAccepts(b) /\ KeepOld(b)
  <2>1. /\ m_alternative_chains' = m_alternative_chains \cup {b} /\ pos' = pos + 1
        /\ UNCHANGED <<pc, alt_chain, disconnected_chain>>
    BY <1>14 DEF KeepOld
  <2>2. pc \in LaterSteps /\ pc' \in LaterSteps /\ pc' = "to_alt"
    BY <1>2, <2>1 DEF LaterSteps
  <2>3. /\ OldInv' /\ Split' = Split /\ Kept' = Split /\ OldTop' = OldTop
        /\ Work[OldTop'] < Work[alt_chain'[Len(alt_chain')]]
        /\ is_in_checkpoint_zone(Split') =>
             is_in_checkpoint_zone(Kept' + Len(disconnected_chain') - 1)
    BY <1>2, <2>1, <2>2, InsideSwitch
  <2>4. HeldInv'
    <3>1. \A t \in Txs : Held(t) => /\ Held(t)'
                                    /\ ~is_in_checkpoint_zone(Split) /\ Unpruned(t) => Unpruned(t)'
      BY <1>2 DEF Held, Unpruned, have_tx, have_tx_chain, dbVars, poolVars
    <3> QED BY <1>1, <2>1, <3>1, HeldKept
  <2>5. BranchInv'
    <3>1. \A i \in DOMAIN alt_chain' : alt_chain'[i] \in m_alternative_chains'
      BY <1>12, <2>1
    <3>2. /\ \A i \in 1..(Len(m_db_blocks') - Split') : m_db_blocks'[Split' + i] = alt_chain'[i]
          /\ Len(m_db_blocks') = Split' + Len(alt_chain')
      BY <1>2, <1>13, <2>1, <2>3
    <3> QED BY <2>2, <2>3, <3>1, <3>2 DEF BranchInv
  <2>6. KnownInv'
    <3>1. Dropping' = {}
      BY <2>2 DEF Dropping
    <3>2. \A i \in 1..Kept' : m_db_blocks'[i] \notin m_alternative_chains' \cup m_invalid_blocks'
      BY <1>2, <1>6, <1>10, <2>1, <2>3
    <3>3. ASSUME NEW i \in 1..Len(d)
          PROVE  d[i] \notin m_invalid_blocks' /\ (d[i] \in m_alternative_chains' <=> i < pos + 1)
      <4>1. i < pos + 1 <=> i < pos \/ i = pos
        BY <1>3
      <4>2. d[i] = b <=> i = pos
        BY <1>9
      <4> HIDE DEF b
      <4> QED BY <1>2, <1>7, <2>1, <4>1, <4>2
    <3>4. (m_alternative_chains' \ Dropping') \cap m_invalid_blocks' = {}
      BY <1>2, <1>8, <1>11, <2>1
    <3>5. \A c \in m_alternative_chains' : check_block(Height(c), c)
      BY <1>8, <1>11, <2>1
    <3>6. ~is_height_passed_zone(Split, n - 1)
      <4>1. CASE pos = 1
        <5>1. Height(b) = Split
          <6>1. Height(b) = Split + pos - 1
            BY <1>3, <1>4
          <6> HIDE DEF b
          <6> QED BY <1>3, <4>1, <6>1
        <5> QED BY <1>14, <5>1 DEF AltAccepts, AltPow
      <4>2. CASE pos # 1
        BY <1>1, <1>2, <1>3, <4>2 DEF KnownInv
      <4> QED BY <4>1, <4>2
    <3>7. ~is_height_passed_zone(Split', Len(m_db_blocks') - 1)
      BY <1>2, <2>3, <3>6
    <3>8. DOMAIN disconnected_chain' = 1..Len(d) /\ disconnected_chain' = d
      BY <1>3, <2>1
    <3> QED BY <2>1, <2>2, <3>2, <3>3, <3>4, <3>5, <3>7, <3>8 DEF KnownInv
  <2> QED BY <1>5, <2>2, <2>3, <2>4, <2>5, <2>6 DEF ReorgInv
<1>15. CASE KeepLastOld(b)
  <2> DEFINE A == {alt_chain[i] : i \in DOMAIN alt_chain}
  <2>1. /\ m_alternative_chains' = (m_alternative_chains \cup {b}) \ A
        /\ pc' = "idle" /\ disconnected_chain' = <<>>
    BY <1>15 DEF KeepLastOld, EndSwitch
  <2>2. \A c \in m_alternative_chains' : check_block(Height(c), c)
    BY <1>8, <1>11, <2>1
  <2>3. m_alternative_chains' \cap m_invalid_blocks' = {}
    BY <1>2, <1>8, <1>11, <2>1
  <2>4. ASSUME NEW i \in 1..n
        PROVE  m_db_blocks[i] \notin m_alternative_chains' \cup m_invalid_blocks'
    <3>1. CASE i <= Split
      <4>1. i \in 1..Split
        BY <1>3, <3>1
      <4> QED BY <1>2, <1>6, <1>10, <2>1, <4>1
    <3>2. CASE ~(i <= Split)
      <4>1. i - Split \in 1..(n - Split) /\ i - Split \in 1..Len(alt_chain)
            /\ Split + (i - Split) = i
        <5> HIDE DEF n
        <5> QED BY <1>3, <1>13, <3>2
      <4>2. m_db_blocks[i] = alt_chain[i - Split]
        BY <1>13, <4>1
      <4>3. m_db_blocks[i] \in A /\ m_db_blocks[i] \in m_alternative_chains
        BY <1>3, <1>12, <4>1, <4>2
      <4> QED BY <1>2, <1>8, <2>1, <4>3
    <3> QED BY <3>1, <3>2
  <2>5. \A i \in DOMAIN m_db_blocks' :
          m_db_blocks'[i] \notin m_alternative_chains' \cup m_invalid_blocks'
    BY <1>2, <1>3, <2>4
  <2>6. ReorgInv'
    BY <1>1, <1>5, <2>1, <2>2, <2>3, <2>5, IdleAfter
  <2>7. OldTop' = Top'
    BY <2>1 DEF OldTop
  <2>8. Top = alt_chain[Len(alt_chain)]
    <3>1. Len(alt_chain) \in 1..(n - Split)
      <4> HIDE DEF n
      <4> QED BY <1>3, <1>13
    <3> QED BY <1>13, <3>1 DEF Top
  <2>9. Work[OldTop] < Work[alt_chain[Len(alt_chain)]]
    BY <1>1, <1>2 DEF BranchInv
  <2> QED BY <1>5, <2>6, <2>7, <2>8, <2>9
<1>16. CASE /\ ~AltAccepts(b) /\ pc' = RollbackStart /\ pos' = 0
            /\ UNCHANGED <<m_alternative_chains, alt_chain, disconnected_chain>>
  <2>1. pos = 1
    <3>1. ~(pos > 1)
      BY <1>2, <1>16, LaterOldAccepted
    <3> QED BY <1>3, <3>1
  <2>2. pc' = "rollback_pop" /\ pc \in LaterSteps /\ pc' \in LaterSteps
    <3>1. n # Split
      <4> HIDE DEF n
      <4> QED BY <1>2, <1>3
    <3> QED BY <1>2, <1>16, <3>1 DEF LaterSteps, RollbackStart
  <2>3. /\ OldInv' /\ Split' = Split /\ Kept' = Split /\ OldTop' = OldTop
        /\ Work[OldTop'] < Work[alt_chain'[Len(alt_chain')]]
        /\ is_in_checkpoint_zone(Split') =>
             is_in_checkpoint_zone(Kept' + Len(disconnected_chain') - 1)
    BY <1>2, <1>16, <2>2, InsideSwitch
  <2>4. HeldInv'
    <3>1. \A t \in Txs : Held(t) => /\ Held(t)'
                                    /\ ~is_in_checkpoint_zone(Split) /\ Unpruned(t) => Unpruned(t)'
      BY <1>2 DEF Held, Unpruned, have_tx, have_tx_chain, dbVars, poolVars
    <3>2. UNCHANGED <<alt_chain, disconnected_chain>>
      BY <1>16
    <3> QED BY <1>1, <3>1, <3>2, HeldKept
  <2>5. BranchInv'
    <3>1. \A i \in DOMAIN alt_chain' : alt_chain'[i] \in m_alternative_chains'
      BY <1>12, <1>16
    <3> QED BY <2>2, <2>3, <3>1 DEF BranchInv
  <2>6. KnownInv'
    <3>1. \A i \in 1..Len(d) : d[i] \notin m_invalid_blocks /\ d[i] \notin m_alternative_chains
      BY <1>7, <2>1
    <3>2. \A i \in 1..Kept' : m_db_blocks'[i] \notin m_alternative_chains' \cup m_invalid_blocks'
      BY <1>2, <1>6, <1>16, <2>3
    <3>3. (m_alternative_chains' \ Dropping') \cap m_invalid_blocks' = {}
      BY <1>2, <1>8, <1>16
    <3>4. \A c \in m_alternative_chains' : check_block(Height(c), c)
      BY <1>8, <1>16
    <3>5. DOMAIN disconnected_chain' = 1..Len(d) /\ disconnected_chain' = d
      BY <1>3, <1>16
    <3> QED BY <1>2, <1>16, <2>2, <3>1, <3>2, <3>3, <3>4, <3>5 DEF KnownInv
  <2> QED BY <1>5, <2>2, <2>3, <2>4, <2>5, <2>6 DEF ReorgInv
<1> QED BY <1>14, <1>15, <1>16 DEF OldToAlt
-----------------------------------------------------------------------------
(***************************************************************************)
(* The invariant.                                                          *)
(***************************************************************************)

(* It holds of a fresh database.                                           *)
LEMMA InitReorg == Init => ReorgInv
<1> SUFFICES ASSUME Init PROVE ReorgInv
  OBVIOUS
<1> USE DEF Init
<1>1. Genesis \in Blocks /\ Path[Genesis] = <<Genesis>> /\ TxSet(Genesis) = {}
  BY TreeAssumption, TxAssumption DEF TxSet
<1>2. /\ Len(m_db_blocks) = 1 /\ DOMAIN m_db_blocks = {1} /\ m_db_blocks[1] = Genesis
      /\ 1..1 = {1} /\ Top = Genesis
  BY DEF Top
<1>3. ChainInv
  BY <1>1, <1>2 DEF ChainInv, PastZoneSigned
<1>4. /\ DOMAIN disconnected_chain = {} /\ Len(disconnected_chain) = 0
      /\ Kept = 1 /\ OldTop = Genesis
  BY <1>2 DEF Kept, OldTop
<1>5. OldInv
  BY <1>1, <1>2, <1>4 DEF OldInv
<1>6. HeldInv /\ BranchInv
  BY <1>4 DEF HeldInv, BranchInv
<1>7. KnownInv
  BY <1>2, <1>4 DEF KnownInv
<1> QED BY <1>3, <1>5, <1>6, <1>7 DEF ReorgInv

(* Stuttering keeps it.                                                    *)
LEMMA StutterReorg ==
  ASSUME ReorgInv, UNCHANGED vars
  PROVE  ReorgInv' /\ OldTop' = OldTop
<1>1. UNCHANGED <<m_db_blocks, m_db_transactions, m_db_spent_keys, m_alternative_chains,
                  m_invalid_blocks, m_transactions, pc, alt_chain, disconnected_chain, pos>>
  BY DEF vars, dbVars, altVars, poolVars, swVars
<1>2. ChainInv'
  BY <1>1 DEF ReorgInv, ChainInv, PastZoneSigned, Top
<1>3. Kept' = Kept /\ OldTop' = OldTop /\ Split' = Split
  BY <1>1 DEF Kept, OldTop, Top, Split
<1>4. OldInv'
  BY <1>1, <1>3 DEF ReorgInv, OldInv
<1>5. HeldInv'
  <2>1. \A t : (Held(t) <=> Held(t)') /\ (Unpruned(t) <=> Unpruned(t)')
    BY <1>1 DEF Held, Unpruned, have_tx, have_tx_chain
  <2> QED BY <1>1, <1>3, <2>1 DEF ReorgInv, HeldInv, is_in_checkpoint_zone
<1>6. BranchInv'
  BY <1>1, <1>3 DEF ReorgInv, BranchInv, is_in_checkpoint_zone
<1>7. KnownInv'
  <2>1. Dropping' = Dropping
    BY <1>1 DEF Dropping, DroppedBlocks
  <2> QED BY <1>1, <1>3, <2>1 DEF ReorgInv, KnownInv, is_height_passed_zone
<1> QED BY <1>2, <1>3, <1>4, <1>5, <1>6, <1>7 DEF ReorgInv

(* The old top is the top while no switch is in progress.                  *)
LEMMA IdleTop ==
  ASSUME ReorgInv, pc = "idle"
  PROVE  OldTop = Top
BY DEF ReorgInv, OldInv, OldTop

(***************************************************************************)
(* What a step may do to the ledger: nothing, or adopt a heavier chain.    *)
(***************************************************************************)
Adopts == OldTop' = Top' /\ Work[OldTop] < Work[Top']

(* Between blocks, steps that leave the chain alone.                       *)
LEMMA IdleLedger ==
  ASSUME Inv, Inv', ReorgInv, pc = "idle", UNCHANGED dbVars, UNCHANGED swVars,
         m_alternative_chains' \subseteq m_alternative_chains,
         m_invalid_blocks' \subseteq m_invalid_blocks
  PROVE  ReorgInv' /\ OldTop' = OldTop
<1>1. ReorgInv'
  BY IdleReorg
<1>2. OldTop' = OldTop
  BY DEF OldTop, Top, dbVars, swVars
<1> QED BY <1>1, <1>2

(* Every step keeps ReorgInv, and the ledger or replaces it as a whole.    *)
LEMMA NextReorg ==
  ASSUME Inv, Inv', ReorgInv, [LedgerStep]_vars
  PROVE  ReorgInv' /\ (OldTop' = OldTop \/ Adopts)
<1>1. ASSUME InsertTx PROVE ReorgInv' /\ OldTop' = OldTop
  <2>1. pc = "idle" /\ UNCHANGED dbVars /\ UNCHANGED swVars /\ UNCHANGED altVars
    BY <1>1 DEF InsertTx, At
  <2> QED BY <2>1, IdleLedger DEF altVars
<1>2. ASSUME NEW S \in SUBSET PoolTxs, remove_stuck_transactions(S)
      PROVE  ReorgInv' /\ OldTop' = OldTop
  BY <1>2, IdleLedger DEF remove_stuck_transactions, altVars
<1>3. ASSUME NEW asked \in SUBSET {t \in PoolTxs : NeedsCheck(t)}, fill_block_template(asked)
      PROVE  ReorgInv' /\ OldTop' = OldTop
  <2>1. pc = "idle" /\ UNCHANGED dbVars /\ UNCHANGED swVars /\ UNCHANGED altVars
    BY <1>3 DEF fill_block_template
  <2> QED BY <2>1, IdleLedger DEF altVars
<1>4. ASSUME NEW b \in Blocks \ {Genesis}, AddMainBlock(b)
      PROVE  ReorgInv' /\ (OldTop' = OldTop \/ Adopts)
  <2>1. ReorgInv'
    BY <1>4, AddMainBlock_Reorg
  <2>2. pc = "idle" /\ UNCHANGED swVars
    BY <1>4 DEF AddMainBlock
  <2>3. OldTop = Top /\ OldTop' = Top'
    BY <2>2, IdleTop DEF ReorgInv, OldInv, OldTop, swVars
  <2>4. CASE Connect(b)
    <3>1. /\ DbTypeOK /\ PoolTypeOK /\ ChainHeights /\ LedgerInv /\ ChainInv
      BY DEF Inv, TypeOK, SwitchOK, ReorgInv
    <3>2. Prev[b] = Top /\ Top' = b
      BY <1>4, <2>4, <3>1, ConnectChain
    <3>3. Work[Prev[b]] < Work[b]
      BY TreeAssumption
    <3> QED BY <2>1, <2>3, <3>2, <3>3 DEF Adopts
  <2>5. CASE Reject(b)
    <3>1. Top' = Top
      BY <2>5 DEF Reject, dbVars, Top
    <3> QED BY <2>1, <2>3, <3>1
  <2> QED BY <1>4, <2>4, <2>5 DEF AddMainBlock
<1>5. ASSUME NEW b \in Blocks \ {Genesis}, AddAltBlock(b)
      PROVE  ReorgInv' /\ OldTop' = OldTop
  <2>1. ReorgInv'
    BY <1>5, AddAltBlock_Reorg
  <2>2. pc = "idle" /\ Top' = Top
    BY <1>5 DEF AddAltBlock, dbVars, Top
  <2>3. disconnected_chain = <<>> /\ disconnected_chain' = <<>>
    BY <1>5, <2>2 DEF AddAltBlock, swVars, ReorgInv, OldInv
  <2> QED BY <2>1, <2>2, <2>3 DEF OldTop
<1>6. ASSUME PopsSucceed, DisconnectOld PROVE ReorgInv' /\ OldTop' = OldTop
  BY <1>6, DisconnectOld_Reorg DEF PopsSucceed, DisconnectOld
<1>7. ASSUME ConnectAlt PROVE ReorgInv' /\ OldTop' = OldTop
  <2>1. disconnected_chain # <<>> /\ disconnected_chain' = disconnected_chain
    BY <1>7 DEF ConnectAlt, Inv, SwitchOK
  <2> QED BY <1>7, <2>1, ConnectAlt_Reorg DEF OldTop
<1>8. ASSUME PopsSucceed, RollbackPop PROVE ReorgInv' /\ OldTop' = OldTop
  <2>1. PopSucceeds /\ disconnected_chain # <<>>
    BY <1>8 DEF Inv, SwitchOK, RollbackPop, PopsSucceed
  <2>2. disconnected_chain' = disconnected_chain
    BY <1>8, <2>1 DEF RollbackPop
  <2> QED BY <1>8, <2>1, <2>2, RollbackPop_Reorg DEF OldTop
<1>9. ASSUME RollbackPush PROVE ReorgInv' /\ OldTop' = OldTop
  BY <1>9, RollbackPush_Reorg
<1>10. ASSUME OldToAlt PROVE ReorgInv' /\ (OldTop' = OldTop \/ Adopts)
  BY <1>10, OldToAlt_Reorg DEF Adopts
<1>11. ASSUME prune_aged_alt_blocks PROVE ReorgInv' /\ OldTop' = OldTop
  <2>1. /\ pc = "idle" /\ UNCHANGED dbVars /\ UNCHANGED swVars
        /\ m_alternative_chains' \subseteq m_alternative_chains
        /\ m_invalid_blocks' \subseteq m_invalid_blocks
    BY <1>11 DEF prune_aged_alt_blocks
  <2> QED BY <2>1, IdleLedger
<1>12. ASSUME NEW crash \in BOOLEAN, Restart(crash) PROVE ReorgInv' /\ OldTop' = OldTop
  <2>1. /\ pc = "idle" /\ UNCHANGED dbVars /\ UNCHANGED swVars
        /\ m_alternative_chains' \subseteq m_alternative_chains
        /\ m_invalid_blocks' \subseteq m_invalid_blocks
    BY <1>12 DEF Restart
  <2> QED BY <2>1, IdleLedger
<1>13. ASSUME UNCHANGED vars PROVE ReorgInv' /\ OldTop' = OldTop
  BY <1>13, StutterReorg
<1> QED BY <1>1, <1>2, <1>3, <1>4, <1>5, <1>6, <1>7, <1>8, <1>9, <1>10, <1>11, <1>12, <1>13
        DEF LedgerStep, BlockAndIdleSteps
-----------------------------------------------------------------------------
(***************************************************************************)
(* ReorgInv is an invariant.                                               *)
(***************************************************************************)
THEOREM ReorgInvariance == IntakeSpec => []ReorgInv
<1>1. Inv /\ Inv' /\ ReorgInv /\ [LedgerStep]_vars => ReorgInv'
  BY NextReorg
<1> QED BY <1>1, InitReorg, Invariance, LedgerSteps, PTL DEF IntakeSpec, IntakeInit

(***************************************************************************)
(* A block is main, alternative or invalid, never two of them between      *)
(* blocks: whatever way a switch ended, its erasures were complete.        *)
(***************************************************************************)
THEOREM BlockKnownOnce == IntakeSpec => []KnownOnce
<1>1. Inv /\ ReorgInv => KnownOnce
  <2> SUFFICES ASSUME Inv, ReorgInv, pc = "idle"
               PROVE  /\ OnChain \cap m_alternative_chains = {}
                      /\ OnChain \cap m_invalid_blocks = {}
                      /\ m_alternative_chains \cap m_invalid_blocks = {}
    BY DEF KnownOnce
  <2>1. DbTypeOK
    BY DEF Inv, TypeOK
  <2>2. /\ OnChain \cap (m_alternative_chains \cup m_invalid_blocks) = {}
        /\ m_alternative_chains \cap m_invalid_blocks = {}
    BY <2>1, IdleBefore
  <2> QED BY <2>2
<1> QED BY <1>1, Invariance, ReorgInvariance, PTL

(***************************************************************************)
(* rollback_blockchain_switching never fails to add an old block again:    *)
(* whatever the pool went through before and during the failed switch, the *)
(* block's transactions are there and its checks pass.                     *)
(***************************************************************************)
THEOREM RollbackRestores == IntakeSpec => []RollbackReconnects
<1>1. Inv /\ ReorgInv => RollbackReconnects
  BY RollbackConnects DEF RollbackReconnects
<1> QED BY <1>1, Invariance, ReorgInvariance, PTL

(***************************************************************************)
(* Above the last checkpoint every transaction of the main chain has been  *)
(* verified and still has its signatures.                                  *)
(***************************************************************************)
THEOREM SignedAboveCheckpoints == IntakeSpec => []PastZoneSigned
<1>1. ReorgInv => PastZoneSigned
  BY DEF ReorgInv, ChainInv
<1> QED BY <1>1, ReorgInvariance, PTL
-----------------------------------------------------------------------------
(***************************************************************************)
(* No transaction of a disconnected block is lost.                         *)
(***************************************************************************)

(* The step that ends a switch: the last old block returned by a rollback, *)
(* or the last one made alternative.                                       *)
LEMMA EndHolds ==
  ASSUME Inv, Inv', ReorgInv, LedgerStep, pc # "idle", pc' = "idle",
         NEW i \in DOMAIN disconnected_chain, NEW t \in TxSet(disconnected_chain[i])
  PROVE  Held(t)'
<1>1. DbTypeOK /\ PoolTypeOK /\ LedgerInv /\ SwitchTypeOK
  BY DEF Inv, TypeOK
<1>2. t \in Txs
  <2>1. disconnected_chain[i] \in Blocks
    BY <1>1, ElementOfSeq, LenProperties DEF SwitchTypeOK
  <2> QED BY <2>1, TxSetType
<1>3. Held(t)
  BY DEF ReorgInv, HeldInv
<1>4. ASSUME PopsSucceed, DisconnectOld PROVE Held(t)'
  BY <1>4, DisconnectOld_Reorg DEF PopsSucceed, DisconnectOld
<1>5. ASSUME ConnectAlt PROVE Held(t)'
  BY <1>5 DEF ConnectAlt, RollbackStart
<1>6. ASSUME PopsSucceed, RollbackPop PROVE Held(t)'
  BY <1>1, <1>6 DEF RollbackPop, PopsSucceed
<1>7. ASSUME RollbackPush PROVE Held(t)'
  <2>1. pc = "rollback_push"
    BY <1>7 DEF RollbackPush
  <2>2. OldBlock \in Blocks \ {Genesis} /\ Connect(OldBlock)
    BY <1>7, <2>1, OldBlockNext, RollbackConnects DEF RollbackPush
  <2> QED BY <1>1, <1>2, <1>3, <2>2, ConnectHolds
<1>8. ASSUME OldToAlt PROVE Held(t)'
  <2>1. UNCHANGED <<m_db_transactions, m_transactions>>
    BY <1>8 DEF OldToAlt, dbVars, poolVars
  <2> QED BY <1>3, <2>1 DEF Held, have_tx, have_tx_chain
<1>9. PopsSucceed /\ (DisconnectOld \/ ConnectAlt \/ RollbackPop \/ RollbackPush \/ OldToAlt)
  BY DEF LedgerStep, BlockAndIdleSteps, InsertTx, At, remove_stuck_transactions,
         fill_block_template, AddMainBlock, AddAltBlock, prune_aged_alt_blocks, Restart
<1> QED BY <1>4, <1>5, <1>6, <1>7, <1>8, <1>9

(***************************************************************************)
(* When a switch ends, forward or rolled back, every transaction of the    *)
(* blocks it disconnected is in the main chain or in the pool.             *)
(***************************************************************************)
THEOREM NoTransactionLost == IntakeSpec => NoTxLost
<1> DEFINE Kept_ == pc # "idle" /\ pc' = "idle" =>
                      \A i \in DOMAIN disconnected_chain : \A t \in TxSet(disconnected_chain[i]) :
                        have_tx(t)' \/ have_tx_chain(t)'
<1>1. Inv /\ Inv' /\ ReorgInv /\ [LedgerStep]_vars => [Kept_]_vars
  <2> SUFFICES ASSUME Inv, Inv', ReorgInv, LedgerStep PROVE Kept_
    OBVIOUS
  <2> SUFFICES ASSUME pc # "idle", pc' = "idle", NEW i \in DOMAIN disconnected_chain,
                      NEW t \in TxSet(disconnected_chain[i])
               PROVE  have_tx(t)' \/ have_tx_chain(t)'
    OBVIOUS
  <2>1. Held(t)'
    BY EndHolds
  <2> QED BY <2>1 DEF Held
<1>2. IntakeSpec => [][Kept_]_vars
  <2> HIDE DEF Kept_
  <2> QED BY <1>1, Invariance, ReorgInvariance, LedgerSteps, PTL DEF IntakeSpec, IntakeInit
<1> QED BY <1>2 DEF NoTxLost
-----------------------------------------------------------------------------
(***************************************************************************)
(* The refinement.                                                         *)
(***************************************************************************)

(* The ledger is the path to the old top, at every point of a switch.      *)
LEMMA LedgerIsPath ==
  ASSUME Inv, ReorgInv
  PROVE  OldTop \in Blocks /\ Ledger = Path[OldTop]
<1> DEFINE d == disconnected_chain
           n == Len(m_db_blocks)
           K == IF pc = "pop" THEN m_db_blocks ELSE SubSeq(m_db_blocks, 1, Split)
<1>1. DbTypeOK /\ SwitchTypeOK /\ ChainInv /\ OldInv
  BY DEF Inv, TypeOK, ReorgInv
<1>2. Top \in Blocks /\ m_db_blocks \in Seq(Blocks) /\ n \in Nat
  BY <1>1, ChainFacts DEF DbTypeOK
<1>3. CASE pc = "idle"
  BY <1>1, <1>2, <1>3 DEF OldInv, OldTop, Ledger, ChainInv
<1>4. CASE pc # "idle"
  <2>1. /\ Split \in Nat \ {0} /\ Split <= n /\ Kept \in Nat \ {0}
        /\ Len(d) \in Nat /\ DOMAIN d = 1..Len(d) /\ d \in Seq(Blocks)
    BY <1>1, <1>4, SwitchFacts DEF SwitchTypeOK
  <2>2. OldTop \in Blocks
    <3>1. CASE d = <<>>
      BY <1>2, <3>1 DEF OldTop
    <3>2. CASE d # <<>>
      BY <1>1, <2>1, <3>2, OldFacts
    <3> QED BY <3>1, <3>2
  <2>3. /\ Len(Path[OldTop]) = Kept + Len(d) /\ Path[OldTop] \in Seq(Blocks)
        /\ \A i \in 1..Kept : Path[OldTop][i] = m_db_blocks[i]
        /\ \A i \in 1..Len(d) : Path[OldTop][Kept + i] = d[i]
    BY <1>1, <2>1, <2>2, PathFacts DEF OldInv
  <2>4. K \in Seq(Blocks) /\ Len(K) = Kept /\ \A i \in 1..Kept : K[i] = m_db_blocks[i]
    <3>1. CASE pc = "pop"
      BY <1>2, <3>1 DEF Kept
    <3>2. CASE pc # "pop"
      <4>1. Kept = Split /\ K = SubSeq(m_db_blocks, 1, Split)
        BY <1>4, <3>2 DEF Kept
      <4>2. /\ \A i \in 1..Split : m_db_blocks[i] \in Blocks
            /\ Len(SubSeq(m_db_blocks, 1, Split)) = Split
            /\ \A i \in 1..Split : SubSeq(m_db_blocks, 1, Split)[i] = m_db_blocks[i]
            /\ SubSeq(m_db_blocks, 1, Split) \in Seq(Blocks)
        <5>1. \A i \in 1..Split : i \in 1..n
          <6> HIDE DEF n
          <6> QED BY <1>2, <2>1
        <5>2. \A i \in 1..n : m_db_blocks[i] \in Blocks
          BY <1>2, ElementOfSeq
        <5> QED BY <1>2, <2>1, <5>1, <5>2
      <4> QED BY <4>1, <4>2
    <3> QED BY <3>1, <3>2
  <2>5. Ledger = K \o d
    BY <1>4 DEF Ledger
  <2> HIDE DEF K, d
  <2>6. /\ K \o d \in Seq(Blocks) /\ Len(K \o d) = Kept + Len(d)
        /\ \A i \in 1..(Kept + Len(d)) : (K \o d)[i] = IF i <= Kept THEN K[i] ELSE d[i - Kept]
    <3>1. K \in Seq(Blocks) /\ d \in Seq(Blocks) /\ Len(K) = Kept
      BY <2>1, <2>4
    <3> QED BY <3>1, ConcatProperties
  <2>7. ASSUME NEW i \in 1..(Kept + Len(d)) PROVE (K \o d)[i] = Path[OldTop][i]
    <3>1. CASE i <= Kept
      <4>1. i \in 1..Kept
        BY <2>1, <3>1
      <4>2. (K \o d)[i] = K[i]
        BY <2>6, <3>1
      <4>3. K[i] = m_db_blocks[i] /\ Path[OldTop][i] = m_db_blocks[i]
        BY <2>3, <2>4, <4>1
      <4> QED BY <4>2, <4>3
    <3>2. CASE ~(i <= Kept)
      <4>1. i - Kept \in 1..Len(d) /\ Kept + (i - Kept) = i
        BY <2>1, <3>2
      <4>2. Path[OldTop][Kept + (i - Kept)] = d[i - Kept]
        BY <2>3, <4>1
      <4> QED BY <2>6, <3>2, <4>1, <4>2
    <3> QED BY <3>1, <3>2
  <2>8. K \o d = Path[OldTop]
    BY <2>3, <2>6, <2>7, SeqEqual
  <2> QED BY <2>2, <2>5, <2>8
<1> QED BY <1>3, <1>4

(* What the main chain consists of is acceptable in the abstract sense.    *)
LEMMA TopAcceptable ==
  ASSUME Inv, ReorgInv
  PROVE  Abstract!Acceptable(Top)
<1> DEFINE m == m_db_blocks
<1>1. DbTypeOK /\ ChainInv /\ NoDoubleSpend
  BY DEF Inv, TypeOK, ReorgInv, LedgerInv
<1>2. /\ DOMAIN m = 1..Len(m) /\ \A i \in DOMAIN m : m[i] \in Blocks
      /\ m = Path[Top]
  BY <1>1, ChainFacts DEF ChainInv
<1>3. \A i \in DOMAIN m : m[i] = Genesis \/ ValidBlock(m[i])
  BY <1>1 DEF ChainInv
<1>4. \A i \in DOMAIN Path[Top] : Path[Top][i] = Genesis \/ Path[Top][i] \in GoodBlocks
  BY <1>2, <1>3 DEF ValidBlock
<1>5. ASSUME NEW i \in DOMAIN m, NEW j \in DOMAIN m,
             NEW k \in DOMAIN BlockTxs[m[i]], NEW l \in DOMAIN BlockTxs[m[j]],
             i # j \/ k # l
      PROVE  /\ BlockTxs[m[i]][k] # BlockTxs[m[j]][l]
             /\ Images[BlockTxs[m[i]][k]] \cap Images[BlockTxs[m[j]][l]] = {}
  <2> DEFINE t == BlockTxs[m[i]][k]
             u == BlockTxs[m[j]][l]
  <2>1. t \in TxSet(m[i]) /\ u \in TxSet(m[j])
    BY DEF TxSet
  <2>2. t # u
    <3>1. CASE i # j
      BY <1>1, <2>1, <3>1 DEF NoDoubleSpend
    <3>2. CASE i = j
      <4> DEFINE x == m[i]
      <4>1. x \in Blocks /\ x # Genesis /\ ValidBlock(x)
        <5>1. BlockTxs[Genesis] = <<>>
          BY TxAssumption
        <5> QED BY <1>2, <1>3, <5>1
      <4>2. DOMAIN BlockTxs[x] = 1..Len(BlockTxs[x]) /\ Len(BlockTxs[x]) \in Nat
        BY <4>1, TxAssumption, LenProperties
      <4>3. \A a, c \in DOMAIN BlockTxs[x] : a < c => BlockTxs[x][a] # BlockTxs[x][c]
        <5> SUFFICES ASSUME NEW a \in DOMAIN BlockTxs[x], NEW c \in DOMAIN BlockTxs[x], a < c
                     PROVE  BlockTxs[x][a] # BlockTxs[x][c]
          OBVIOUS
        <5>1. a \in 1..(c - 1)
          BY <4>2
        <5>2. BlockTxs[x][a] \in Earlier(x, c)
          BY <5>1 DEF Earlier
        <5>3. BlockTxs[x][c] \notin Earlier(x, c)
          BY <4>1 DEF ValidBlock, ValidTx
        <5> QED BY <5>2, <5>3
      <4>4. k \in DOMAIN BlockTxs[x] /\ l \in DOMAIN BlockTxs[x] /\ k # l
        BY <1>5, <3>2
      <4>5. k < l \/ l < k
        BY <4>2, <4>4
      <4>6. t = BlockTxs[x][k] /\ u = BlockTxs[x][l]
        BY <3>2
      <4> HIDE DEF x, t, u
      <4> QED BY <4>3, <4>4, <4>5, <4>6
    <3> QED BY <3>1, <3>2
  <2> QED BY <1>1, <2>1, <2>2 DEF NoDoubleSpend
<1>6. Abstract!SpendsOnce(Top)
  <2> SUFFICES ASSUME NEW p \in Abstract!Positions(Top), NEW q \in Abstract!Positions(Top), p # q
               PROVE  /\ Abstract!TxAt(Top, p[1], p[2]) # Abstract!TxAt(Top, q[1], q[2])
                      /\ Images[Abstract!TxAt(Top, p[1], p[2])]
                           \cap Images[Abstract!TxAt(Top, q[1], q[2])] = {}
    BY DEF Abstract!SpendsOnce
  <2>1. /\ p[1] \in DOMAIN m /\ p[2] \in DOMAIN BlockTxs[m[p[1]]]
        /\ q[1] \in DOMAIN m /\ q[2] \in DOMAIN BlockTxs[m[q[1]]]
    BY <1>2 DEF Abstract!Positions
  <2>2. p[1] # q[1] \/ p[2] # q[2]
    <3>1. p = <<p[1], p[2]>> /\ q = <<q[1], q[2]>>
      BY DEF Abstract!Positions
    <3> QED BY <3>1
  <2>3. /\ Abstract!TxAt(Top, p[1], p[2]) = BlockTxs[m[p[1]]][p[2]]
        /\ Abstract!TxAt(Top, q[1], q[2]) = BlockTxs[m[q[1]]][q[2]]
    BY <1>2 DEF Abstract!TxAt
  <2> QED BY <1>5, <2>1, <2>2, <2>3
<1> QED BY <1>4, <1>6 DEF Abstract!Acceptable

(* The three facts about single states that a step of the refinement uses. *)
LedgerFacts ==
  /\ OldTop \in Blocks /\ Top \in Blocks
  /\ Ledger = Path[OldTop]
  /\ Abstract!Acceptable(Top)

(* A step of the storage is a step of BestChain, or leaves the ledger.     *)
LEMMA StepRefines ==
  ASSUME LedgerFacts, LedgerFacts', OldTop' = OldTop \/ Adopts
  PROVE  Abstract!Next \/ Ledger' = Ledger
<1>1. CASE OldTop' = OldTop
  BY <1>1 DEF LedgerFacts
<1>2. CASE Adopts
  <2>1. /\ Top' \in Blocks /\ OldTop' = Top' /\ Work[OldTop] < Work[Top']
        /\ Ledger' = Path[Top'] /\ Ledger = Path[OldTop] /\ OldTop \in Blocks
    BY <1>2 DEF LedgerFacts, Adopts
  <2>2. Ledger[Len(Ledger)] = OldTop
    <3>1. OldTop \in Blocks
      BY <2>1
    <3>2. \A b \in Blocks : Path[b][Len(Path[b])] = b
      BY PathFacts
    <3> QED BY <2>1, <3>1, <3>2
  <2>3. Abstract!Acceptable(Top')
    BY DEF LedgerFacts, Abstract!Acceptable, Abstract!SpendsOnce, Abstract!Positions, Abstract!TxAt
  <2>4. Abstract!Adopt(Top')
    BY <2>1, <2>2, <2>3 DEF Abstract!Adopt
  <2> QED BY <2>1, <2>4 DEF Abstract!Next
<1> QED BY <1>1, <1>2

(***************************************************************************)
(* The storage implements BestChain: users of the node see one path of the *)
(* block tree, which is only ever replaced as a whole, by a heavier and    *)
(* acceptable one; a failed switch is invisible.                           *)
(***************************************************************************)
THEOREM Refinement == IntakeSpec => ImplementsBestChain
<1>1. Init => Abstract!Init
  BY DEF Init, Abstract!Init, Ledger
<1>2. Inv /\ ReorgInv => LedgerFacts
  <2>1. Inv => Top \in Blocks
    BY ChainFacts DEF Inv, TypeOK
  <2> QED BY <2>1, LedgerIsPath, TopAcceptable DEF LedgerFacts
<1>3. Inv /\ Inv' /\ ReorgInv /\ LedgerFacts /\ LedgerFacts' /\ [LedgerStep]_vars
        => [Abstract!Next]_Ledger
  BY NextReorg, StepRefines
<1>4. IntakeSpec => Abstract!Spec
  BY <1>1, <1>2, <1>3, Invariance, ReorgInvariance, LedgerSteps, PTL DEF IntakeSpec, IntakeInit, Abstract!Spec
<1> QED BY <1>4 DEF ImplementsBestChain
-----------------------------------------------------------------------------
(***************************************************************************)
(* No alternative block is heavier than the main chain.  With checkpoints  *)
(* there is an exception: a heavier branch through a checkpoint that the   *)
(* old chain goes around is switched to and rolled back when the first old *)
(* block is refused as an alternative one, and nothing is dropped then.    *)
(***************************************************************************)
Tip == alt_chain[Len(alt_chain)]

AboveCheckpoint(b) == \E p \in DOMAIN CheckpointAt : p <= Height(b)

HeavyInv ==
  /\ \A b \in m_alternative_chains :
       Work[b] <= Work[OldTop] \/ AboveCheckpoint(b) \/ (pc # "idle" /\ b = Tip)
  /\ pc \in {"rollback_pop", "rollback_push"} =>
       pos \in DOMAIN alt_chain \/ AboveCheckpoint(Tip)

(* Cumulative difficulty grows along a path.                               *)
LEMMA PathWork ==
  ASSUME NEW b \in Blocks, NEW i \in 1..Len(Path[b])
  PROVE  Work[Path[b][i]] <= Work[b]
<1> DEFINE Good(x) == \A k \in 1..Len(Path[x]) : Work[Path[x][k]] <= Work[x]
           Bad == {x \in Blocks : ~Good(x)}
<1>1. Bad = {}
  <2> SUFFICES ASSUME Bad # {} PROVE FALSE
    OBVIOUS
  <2>5. PICK x \in Bad : \A y \in Bad : ~(Len(Path[y]) < Len(Path[x]))
    <3>1. Bad \subseteq Blocks
      OBVIOUS
    <3> HIDE DEF Bad
    <3> QED BY <3>1, ShortestPath
  <2>6. x \in Blocks /\ ~Good(x) /\ \A y \in Bad : ~(Len(Path[y]) < Len(Path[x]))
    BY <2>5
  <2>7. Work[x] \in Nat /\ Len(Path[x]) \in Nat \ {0} /\ Path[x][Len(Path[x])] = x
    BY <2>6, TreeAssumption, PathFacts
  <2>8. PICK k \in 1..Len(Path[x]) : ~(Work[Path[x][k]] <= Work[x])
    BY <2>6
  <2>9. k # Len(Path[x])
    BY <2>7, <2>8
  <2>10. x # Genesis
    <3>1. Len(Path[Genesis]) = 1
      BY TreeFacts
    <3> QED BY <2>7, <2>9, <3>1
  <2>11. /\ Prev[x] \in Blocks /\ Len(Path[Prev[x]]) \in Nat
         /\ Len(Path[x]) = Len(Path[Prev[x]]) + 1
         /\ \A j \in 1..Len(Path[Prev[x]]) : Path[x][j] = Path[Prev[x]][j]
    BY <2>6, <2>10, PathFacts
  <2>12. Good(Prev[x])
    <3>1. Len(Path[Prev[x]]) < Len(Path[x])
      BY <2>11
    <3> QED BY <2>6, <2>11, <3>1
  <2>13. k \in 1..Len(Path[Prev[x]])
    BY <2>7, <2>9, <2>11
  <2>14. Work[Path[x][k]] <= Work[Prev[x]]
    BY <2>11, <2>12, <2>13
  <2>15. Work[Prev[x]] < Work[x] /\ Work[Prev[x]] \in Nat /\ Work[Path[x][k]] \in Nat
    <3>1. Path[x][k] \in Blocks
      BY <2>6, PathFacts
    <3> QED BY <2>6, <2>10, <2>11, <3>1, TreeAssumption
  <2> DEFINE w == Work[Path[x][k]]
             v == Work[Prev[x]]
  <2>16. ~(w <= Work[x]) /\ w <= v /\ v < Work[x]
    BY <2>8, <2>14, <2>15
  <2>17. w \in Nat /\ v \in Nat /\ Work[x] \in Nat
    BY <2>7, <2>15
  <2> HIDE DEF w, v
  <2> QED BY <2>16, <2>17
<1>2. Good(b)
  <2> HIDE DEF Good
  <2> QED BY <1>1
<1> QED BY <1>2

(* The first old block is refused only if the branch went past a           *)
(* checkpoint at or above the split.                                       *)
LEMMA FirstOldRefused ==
  ASSUME Inv, ReorgInv, pc = "to_alt", pos = 1, ~AltAccepts(disconnected_chain[pos])
  PROVE  is_height_passed_zone(Split, Len(m_db_blocks) - 1)
<1> DEFINE d == disconnected_chain
           b == d[1]
<1>1. pc \in LaterSteps
  BY DEF LaterSteps
<1>2. Split \in Nat \ {0} /\ Split <= Len(m_db_blocks) /\ DOMAIN m_db_blocks = 1..Len(m_db_blocks)
      /\ Kept = Split /\ Len(m_db_blocks) \in Nat
  BY SwitchFacts DEF Kept
<1>3. b \in Blocks \ {Genesis} /\ Height(b) = Split /\ ValidBlock(b) /\ Prev[b] = m_db_blocks[Split]
  <2>1. Len(d) \in Nat \ {0} /\ \A i \in 1..Len(d) :
           d[i] \in Blocks \ {Genesis} /\ Height(d[i]) = Split + i - 1 /\ ValidBlock(d[i])
    BY <1>1, OldChain
  <2>2. Prev[d[1]] = m_db_blocks[Split]
    BY <1>1, OldChain
  <2>3. 1 \in 1..Len(d) /\ Split + 1 - 1 = Split
    BY <1>2, <2>1
  <2> HIDE DEF d
  <2> QED BY <2>1, <2>2, <2>3
<1>4. Split \in DOMAIN m_db_blocks /\ Split \in 1..Kept
  BY <1>2
<1>5. Prev[b] \in OnChain /\ Prev[b] \notin m_alternative_chains
  BY <1>3, <1>4 DEF OnChain, ReorgInv, KnownInv
<1>6. ParentKnown(b) /\ RightConnection(b)
  BY <1>5 DEF ParentKnown, RightConnection
<1>7. b \in PowBlocks /\ b \in PrevalidBlocks /\ check_block(Height(b), b)
  BY <1>3 DEF ValidBlock, GoodBlocks, check_block
<1>8. ~AltAccepts(b)
  OBVIOUS
<1> HIDE DEF b
<1> QED BY <1>3, <1>6, <1>7, <1>8 DEF AltAccepts, AltPow

(* A step that forgets alternative blocks or none and makes the ledger no  *)
(* lighter, between blocks.                                                *)
LEMMA IdleHeavy ==
  ASSUME HeavyInv, pc = "idle", pc' = "idle", OldTop \in Blocks, OldTop' \in Blocks,
         Work[OldTop] <= Work[OldTop'],
         m_alternative_chains' \subseteq m_alternative_chains,
         m_alternative_chains \subseteq Blocks
  PROVE  HeavyInv'
<1>1. ASSUME NEW b \in m_alternative_chains'
      PROVE  Work[b] <= Work[OldTop'] \/ AboveCheckpoint(b)
  <2>1. b \in Blocks /\ (Work[b] <= Work[OldTop] \/ AboveCheckpoint(b))
    BY DEF HeavyInv
  <2>2. Work[b] \in Nat /\ Work[OldTop] \in Nat /\ Work[OldTop'] \in Nat
    BY <2>1, TreeAssumption
  <2> QED BY <2>1, <2>2
<1> QED BY <1>1 DEF HeavyInv, AboveCheckpoint, Height

(* A step inside a switch that leaves branch and alternative blocks.       *)
LEMMA SwitchHeavy ==
  ASSUME HeavyInv, pc # "idle", pc' # "idle", OldTop' = OldTop,
         UNCHANGED <<m_alternative_chains, alt_chain>>,
         pc' \in {"rollback_pop", "rollback_push"} => pos' \in DOMAIN alt_chain \/ AboveCheckpoint(Tip)
  PROVE  HeavyInv'
<1>1. Tip' = Tip
  BY DEF Tip
<1> QED BY <1>1 DEF HeavyInv, AboveCheckpoint, Height

(* Every step keeps HeavyInv.                                              *)
LEMMA NextHeavy ==
  ASSUME Inv, Inv', ReorgInv, ReorgInv', LedgerFacts, LedgerFacts', HeavyInv, [LedgerStep]_vars
  PROVE  HeavyInv'
<1> DEFINE d == disconnected_chain
           n == Len(m_db_blocks)
<1>1. /\ DbTypeOK /\ PoolTypeOK /\ LedgerInv /\ SwitchTypeOK /\ ChainHeights
      /\ m_alternative_chains \subseteq Blocks
      /\ OldTop \in Blocks /\ OldTop' \in Blocks
      /\ ChainInv /\ OldInv /\ BranchInv
  BY DEF Inv, TypeOK, AltTypeOK, SwitchOK, ReorgInv, LedgerFacts
<1>2. \A b \in Blocks : Work[b] \in Nat
  BY TreeAssumption
<1>3. ASSUME pc = "idle", pc' = "idle", m_alternative_chains' \subseteq m_alternative_chains
      PROVE  HeavyInv'
  <2>1. OldTop' = OldTop \/ Work[OldTop] < Work[OldTop']
    BY NextReorg DEF Adopts
  <2>2. Work[OldTop] \in Nat /\ Work[OldTop'] \in Nat
    BY <1>1, <1>2
  <2>3. Work[OldTop] <= Work[OldTop']
    BY <2>1, <2>2
  <2> QED BY <1>1, <1>3, <2>3, IdleHeavy
<1>4. ASSUME NEW b \in Blocks \ {Genesis}, AddAltBlock(b) PROVE HeavyInv'
  <2>1. pc = "idle" /\ Top' = Top /\ OldTop = Top
    BY <1>4, IdleTop DEF AddAltBlock, dbVars, Top
  <2>2. OldTop' = Top
    <3>1. disconnected_chain' = <<>>
      BY <1>1, <1>4, <2>1 DEF AddAltBlock, swVars, OldInv
    <3> QED BY <2>1, <3>1 DEF OldTop
  <2>3. CASE m_alternative_chains' = m_alternative_chains
    <3>1. \A c \in m_alternative_chains' : Work[c] <= Work[OldTop'] \/ AboveCheckpoint(c)
      BY <2>1, <2>2, <2>3 DEF HeavyInv
    <3>2. pc' \in {"idle", "pop"}
      BY <1>4, <2>1 DEF AddAltBlock, swVars
    <3> QED BY <3>1, <3>2 DEF HeavyInv, AboveCheckpoint, Height
  <2>4. CASE m_alternative_chains' = m_alternative_chains \cup {b} /\ Heavier(b)
             /\ pc' = "pop" /\ alt_chain' = Append(AltBranch(Prev[b]), b)
    <3>1. alt_chain'[Len(alt_chain')] = b
      <4>1. AltTypeOK
        BY DEF Inv, TypeOK
      <4> QED BY <2>4, <4>1, BranchFacts
    <3>2. Tip' = b
      BY <3>1 DEF Tip
    <3>3. \A c \in m_alternative_chains' :
             Work[c] <= Work[OldTop'] \/ AboveCheckpoint(c) \/ c = Tip'
      BY <2>1, <2>2, <2>4, <3>2 DEF HeavyInv
    <3> QED BY <2>4, <3>3 DEF HeavyInv, AboveCheckpoint, Height
  <2>5. CASE m_alternative_chains' = m_alternative_chains \cup {b} /\ ~Heavier(b)
             /\ UNCHANGED swVars
    <3>1. Work[b] <= Work[OldTop']
      <4>1. ~(Work[OldTop'] < Work[b]) /\ Work[b] \in Nat /\ Work[OldTop'] \in Nat
        BY <1>1, <1>2, <2>2, <2>5 DEF Heavier
      <4> QED BY <4>1
    <3>2. \A c \in m_alternative_chains' : Work[c] <= Work[OldTop'] \/ AboveCheckpoint(c)
      BY <2>1, <2>2, <2>5, <3>1 DEF HeavyInv
    <3>3. pc' = "idle"
      BY <2>1, <2>5 DEF swVars
    <3> QED BY <3>2, <3>3 DEF HeavyInv, AboveCheckpoint, Height
  <2> QED BY <1>4, <2>3, <2>4, <2>5 DEF AddAltBlock
<1>5. ASSUME PopsSucceed, DisconnectOld PROVE HeavyInv'
  <2>1. OldTop' = OldTop /\ pc' # "idle"
    BY <1>5, DisconnectOld_Reorg DEF PopsSucceed, DisconnectOld
  <2>2. /\ pc = "pop" /\ UNCHANGED <<m_alternative_chains, alt_chain>>
        /\ pc' \in {"connect", "pop"}
    BY <1>1, <1>5 DEF DisconnectOld, PopsSucceed, altVars
  <2> QED BY <2>1, <2>2, SwitchHeavy
<1>6. ASSUME ConnectAlt PROVE HeavyInv'
  <2>1. /\ pc = "connect" /\ UNCHANGED <<m_alternative_chains, alt_chain, disconnected_chain>>
        /\ disconnected_chain # <<>> /\ pos \in DOMAIN alt_chain
        /\ pc' \in LaterSteps
        /\ pc' \in {"rollback_pop", "rollback_push"} => pos' = pos
    BY <1>6 DEF ConnectAlt, RollbackStart, Inv, SwitchOK, LaterSteps
  <2>2. OldTop' = OldTop
    BY <2>1 DEF OldTop
  <2> QED BY <2>1, <2>2, SwitchHeavy DEF LaterSteps
<1>7. ASSUME PopsSucceed, RollbackPop PROVE HeavyInv'
  <2>1. /\ pc = "rollback_pop" /\ UNCHANGED <<m_alternative_chains, alt_chain, disconnected_chain, pos>>
        /\ disconnected_chain # <<>> /\ pc' \in LaterSteps
    BY <1>1, <1>7 DEF RollbackPop, PopsSucceed, altVars, Inv, SwitchOK, LaterSteps
  <2>2. OldTop' = OldTop
    BY <2>1 DEF OldTop
  <2>3. pos \in DOMAIN alt_chain \/ AboveCheckpoint(Tip)
    BY <2>1 DEF HeavyInv
  <2>4. pos' = pos /\ pc' # "idle"
    BY <2>1 DEF LaterSteps
  <2> QED BY <2>1, <2>2, <2>3, <2>4, SwitchHeavy
<1>8. ASSUME RollbackPush PROVE HeavyInv'
  <2>1. pc = "rollback_push" /\ Connects(OldBlock)
    BY <1>8, RollbackConnects DEF RollbackPush
  <2>2. OldTop' = OldTop
    BY <1>8, RollbackPush_Reorg
  <2>3. CASE UNCHANGED <<altVars, swVars>>
    <3>1. UNCHANGED <<m_alternative_chains, alt_chain, pc, pos>>
      BY <2>3 DEF altVars, swVars
    <3>2. pos' \in DOMAIN alt_chain \/ AboveCheckpoint(Tip)
      BY <2>1, <3>1 DEF HeavyInv
    <3> QED BY <2>1, <2>2, <3>1, <3>2, SwitchHeavy
  <2>4. CASE FailSwitch({})
    <3>1. pc' = "idle" /\ m_alternative_chains' = m_alternative_chains \ DroppedBlocks
      BY <2>4 DEF FailSwitch, EndSwitch
    <3>2. Tip \in DroppedBlocks \/ AboveCheckpoint(Tip)
      <4>1. CASE pos \in DOMAIN alt_chain
        <5>1. DOMAIN alt_chain = 1..Len(alt_chain) /\ Len(alt_chain) \in Nat
          BY <2>1, SwitchFacts
        <5>2. pos > 0 /\ Len(alt_chain) \in DOMAIN alt_chain /\ Len(alt_chain) >= pos
          BY <4>1, <5>1
        <5> QED BY <5>2 DEF DroppedBlocks, Tip
      <4> QED BY <2>1, <4>1 DEF HeavyInv
    <3>3. \A c \in m_alternative_chains' : Work[c] <= Work[OldTop'] \/ AboveCheckpoint(c)
      BY <2>2, <3>1, <3>2 DEF HeavyInv
    <3> QED BY <3>1, <3>3 DEF HeavyInv, AboveCheckpoint, Height
  <2> QED BY <1>8, <2>1, <2>3, <2>4 DEF RollbackPush
<1>9. ASSUME OldToAlt PROVE HeavyInv'
  <2> DEFINE b == d[pos]
  <2>1. /\ pc = "to_alt" /\ pos \in DOMAIN d /\ d # <<>>
    BY <1>9 DEF OldToAlt, Inv, SwitchOK
  <2>2. /\ \A i \in 1..(n - Split) : m_db_blocks[Split + i] = alt_chain[i]
        /\ n = Split + Len(alt_chain) /\ Work[OldTop] < Work[Tip]
        /\ n \in Nat \ {0} /\ Split \in Nat /\ Len(alt_chain) \in Nat \ {0}
        /\ DOMAIN alt_chain = 1..Len(alt_chain) /\ DOMAIN m_db_blocks = 1..n
        /\ Kept = Split
    BY <1>1, <2>1, SwitchFacts DEF BranchInv, Tip, Kept
  <2>3. Tip = Top /\ Height(Tip) = n - 1 /\ Tip \in Blocks
    <3>1. Len(alt_chain) \in 1..(n - Split) /\ n \in DOMAIN m_db_blocks
      <4> HIDE DEF n
      <4> QED BY <2>2
    <3>2. Tip = m_db_blocks[n]
      BY <2>2, <3>1 DEF Tip
    <3>3. Len(Path[m_db_blocks[n]]) = n
      BY <1>1, <3>1 DEF ChainHeights
    <3> QED BY <1>1, <3>2, <3>3, ChainFacts DEF Top, Height
  <2>4. CASE KeepOld(b)
    <3>1. /\ UNCHANGED <<pc, alt_chain, disconnected_chain>>
          /\ m_alternative_chains' = m_alternative_chains \cup {b}
      BY <2>4 DEF KeepOld
    <3>2. OldTop' = OldTop /\ Tip' = Tip
      BY <2>1, <3>1 DEF OldTop, Tip
    <3>3. Work[b] <= Work[OldTop]
      <4>1. Path[OldTop][Kept + pos] = b /\ Len(Path[OldTop]) = Kept + Len(d)
        BY <1>1, <2>1 DEF OldInv
      <4>2. DOMAIN d = 1..Len(d) /\ Len(d) \in Nat
        BY <2>1, SwitchFacts
      <4>3. Kept + pos \in 1..Len(Path[OldTop])
        <5> HIDE DEF d
        <5> QED BY <2>1, <2>2, <4>1, <4>2
      <4> QED BY <1>1, <4>1, <4>3, PathWork
    <3>4. \A c \in m_alternative_chains' :
             Work[c] <= Work[OldTop'] \/ AboveCheckpoint(c) \/ c = Tip'
      BY <3>1, <3>2, <3>3 DEF HeavyInv
    <3> QED BY <2>1, <3>1, <3>4 DEF HeavyInv, AboveCheckpoint, Height
  <2>5. CASE KeepLastOld(b)
    <3>1. /\ pc' = "idle" /\ disconnected_chain' = <<>>
          /\ m_alternative_chains' =
               (m_alternative_chains \cup {b}) \ {alt_chain[i] : i \in DOMAIN alt_chain}
          /\ m_db_blocks' = m_db_blocks
      BY <1>9, <2>5 DEF KeepLastOld, EndSwitch, OldToAlt, dbVars
    <3>2. OldTop' = Tip
      BY <2>3, <3>1 DEF OldTop, Top
    <3>3. Tip \notin m_alternative_chains'
      <4>1. Len(alt_chain) \in DOMAIN alt_chain
        BY <2>2
      <4> QED BY <3>1, <4>1 DEF Tip
    <3>4. Work[b] <= Work[OldTop] /\ b \in Blocks
      <4>1. Path[OldTop][Kept + pos] = b /\ Len(Path[OldTop]) = Kept + Len(d)
        BY <1>1, <2>1 DEF OldInv
      <4>2. DOMAIN d = 1..Len(d) /\ Len(d) \in Nat
        BY <2>1, SwitchFacts
      <4>3. Kept + pos \in 1..Len(Path[OldTop])
        <5> HIDE DEF d
        <5> QED BY <2>1, <2>2, <4>1, <4>2
      <4> QED BY <1>1, <4>1, <4>3, PathWork, PathFacts
    <3>5. ASSUME NEW c \in m_alternative_chains'
          PROVE  Work[c] <= Work[OldTop'] \/ AboveCheckpoint(c)
      <4>1. c \in Blocks /\ (Work[c] <= Work[OldTop] \/ AboveCheckpoint(c))
        BY <1>1, <3>1, <3>3, <3>4 DEF HeavyInv
      <4>2. Work[c] \in Nat /\ Work[OldTop] \in Nat /\ Work[Tip] \in Nat
        BY <1>1, <1>2, <2>3, <4>1
      <4> QED BY <2>2, <3>2, <4>1, <4>2
    <3> QED BY <3>1, <3>5 DEF HeavyInv, AboveCheckpoint, Height
  <2>6. CASE /\ ~AltAccepts(b) /\ pc' = RollbackStart /\ pos' = 0
             /\ UNCHANGED <<m_alternative_chains, alt_chain, disconnected_chain>>
    <3>1. pos = 1
      <4>1. ~(pos > 1)
        BY <2>1, <2>6, LaterOldAccepted
      <4>2. pos \in 1..Len(d) /\ Len(d) \in Nat
        BY <2>1, SwitchFacts
      <4> QED BY <4>1, <4>2
    <3>2. AboveCheckpoint(Tip)
      <4>1. is_height_passed_zone(Split, n - 1)
        BY <2>1, <2>6, <3>1, FirstOldRefused
      <4> QED BY <2>3, <4>1 DEF is_height_passed_zone, AboveCheckpoint
    <3>3. OldTop' = OldTop
      BY <2>1, <2>6 DEF OldTop
    <3>4. pc' # "idle"
      BY <2>6 DEF RollbackStart
    <3> QED BY <2>1, <2>6, <3>2, <3>3, <3>4, SwitchHeavy
  <2> QED BY <1>9, <2>4, <2>5, <2>6 DEF OldToAlt
<1>10. ASSUME UNCHANGED vars PROVE HeavyInv'
  <2>1. UNCHANGED <<m_alternative_chains, pc, alt_chain, pos>>
    BY <1>10 DEF vars, altVars, swVars
  <2>2. OldTop' = OldTop /\ Tip' = Tip
    BY <1>10, StutterReorg DEF Tip, vars, swVars
  <2> QED BY <2>1, <2>2 DEF HeavyInv, AboveCheckpoint, Height
<1>11. ASSUME InsertTx PROVE HeavyInv'
  <2>1. pc = "idle" /\ UNCHANGED swVars /\ UNCHANGED altVars
    BY <1>11 DEF InsertTx, At
  <2> QED BY <1>3, <2>1 DEF altVars, swVars
<1>12. ASSUME NEW S \in SUBSET PoolTxs, remove_stuck_transactions(S) PROVE HeavyInv'
  BY <1>3, <1>12 DEF remove_stuck_transactions, altVars, swVars
<1>13. ASSUME NEW asked \in SUBSET {t \in PoolTxs : NeedsCheck(t)}, fill_block_template(asked)
       PROVE  HeavyInv'
  <2>1. pc = "idle" /\ UNCHANGED swVars /\ UNCHANGED altVars
    BY <1>13 DEF fill_block_template
  <2> QED BY <1>3, <2>1 DEF altVars, swVars
<1>14. ASSUME NEW b \in Blocks \ {Genesis}, AddMainBlock(b) PROVE HeavyInv'
  <2>1. pc = "idle" /\ UNCHANGED swVars /\ UNCHANGED m_alternative_chains
    BY <1>14 DEF AddMainBlock
  <2> QED BY <1>3, <2>1 DEF swVars
<1>15. ASSUME prune_aged_alt_blocks PROVE HeavyInv'
  BY <1>3, <1>15 DEF prune_aged_alt_blocks, swVars
<1>16. ASSUME NEW crash \in BOOLEAN, Restart(crash) PROVE HeavyInv'
  BY <1>3, <1>16 DEF Restart, swVars
<1> QED BY <1>4, <1>5, <1>6, <1>7, <1>8, <1>9, <1>10, <1>11, <1>12, <1>13, <1>14, <1>15, <1>16
        DEF LedgerStep, BlockAndIdleSteps

(* So HeavyInv is an invariant, checkpoints or not.                        *)
THEOREM HeavyInvariance == IntakeSpec => []HeavyInv
<1>1. Init => HeavyInv
  BY DEF Init, HeavyInv
<1>2. Inv /\ ReorgInv => LedgerFacts
  <2>1. Inv => Top \in Blocks
    BY ChainFacts DEF Inv, TypeOK
  <2> QED BY <2>1, LedgerIsPath, TopAcceptable DEF LedgerFacts
<1>3. /\ Inv /\ Inv' /\ ReorgInv /\ ReorgInv' /\ LedgerFacts /\ LedgerFacts'
      /\ HeavyInv /\ [LedgerStep]_vars
      => HeavyInv'
  BY NextHeavy
<1> QED BY <1>1, <1>2, <1>3, Invariance, ReorgInvariance, LedgerSteps, PTL DEF IntakeSpec, IntakeInit

(***************************************************************************)
(* Without checkpoints no stored alternative block is heavier than the     *)
(* main chain between blocks: a heavier branch is switched to, or dropped  *)
(* from the block that failed on.                                          *)
(***************************************************************************)
THEOREM HeaviestKept ==
  ASSUME DOMAIN CheckpointAt = {}
  PROVE  IntakeSpec => []HeaviestKnown
<1>1. ReorgInv /\ HeavyInv => HeaviestKnown
  BY IdleTop DEF HeavyInv, HeaviestKnown, AboveCheckpoint
<1> QED BY <1>1, ReorgInvariance, HeavyInvariance, PTL
=============================================================================
