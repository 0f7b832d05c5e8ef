------------------------- MODULE ChainStorageProofs -------------------------
(***************************************************************************)
(* The safety of ChainStorage for every block tree, every set of           *)
(* transactions and every set of checkpoints.                              *)
(*                                                                         *)
(* The inductive invariant is the conjunction of the type invariant, of    *)
(* SwitchOK (where the loops of a reorganisation are) and of LedgerInv     *)
(* (the tables agree with the main chain, the index with the pool).  The   *)
(* main chain and the pool change in three ways only, Connect, Reject and  *)
(* PopTop, from whichever action they are called: each has one lemma.      *)
(***************************************************************************)
EXTENDS TxIntake, SequenceTheorems, WellFoundedInduction, TLAPS

-----------------------------------------------------------------------------
(***************************************************************************)
(* Facts about numbers and sequences.                                      *)
(***************************************************************************)

(* A nonempty set of indexes of a sequence has a greatest element.         *)
LEMMA MaxIndex ==
  ASSUME NEW n \in Nat, NEW S, S \subseteq 1..n, S # {}
  PROVE  \E i \in S : \A j \in S : j <= i
<1> DEFINE R == OpToRel(<, Nat)
           T == {n - i : i \in S}
<1>1. IsWellFoundedOn(R, Nat)
  BY NatLessThanWellFounded
<1>2. T \subseteq Nat /\ T # {}
  <2>1. \A i \in S : n - i \in Nat
    OBVIOUS
  <2> QED BY <2>1
<1>3. \E x \in T : \A y \in T : ~(<<y, x>> \in R)
  <2> HIDE DEF R, T
  <2> QED BY <1>1, <1>2, WFMin
<1>4. PICK x \in T : \A y \in T : ~(<<y, x>> \in R)
  BY <1>3
<1>5. \A y \in T : ~(y < x)
  BY <1>2, <1>4 DEF OpToRel
<1>6. PICK i \in S : x = n - i
  BY <1>4
<1>7. \A j \in S : ~(n - j < n - i)
  BY <1>5, <1>6
<1> QED BY <1>7

(* Dropping the last element of a sequence with at least two.              *)
LEMMA DropLast ==
  ASSUME NEW S, NEW s \in Seq(S), Len(s) > 1
  PROVE  LET p == SubSeq(s, 1, Len(s) - 1) IN
         /\ p \in Seq(S) /\ p # <<>>
         /\ Len(p) = Len(s) - 1
         /\ DOMAIN p = 1..(Len(s) - 1)
         /\ \A i \in 1..(Len(s) - 1) : p[i] = s[i]
<1> DEFINE p == SubSeq(s, 1, Len(s) - 1)
<1>1. Len(s) \in Nat /\ \A i \in 1..(Len(s) - 1) : s[i] \in S
  BY LenProperties
<1>2. /\ p \in Seq(S)
      /\ Len(p) = Len(s) - 1
      /\ \A i \in 1..(Len(s) - 1) : p[i] = s[i]
  BY <1>1
<1>3. DOMAIN p = 1..(Len(s) - 1) /\ p # <<>>
  <2> HIDE DEF p
  <2> QED BY <1>1, <1>2
<1> QED BY <1>2, <1>3

(***************************************************************************)
(* Facts about the block tree.                                             *)
(***************************************************************************)
LEMMA TreeFacts ==
  /\ \A b \in Blocks : Len(Path[b]) \in Nat /\ Len(Path[b]) >= 1 /\ Height(b) \in Nat
  /\ \A b \in Blocks \ {Genesis} :
       /\ Prev[b] \in Blocks
       /\ Len(Path[b]) = Len(Path[Prev[b]]) + 1
       /\ Height(b) = Len(Path[Prev[b]])
       /\ Height(b) >= 1
  /\ Len(Path[Genesis]) = 1
<1>1. \A b \in Blocks : Path[b] \in Seq(Blocks) /\ Len(Path[b]) \in Nat
  BY TreeAssumption, LenProperties
<1>2. Len(Path[Genesis]) = 1
  BY TreeAssumption
<1>3. ASSUME NEW b \in Blocks \ {Genesis}
      PROVE  Prev[b] \in Blocks /\ Len(Path[b]) = Len(Path[Prev[b]]) + 1
  <2>1. Prev[b] \in Blocks /\ Path[b] = Append(Path[Prev[b]], b)
    BY TreeAssumption
  <2> QED BY <1>1, <2>1
<1>4. ASSUME NEW b \in Blocks PROVE Len(Path[b]) >= 1
  <2>1. CASE b = Genesis
    BY <1>2, <2>1
  <2>2. CASE b # Genesis
    BY <1>1, <1>3, <2>2
  <2> QED BY <2>1, <2>2
<1> QED BY <1>1, <1>2, <1>3, <1>4 DEF Height

(* bl.tx_hashes names transactions.                                        *)
LEMMA TxSetType == \A b \in Blocks : TxSet(b) \subseteq Txs
<1> SUFFICES ASSUME NEW b \in Blocks PROVE TxSet(b) \subseteq Txs
  OBVIOUS
<1>1. BlockTxs[b] \in Seq(Txs)
  BY TxAssumption
<1> QED BY <1>1 DEF TxSet
-----------------------------------------------------------------------------
(***************************************************************************)
(* The inductive invariant.                                                *)
(***************************************************************************)
LedgerInv ==
  /\ TablesMatchChain
  /\ NoDoubleSpend
  /\ IndexNeverDangles

Inv == TypeOK /\ SwitchOK /\ LedgerInv

IntakeTypeOK == intake = Nobody \/ intake \in Intake

(* The main chain is a nonempty sequence of blocks, so it has a top.       *)
LEMMA ChainFacts ==
  ASSUME DbTypeOK
  PROVE  /\ Len(m_db_blocks) \in Nat \ {0}
         /\ DOMAIN m_db_blocks = 1..Len(m_db_blocks)
         /\ \A i \in DOMAIN m_db_blocks : m_db_blocks[i] \in Blocks
         /\ Top \in Blocks
         /\ OnChain \subseteq Blocks
         /\ ChainTxs \subseteq Txs
<1>1. /\ Len(m_db_blocks) \in Nat \ {0}
      /\ DOMAIN m_db_blocks = 1..Len(m_db_blocks)
      /\ \A i \in DOMAIN m_db_blocks : m_db_blocks[i] \in Blocks
  BY LenProperties, EmptySeq DEF DbTypeOK
<1>2. Top \in Blocks /\ OnChain \subseteq Blocks
  BY <1>1 DEF Top, OnChain
<1> QED BY <1>1, <1>2, TxSetType DEF ChainTxs

(* The checkpoint flag that a block or an alternative block leaves is a    *)
(* Boolean.                                                                *)
LEMMA ZoneTypes ==
  ASSUME DbTypeOK
  PROVE  \A b : ZoneFor(b) \in BOOLEAN /\ AltZone(b) \in BOOLEAN
BY DEF DbTypeOK, ZoneFor, AltZone, is_in_checkpoint_zone

(* max_used_block_id is a block of the main chain.                         *)
LEMMA MaxUsedBlockType ==
  ASSUME DbTypeOK, NEW t
  PROVE  MaxUsedBlock(t) \in Blocks
<1> DEFINE used == {1} \cup KeeperIndexes(t)
<1>1. used \subseteq 1..Len(m_db_blocks) /\ used # {} /\ Len(m_db_blocks) \in Nat
  BY ChainFacts DEF KeeperIndexes
<1>2. \E i \in used : \A j \in used : j <= i
  <2> HIDE DEF used
  <2> QED BY <1>1, MaxIndex
<1>3. (CHOOSE i \in used : \A j \in used : j <= i) \in used
  <2> HIDE DEF used
  <2> QED BY <1>2
<1> QED BY <1>1, <1>3, ChainFacts DEF MaxUsedBlock

(* The entry add_tx stores is an entry of the pool.                        *)
LEMMA CheckedType ==
  ASSUME NEW sigs \in BOOLEAN, NEW blk \in Blocks \cup {NoBlock}
  PROVE  Checked(sigs, blk) \in PoolEntry /\ Checked(sigs, blk) # NoEntry
BY EntryAssumption, TreeFacts DEF Checked, PoolEntry
-----------------------------------------------------------------------------
(***************************************************************************)
(* A block connects.                                                       *)
(***************************************************************************)

(* What the loop of handle_block_to_main_chain has established of the      *)
(* block's transactions when it ends: they come from the pool, the chain   *)
(* has none of them, and no key image is spent before or by another one.   *)
LEMMA ConnectedTxs ==
  ASSUME NEW b \in Blocks, Connects(b)
  PROVE  /\ TxSet(b) \subseteq PoolTxs
         /\ \A t \in TxSet(b) : ~have_tx_chain(t) /\ Images[t] \cap m_db_spent_keys = {}
         /\ \A t, u \in TxSet(b) : Images[t] \cap Images[u] # {} => t = u
<1>1. BlockTxs[b] \in Seq(Txs) /\ DOMAIN BlockTxs[b] = 1..Len(BlockTxs[b]) /\ Len(BlockTxs[b]) \in Nat
  BY TxAssumption, LenProperties
<1>2. \A i \in DOMAIN BlockTxs[b] :
        /\ have_tx(BlockTxs[b][i])
        /\ ~have_tx_chain(BlockTxs[b][i])
        /\ Images[BlockTxs[b][i]] \cap (m_db_spent_keys \cup ImagesOf(Earlier(b, i))) = {}
  BY DEF Connects, TxAdded, TxTaken, TxInputsOk, check_tx_inputs
<1>3. \A i, j \in DOMAIN BlockTxs[b] :
        i < j => Images[BlockTxs[b][j]] \cap Images[BlockTxs[b][i]] = {}
  <2> SUFFICES ASSUME NEW i \in DOMAIN BlockTxs[b], NEW j \in DOMAIN BlockTxs[b], i < j
               PROVE  Images[BlockTxs[b][j]] \cap Images[BlockTxs[b][i]] = {}
    OBVIOUS
  <2>1. BlockTxs[b][i] \in Earlier(b, j)
    BY <1>1 DEF Earlier
  <2>2. Images[BlockTxs[b][i]] \subseteq ImagesOf(Earlier(b, j))
    BY <2>1 DEF ImagesOf
  <2> QED BY <1>2, <2>2
<1>4. \A t, u \in TxSet(b) : Images[t] \cap Images[u] # {} => t = u
  <2> SUFFICES ASSUME NEW i \in DOMAIN BlockTxs[b], NEW j \in DOMAIN BlockTxs[b],
                      Images[BlockTxs[b][i]] \cap Images[BlockTxs[b][j]] # {}
               PROVE  BlockTxs[b][i] = BlockTxs[b][j]
    BY DEF TxSet
  <2>1. ~(i < j) /\ ~(j < i)
    BY <1>3
  <2>2. i = j
    BY <1>1, <2>1
  <2> QED BY <2>2
<1>5. TxSet(b) \subseteq PoolTxs
  BY <1>2, TxSetType DEF PoolTxs, TxSet
<1>6. \A t \in TxSet(b) : ~have_tx_chain(t) /\ Images[t] \cap m_db_spent_keys = {}
  BY <1>2 DEF TxSet
<1> QED BY <1>4, <1>5, <1>6

(* Connecting b keeps the tables, the pool and its index exact.            *)
LEMMA ConnectKeeps ==
  ASSUME NEW b \in Blocks \ {Genesis},
         DbTypeOK, PoolTypeOK, ChainHeights, LedgerInv, Connect(b)
  PROVE  /\ DbTypeOK' /\ PoolTypeOK' /\ ChainHeights' /\ LedgerInv'
         /\ Len(m_db_blocks)' = Len(m_db_blocks) + 1
<1> USE DEF Connect
<1>1. Connects(b) /\ Prev[b] = Top
  BY DEF Connects, HeaderOk
<1>2. /\ TxSet(b) \subseteq PoolTxs
      /\ \A t \in TxSet(b) : ~have_tx_chain(t) /\ Images[t] \cap m_db_spent_keys = {}
      /\ \A t, u \in TxSet(b) : Images[t] \cap Images[u] # {} => t = u
  BY <1>1, ConnectedTxs
<1>3. TxSet(b) \subseteq Txs
  BY TxSetType
<1>4. /\ Len(m_db_blocks) \in Nat \ {0}
      /\ DOMAIN m_db_blocks = 1..Len(m_db_blocks)
      /\ \A i \in DOMAIN m_db_blocks : m_db_blocks[i] \in Blocks
      /\ Top \in Blocks
  BY ChainFacts
<1>5. /\ m_db_blocks' \in Seq(Blocks) /\ m_db_blocks' # <<>>
      /\ Len(m_db_blocks') = Len(m_db_blocks) + 1
      /\ DOMAIN m_db_blocks' = 1..(Len(m_db_blocks) + 1)
      /\ \A i \in 1..Len(m_db_blocks) : m_db_blocks'[i] = m_db_blocks[i]
      /\ m_db_blocks'[Len(m_db_blocks) + 1] = b
  <2>1. m_db_blocks \in Seq(Blocks)
    BY DEF DbTypeOK
  <2> QED BY <2>1, AppendProperties, LenProperties
<1>6. OnChain' = OnChain \cup {b}
  BY <1>4, <1>5 DEF OnChain
<1>7. ChainTxs' = ChainTxs \cup TxSet(b)
  BY <1>6 DEF ChainTxs
<1>8. \A t \in Txs : have_tx_chain(t)' <=> (have_tx_chain(t) \/ t \in TxSet(b))
  BY <1>3 DEF have_tx_chain
<1>9. \A t \in Txs : have_tx(t)' <=> (have_tx(t) /\ t \notin TxSet(b))
  BY DEF have_tx
<1>10. PoolTxs' = PoolTxs \ TxSet(b)
  BY <1>9 DEF PoolTxs
<1>11. ImagesOf(TxSet(b)) \subseteq KeyImages
  BY <1>3, TxAssumption DEF ImagesOf
<1>12. DbTypeOK'
  <2>1. m_db_transactions' \in [Txs -> {"absent", "signed", "pruned"}]
    BY DEF DbTypeOK
  <2>2. m_db_spent_keys' \subseteq KeyImages
    BY <1>11 DEF DbTypeOK
  <2>3. m_is_in_checkpoint_zone' \in BOOLEAN
    BY ZoneTypes
  <2> QED BY <1>5, <2>1, <2>2, <2>3 DEF DbTypeOK
<1>13. PoolTypeOK'
  BY DEF PoolTypeOK, Unindex
<1>14. ChainHeights'
  <2>1. Len(Path[Top]) = Len(m_db_blocks)
    BY <1>4 DEF ChainHeights, Top
  <2>2. Len(Path[b]) = Len(m_db_blocks) + 1
    BY <1>1, <2>1, TreeFacts
  <2> QED BY <1>4, <1>5, <2>2 DEF ChainHeights
<1>15. TablesMatchChain'
  <2>1. {t \in Txs : have_tx_chain(t)'} = ChainTxs'
    BY <1>3, <1>7, <1>8 DEF LedgerInv, TablesMatchChain
  <2>2. m_db_spent_keys' = ImagesOf(ChainTxs')
    BY <1>7 DEF LedgerInv, TablesMatchChain, ImagesOf
  <2> QED BY <2>1, <2>2 DEF TablesMatchChain, ImagesOf
<1>16. \A u \in ChainTxs, t \in TxSet(b) : t # u /\ Images[t] \cap Images[u] = {}
  BY <1>2, <1>3 DEF LedgerInv, TablesMatchChain, ImagesOf
<1>17. NoDoubleSpend'
  <2> HIDE DEF Connect
  <2> SUFFICES ASSUME NEW i \in 1..(Len(m_db_blocks) + 1), NEW j \in 1..(Len(m_db_blocks) + 1),
                      NEW t \in TxSet(m_db_blocks'[i]), NEW u \in TxSet(m_db_blocks'[j]),
                      t = u \/ Images[t] \cap Images[u] # {}
               PROVE  i = j /\ t = u
    BY <1>5 DEF NoDoubleSpend
  <2>1. CASE i \in 1..Len(m_db_blocks) /\ j \in 1..Len(m_db_blocks)
    BY <1>4, <1>5, <2>1 DEF LedgerInv, NoDoubleSpend
  <2>2. CASE i = Len(m_db_blocks) + 1 /\ j = Len(m_db_blocks) + 1
    BY <1>2, <1>5, <2>2
  <2>3. CASE i = Len(m_db_blocks) + 1 /\ j \in 1..Len(m_db_blocks)
    <3>1. u \in ChainTxs /\ t \in TxSet(b)
      BY <1>4, <1>5, <2>3 DEF ChainTxs, OnChain
    <3> QED BY <1>16, <3>1
  <2>4. CASE j = Len(m_db_blocks) + 1 /\ i \in 1..Len(m_db_blocks)
    <3>1. t \in ChainTxs /\ u \in TxSet(b)
      BY <1>4, <1>5, <2>4 DEF ChainTxs, OnChain
    <3> QED BY <1>16, <3>1
  <2> QED BY <1>4, <2>1, <2>2, <2>3, <2>4
<1>18. IndexNeverDangles'
  BY <1>10 DEF LedgerInv, IndexNeverDangles, Unindex
<1> QED BY <1>5, <1>12, <1>13, <1>14, <1>15, <1>17, <1>18 DEF LedgerInv
-----------------------------------------------------------------------------
(***************************************************************************)
(* A block is refused: the transactions taken for it go back to the pool,  *)
(* so the pool holds the same ones as before.                              *)
(***************************************************************************)
LEMMA RejectKeeps ==
  ASSUME NEW b \in Blocks, DbTypeOK, PoolTypeOK, ChainHeights, LedgerInv, Reject(b)
  PROVE  DbTypeOK' /\ PoolTypeOK' /\ ChainHeights' /\ LedgerInv' /\ UNCHANGED dbVars
<1> DEFINE R == TxsToReturn(b)
<1>1. UNCHANGED <<m_db_blocks, m_db_transactions, m_db_spent_keys>>
  BY DEF Reject, dbVars
<1>2. R \subseteq PoolTxs /\ R \subseteq Txs
  BY TxSetType DEF TxsToReturn, TxTaken, PoolTxs, TxSet
<1>3. \A t \in R : ReturnedEntry(b, t) \in PoolEntry /\ ReturnedEntry(b, t) # NoEntry
  <2> SUFFICES ASSUME NEW t \in R
               PROVE  ReturnedEntry(b, t) \in PoolEntry /\ ReturnedEntry(b, t) # NoEntry
    OBVIOUS
  <2>1. MaxUsedBlock(t) \in Blocks
    BY MaxUsedBlockType
  <2> QED BY <2>1, CheckedType DEF ReturnedEntry
<1>4. \A t \in Txs : have_tx(t)' <=> have_tx(t)
  BY <1>2, <1>3 DEF Reject, have_tx, PoolTxs
<1>5. PoolTxs' = PoolTxs
  BY <1>4 DEF PoolTxs
<1>6. \A t \in Txs : have_tx_chain(t)' <=> have_tx_chain(t)
  BY <1>1 DEF have_tx_chain
<1>7. OnChain' = OnChain /\ ChainTxs' = ChainTxs
  BY <1>1 DEF OnChain, ChainTxs
<1>8. DbTypeOK'
  BY <1>1, ZoneTypes DEF Reject, DbTypeOK
<1>9. PoolTypeOK'
  <2> HIDE DEF R
  <2>1. m_transactions' = [t \in Txs |-> IF t \in R THEN ReturnedEntry(b, t) ELSE m_transactions[t]]
    BY DEF Reject, R
  <2>2. m_transactions' \in [Txs -> PoolEntry \cup {NoEntry}]
    BY <1>3, <2>1 DEF PoolTypeOK
  <2>3. m_spent_key_images' \in [KeyImages -> SUBSET Txs]
    BY <1>2 DEF Reject, PoolTypeOK, Index, Unindex, R
  <2> QED BY <2>2, <2>3 DEF PoolTypeOK
<1>10. ChainHeights'
  BY <1>1 DEF ChainHeights
<1>11. TablesMatchChain' /\ NoDoubleSpend'
  BY <1>1, <1>6, <1>7 DEF LedgerInv, TablesMatchChain, NoDoubleSpend
<1>12. IndexNeverDangles'
  <2> HIDE DEF R
  <2>1. m_spent_key_images' = Index(Unindex(m_spent_key_images, R), R)
    BY DEF Reject, R
  <2> QED BY <1>2, <1>5, <2>1 DEF LedgerInv, IndexNeverDangles, Index, Unindex
<1> QED BY <1>1, <1>8, <1>9, <1>10, <1>11, <1>12 DEF LedgerInv, dbVars
-----------------------------------------------------------------------------
(***************************************************************************)
(* The top block is popped.                                                *)
(***************************************************************************)

(* pop_block_from_blockchain keeps the ledger consistent: the popped       *)
(* transactions leave the tables and enter the pool and its index.         *)
LEMMA PopKeeps ==
  ASSUME DbTypeOK, PoolTypeOK, ChainHeights, LedgerInv, Len(m_db_blocks) > 1,
         PopSucceeds, PopTop
  PROVE  /\ DbTypeOK' /\ PoolTypeOK' /\ ChainHeights' /\ LedgerInv'
         /\ Len(m_db_blocks)' = Len(m_db_blocks) - 1
<1> DEFINE n == Len(m_db_blocks)
           Popped == TxSet(Top)
<1>1. /\ n \in Nat \ {0}
      /\ DOMAIN m_db_blocks = 1..n
      /\ \A i \in DOMAIN m_db_blocks : m_db_blocks[i] \in Blocks
      /\ Top \in Blocks /\ Top = m_db_blocks[n]
      /\ Popped \subseteq Txs
  BY ChainFacts, TxSetType DEF Top
<1>3. Popped = {t \in Popped : Returnable(t)} /\ Popped = {t \in Popped : have_tx_chain(t)}
  BY DEF PopSucceeds, Returnable
<1>4. /\ m_db_blocks' = SubSeq(m_db_blocks, 1, n - 1)
      /\ m_db_transactions' = [t \in Txs |-> IF t \in Popped THEN "absent" ELSE m_db_transactions[t]]
      /\ m_db_spent_keys' = m_db_spent_keys \ ImagesOf(Popped)
      /\ m_transactions' = [t \in Txs |-> IF t \in Popped THEN PoppedEntry(t) ELSE m_transactions[t]]
      /\ m_spent_key_images' = Index(m_spent_key_images, Popped)
      /\ UNCHANGED m_is_in_checkpoint_zone
  BY <1>3 DEF PopTop
<1> HIDE DEF Popped
<1>5. /\ m_db_blocks' \in Seq(Blocks) /\ m_db_blocks' # <<>>
      /\ Len(m_db_blocks') = n - 1
      /\ DOMAIN m_db_blocks' = 1..(n - 1)
      /\ \A i \in 1..(n - 1) : m_db_blocks'[i] = m_db_blocks[i]
  BY <1>4, DropLast DEF DbTypeOK
<1> HIDE DEF n
<1>6. \A t \in Popped : PoppedEntry(t) \in PoolEntry /\ PoppedEntry(t) # NoEntry
  BY MaxUsedBlockType, CheckedType DEF PoppedEntry
<1>7. \A t \in Txs : have_tx(t)' <=> (have_tx(t) \/ t \in Popped)
  BY <1>4, <1>6 DEF have_tx
<1>8. \A t \in Txs : have_tx_chain(t)' <=> (have_tx_chain(t) /\ t \notin Popped)
  BY <1>4 DEF have_tx_chain
<1>9. PoolTxs' = PoolTxs \cup Popped
  BY <1>1, <1>7 DEF PoolTxs
<1>10. \A i \in 1..(n - 1) : \A t \in TxSet(m_db_blocks[i]), u \in Popped :
         t # u /\ Images[t] \cap Images[u] = {}
  <2> SUFFICES ASSUME NEW i \in 1..(n - 1),
                      NEW t \in TxSet(m_db_blocks[i]), NEW u \in Popped
               PROVE  t # u /\ Images[t] \cap Images[u] = {}
    OBVIOUS
  <2>1. i \in DOMAIN m_db_blocks /\ n \in DOMAIN m_db_blocks /\ i # n
    BY <1>1
  <2>2. u \in TxSet(m_db_blocks[n])
    BY <1>1 DEF Popped
  <2> QED BY <2>1, <2>2 DEF LedgerInv, NoDoubleSpend
<1>11. OnChain = OnChain' \cup {Top}
  BY <1>1, <1>5 DEF OnChain
<1>12. ChainTxs = ChainTxs' \cup Popped
  BY <1>11 DEF ChainTxs, Popped
<1>13. \A t \in ChainTxs', u \in Popped : t # u /\ Images[t] \cap Images[u] = {}
  <2> SUFFICES ASSUME NEW t \in ChainTxs', NEW u \in Popped
               PROVE  t # u /\ Images[t] \cap Images[u] = {}
    OBVIOUS
  <2>1. PICK i \in DOMAIN m_db_blocks' : t \in TxSet(m_db_blocks'[i])
    BY DEF ChainTxs, OnChain
  <2> QED BY <1>5, <1>10, <2>1
<1>14. DbTypeOK'
  BY <1>4, <1>5 DEF DbTypeOK
<1>15. PoolTypeOK'
  <2>1. m_transactions' \in [Txs -> PoolEntry \cup {NoEntry}]
    BY <1>4, <1>6 DEF PoolTypeOK
  <2>2. m_spent_key_images' \in [KeyImages -> SUBSET Txs]
    BY <1>1, <1>4 DEF PoolTypeOK, Index
  <2> QED BY <2>1, <2>2 DEF PoolTypeOK
<1>16. ChainHeights'
  BY <1>1, <1>5 DEF ChainHeights
<1>17. TablesMatchChain'
  <2>1. {t \in Txs : have_tx_chain(t)} = ChainTxs /\ m_db_spent_keys = ImagesOf(ChainTxs)
    BY DEF LedgerInv, TablesMatchChain
  <2>2. {t \in Txs : have_tx_chain(t)'} = ChainTxs'
    BY <1>8, <1>12, <1>13, <2>1
  <2>3. m_db_spent_keys' = ImagesOf(ChainTxs')
    BY <1>4, <1>12, <1>13, <2>1 DEF ImagesOf
  <2> QED BY <2>2, <2>3 DEF TablesMatchChain, ImagesOf
<1>18. NoDoubleSpend'
  <2>1. \A i \in DOMAIN m_db_blocks' : i \in DOMAIN m_db_blocks /\ m_db_blocks'[i] = m_db_blocks[i]
    BY <1>1, <1>5
  <2> QED BY <2>1 DEF LedgerInv, NoDoubleSpend
<1>19. IndexNeverDangles'
  BY <1>1, <1>4, <1>9 DEF LedgerInv, IndexNeverDangles, Index
<1> QED BY <1>5, <1>14, <1>15, <1>16, <1>17, <1>18, <1>19 DEF LedgerInv, n
-----------------------------------------------------------------------------
(***************************************************************************)
(* Control: what the actions do besides connecting, refusing and popping.  *)
(***************************************************************************)

(* The branch that ends in an alternative block: alternative blocks only,  *)
(* at least that one; nothing for any other block.                         *)
LEMMA AltBranchFacts ==
  ASSUME AltTypeOK, NEW p \in Blocks
  PROVE  /\ AltBranch(p) \in Seq(Blocks \ {Genesis})
         /\ p \in m_alternative_chains => AltBranch(p) # <<>>
         /\ p \notin m_alternative_chains => AltBranch(p) = <<>>
<1> DEFINE off == {i \in DOMAIN Path[p] : Path[p][i] \notin m_alternative_chains}
           last == CHOOSE i \in off : \A j \in off : j <= i
           n == Len(Path[p])
<1>1. /\ Path[p] \in Seq(Blocks) /\ n \in Nat /\ n >= 1
      /\ DOMAIN Path[p] = 1..n
      /\ Path[p][1] = Genesis
  BY TreeAssumption, TreeFacts, LenProperties
<1>2. Path[p][n] = p
  <2>1. CASE p = Genesis
    BY <2>1, TreeAssumption, TreeFacts
  <2>2. CASE p # Genesis
    <3>1. Path[p] = Append(Path[Prev[p]], p) /\ Path[Prev[p]] \in Seq(Blocks)
      BY <2>2, TreeAssumption
    <3> QED BY <3>1, AppendProperties, LenProperties
  <2> QED BY <2>1, <2>2
<1>3. 1 \in off /\ off \subseteq 1..n
  BY <1>1 DEF AltTypeOK
<1>4. \E i \in off : \A j \in off : j <= i
  <2> HIDE DEF off
  <2> QED BY <1>1, <1>3, MaxIndex
<1>5. last \in off /\ \A j \in off : j <= last
  <2> HIDE DEF off
  <2> QED BY <1>4
<1>6. last \in 1..n /\ \A i \in (last + 1)..n : Path[p][i] \in Blocks \ {Genesis}
  <2> HIDE DEF last
  <2> QED BY <1>1, <1>3, <1>5 DEF AltTypeOK
<1>7. AltBranch(p) = SubSeq(Path[p], last + 1, n)
  BY DEF AltBranch
<1> HIDE DEF last
<1>8. /\ AltBranch(p) \in Seq(Blocks \ {Genesis})
      /\ Len(AltBranch(p)) = IF last + 1 <= n THEN n - (last + 1) + 1 ELSE 0
  BY <1>1, <1>6, <1>7, SubSeqProperties
<1>9. p \in m_alternative_chains => last + 1 <= n
  BY <1>1, <1>2, <1>5, <1>6
<1>10. p \notin m_alternative_chains => last = n
  BY <1>1, <1>2, <1>5, <1>6
<1> HIDE DEF n, off
<1> QED BY <1>1, <1>6, <1>8, <1>9, <1>10, EmptySeq

(* Blocks that a failed switch drops or marks invalid are blocks.          *)
LEMMA SetsTypes ==
  ASSUME SwitchTypeOK
  PROVE  /\ MarkedInvalid \subseteq Blocks
         /\ \A b \in Blocks : InvalidatedBy(b) \subseteq Blocks
<1>1. \A i \in DOMAIN alt_chain : alt_chain[i] \in Blocks
  BY LenProperties DEF SwitchTypeOK
<1> QED BY <1>1 DEF MarkedInvalid, InvalidatedBy

(* Steps that leave the main chain alone.                                  *)
LEMMA DbUnchanged ==
  ASSUME UNCHANGED dbVars
  PROVE  /\ ChainHeights <=> ChainHeights'
         /\ TablesMatchChain <=> TablesMatchChain'
         /\ NoDoubleSpend <=> NoDoubleSpend'
         /\ \A t : have_tx_chain(t) <=> have_tx_chain(t)'
BY DEF dbVars, ChainHeights, TablesMatchChain, NoDoubleSpend, have_tx_chain, ChainTxs, OnChain

(* Steps that leave the pool alone keep what is said of it.                *)
LEMMA PoolUnchanged ==
  ASSUME UNCHANGED poolVars
  PROVE  /\ PoolTypeOK <=> PoolTypeOK'
         /\ IndexNeverDangles <=> IndexNeverDangles'
         /\ \A t : have_tx(t) <=> have_tx(t)'
BY DEF poolVars, PoolTypeOK, IndexNeverDangles, PoolTxs, have_tx

(* While no switch is in progress SwitchOK says only ChainHeights.         *)
LEMMA IdleKeeps ==
  ASSUME SwitchTypeOK, pc = "idle", UNCHANGED swVars, ChainHeights'
  PROVE  SwitchTypeOK' /\ SwitchOK'
BY DEF SwitchTypeOK, SwitchOK, swVars

(* The end of a switch leaves its variables in range.                      *)
LEMMA EndSwitchKeeps ==
  ASSUME EndSwitch, ChainHeights'
  PROVE  SwitchTypeOK' /\ SwitchOK'
BY EmptySeq DEF EndSwitch, SwitchTypeOK, SwitchOK

(* So does the end of a failed one, which drops blocks.                    *)
LEMMA FailSwitchKeeps ==
  ASSUME AltTypeOK, SwitchTypeOK, ChainHeights',
         NEW S, S \subseteq Blocks, FailSwitch(S)
  PROVE  AltTypeOK' /\ SwitchTypeOK' /\ SwitchOK'
<1>1. AltTypeOK'
  BY SetsTypes DEF FailSwitch, AltTypeOK
<1> QED BY <1>1, EndSwitchKeeps DEF FailSwitch
-----------------------------------------------------------------------------
(***************************************************************************)
(* The actions, one by one.                                                *)
(***************************************************************************)
LEMMA InitEstablishes == Init => Inv
<1> SUFFICES ASSUME Init PROVE Inv
  OBVIOUS
<1> USE DEF Init
<1>1. /\ Genesis \in Blocks
      /\ m_db_blocks \in Seq(Blocks) /\ m_db_blocks # <<>>
      /\ Len(m_db_blocks) = 1 /\ DOMAIN m_db_blocks = {1} /\ m_db_blocks[1] = Genesis
  BY TreeAssumption
<1>2. TypeOK
  BY <1>1, EmptySeq DEF TypeOK, DbTypeOK, AltTypeOK, PoolTypeOK, SwitchTypeOK, is_in_checkpoint_zone
<1>3. SwitchOK
  BY <1>1, TreeFacts DEF SwitchOK, ChainHeights
<1>4. TxSet(Genesis) = {}
  BY TxAssumption DEF TxSet
<1>5. ChainTxs = {}
  BY <1>1, <1>4 DEF ChainTxs, OnChain
<1>6. PoolTxs = {} /\ \A t \in Txs : ~have_tx(t) /\ ~have_tx_chain(t)
  BY DEF PoolTxs, have_tx, have_tx_chain
<1>7. LedgerInv
  BY <1>1, <1>4, <1>5, <1>6
     DEF LedgerInv, TablesMatchChain, NoDoubleSpend, IndexNeverDangles, ImagesOf
<1> QED BY <1>2, <1>3, <1>7 DEF Inv

(***************************************************************************)
(* The insertion of a transaction, the fifth step of its intake: whichever *)
(* part of its key images gets into the index, the transaction itself is   *)
(* in the pool.                                                            *)
(***************************************************************************)
LEMMA InsertTx_Keeps ==
  ASSUME Inv, IntakeTypeOK, InsertTx
  PROVE  Inv'
<1> DEFINE t == intake.tx
<1> USE DEF Inv, TypeOK, LedgerInv
<1>1. UNCHANGED dbVars /\ UNCHANGED <<altVars, m_is_in_checkpoint_zone, swVars>> /\ pc = "idle"
  BY DEF InsertTx, At
<1>2. t \in Txs /\ intake.max_used \in Blocks \cup {NoBlock}
  BY DEF InsertTx, At, IntakeTypeOK, Intake
<1> HIDE DEF t
<1>3. DbTypeOK' /\ AltTypeOK' /\ ChainHeights'
  BY <1>1, DbUnchanged DEF DbTypeOK, AltTypeOK, dbVars, altVars, SwitchOK
<1>4. TablesMatchChain' /\ NoDoubleSpend'
  BY <1>1, DbUnchanged
<1>5. SwitchTypeOK' /\ SwitchOK'
  BY <1>1, <1>3, IdleKeeps
<1>6. CASE UNCHANGED poolVars
  BY <1>3, <1>4, <1>5, <1>6, PoolUnchanged
<1>7. CASE ~(UNCHANGED poolVars)
  <2>1. /\ m_transactions' = [m_transactions EXCEPT ![t] = Checked(TRUE, intake.max_used)]
        /\ \A k \in KeyImages :
             m_spent_key_images'[k] \subseteq m_spent_key_images[k] \cup {u \in {t} : k \in Images[u]}
        /\ m_spent_key_images' \in [KeyImages -> SUBSET Txs]
    <3>1. m_transactions' = [m_transactions EXCEPT ![t] = Checked(TRUE, intake.max_used)]
      BY <1>7 DEF InsertTx, t
    <3>2. CASE m_spent_key_images' = Index(m_spent_key_images, {t})
      BY <1>2, <3>1, <3>2 DEF Index, PoolTypeOK
    <3>3. CASE \E done \in SUBSET FreeImages(t) :
                 m_spent_key_images' = [k \in KeyImages |->
                   IF k \in done THEN {t} ELSE m_spent_key_images[k]]
      BY <1>2, <3>1, <3>3 DEF FreeImages, PoolTypeOK
    <3> QED BY <1>7, <3>1, <3>2, <3>3 DEF InsertTx, t
  <2>2. Checked(TRUE, intake.max_used) \in PoolEntry /\ Checked(TRUE, intake.max_used) # NoEntry
    BY <1>2, CheckedType
  <2>3. \A u \in Txs : have_tx(u)' <=> (have_tx(u) \/ u = t)
    BY <2>1, <2>2 DEF have_tx, PoolTypeOK
  <2>4. PoolTxs' = PoolTxs \cup {t}
    BY <1>2, <2>3 DEF PoolTxs
  <2>5. PoolTypeOK'
    BY <1>2, <2>1, <2>2 DEF PoolTypeOK
  <2>6. IndexNeverDangles'
    BY <2>1, <2>4 DEF IndexNeverDangles
  <2> QED BY <1>3, <1>4, <1>5, <2>5, <2>6
<1> QED BY <1>6, <1>7

(* Expired transactions leave the pool and the index together.             *)
LEMMA remove_stuck_transactions_Keeps ==
  ASSUME Inv, NEW S \in SUBSET PoolTxs, remove_stuck_transactions(S)
  PROVE  Inv'
<1> USE DEF Inv, TypeOK, LedgerInv
<1>1. UNCHANGED dbVars /\ UNCHANGED <<altVars, m_is_in_checkpoint_zone, swVars>> /\ pc = "idle"
  BY DEF remove_stuck_transactions
<1>2. /\ m_transactions' = [t \in Txs |-> IF t \in S THEN NoEntry ELSE m_transactions[t]]
      /\ m_spent_key_images' = Unindex(m_spent_key_images, S)
  BY DEF remove_stuck_transactions
<1>3. \A t \in Txs : have_tx(t)' <=> (have_tx(t) /\ t \notin S)
  BY <1>2 DEF have_tx
<1>4. PoolTxs' = PoolTxs \ S
  BY <1>3 DEF PoolTxs
<1>5. PoolTypeOK' /\ IndexNeverDangles'
  BY <1>2, <1>4 DEF PoolTypeOK, IndexNeverDangles, Unindex
<1>7. DbTypeOK' /\ AltTypeOK' /\ ChainHeights'
  BY <1>1, DbUnchanged DEF DbTypeOK, AltTypeOK, dbVars, altVars, SwitchOK
<1>8. TablesMatchChain' /\ NoDoubleSpend'
  BY <1>1, DbUnchanged
<1>9. SwitchTypeOK' /\ SwitchOK'
  BY <1>1, <1>7, IdleKeeps
<1> QED BY <1>5, <1>7, <1>8, <1>9

(* A block template changes what entries cache, never which transactions   *)
(* the pool holds.                                                         *)
LEMMA fill_block_template_Keeps ==
  ASSUME Inv, NEW asked \in SUBSET {t \in PoolTxs : NeedsCheck(t)}, fill_block_template(asked)
  PROVE  Inv'
<1> USE DEF Inv, TypeOK, LedgerInv
<1>1. /\ UNCHANGED dbVars /\ UNCHANGED <<altVars, m_is_in_checkpoint_zone, swVars>> /\ pc = "idle"
      /\ UNCHANGED m_spent_key_images
  BY DEF fill_block_template
<1> DEFINE failing == {t \in asked : ~CheckNow(t, m_transactions[t].sigs)}
           E(t, height) ==
             CASE t \notin asked -> m_transactions[t]
               [] t \in failing -> AfterFailure(m_transactions[t], height[t])
               [] OTHER -> AfterSuccess(m_transactions[t], MaxUsedBlock(t))
<1>2. PICK height \in [failing -> 0..(Len(m_db_blocks) - 1)] :
        m_transactions' = [t \in Txs |-> E(t, height)]
  BY DEF fill_block_template
<1>3. \A t \in Txs : have_tx(t) => m_transactions[t] \in PoolEntry
  BY DEF have_tx, PoolTypeOK
<1>4. Top \in Blocks /\ \A t : MaxUsedBlock(t) \in Blocks
  BY ChainFacts, MaxUsedBlockType
<1>5. ASSUME NEW t \in Txs
      PROVE  IF have_tx(t) THEN E(t, height) \in PoolEntry ELSE E(t, height) = NoEntry
  <2>1. CASE ~have_tx(t)
    <3>1. E(t, height) = m_transactions[t]
      BY <2>1 DEF PoolTxs
    <3>2. m_transactions[t] = NoEntry
      BY <2>1 DEF have_tx
    <3> QED BY <2>1, <3>1, <3>2
  <2>2. CASE have_tx(t) /\ t \notin asked
    BY <1>3, <2>2
  <2>3. CASE have_tx(t) /\ t \in failing
    <3>1. height[t] \in Nat
      BY <1>2, <2>3, ChainFacts
    <3>2. E(t, height) = AfterFailure(m_transactions[t], height[t])
      BY <2>3
    <3>3. AfterFailure(m_transactions[t], height[t]) \in PoolEntry
      BY <1>3, <1>4, <2>3, <3>1 DEF PoolEntry, AfterFailure
    <3> QED BY <2>3, <3>2, <3>3
  <2>4. CASE have_tx(t) /\ t \in asked /\ t \notin failing
    <3>1. MaxUsedBlock(t) \in Blocks /\ Height(MaxUsedBlock(t)) \in Nat
      BY <1>4, TreeFacts
    <3>2. E(t, height) = AfterSuccess(m_transactions[t], MaxUsedBlock(t))
      BY <2>4
    <3>3. AfterSuccess(m_transactions[t], MaxUsedBlock(t)) \in PoolEntry
      BY <1>3, <2>4, <3>1 DEF PoolEntry, AfterSuccess
    <3> QED BY <2>4, <3>2, <3>3
  <2> QED BY <2>1, <2>2, <2>3, <2>4
<1> HIDE DEF E, failing
<1>6. m_transactions' \in [Txs -> PoolEntry \cup {NoEntry}]
  BY <1>2, <1>5
<1>7. \A t \in Txs : have_tx(t)' <=> have_tx(t)
  BY <1>2, <1>5, EntryAssumption DEF have_tx
<1>8. PoolTxs' = PoolTxs
  BY <1>7 DEF PoolTxs
<1>9. PoolTypeOK' /\ IndexNeverDangles'
  BY <1>1, <1>6, <1>8 DEF PoolTypeOK, IndexNeverDangles
<1>11. DbTypeOK' /\ AltTypeOK' /\ ChainHeights'
  BY <1>1, DbUnchanged DEF DbTypeOK, AltTypeOK, dbVars, altVars, SwitchOK
<1>12. TablesMatchChain' /\ NoDoubleSpend'
  BY <1>1, DbUnchanged
<1>13. SwitchTypeOK' /\ SwitchOK'
  BY <1>1, <1>11, IdleKeeps
<1> QED BY <1>9, <1>11, <1>12, <1>13

(* A block on top of the main chain is connected, or rejected with its     *)
(* transactions given back.                                                *)
LEMMA AddMainBlock_Keeps ==
  ASSUME Inv, NEW b \in Blocks \ {Genesis}, AddMainBlock(b)
  PROVE  Inv'
<1> USE DEF Inv, TypeOK
<1>1. pc = "idle" /\ UNCHANGED <<m_alternative_chains, swVars>> /\ ChainHeights
  BY DEF AddMainBlock, SwitchOK
<1>2. CASE Connect(b) /\ UNCHANGED m_invalid_blocks
  <2>1. DbTypeOK' /\ PoolTypeOK' /\ ChainHeights' /\ LedgerInv'
    BY <1>1, <1>2, ConnectKeeps
  <2>2. AltTypeOK'
    BY <1>1, <1>2 DEF AltTypeOK
  <2>3. SwitchTypeOK' /\ SwitchOK'
    BY <1>1, <2>1, IdleKeeps
  <2> QED BY <2>1, <2>2, <2>3
<1>3. CASE Reject(b) /\ m_invalid_blocks' = m_invalid_blocks \cup InvalidatedBy(b)
  <2>1. DbTypeOK' /\ PoolTypeOK' /\ ChainHeights' /\ LedgerInv'
    BY <1>1, <1>3, RejectKeeps
  <2>2. AltTypeOK'
    BY <1>1, <1>3, SetsTypes DEF AltTypeOK
  <2>3. SwitchTypeOK' /\ SwitchOK'
    BY <1>1, <2>1, IdleKeeps
  <2> QED BY <2>1, <2>2, <2>3
<1> QED BY <1>2, <1>3 DEF AddMainBlock

(* The branch of a new alternative block forks off below the top: the      *)
(* switch has at least one block to disconnect.                            *)
LEMMA AltForksBelowTop ==
  ASSUME DbTypeOK, AltTypeOK, ChainHeights,
         NEW b \in Blocks \ {Genesis}, Prev[b] # Top, AltAccepts(b),
         NEW branch, branch = Append(AltBranch(Prev[b]), b)
  PROVE  /\ branch \in Seq(Blocks \ {Genesis})
         /\ branch # <<>>
         /\ Len(m_db_blocks) > Height(branch[1])
<1>1. Prev[b] \in Blocks /\ Height(b) = Len(Path[Prev[b]])
  BY TreeFacts
<1>2. /\ AltBranch(Prev[b]) \in Seq(Blocks \ {Genesis})
      /\ Prev[b] \in m_alternative_chains => AltBranch(Prev[b]) # <<>>
      /\ Prev[b] \notin m_alternative_chains => AltBranch(Prev[b]) = <<>>
  BY <1>1, AltBranchFacts
<1>3. branch \in Seq(Blocks \ {Genesis}) /\ branch # <<>>
  BY <1>2, AppendProperties
<1>4. ParentKnown(b) /\ RightConnection(b)
  BY DEF AltAccepts, AltPow
<1>5. CASE Prev[b] \in m_alternative_chains
  <2>1. Len(AltBranch(Prev[b])) \in Nat \ {0}
    BY <1>2, <1>5, EmptySeq
  <2>2. branch[1] = AltBranch(Prev[b])[1]
    BY <1>2, <2>1, AppendProperties
  <2>3. Len(m_db_blocks) > Height(AltBranch(Prev[b])[1])
    BY <1>4, <1>5 DEF RightConnection
  <2> QED BY <1>3, <2>2, <2>3
<1>6. CASE Prev[b] \notin m_alternative_chains
  <2>1. branch[1] = b
    BY <1>2, <1>6
  <2>2. PICK i \in DOMAIN m_db_blocks : Prev[b] = m_db_blocks[i]
    BY <1>4, <1>6 DEF ParentKnown, OnChain
  <2>3. Len(Path[Prev[b]]) = i
    BY <2>2 DEF ChainHeights
  <2>4. i # Len(m_db_blocks)
    BY <2>2 DEF Top
  <2>5. i \in 1..Len(m_db_blocks) /\ Len(m_db_blocks) \in Nat
    BY ChainFacts
  <2> QED BY <1>1, <1>3, <2>1, <2>3, <2>4, <2>5
<1> QED BY <1>5, <1>6

(* An alternative block is stored, and a switch starts above its split     *)
(* height.                                                                 *)
LEMMA AddAltBlock_Keeps ==
  ASSUME Inv, NEW b \in Blocks \ {Genesis}, AddAltBlock(b)
  PROVE  Inv'
<1> USE DEF Inv, TypeOK, LedgerInv
<1>1. /\ pc = "idle" /\ Prev[b] # Top
      /\ m_is_in_checkpoint_zone' = AltZone(b)
      /\ UNCHANGED dbVars /\ UNCHANGED poolVars /\ UNCHANGED m_invalid_blocks
  BY DEF AddAltBlock
<1>2. ChainHeights
  BY DEF SwitchOK
<1>3. ChainHeights' /\ TablesMatchChain' /\ NoDoubleSpend'
  BY <1>1, <1>2, DbUnchanged
<1>4. PoolTypeOK' /\ IndexNeverDangles'
  BY <1>1, PoolUnchanged
<1>5. DbTypeOK'
  BY <1>1, ZoneTypes DEF DbTypeOK, dbVars
<1>6. AltTypeOK'
  BY <1>1 DEF AddAltBlock, AltTypeOK
<1>7. CASE UNCHANGED swVars
  BY <1>1, <1>3, <1>4, <1>5, <1>6, <1>7, IdleKeeps
<1>8. CASE AltAccepts(b) /\ pc' = "pop" /\ alt_chain' = Append(AltBranch(Prev[b]), b)
           /\ disconnected_chain' = <<>> /\ pos' = 1
  <2>1. /\ alt_chain' \in Seq(Blocks \ {Genesis})
        /\ alt_chain' # <<>>
        /\ Len(m_db_blocks) > Height(alt_chain'[1])
    BY <1>1, <1>2, <1>8, AltForksBelowTop
  <2>2. SwitchTypeOK'
    BY <1>8, <2>1, EmptySeq DEF SwitchTypeOK
  <2>3. SwitchOK'
    BY <1>1, <1>3, <1>8, <2>1 DEF SwitchOK, Split, Height, dbVars
  <2> QED BY <1>3, <1>4, <1>5, <1>6, <2>2, <2>3
<1> QED BY <1>7, <1>8 DEF AddAltBlock

(* The height of the first block of the branch is at least 1.              *)
LEMMA SplitFacts ==
  ASSUME SwitchTypeOK, alt_chain # <<>>
  PROVE  Split \in Nat /\ Split >= 1
<1>1. alt_chain[1] \in Blocks \ {Genesis}
  BY EmptySeq, ElementOfSeq DEF SwitchTypeOK
<1> QED BY <1>1, TreeFacts DEF Split

(* Disconnecting the old chain stops at the split height.                  *)
LEMMA DisconnectOld_Keeps ==
  ASSUME Inv, PopSucceeds, DisconnectOld
  PROVE  Inv'
<1> USE DEF Inv, TypeOK
<1>1. pc = "pop" /\ PopTop /\ UNCHANGED altVars
  BY DEF DisconnectOld
<1>2. ChainHeights /\ alt_chain # <<>> /\ Len(m_db_blocks) > Split /\ pos = 1
  BY <1>1 DEF SwitchOK
<1>3. Split \in Nat /\ Split >= 1 /\ Len(m_db_blocks) \in Nat
  BY <1>2, SplitFacts, ChainFacts
<1>4. /\ DbTypeOK' /\ PoolTypeOK' /\ ChainHeights' /\ LedgerInv'
      /\ Len(m_db_blocks') = Len(m_db_blocks) - 1
  BY <1>1, <1>2, <1>3, PopKeeps
<1>5. AltTypeOK'
  BY <1>1 DEF AltTypeOK, altVars
<1>6. /\ disconnected_chain' = <<Top>> \o disconnected_chain
      /\ pc' = (IF Len(m_db_blocks) - 1 = Split THEN "connect" ELSE "pop")
      /\ UNCHANGED <<alt_chain, pos>>
  BY <1>1 DEF DisconnectOld
<1>7. Top \in Blocks \ {Genesis}
  <2>1. Top \in Blocks /\ Len(Path[Top]) = Len(m_db_blocks)
    BY <1>2, <1>3, ChainFacts DEF ChainHeights, Top
  <2>2. Len(m_db_blocks) # 1
    <3>1. \A m, k \in Nat : m > k /\ k >= 1 => m # 1
      OBVIOUS
    <3> QED BY <1>2, <1>3, <3>1
  <2>3. Len(Path[Genesis]) = 1
    BY TreeFacts
  <2> QED BY <2>1, <2>2, <2>3
<1>8. disconnected_chain' \in Seq(Blocks \ {Genesis}) /\ disconnected_chain' # <<>>
  <2>1. <<Top>> \in Seq(Blocks \ {Genesis}) /\ Len(<<Top>>) = 1
    BY <1>7
  <2>2. /\ disconnected_chain' \in Seq(Blocks \ {Genesis})
        /\ Len(disconnected_chain') = 1 + Len(disconnected_chain)
        /\ Len(disconnected_chain) \in Nat
    BY <1>6, <2>1, ConcatProperties, LenProperties DEF SwitchTypeOK
  <2> QED BY <2>2, EmptySeq
<1>9. SwitchTypeOK'
  BY <1>6, <1>8 DEF SwitchTypeOK
<1>10. Split' = Split
  BY <1>6 DEF Split
<1>11. DOMAIN alt_chain' = 1..Len(alt_chain') /\ Len(alt_chain') \in Nat \ {0}
  BY <1>2, <1>6, EmptySeq, LenProperties DEF SwitchTypeOK
<1>12. SwitchOK'
  <2>1. CASE Len(m_db_blocks) - 1 = Split
    BY <1>2, <1>3, <1>4, <1>6, <1>8, <1>10, <1>11, <2>1 DEF SwitchOK
  <2>2. CASE Len(m_db_blocks) - 1 # Split
    BY <1>2, <1>3, <1>4, <1>6, <1>8, <1>10, <2>2 DEF SwitchOK
  <2> QED BY <2>1, <2>2
<1> QED BY <1>4, <1>5, <1>9, <1>12

(* Connecting the branch advances by one block or turns to the rollback.   *)
LEMMA ConnectAlt_Keeps ==
  ASSUME Inv, ConnectAlt
  PROVE  Inv'
<1> DEFINE b == alt_chain[pos]
<1> USE DEF Inv, TypeOK
<1>1. pc = "connect" /\ UNCHANGED <<m_alternative_chains, alt_chain, disconnected_chain>>
  BY DEF ConnectAlt
<1>2. /\ ChainHeights /\ alt_chain # <<>> /\ disconnected_chain # <<>>
      /\ pos \in DOMAIN alt_chain /\ Len(m_db_blocks) = Split + pos - 1
  BY <1>1 DEF SwitchOK
<1>3. /\ Split \in Nat /\ Split >= 1 /\ Split' = Split
      /\ DOMAIN alt_chain = 1..Len(alt_chain) /\ Len(alt_chain) \in Nat
      /\ b \in Blocks \ {Genesis}
      /\ Len(m_db_blocks) \in Nat
      /\ DOMAIN disconnected_chain = 1..Len(disconnected_chain)
      /\ Len(disconnected_chain) \in Nat \ {0}
  <2>1. Split \in Nat /\ Split >= 1 /\ Split' = Split
    BY <1>1, <1>2, SplitFacts DEF Split
  <2>2. /\ DOMAIN alt_chain = 1..Len(alt_chain) /\ Len(alt_chain) \in Nat
        /\ b \in Blocks \ {Genesis}
    BY <1>2, LenProperties DEF SwitchTypeOK
  <2>3. /\ DOMAIN disconnected_chain = 1..Len(disconnected_chain)
        /\ Len(disconnected_chain) \in Nat \ {0}
    BY <1>2, LenProperties, EmptySeq DEF SwitchTypeOK
  <2> QED BY <2>1, <2>2, <2>3, ChainFacts
<1>4. CASE /\ Connect(b)
           /\ pc' = IF pos = Len(alt_chain) THEN "to_alt" ELSE "connect"
           /\ pos' = IF pos = Len(alt_chain) THEN 1 ELSE pos + 1
           /\ UNCHANGED m_invalid_blocks
  <2>1. /\ DbTypeOK' /\ PoolTypeOK' /\ ChainHeights' /\ LedgerInv'
        /\ Len(m_db_blocks') = Len(m_db_blocks) + 1
    BY <1>2, <1>3, <1>4, ConnectKeeps
  <2>2. AltTypeOK' /\ SwitchTypeOK'
    BY <1>1, <1>4 DEF AltTypeOK, SwitchTypeOK
  <2> HIDE DEF b
  <2>3. SwitchOK'
    <3>1. CASE pos = Len(alt_chain)
      BY <1>1, <1>2, <1>3, <1>4, <2>1, <3>1 DEF SwitchOK
    <3>2. CASE pos # Len(alt_chain)
      BY <1>1, <1>2, <1>3, <1>4, <2>1, <3>2 DEF SwitchOK
    <3> QED BY <3>1, <3>2
  <2> QED BY <2>1, <2>2, <2>3
<1>5. CASE /\ Reject(b)
           /\ pc' = IF Len(m_db_blocks) = Split THEN "rollback_push" ELSE "rollback_pop"
           /\ m_invalid_blocks' = m_invalid_blocks \cup InvalidatedBy(b)
           /\ UNCHANGED pos
  <2>1. /\ DbTypeOK' /\ PoolTypeOK' /\ ChainHeights' /\ LedgerInv'
        /\ m_db_blocks' = m_db_blocks
    BY <1>2, <1>3, <1>5, RejectKeeps DEF dbVars
  <2>2. AltTypeOK' /\ SwitchTypeOK'
    BY <1>1, <1>3, <1>5, SetsTypes DEF AltTypeOK, SwitchTypeOK
  <2> HIDE DEF b
  <2>3. SwitchOK'
    BY <1>1, <1>2, <1>3, <1>5, <2>1 DEF SwitchOK
  <2> QED BY <2>1, <2>2, <2>3
<1> QED BY <1>4, <1>5 DEF ConnectAlt, RollbackStart

(* The rollback pops no block below the split height.                      *)
LEMMA RollbackPop_Keeps ==
  ASSUME Inv, PopSucceeds, RollbackPop
  PROVE  Inv'
<1> USE DEF Inv, TypeOK
<1>1. pc = "rollback_pop" /\ PopTop
  BY DEF RollbackPop
<1>2. /\ ChainHeights /\ alt_chain # <<>> /\ disconnected_chain # <<>>
      /\ Len(m_db_blocks) > Split
  BY <1>1 DEF SwitchOK
<1>3. Split \in Nat /\ Split >= 1 /\ Len(m_db_blocks) \in Nat /\ Len(disconnected_chain) \in Nat \ {0}
  BY <1>2, SplitFacts, ChainFacts, EmptySeq DEF SwitchTypeOK
<1>4. /\ DbTypeOK' /\ PoolTypeOK' /\ ChainHeights' /\ LedgerInv'
      /\ Len(m_db_blocks') = Len(m_db_blocks) - 1
  BY <1>1, <1>2, <1>3, PopKeeps
<1>5. /\ pc' = (IF Len(m_db_blocks) - 1 = Split THEN "rollback_push" ELSE "rollback_pop")
      /\ UNCHANGED <<altVars, alt_chain, disconnected_chain, pos>>
  BY <1>1 DEF RollbackPop
<1>6. AltTypeOK' /\ SwitchTypeOK'
  BY <1>5 DEF AltTypeOK, SwitchTypeOK, altVars
<1>7. Split' = Split
  BY <1>5 DEF Split
<1>8. SwitchOK'
  BY <1>2, <1>3, <1>4, <1>5, <1>7 DEF SwitchOK
<1> QED BY <1>4, <1>6, <1>8

(* Returning the old chain ends with its last block.                       *)
LEMMA RollbackPush_Keeps ==
  ASSUME Inv, RollbackPush
  PROVE  Inv'
<1> USE DEF Inv, TypeOK
<1>1. pc = "rollback_push"
  BY DEF RollbackPush
<1>2. /\ ChainHeights /\ alt_chain # <<>> /\ disconnected_chain # <<>>
      /\ Len(m_db_blocks) \in Split..(Split + Len(disconnected_chain) - 1)
  BY <1>1 DEF SwitchOK
<1>3. /\ Split \in Nat /\ Len(m_db_blocks) \in Nat
      /\ Len(disconnected_chain) \in Nat \ {0}
      /\ DOMAIN disconnected_chain = 1..Len(disconnected_chain)
  BY <1>2, SplitFacts, ChainFacts, EmptySeq, LenProperties DEF SwitchTypeOK
<1>4. OldBlock \in Blocks \ {Genesis}
  <2>1. Len(m_db_blocks) - Split + 1 \in 1..Len(disconnected_chain)
    BY <1>2, <1>3
  <2> QED BY <2>1, ElementOfSeq DEF OldBlock, SwitchTypeOK
<1>5. CASE Connects(OldBlock)
  <2>1. Connect(OldBlock)
    BY <1>5 DEF RollbackPush
  <2>2. /\ DbTypeOK' /\ PoolTypeOK' /\ ChainHeights' /\ LedgerInv'
        /\ Len(m_db_blocks') = Len(m_db_blocks) + 1
    BY <1>2, <1>4, <2>1, ConnectKeeps
  <2>3. CASE Len(m_db_blocks) - Split + 1 < Len(disconnected_chain)
    <3>1. UNCHANGED <<altVars, swVars>>
      BY <1>5, <2>3 DEF RollbackPush
    <3>2. AltTypeOK' /\ SwitchTypeOK' /\ Split' = Split
      BY <3>1 DEF AltTypeOK, SwitchTypeOK, altVars, swVars, Split
    <3>3. SwitchOK'
      BY <1>1, <1>2, <1>3, <2>2, <2>3, <3>1, <3>2 DEF SwitchOK, swVars
    <3> QED BY <2>2, <3>2, <3>3
  <2>4. CASE ~(Len(m_db_blocks) - Split + 1 < Len(disconnected_chain))
    <3>1. FailSwitch({})
      BY <1>5, <2>4 DEF RollbackPush
    <3>2. AltTypeOK' /\ SwitchTypeOK' /\ SwitchOK'
      BY <2>2, <3>1, FailSwitchKeeps
    <3> QED BY <2>2, <3>2
  <2> QED BY <2>3, <2>4
<1>6. CASE ~Connects(OldBlock)
  <2>1. Reject(OldBlock) /\ FailSwitch(InvalidatedBy(OldBlock))
    BY <1>6 DEF RollbackPush
  <2>2. DbTypeOK' /\ PoolTypeOK' /\ ChainHeights' /\ LedgerInv'
    BY <1>2, <1>4, <2>1, RejectKeeps
  <2>3. InvalidatedBy(OldBlock) \subseteq Blocks
    BY <1>4, SetsTypes
  <2>4. AltTypeOK' /\ SwitchTypeOK' /\ SwitchOK'
    BY <2>1, <2>2, <2>3, FailSwitchKeeps
  <2> QED BY <2>2, <2>4
<1> QED BY <1>5, <1>6

(* Storing the old chain as alternative leaves the tables alone.           *)
LEMMA OldToAlt_Keeps ==
  ASSUME Inv, OldToAlt
  PROVE  Inv'
<1> DEFINE b == disconnected_chain[pos]
<1> USE DEF Inv, TypeOK, LedgerInv
<1>1. /\ pc = "to_alt" /\ m_is_in_checkpoint_zone' = AltZone(b)
      /\ UNCHANGED dbVars /\ UNCHANGED poolVars /\ UNCHANGED m_invalid_blocks
  BY DEF OldToAlt
<1>2. /\ ChainHeights /\ alt_chain # <<>> /\ disconnected_chain # <<>>
      /\ pos \in DOMAIN disconnected_chain /\ Len(m_db_blocks) > Split
  BY <1>1 DEF SwitchOK
<1>3. /\ b \in Blocks \ {Genesis}
      /\ DOMAIN disconnected_chain = 1..Len(disconnected_chain)
      /\ Len(disconnected_chain) \in Nat
  BY <1>2, LenProperties DEF SwitchTypeOK
<1>4. ChainHeights' /\ TablesMatchChain' /\ NoDoubleSpend'
  BY <1>1, <1>2, DbUnchanged
<1>5. PoolTypeOK' /\ IndexNeverDangles'
  BY <1>1, PoolUnchanged
<1>6. DbTypeOK'
  BY <1>1, ZoneTypes DEF DbTypeOK, dbVars
<1>7. m_db_blocks' = m_db_blocks
  BY <1>1 DEF dbVars
<1>8. CASE pos < Len(disconnected_chain) /\ KeepOld(b)
  <2>1. AltTypeOK' /\ SwitchTypeOK' /\ Split' = Split
    BY <1>1, <1>3, <1>8 DEF KeepOld, AltTypeOK, SwitchTypeOK, Split
  <2>2. SwitchOK'
    BY <1>1, <1>2, <1>3, <1>4, <1>7, <1>8, <2>1 DEF SwitchOK, KeepOld
  <2> QED BY <1>4, <1>5, <1>6, <2>1, <2>2
<1>9. CASE KeepLastOld(b)
  <2>1. AltTypeOK'
    BY <1>1, <1>3, <1>9 DEF KeepLastOld, AltTypeOK
  <2>2. SwitchTypeOK' /\ SwitchOK'
    BY <1>4, <1>9, EndSwitchKeeps DEF KeepLastOld
  <2> QED BY <1>4, <1>5, <1>6, <2>1, <2>2
<1>10. CASE /\ pc' = "rollback_pop" /\ pos' = 0
            /\ UNCHANGED <<m_alternative_chains, alt_chain, disconnected_chain>>
  <2>1. AltTypeOK' /\ SwitchTypeOK' /\ Split' = Split
    BY <1>1, <1>10 DEF AltTypeOK, SwitchTypeOK, Split
  <2>2. SwitchOK'
    BY <1>2, <1>4, <1>7, <1>10, <2>1 DEF SwitchOK
  <2> QED BY <1>4, <1>5, <1>6, <2>1, <2>2
<1>11. RollbackStart = "rollback_pop"
  <2>1. Len(m_db_blocks) # Split
    BY <1>2, ChainFacts, TreeFacts, LenProperties DEF Split, SwitchTypeOK
  <2> QED BY <2>1 DEF RollbackStart
<1> QED BY <1>8, <1>9, <1>10, <1>11 DEF OldToAlt

(* Forgetting old alternative blocks leaves the rest alone.                *)
LEMMA prune_aged_alt_blocks_Keeps ==
  ASSUME Inv, prune_aged_alt_blocks
  PROVE  Inv'
<1> USE DEF Inv, TypeOK, LedgerInv
<1>1. /\ pc = "idle" /\ UNCHANGED dbVars /\ UNCHANGED poolVars /\ UNCHANGED swVars
      /\ UNCHANGED <<m_invalid_blocks, m_is_in_checkpoint_zone>>
      /\ m_alternative_chains' \subseteq m_alternative_chains
  BY DEF prune_aged_alt_blocks
<1>2. ChainHeights' /\ TablesMatchChain' /\ NoDoubleSpend'
  BY <1>1, DbUnchanged DEF SwitchOK
<1>3. PoolTypeOK' /\ IndexNeverDangles'
  BY <1>1, PoolUnchanged
<1>4. DbTypeOK' /\ AltTypeOK'
  BY <1>1 DEF DbTypeOK, AltTypeOK, dbVars
<1>5. SwitchTypeOK' /\ SwitchOK'
  BY <1>1, <1>2, IdleKeeps
<1> QED BY <1>2, <1>3, <1>4, <1>5

(* A restart keeps the database; pool and index are both kept or both      *)
(* lost.                                                                   *)
LEMMA Restart_Keeps ==
  ASSUME Inv, NEW crash \in BOOLEAN, Restart(crash)
  PROVE  Inv'
<1> USE DEF Inv, TypeOK, LedgerInv
<1>1. pc = "idle" /\ UNCHANGED dbVars /\ UNCHANGED swVars
  BY DEF Restart
<1>2. ChainHeights' /\ TablesMatchChain' /\ NoDoubleSpend'
  BY <1>1, DbUnchanged DEF SwitchOK
<1>3. DbTypeOK' /\ AltTypeOK'
  BY <1>1 DEF Restart, DbTypeOK, AltTypeOK, dbVars, is_in_checkpoint_zone
<1>4. SwitchTypeOK' /\ SwitchOK'
  BY <1>1, <1>2, IdleKeeps
<1>5. CASE ~crash
  <2>1. UNCHANGED poolVars
    BY <1>5 DEF Restart, poolVars
  <2>2. PoolTypeOK' /\ IndexNeverDangles'
    BY <2>1, PoolUnchanged
  <2> QED BY <1>2, <1>3, <1>4, <2>2
<1>6. CASE crash
  <2>1. /\ m_transactions' = [t \in Txs |-> NoEntry]
        /\ m_spent_key_images' = [k \in KeyImages |-> {}]
    BY <1>6 DEF Restart
  <2>2. PoolTxs' = {} /\ \A t \in Txs : ~have_tx(t)'
    BY <2>1 DEF PoolTxs, have_tx
  <2>3. PoolTypeOK' /\ IndexNeverDangles'
    BY <2>1, <2>2 DEF PoolTypeOK, IndexNeverDangles
  <2> QED BY <1>2, <1>3, <1>4, <2>3
<1> QED BY <1>5, <1>6

(* Inv is about the variables in vars only.                                *)
LEMMA StutterKeeps ==
  ASSUME Inv, UNCHANGED vars
  PROVE  Inv'
<1> USE DEF Inv, TypeOK, LedgerInv
<1>1. UNCHANGED dbVars /\ UNCHANGED altVars /\ UNCHANGED poolVars /\ UNCHANGED swVars
      /\ UNCHANGED m_is_in_checkpoint_zone
  BY DEF vars
<1>2. DbTypeOK' /\ AltTypeOK' /\ SwitchTypeOK'
  BY <1>1 DEF DbTypeOK, AltTypeOK, SwitchTypeOK, dbVars, altVars, swVars
<1>3. TablesMatchChain' /\ NoDoubleSpend' /\ PoolTypeOK' /\ IndexNeverDangles'
  BY <1>1, DbUnchanged, PoolUnchanged
<1>4. SwitchOK'
  BY <1>1, DbUnchanged DEF SwitchOK, Split, Height, dbVars, swVars
<1> QED BY <1>2, <1>3, <1>4

(* The steps of an intake that only look keep its record well formed.      *)
LEMMA IntakeTypeStep ==
  ASSUME DbTypeOK, IntakeTypeOK, IntakeNext
  PROVE  IntakeTypeOK'
<1>1. ASSUME NEW t \in Txs, NEW kept \in BOOLEAN, StartIntake(t, kept) PROVE IntakeTypeOK'
  BY <1>1 DEF StartIntake, IntakeTypeOK, Intake
<1>2. CASE AskChain \/ AskKeyImages
  BY <1>2 DEF AskChain, AskKeyImages, At, GoTo, IntakeTypeOK, Intake
<1>3. CASE CheckInputs
  <2>1. MaxUsedBlock(intake.tx) \in Blocks
    BY MaxUsedBlockType
  <2> QED BY <1>3, <2>1 DEF CheckInputs, At, GoTo, IntakeTypeOK, Intake
<1>4. CASE intake' = Nobody \/ UNCHANGED intake
  BY <1>4 DEF IntakeTypeOK
<1> QED BY <1>1, <1>2, <1>3, <1>4 DEF IntakeNext, IntakeStep, InsertTx

(***************************************************************************)
(* Every step of the specification keeps Inv, with the type of the intake  *)
(* in progress.                                                            *)
(***************************************************************************)
LEMMA NextKeeps == Inv /\ IntakeTypeOK /\ [IntakeNext]_allVars => Inv' /\ IntakeTypeOK'
<1> SUFFICES ASSUME Inv, IntakeTypeOK, [IntakeNext]_allVars PROVE Inv' /\ IntakeTypeOK'
  OBVIOUS
<1>1. CASE IntakeNext /\ ~(UNCHANGED vars)
  <2>1. CASE IntakeStep
    <3>1. InsertTx
      BY <1>1, <2>1 DEF IntakeStep, AskChain, AskKeyImages, CheckInputs
    <3>2. IntakeTypeOK'
      BY <3>1 DEF InsertTx, IntakeTypeOK
    <3> QED BY <3>1, <3>2, InsertTx_Keeps
  <2>2. CASE PopsSucceed /\ BlockAndIdleSteps /\ UNCHANGED intake
    <3>1. ASSUME NEW S \in SUBSET PoolTxs, remove_stuck_transactions(S) PROVE Inv'
      BY <3>1, remove_stuck_transactions_Keeps
    <3>2. ASSUME NEW asked \in SUBSET {t \in PoolTxs : NeedsCheck(t)}, fill_block_template(asked)
          PROVE  Inv'
      BY <3>2, fill_block_template_Keeps
    <3>3. ASSUME NEW b \in Blocks \ {Genesis}, AddMainBlock(b) PROVE Inv'
      BY <3>3, AddMainBlock_Keeps
    <3>4. ASSUME NEW b \in Blocks \ {Genesis}, AddAltBlock(b) PROVE Inv'
      BY <3>4, AddAltBlock_Keeps
    <3>5. ASSUME DisconnectOld PROVE Inv'
      BY <2>2, <3>5, DisconnectOld_Keeps DEF DisconnectOld, PopsSucceed
    <3>6. ASSUME ConnectAlt PROVE Inv'
      BY <3>6, ConnectAlt_Keeps
    <3>7. ASSUME RollbackPop PROVE Inv'
      BY <2>2, <3>7, RollbackPop_Keeps DEF RollbackPop, PopsSucceed
    <3>8. ASSUME RollbackPush PROVE Inv'
      BY <3>8, RollbackPush_Keeps
    <3>9. ASSUME OldToAlt PROVE Inv'
      BY <3>9, OldToAlt_Keeps
    <3>10. ASSUME prune_aged_alt_blocks PROVE Inv'
      BY <3>10, prune_aged_alt_blocks_Keeps
    <3>11. Inv'
      BY <2>2, <3>1, <3>2, <3>3, <3>4, <3>5, <3>6, <3>7, <3>8, <3>9, <3>10 DEF BlockAndIdleSteps
    <3>12. IntakeTypeOK'
      BY <2>2 DEF IntakeTypeOK
    <3> QED BY <3>11, <3>12
  <2>3. ASSUME NEW crash \in BOOLEAN, Restart(crash) /\ intake' = Nobody
        PROVE  Inv' /\ IntakeTypeOK'
    BY <2>3, Restart_Keeps DEF IntakeTypeOK
  <2> QED BY <1>1, <2>1, <2>2, <2>3 DEF IntakeNext, StartIntake
<1>2. CASE IntakeNext /\ UNCHANGED vars
  <2>1. Inv'
    BY <1>2, StutterKeeps
  <2>2. IntakeTypeOK'
    BY <1>2, IntakeTypeStep DEF Inv, TypeOK
  <2> QED BY <2>1, <2>2
<1>3. CASE UNCHANGED allVars
  BY <1>3, StutterKeeps DEF allVars, IntakeTypeOK
<1> QED BY <1>1, <1>2, <1>3

(***************************************************************************)
(* The ledger changes in the last step of an intake only.                  *)
(***************************************************************************)
LedgerStep ==
  \/ InsertTx
  \/ PopsSucceed /\ BlockAndIdleSteps
  \/ \E crash \in BOOLEAN : Restart(crash)

LEMMA LedgerSteps == [IntakeNext]_allVars => [LedgerStep]_vars
BY DEF IntakeNext, IntakeStep, StartIntake, AskChain, AskKeyImages, CheckInputs, LedgerStep, allVars
-----------------------------------------------------------------------------
(***************************************************************************)
(* The theorems.                                                           *)
(***************************************************************************)

(***************************************************************************)
(* Inv holds in every reachable state, with a transaction's intake in its  *)
(* five steps between those of any block, up to the first pop that fails.  *)
(***************************************************************************)
THEOREM Invariance == IntakeSpec => []Inv
<1>1. IntakeInit => Inv /\ IntakeTypeOK
  BY InitEstablishes DEF IntakeInit, IntakeTypeOK
<1> QED BY <1>1, NextKeeps, PTL DEF IntakeSpec

(***************************************************************************)
(* Type correctness of the storage and the pool; the main chain is never   *)
(* empty, whatever a reorganisation pops.                                  *)
(***************************************************************************)
THEOREM TypeCorrect == IntakeSpec => []TypeOK
<1>1. Inv => TypeOK
  BY DEF Inv
<1> QED BY <1>1, Invariance, PTL

(***************************************************************************)
(* Every index that a reorganisation uses is in range, and the assertion   *)
(* of switch_to_alternative_blockchain on the split height never fails.    *)
(***************************************************************************)
THEOREM SwitchInRange == IntakeSpec => []SwitchOK
<1>1. Inv => SwitchOK
  BY DEF Inv
<1> QED BY <1>1, Invariance, PTL

(***************************************************************************)
(* The transaction and key image tables are those of the main chain at     *)
(* every step of every reorganisation and every rollback.                  *)
(***************************************************************************)
THEOREM TablesExact == IntakeSpec => []TablesMatchChain
<1>1. Inv => TablesMatchChain
  BY DEF Inv, LedgerInv
<1> QED BY <1>1, Invariance, PTL

(***************************************************************************)
(* No transaction and no key image is in two places of the main chain.     *)
(***************************************************************************)
THEOREM NothingSpentTwice == IntakeSpec => []NoDoubleSpend
<1>1. Inv => NoDoubleSpend
  BY DEF Inv, LedgerInv
<1> QED BY <1>1, Invariance, PTL

(***************************************************************************)
(* m_spent_key_images names only transactions that are in the pool,        *)
(* although add_tx may stop between two key images, and take_tx and        *)
(* remove_stuck_transactions change the two containers one after the       *)
(* other.                                                                  *)
(***************************************************************************)
THEOREM IndexInPool == IntakeSpec => []IndexNeverDangles
<1>1. Inv => IndexNeverDangles
  BY DEF Inv, LedgerInv
<1> QED BY <1>1, Invariance, PTL
=============================================================================
