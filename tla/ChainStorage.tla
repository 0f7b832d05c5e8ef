---------------------------- MODULE ChainStorage ----------------------------
(***************************************************************************)
(* The node's ledger: currency::blockchain_storage (the main chain, its    *)
(* transaction and key image tables, the alternative chains) together with *)
(* currency::tx_memory_pool, the pool both of them feed.                   *)
(*                                                                         *)
(* add_new_block holds the pool lock and the blockchain lock from its      *)
(* first to its last statement.  A reorganisation is many calls of         *)
(* pop_block_from_blockchain and handle_block_to_main_chain; each is one   *)
(* step here, and pc # "idle" says that the locks are held in between.     *)
(*                                                                         *)
(* Blocks form a fixed tree.  What the code recomputes for a block from    *)
(* its ancestors alone (its height, cumulative difficulty, proof of work,  *)
(* timestamp median, reward) is a constant of the block; what depends on   *)
(* the state of the node (spent key images, known transactions, unlock     *)
(* heights, checkpoints passed) is evaluated in the state.                 *)
(***************************************************************************)
EXTENDS Integers, Sequences, FiniteSets, Checkpoints

CONSTANTS
  Blocks,          \* the blocks that can ever be delivered
  Genesis,         \* generate_genesis_block
  Prev,            \* Prev[b]: the block bl.prev_id names
  Path,            \* Path[b]: the blocks from Genesis to b
  Work,            \* Work[b]: cumulative_difficulty of b
  Txs,             \* the non-coinbase transactions
  BlockTxs,        \* BlockTxs[b]: bl.tx_hashes
  KeyImages,
  Images,          \* Images[t]: the key images of t's inputs
  Sources,         \* Sources[t]: where t's ring members come from; a block
                   \*   stands for its miner transaction
  UnlockHeight,    \* UnlockHeight[s]: tx.unlock_time of a source
  SignedTxs,       \* the transactions whose ring signatures verify
  PowBlocks,       \* blocks with a valid timestamp and proof of work, by
                   \*   one verdict for the main and the alternative rule
  PrevalidBlocks,  \* blocks that pass prevalidate_miner_transaction
  RewardBlocks,    \* blocks that pass validate_miner_transaction
  AltLivetime,     \* CURRENCY_ALT_BLOCK_LIVETIME_COUNT
  NoBlock,         \* null_hash
  NoEntry          \* "not in the pool"

TxSet(b) == {BlockTxs[b][i] : i \in DOMAIN BlockTxs[b]}

ASSUME TreeAssumption ==
  /\ Genesis \in Blocks
  /\ NoBlock \notin Blocks
  /\ Prev \in [Blocks \ {Genesis} -> Blocks]
  /\ Path \in [Blocks -> Seq(Blocks)]
  /\ Path[Genesis] = <<Genesis>>
  /\ \A b \in Blocks \ {Genesis} : Path[b] = Append(Path[Prev[b]], b)
  /\ \A b \in Blocks : Path[b][1] = Genesis
  /\ Work \in [Blocks -> Nat]
  /\ \A b \in Blocks \ {Genesis} : Work[Prev[b]] < Work[b]

ASSUME TxAssumption ==
  /\ BlockTxs \in [Blocks -> Seq(Txs)]
  /\ BlockTxs[Genesis] = <<>>
  /\ Txs \cap Blocks = {}
  /\ Images \in [Txs -> SUBSET KeyImages]
  /\ Sources \in [Txs -> SUBSET (Txs \cup Blocks)]
  /\ UnlockHeight \in [Txs \cup Blocks -> Nat]
  /\ SignedTxs \subseteq Txs
  /\ AltLivetime \in Nat

VARIABLES
  m_db_blocks,            \* the main chain, a sequence of blocks
  m_db_transactions,      \* "absent", "signed" or "pruned" (signatures cleared)
  m_db_spent_keys,        \* key images spent by the main chain
  m_alternative_chains,   \* known blocks off the main chain
  m_invalid_blocks,
  m_is_in_checkpoint_zone,
  m_transactions,         \* the pool: NoEntry or a tx_details record
  m_spent_key_images,     \* the pool's index: key image -> transactions
  pc,                     \* where switch_to_alternative_blockchain is
  alt_chain,              \* its argument
  disconnected_chain,     \* the old main chain blocks it popped
  pos                     \* index of the alt_chain or disconnected_chain loop

dbVars   == <<m_db_blocks, m_db_transactions, m_db_spent_keys>>
altVars  == <<m_alternative_chains, m_invalid_blocks>>
poolVars == <<m_transactions, m_spent_key_images>>
swVars   == <<pc, alt_chain, disconnected_chain, pos>>
vars     == <<dbVars, altVars, m_is_in_checkpoint_zone, poolVars, swVars>>

(***************************************************************************)
(* tx_details: are the signatures still there, max_used_block_id, the      *)
(* youngest block its ring members come from (NoBlock: not checked),       *)
(* max_used_block_height, and last_failed_id, the top block at the last    *)
(* failed check (NoBlock: none).                                           *)
(***************************************************************************)
PoolEntry == [sigs : BOOLEAN,
              max_used : Blocks \cup {NoBlock},
              used_height : Nat,
              last_failed : Blocks \cup {NoBlock}]

ASSUME EntryAssumption == NoEntry \notin PoolEntry

Init ==
  /\ m_db_blocks = <<Genesis>>
  /\ m_db_transactions = [t \in Txs |-> "absent"]
  /\ m_db_spent_keys = {}
  /\ m_alternative_chains = {}
  /\ m_invalid_blocks = {}
  /\ m_is_in_checkpoint_zone = is_in_checkpoint_zone(1)
  /\ m_transactions = [t \in Txs |-> NoEntry]
  /\ m_spent_key_images = [k \in KeyImages |-> {}]
  /\ pc = "idle"
  /\ alt_chain = <<>>
  /\ disconnected_chain = <<>>
  /\ pos = 0
-----------------------------------------------------------------------------
(***************************************************************************)
(* What the tables say.                                                    *)
(***************************************************************************)
Top       == m_db_blocks[Len(m_db_blocks)]
OnChain   == {m_db_blocks[i] : i \in DOMAIN m_db_blocks}
ChainTxs  == UNION {TxSet(b) : b \in OnChain}
Height(b) == Len(Path[b]) - 1
ImagesOf(S) == UNION {Images[t] : t \in S}

have_tx(t)       == m_transactions[t] # NoEntry        \* tx_memory_pool::have_tx
have_tx_chain(t) == m_db_transactions[t] # "absent"    \* blockchain_storage::have_tx
PoolTxs == {t \in Txs : have_tx(t)}

have_block(b) == b \in OnChain \cup m_alternative_chains \cup m_invalid_blocks

(* Where ring members can be found: the transactions in the main chain.    *)
ChainSources == OnChain \cup {t \in Txs : have_tx_chain(t)}

(***************************************************************************)
(* is_tx_spendtime_unlocked, for an unlock time that is a height: the code *)
(* compares with the chain's height, less one, plus the allowed delta (1). *)
(***************************************************************************)
is_tx_spendtime_unlocked(s) == Len(m_db_blocks) >= UnlockHeight[s]

(***************************************************************************)
(* check_tx_inputs and check_tx_input: no key image spent, every ring      *)
(* member found and unlocked, and ring signatures valid, which is not      *)
(* looked at while the checkpoint flag is up.                              *)
(***************************************************************************)
SpentImagesIgnored(t, sigs, zone, found, spent) ==
  /\ \A s \in Sources[t] : s \in found /\ is_tx_spendtime_unlocked(s)
  /\ zone \/ (sigs /\ t \in SignedTxs)

check_tx_inputs(t, sigs, zone, found, spent) ==
  /\ Images[t] \cap spent = {}
  /\ \A s \in Sources[t] : s \in found /\ is_tx_spendtime_unlocked(s)
  /\ zone \/ (sigs /\ t \in SignedTxs)

CheckNow(t, sigs) ==
  check_tx_inputs(t, sigs, m_is_in_checkpoint_zone, ChainSources, m_db_spent_keys)

(***************************************************************************)
(* max_used_block_id: the block at the greatest m_keeper_block_height of   *)
(* the ring members, the genesis block when there is none above it.        *)
(***************************************************************************)
KeeperIndexes(t) ==
  {i \in DOMAIN m_db_blocks :
     \E s \in Sources[t] : s = m_db_blocks[i] \/ s \in TxSet(m_db_blocks[i])}

MaxUsedBlock(t) ==
  LET used == {1} \cup KeeperIndexes(t)
  IN  m_db_blocks[CHOOSE i \in used : \A j \in used : j <= i]
-----------------------------------------------------------------------------
(***************************************************************************)
(* tx_memory_pool: inserting and taking transactions.                      *)
(***************************************************************************)
Checked(sigs, blk) ==
  [sigs |-> sigs, max_used |-> blk, last_failed |-> NoBlock,
   used_height |-> IF blk = NoBlock THEN 0 ELSE Height(blk)]

Unindex(idx, S) == [k \in KeyImages |-> idx[k] \ S]
Index(idx, S)   == [k \in KeyImages |-> idx[k] \cup {t \in S : k \in Images[t]}]

have_tx_keyimges_as_spent(t) == \E k \in Images[t] : m_spent_key_images[k] # {}

ImagesStayIndexed(S) ==
  /\ pc = "idle"
  /\ S # {}
  /\ m_transactions' = [t \in Txs |-> IF t \in S THEN NoEntry ELSE m_transactions[t]]
  /\ UNCHANGED <<dbVars, altVars, m_is_in_checkpoint_zone, m_spent_key_images, swVars>>

(***************************************************************************)
(* remove_stuck_transactions: receive times are arbitrary, so any set of   *)
(* transactions may be past its life time when the idle handler runs.      *)
(***************************************************************************)
remove_stuck_transactions(S) ==
  /\ pc = "idle"
  /\ S # {}
  /\ m_transactions' = [t \in Txs |-> IF t \in S THEN NoEntry ELSE m_transactions[t]]
  /\ m_spent_key_images' = Unindex(m_spent_key_images, S)
  /\ UNCHANGED <<dbVars, altVars, m_is_in_checkpoint_zone, swVars>>

(***************************************************************************)
(* is_transaction_ready_to_go, split into the branch taken (must the       *)
(* inputs be checked, is the entry refused unchecked) and the verdict.     *)
(* last_failed_id is the main chain's id of last_failed_height iff that    *)
(* block is on it.                                                         *)
(***************************************************************************)
UsedOnChain(e) == e.max_used # NoBlock /\ m_db_blocks[e.used_height + 1] = e.max_used

RefusedUnchecked(t) ==
  LET e == m_transactions[t] IN
  \/ e.max_used # NoBlock /\ e.used_height >= Len(m_db_blocks)
  \/ ~UsedOnChain(e) /\ e.last_failed \in OnChain

OnlyUnchecked(t) ==
  ~RefusedUnchecked(t) /\ m_transactions[t].max_used = NoBlock

NeedsCheck(t) == ~RefusedUnchecked(t) /\ ~UsedOnChain(m_transactions[t])

is_transaction_ready_to_go(t) ==
  /\ ~RefusedUnchecked(t)
  /\ NeedsCheck(t) => CheckNow(t, m_transactions[t].sigs)
  /\ Images[t] \cap m_db_spent_keys = {}

(***************************************************************************)
(* fill_block_template asks for the transactions of the pool in the order  *)
(* of their fees, until 125 are taken or the block is full, and the        *)
(* outcome of each check is recorded in the entry; here, for the subset    *)
(* `asked`.  A failed check has already overwritten max_used_block_height, *)
(* with the maximum over the ring members it got to, but not               *)
(* max_used_block_id.  (The height is not read while the id is null_hash.) *)
(***************************************************************************)
HeightsReached(t) == {0} \cup {i - 1 : i \in KeeperIndexes(t)}

AfterFailure(e, height) ==
  [e EXCEPT !.last_failed = Top,
            !.used_height = IF e.max_used = NoBlock THEN 0 ELSE height]

AfterSuccess(e, blk) == [e EXCEPT !.max_used = blk, !.used_height = Height(blk)]

fill_block_template(asked) ==
  LET failing == {t \in asked : ~CheckNow(t, m_transactions[t].sigs)} IN
  /\ pc = "idle"
  /\ asked # {}
  /\ \E height \in [failing -> 0..(Len(m_db_blocks) - 1)] :
       /\ \A t \in failing : height[t] \in HeightsReached(t)
       /\ m_transactions' = [t \in Txs |->
            CASE t \notin asked -> m_transactions[t]
              [] t \in failing -> AfterFailure(m_transactions[t], height[t])
              [] OTHER -> AfterSuccess(m_transactions[t], MaxUsedBlock(t))]
  /\ UNCHANGED <<dbVars, altVars, m_is_in_checkpoint_zone, m_spent_key_images, swVars>>
-----------------------------------------------------------------------------
(***************************************************************************)
(* handle_block_to_main_chain(b).  The i-th transaction is taken from the  *)
(* pool, checked against the chain and the transactions before it in the   *)
(* block, and added to the tables.                                         *)
(***************************************************************************)
Earlier(b, i) == {BlockTxs[b][j] : j \in 1..(i - 1)}

LastFlag(b) == m_is_in_checkpoint_zone

ZoneFor(b) ==
  IF b \in PowBlocks THEN is_in_checkpoint_zone(Len(m_db_blocks))
                     ELSE m_is_in_checkpoint_zone

TxTaken(b, i) == have_tx(BlockTxs[b][i]) /\ BlockTxs[b][i] \notin Earlier(b, i)

TxInputsOk(b, i) ==
  check_tx_inputs(BlockTxs[b][i], m_transactions[BlockTxs[b][i]].sigs, ZoneFor(b),
                  ChainSources \cup {b} \cup Earlier(b, i),
                  m_db_spent_keys \cup ImagesOf(Earlier(b, i)))

TxAdded(b, i) ==
  TxTaken(b, i) /\ TxInputsOk(b, i) /\ ~have_tx_chain(BlockTxs[b][i])

(* The loop reaches the i-th transaction.                                  *)
TxReached(b, i) == \A j \in 1..(i - 1) : TxAdded(b, j)

HeaderOk(b) ==
  /\ Prev[b] = Top
  /\ b \in PowBlocks
  /\ check_block(Len(m_db_blocks), b)
  /\ b \in PrevalidBlocks

Connects(b) ==
  /\ HeaderOk(b)
  /\ \A i \in DOMAIN BlockTxs[b] : TxAdded(b, i)
  /\ b \in RewardBlocks

(* The transactions the loop took from the pool before the block failed.   *)
TxsToReturn(b) ==
  IF HeaderOk(b)
    THEN {BlockTxs[b][i] : i \in {j \in DOMAIN BlockTxs[b] : TxReached(b, j) /\ TxTaken(b, j)}}
    ELSE {}

WrongInputs(b) ==
  /\ HeaderOk(b)
  /\ \E i \in DOMAIN BlockTxs[b] :
        TxReached(b, i) /\ TxTaken(b, i) /\ ~TxInputsOk(b, i)

InvalidatedBy(b) == IF WrongInputs(b) THEN {b} ELSE {}

(***************************************************************************)
(* The entry of a transaction that a failed block gives back, by add_tx    *)
(* with kept_by_block.  Its inputs check again, except for the one that    *)
(* failed the block and for those with a ring member in the block itself,  *)
(* whose height is no index of m_db_blocks yet.                            *)
(***************************************************************************)
ReturnedEntry(b, t) ==
  LET i    == CHOOSE j \in DOMAIN BlockTxs[b] : BlockTxs[b][j] = t /\ t \notin Earlier(b, j)
      sigs == m_transactions[t].sigs /\ ~ZoneFor(b)
  IN  Checked(sigs, IF TxAdded(b, i) /\ Sources[t] \cap ({b} \cup Earlier(b, i)) = {}
                      THEN MaxUsedBlock(t) ELSE NoBlock)

Connect(b) ==
  /\ Connects(b)
  /\ m_is_in_checkpoint_zone' = ZoneFor(b)
  /\ m_db_blocks' = Append(m_db_blocks, b)
  /\ m_db_transactions' = [t \in Txs |->
       IF t \in TxSet(b)
         THEN IF ZoneFor(b) \/ ~m_transactions[t].sigs THEN "pruned" ELSE "signed"
         ELSE m_db_transactions[t]]
  /\ m_db_spent_keys' = m_db_spent_keys \cup ImagesOf(TxSet(b))
  /\ m_transactions' = [t \in Txs |-> IF t \in TxSet(b) THEN NoEntry ELSE m_transactions[t]]
  /\ m_spent_key_images' = Unindex(m_spent_key_images, TxSet(b))

Reject(b) ==
  /\ ~Connects(b)
  /\ m_is_in_checkpoint_zone' = IF Prev[b] = Top THEN ZoneFor(b) ELSE m_is_in_checkpoint_zone
  /\ m_transactions' = [t \in Txs |->
       IF t \in TxsToReturn(b) THEN ReturnedEntry(b, t) ELSE m_transactions[t]]
  /\ m_spent_key_images' =
       Index(Unindex(m_spent_key_images, TxsToReturn(b)), TxsToReturn(b))
  /\ UNCHANGED dbVars

(***************************************************************************)
(* add_new_block for a block on top of the main chain.                     *)
(***************************************************************************)
AddMainBlock(b) ==
  /\ pc = "idle"
  /\ ~have_block(b)
  /\ Prev[b] = Top
  /\ \/ Connect(b) /\ UNCHANGED m_invalid_blocks
     \/ Reject(b) /\ m_invalid_blocks' = m_invalid_blocks \cup InvalidatedBy(b)
  /\ UNCHANGED <<m_alternative_chains, swVars>>
-----------------------------------------------------------------------------
(***************************************************************************)
(* handle_alternative_block(b).  AltBranch(p): the alternative blocks from *)
(* the fork to p, in chain order; empty when p is not one of them.         *)
(***************************************************************************)
AltBranch(p) ==
  LET off == {i \in DOMAIN Path[p] : Path[p][i] \notin m_alternative_chains}
      last == CHOOSE i \in off : \A j \in off : j <= i
  IN  SubSeq(Path[p], last + 1, Len(Path[p]))

ParentKnown(b) == Prev[b] \in m_alternative_chains \/ Prev[b] \in OnChain

RightConnection(b) ==
  Prev[b] \in m_alternative_chains =>
    LET front == AltBranch(Prev[b])[1] IN
    /\ Len(m_db_blocks) > Height(front)
    /\ m_db_blocks[Height(front)] = Prev[front]

(* Everything up to the proof of work, after which the flag is set.        *)
AltPow(b) ==
  /\ ~is_height_passed_zone(Height(b), Len(m_db_blocks) - 1)
  /\ ParentKnown(b)
  /\ RightConnection(b)
  /\ b \in PowBlocks

AltAccepts(b) ==
  AltPow(b) /\ check_block(Height(b), b) /\ b \in PrevalidBlocks

AltZone(b) ==
  IF AltPow(b) THEN is_in_checkpoint_zone(Height(b)) ELSE m_is_in_checkpoint_zone

NotLighter(b) == Work[Top] <= Work[b]

Heavier(b) == Work[Top] < Work[b]

(***************************************************************************)
(* add_new_block for a block elsewhere: refused, stored, or stored and     *)
(* switched to when its branch is heavier than the main chain.             *)
(***************************************************************************)
AddAltBlock(b) ==
  /\ pc = "idle"
  /\ ~have_block(b)
  /\ Prev[b] # Top
  /\ m_is_in_checkpoint_zone' = AltZone(b)
  /\ \/ ~AltAccepts(b) /\ UNCHANGED <<m_alternative_chains, swVars>>
     \/ /\ AltAccepts(b)
        /\ m_alternative_chains' = m_alternative_chains \cup {b}
        /\ IF Heavier(b)
             THEN /\ pc' = "pop"
                  /\ alt_chain' = Append(AltBranch(Prev[b]), b)
                  /\ disconnected_chain' = <<>>
                  /\ pos' = 1
             ELSE UNCHANGED swVars
  /\ UNCHANGED <<dbVars, m_invalid_blocks, poolVars>>
-----------------------------------------------------------------------------
(***************************************************************************)
(* pop_block_from_blockchain: every transaction of the top block leaves    *)
(* the tables and goes back to the pool.  add_tx fails for one that is in  *)
(* the pool already; its key images are gone by then, its entry and the    *)
(* block stay.  (So are the block's miner transaction and scratchpad data: *)
(* TxIntake follows a behaviour up to the first pop that fails.)           *)
(***************************************************************************)
Returnable(t) == have_tx_chain(t) /\ ~have_tx(t)
PopSucceeds   == \A t \in TxSet(Top) : Returnable(t)

(***************************************************************************)
(* No pop of a switch or of its rollback fails: "failed to remove block on *)
(* chain switching" and "PANIC!!! failed to remove block while chain       *)
(* switching during the rollback!" are never logged.  It is false when a   *)
(* block is connected between two steps of a transaction's intake.         *)
(***************************************************************************)
PopsSucceed == pc \in {"pop", "rollback_pop"} => PopSucceeds

NotReturned(t) == NoEntry

PoppedEntry(t) ==
  LET sigs == m_db_transactions[t] = "signed"
      ok   == check_tx_inputs(t, sigs, m_is_in_checkpoint_zone, ChainSources,
                              m_db_spent_keys \ ImagesOf(TxSet(Top)))
  IN  Checked(sigs, IF ok THEN MaxUsedBlock(t) ELSE NoBlock)

ImagesStaySpent ==
  LET back == {t \in TxSet(Top) : Returnable(t)} IN
  /\ m_db_blocks' = IF PopSucceeds THEN SubSeq(m_db_blocks, 1, Len(m_db_blocks) - 1)
                                   ELSE m_db_blocks
  /\ m_db_transactions' = [t \in Txs |-> IF t \in back THEN "absent" ELSE m_db_transactions[t]]
  /\ m_transactions' = [t \in Txs |-> IF t \in back THEN PoppedEntry(t) ELSE m_transactions[t]]
  /\ m_spent_key_images' = Index(m_spent_key_images, back)
  /\ UNCHANGED <<m_db_spent_keys, m_is_in_checkpoint_zone>>

PopTop ==
  LET back == {t \in TxSet(Top) : Returnable(t)} IN
  /\ m_db_blocks' = IF PopSucceeds THEN SubSeq(m_db_blocks, 1, Len(m_db_blocks) - 1)
                                   ELSE m_db_blocks
  /\ m_db_transactions' = [t \in Txs |-> IF t \in back THEN "absent" ELSE m_db_transactions[t]]
  /\ m_db_spent_keys' =
       m_db_spent_keys \ ImagesOf({t \in TxSet(Top) : have_tx_chain(t)})
  /\ m_transactions' = [t \in Txs |-> IF t \in back THEN PoppedEntry(t) ELSE m_transactions[t]]
  /\ m_spent_key_images' = Index(m_spent_key_images, back)
  /\ UNCHANGED m_is_in_checkpoint_zone

(***************************************************************************)
(* switch_to_alternative_blockchain.  Split: the height of the first block *)
(* of the branch, so the length of the part of the main chain that stays.  *)
(***************************************************************************)
SplitOneLower == Height(alt_chain[1]) - 1

Split == Height(alt_chain[1])

EndSwitch ==
  /\ pc' = "idle"
  /\ alt_chain' = <<>>
  /\ disconnected_chain' = <<>>
  /\ pos' = 0

(* Disconnecting the old chain.                                            *)
DisconnectOld ==
  /\ pc = "pop"
  /\ PopTop
  /\ IF PopSucceeds
       THEN /\ disconnected_chain' = <<Top>> \o disconnected_chain
            /\ pc' = IF Len(m_db_blocks) - 1 = Split THEN "connect" ELSE "pop"
            /\ UNCHANGED <<alt_chain, pos>>
       ELSE EndSwitch
  /\ UNCHANGED altVars

(* rollback_blockchain_switching first pops down to the split height.      *)
RollbackPopsOnce == "rollback_pop"

RollbackStart == IF Len(m_db_blocks) = Split THEN "rollback_push" ELSE "rollback_pop"

(* Connecting the branch; after a failure pos stays at the failed block.   *)
ConnectAlt ==
  LET b == alt_chain[pos] IN
  /\ pc = "connect"
  /\ \/ /\ Connect(b)
        /\ pc' = IF pos = Len(alt_chain) THEN "to_alt" ELSE "connect"
        /\ pos' = IF pos = Len(alt_chain) THEN 1 ELSE pos + 1
        /\ UNCHANGED m_invalid_blocks
     \/ /\ Reject(b)
        /\ pc' = RollbackStart
        /\ m_invalid_blocks' = m_invalid_blocks \cup InvalidatedBy(b)
        /\ UNCHANGED pos
  /\ UNCHANGED <<m_alternative_chains, alt_chain, disconnected_chain>>

(***************************************************************************)
(* The end of a failed switch.  When a block of the branch failed (pos >   *)
(* 0) it is marked invalid, it and all blocks after it are dropped.  The   *)
(* loop over those marks, each time round, the block of the iterator after *)
(* the failed one, which its first round has erased.  With two or more     *)
(* blocks after the failed one that is undefined: the erased node is still *)
(* intact and marks the same block again, or it holds anything else, which *)
(* marks an id that no block has, or the process dies, which is Restart in *)
(* the state before the block, nothing being committed.                    *)
(***************************************************************************)
FailedBlockOnly == {alt_chain[i] : i \in {j \in DOMAIN alt_chain : pos > 0 /\ j = pos}}

DroppedBlocks == {alt_chain[i] : i \in {j \in DOMAIN alt_chain : pos > 0 /\ j >= pos}}
MarkedInvalid == {alt_chain[i] : i \in {j \in DOMAIN alt_chain : pos > 0 /\ j \in pos..(pos + 1)}}

FailSwitch(invalidated) ==
  /\ m_alternative_chains' = m_alternative_chains \ DroppedBlocks
  /\ m_invalid_blocks' = m_invalid_blocks \cup MarkedInvalid \cup invalidated
  /\ EndSwitch

(* rollback_blockchain_switching: removing the failed branch ...           *)
RollbackPop ==
  /\ pc = "rollback_pop"
  /\ PopTop
  /\ IF PopSucceeds
       THEN /\ pc' = IF Len(m_db_blocks) - 1 = Split THEN "rollback_push" ELSE "rollback_pop"
            /\ UNCHANGED <<altVars, alt_chain, disconnected_chain, pos>>
       ELSE FailSwitch({})

(* ... and returning the old chain.  The caller ignores a failure.         *)
FirstOldBlock == disconnected_chain[1]

OldBlock == disconnected_chain[Len(m_db_blocks) - Split + 1]

RollbackPush ==
  /\ pc = "rollback_push"
  /\ IF Connects(OldBlock) THEN Connect(OldBlock) ELSE Reject(OldBlock)
  /\ IF Connects(OldBlock) /\ Len(m_db_blocks) - Split + 1 < Len(disconnected_chain)
       THEN UNCHANGED <<altVars, swVars>>
       ELSE FailSwitch(IF Connects(OldBlock) THEN {} ELSE InvalidatedBy(OldBlock))

(* Pushing the old chain as an alternative one, block by block; after the  *)
(* last one the connected branch stops being alternative.  An old block is *)
(* lighter than the new top, so no switch starts inside this one.          *)
SameBlockAgain(b) ==
  /\ m_alternative_chains' = m_alternative_chains \cup {b}
  /\ UNCHANGED swVars

KeepOld(b) ==
  /\ m_alternative_chains' = m_alternative_chains \cup {b}
  /\ pos' = pos + 1
  /\ UNCHANGED <<pc, alt_chain, disconnected_chain>>

BranchStaysAlt(b) ==
  /\ m_alternative_chains' = m_alternative_chains \cup {b}
  /\ EndSwitch

KeepLastOld(b) ==
  /\ m_alternative_chains' = (m_alternative_chains \cup {b})
                               \ {alt_chain[i] : i \in DOMAIN alt_chain}
  /\ EndSwitch

OldToAlt ==
  LET b == disconnected_chain[pos] IN
  /\ pc = "to_alt"
  /\ m_is_in_checkpoint_zone' = AltZone(b)
  /\ \/ AltAccepts(b) /\ pos < Len(disconnected_chain) /\ KeepOld(b)
     \/ AltAccepts(b) /\ pos = Len(disconnected_chain) /\ KeepLastOld(b)
     \/ /\ ~AltAccepts(b)
        /\ pc' = RollbackStart
        /\ pos' = 0
        /\ UNCHANGED <<m_alternative_chains, alt_chain, disconnected_chain>>
  /\ UNCHANGED <<dbVars, m_invalid_blocks, poolVars>>

SwitchStep == DisconnectOld \/ ConnectAlt \/ RollbackPop \/ RollbackPush \/ OldToAlt
-----------------------------------------------------------------------------
(* core::on_idle: prune_aged_alt_blocks forgets old branches by height.    *)
prune_aged_alt_blocks ==
  LET aged == {b \in m_alternative_chains : Len(m_db_blocks) - Height(b) > AltLivetime} IN
  /\ pc = "idle"
  /\ aged # {}
  /\ m_alternative_chains' = m_alternative_chains \ aged
  /\ UNCHANGED <<dbVars, m_invalid_blocks, m_is_in_checkpoint_zone, poolVars, swVars>>

(***************************************************************************)
(* Shutdown or crash, and start.  The database keeps what was committed,   *)
(* which is the state before the block in progress; alternative and        *)
(* invalid blocks live in memory only.  The pool file is written by deinit *)
(* and removed once loaded, so a crash loses the pool.  set_checkpoints    *)
(* recomputes the flag.                                                    *)
(***************************************************************************)
Restart(crash) ==
  /\ pc = "idle"
  /\ m_alternative_chains' = {}
  /\ m_invalid_blocks' = {}
  /\ m_is_in_checkpoint_zone' = is_in_checkpoint_zone(Len(m_db_blocks))
  /\ m_transactions' = IF crash THEN [t \in Txs |-> NoEntry] ELSE m_transactions
  /\ m_spent_key_images' = IF crash THEN [k \in KeyImages |-> {}] ELSE m_spent_key_images
  /\ UNCHANGED <<dbVars, swVars>>

(***************************************************************************)
(* Everything but the intake of transactions and a restart, which TxIntake *)
(* adds: its five steps run between any two of these.                      *)
(***************************************************************************)
BlockAndIdleSteps ==
  \/ \E S \in SUBSET PoolTxs : remove_stuck_transactions(S)
  \/ \E asked \in SUBSET {t \in PoolTxs : NeedsCheck(t)} : fill_block_template(asked)
  \/ \E b \in Blocks \ {Genesis} : AddMainBlock(b)
  \/ \E b \in Blocks \ {Genesis} : AddAltBlock(b)
  \/ DisconnectOld
  \/ ConnectAlt
  \/ RollbackPop
  \/ RollbackPush
  \/ OldToAlt
  \/ prune_aged_alt_blocks
-----------------------------------------------------------------------------
(***************************************************************************)
(* Properties.                                                             *)
(***************************************************************************)

DbTypeOK ==
  /\ m_db_blocks \in Seq(Blocks) /\ m_db_blocks # <<>>
  /\ m_db_transactions \in [Txs -> {"absent", "signed", "pruned"}]
  /\ m_db_spent_keys \subseteq KeyImages
  /\ m_is_in_checkpoint_zone \in BOOLEAN

AltTypeOK ==
  /\ m_alternative_chains \subseteq Blocks \ {Genesis}
  /\ m_invalid_blocks \subseteq Blocks

PoolTypeOK ==
  /\ m_transactions \in [Txs -> PoolEntry \cup {NoEntry}]
  /\ m_spent_key_images \in [KeyImages -> SUBSET Txs]

SwitchTypeOK ==
  /\ pc \in {"idle", "pop", "connect", "rollback_pop", "rollback_push", "to_alt"}
  /\ alt_chain \in Seq(Blocks \ {Genesis})
  /\ disconnected_chain \in Seq(Blocks \ {Genesis})
  /\ pos \in Nat

(* The type invariant.  The main chain is never empty: no sequence of pops *)
(* of a switch or its rollback reaches the genesis block.                  *)
TypeOK == DbTypeOK /\ AltTypeOK /\ PoolTypeOK /\ SwitchTypeOK

(* The block at index i of m_db_blocks is one of height i - 1.             *)
ChainHeights == \A i \in DOMAIN m_db_blocks : Len(Path[m_db_blocks[i]]) = i

(***************************************************************************)
(* Where the loops of a switch can be: every access to alt_chain and to    *)
(* disconnected_chain is inside them, the rollback pops the connected part *)
(* of the branch and no more, and the old chain has not been returned      *)
(* completely while rollback_push is at work.  The assertion at the head   *)
(* of switch_to_alternative_blockchain (m_db_blocks.size() > split_height) *)
(* is its second conjunct.                                                 *)
(***************************************************************************)
SwitchOK ==
  /\ ChainHeights
  /\ pc = "pop" => alt_chain # <<>> /\ Len(m_db_blocks) > Split /\ pos = 1
  /\ pc \in {"connect", "rollback_pop", "rollback_push", "to_alt"} =>
       alt_chain # <<>> /\ disconnected_chain # <<>>
  /\ pc = "connect" => pos \in DOMAIN alt_chain /\ Len(m_db_blocks) = Split + pos - 1
  /\ pc = "to_alt" => pos \in DOMAIN disconnected_chain /\ Len(m_db_blocks) > Split
  /\ pc = "rollback_pop" => Len(m_db_blocks) > Split
  /\ pc = "rollback_push" => Len(m_db_blocks) \in Split..(Split + Len(disconnected_chain) - 1)

(***************************************************************************)
(* After any mix of connected, popped and half-processed blocks the        *)
(* transaction table holds exactly the transactions of the main chain and  *)
(* the spent key table exactly their key images.                           *)
(***************************************************************************)
TablesMatchChain ==
  /\ {t \in Txs : have_tx_chain(t)} = ChainTxs
  /\ m_db_spent_keys = ImagesOf(ChainTxs)

(***************************************************************************)
(* No transaction and no key image occurs twice in the main chain, also    *)
(* while it is being reorganised.                                          *)
(***************************************************************************)
NoDoubleSpend ==
  \A i, j \in DOMAIN m_db_blocks :
    \A t \in TxSet(m_db_blocks[i]), u \in TxSet(m_db_blocks[j]) :
      (t = u \/ Images[t] \cap Images[u] # {}) => (i = j /\ t = u)

(***************************************************************************)
(* m_spent_key_images never outlives m_transactions: it names transactions *)
(* that are in the pool and spend the key image, after every insertion,    *)
(* interrupted ones included, every take_tx, expiry, pop and restart.  An  *)
(* entry left behind would block the key image for every later payment.    *)
(***************************************************************************)
IndexNeverDangles ==
  \A k \in KeyImages : m_spent_key_images[k] \subseteq {t \in PoolTxs : k \in Images[t]}

(***************************************************************************)
(* The other direction, "update image_keys container, here should          *)
(* everything goes ok": every transaction of the pool is in the index.  It *)
(* is false when a block is connected, or popped, between the test of the  *)
(* key images and the insertion.                                           *)
(***************************************************************************)
PoolIndexComplete ==
  \A k \in KeyImages : {t \in PoolTxs : k \in Images[t]} \subseteq m_spent_key_images[k]

(***************************************************************************)
(* Between blocks, a block is main, alternative or invalid, not two of     *)
(* them: the erasures of a successful or failed switch are complete.       *)
(***************************************************************************)
KnownOnce ==
  pc = "idle" =>
    /\ OnChain \cap m_alternative_chains = {}
    /\ OnChain \cap m_invalid_blocks = {}
    /\ m_alternative_chains \cap m_invalid_blocks = {}

(***************************************************************************)
(* Between blocks no stored alternative block is heavier than the main     *)
(* chain: a heavier branch has been switched to or dropped.                *)
(***************************************************************************)
HeaviestKnown ==
  pc = "idle" => \A b \in m_alternative_chains : Work[b] <= Work[Top]

(***************************************************************************)
(* rollback_blockchain_switching never reaches "PANIC!!! failed to add     *)
(* (again) block": each old block connects again, with the transactions    *)
(* its pop and the failed branch left in the pool.                         *)
(***************************************************************************)
RollbackReconnects == pc = "rollback_push" => Connects(OldBlock)

(***************************************************************************)
(* When a switch ends, however it ends, every transaction of the blocks it *)
(* disconnected is in the main chain again or in the pool.                 *)
(***************************************************************************)
NoTxLost ==
  [][pc # "idle" /\ pc' = "idle" =>
       \A i \in DOMAIN disconnected_chain : \A t \in TxSet(disconnected_chain[i]) :
         have_tx(t)' \/ have_tx_chain(t)']_vars

(***************************************************************************)
(* A transaction that fill_block_template takes for a block on the current *)
(* top passes handle_block_to_main_chain's own check there, whatever       *)
(* earlier outcome its pool entry caches.                                  *)
(***************************************************************************)
ReadyIsMinable ==
  pc = "idle" =>
    \A t \in PoolTxs : is_transaction_ready_to_go(t) =>
      check_tx_inputs(t, m_transactions[t].sigs, is_in_checkpoint_zone(Len(m_db_blocks)),
                      ChainSources, m_db_spent_keys)

(***************************************************************************)
(* Ring signatures are left unchecked, and cleared, only up to the last    *)
(* checkpoint: every transaction in a main chain block above it has been   *)
(* verified and is stored with its signatures.                             *)
(***************************************************************************)
PastZoneSigned ==
  \A i \in DOMAIN m_db_blocks :
    (\A p \in DOMAIN CheckpointAt : p < i - 1) =>
      \A t \in TxSet(m_db_blocks[i]) : t \in SignedTxs /\ m_db_transactions[t] = "signed"

(***************************************************************************)
(* "we already sure that this tx is broken for this height": a transaction *)
(* refused because of its recorded failure fails the check now.            *)
(***************************************************************************)
RefusalIsSound ==
  pc = "idle" =>
    \A t \in PoolTxs :
      m_transactions[t].max_used = NoBlock /\ RefusedUnchecked(t)
        => ~CheckNow(t, m_transactions[t].sigs)

(* The locks held for a switch are released in the end; a pop that fails   *)
(* releases them too.                                                      *)
SwitchEnds == pc # "idle" ~> (pc = "idle" \/ ~PopsSucceed)

(***************************************************************************)
(* The ledger seen from outside: while the locks are held, the chain the   *)
(* switch started from.                                                    *)
(***************************************************************************)
Ledger ==
  CASE pc = "idle" -> m_db_blocks
    [] pc = "pop"  -> m_db_blocks \o disconnected_chain
    [] OTHER       -> SubSeq(m_db_blocks, 1, Split) \o disconnected_chain

GoodBlocks ==
  {b \in PowBlocks \cap PrevalidBlocks \cap RewardBlocks :
     Height(b) \in DOMAIN CheckpointAt => b = CheckpointAt[Height(b)]}

Abstract == INSTANCE BestChain WITH ledger <- Ledger

(***************************************************************************)
(* The detailed storage implements BestChain: a switch is all or nothing,  *)
(* a failed one restores the old chain exactly, and the chain only ever    *)
(* moves to heavier, acceptable paths.                                     *)
(***************************************************************************)
ImplementsBestChain == Abstract!Spec
=============================================================================
