------------------------------- MODULE Wallet -------------------------------
(***************************************************************************)
(* A wallet (wallet2) that follows the chain of one daemon: refresh pulls  *)
(* blocks, detects splits, records what it receives and what is spent;     *)
(* transfer sends a transaction and locks its sources; store and load keep *)
(* the wallet in a file.  The daemon moves between branches, and any call  *)
(* to it may be lost.  A watch-only wallet (m_is_view_only) has no spend   *)
(* key: it knows the key images only that came with signed transactions.   *)
(*                                                                         *)
(* Between two calls to the daemon the wallet runs alone (its callers hold *)
(* one lock), so refresh is cut into steps at the calls; the other         *)
(* operations are guarded by run.stage = "idle".  Amounts, payment ids,    *)
(* the transfer history and time locks are left out; heights count from 0  *)
(* as in the code, sequences from 1.                                       *)
(***************************************************************************)
EXTENDS Naturals, Sequences, FiniteSets, SequencesExt

CONSTANTS
  Blocks, Genesis,   \* the block tree
  Parent, Work,      \* its edges, and the work of the chain up to a block
  TxsOf,             \* the transactions of a block, in order
  Txs, OwnTxs,       \* transactions; the ones this wallet may make itself
  Ins, Outs,         \* key images a transaction spends; outputs to us, in order
  KeyImage,          \* the key image of an output to us
  NoKey,             \* null_key_image
  None,              \* no file yet
  ViewOnly,          \* which kinds of wallet: a subset of BOOLEAN
  SpendableAge,      \* DEFAULT_TX_SPENDABLE_AGE
  Dense,             \* ids before get_short_chain_history thins out (10)
  MaxCount,          \* COMMAND_RPC_GET_BLOCKS_FAST_MAX_COUNT
  MaxLost, MaxKills  \* bounds: lost calls and kills in a behaviour

ASSUME WalletAssumption ==
  /\ Genesis \in Blocks /\ ViewOnly \subseteq BOOLEAN /\ OwnTxs \subseteq Txs
  /\ {SpendableAge, Dense, MaxLost, MaxKills} \subseteq Nat
  /\ MaxCount \in Nat \ {0} /\ NoKey \notin Range(KeyImage)
  /\ TxsOf \in [Blocks -> Seq(Txs)] /\ Outs \in [Txs -> Seq(DOMAIN KeyImage)]

VARIABLES
  m_is_view_only,
  w,            \* the members of wallet2 that are stored
  run,          \* where refresh is
  wallet_file,  \* what store wrote last
  pki_file,     \* m_pending_key_images_file_container: output keys, in order
  unsigned,     \* watch-only: transfers saved in files for signing
  made,         \* own transactions constructed so far
  top, pool,    \* the daemon's top block and transaction pool
  net,          \* own transactions that left the wallet
  half,         \* history: <<output, height>> from blocks not finished yet
  half_stored,  \* history: half, as it was at the last store
  lost, kills

vars == <<m_is_view_only, w, run, wallet_file, pki_file, unsigned, made,
          top, pool, net, half, half_stored, lost, kills>>
Daemon == <<top, pool, net>>
File == <<wallet_file, half_stored>>
Files == <<wallet_file, half_stored, pki_file>>
Offline == <<unsigned, made>>

-----------------------------------------------------------------------------
(* The daemon.                                                             *)

ChainTo[b \in Blocks] ==
  IF b = Genesis THEN <<Genesis>> ELSE Append(ChainTo[Parent[b]], b)
Chain == [b \in Blocks |-> ChainTo[b]]

TxsIn(chain) == UNION {Range(TxsOf[b]) : b \in Range(chain)}
SpentIn(chain) == UNION {Ins[t] : t \in TxsIn(chain)}
OutsIn(chain) == UNION {Range(Outs[t]) : t \in TxsIn(chain)}
\* The outputs paid to us before the n-th transaction of block b.
PaidBefore(b, n) ==
  (IF b = Genesis THEN {} ELSE OutsIn(Chain[Parent[b]]))
    \cup UNION {Range(Outs[TxsOf[b][i]]) : i \in 1..(n - 1)}

\* What the daemon's own checks make of the block tree: every block but the
\* first has its parent in it (so that Chain is defined), nobody spends an
\* output of ours before it exists, and the genesis block, which the wallet
\* takes for granted, pays us nothing.
ASSUME TreeAssumption ==
  /\ Chain[Genesis] = <<Genesis>> /\ OutsIn(<<Genesis>>) = {}
  /\ \A b \in Blocks :
       /\ Chain[b] \in Seq(Blocks)
       /\ b # Genesis => Parent[b] \in Blocks /\ Chain[b] = Append(Chain[Parent[b]], b)
       /\ \A n \in DOMAIN TxsOf[b] :
            Ins[TxsOf[b][n]] \cap Range(KeyImage)
              \subseteq {KeyImage[o] : o \in PaidBefore(b, n)}

Recorded(m) == {<<td.out, td.m_block_height>> : td \in Range(m.m_transfers)}

\* The daemon adopts a heavier chain: what it disconnects goes back to the
\* pool.  A transaction of this wallet is mined only once it was sent.
DaemonMoves(b) ==
  /\ Work[b] > Work[top]
  /\ TxsIn(Chain[b]) \cap OwnTxs \subseteq net
  /\ top' = b
  /\ pool' = (pool \cup TxsIn(Chain[top])) \ TxsIn(Chain[b])
  /\ UNCHANGED <<m_is_view_only, w, run, Files, Offline, net, half, lost, kills>>

\* handle_incoming_tx on the daemon: the sources exist and nothing on the
\* chain or in the pool has spent them.
Accepts(t) ==
  /\ Ins[t] \subseteq {KeyImage[o] : o \in OutsIn(Chain[top])}
  /\ Ins[t] \cap SpentIn(Chain[top]) = {}
  /\ \A p \in pool \ {t} : Ins[p] \cap Ins[t] = {}

-----------------------------------------------------------------------------
(* Receiving, spending and detaching, on the stored members.               *)

Empty == [m_blockchain |-> <<Genesis>>, m_transfers |-> <<>>,
          m_key_images |-> <<>>, m_unconfirmed_txs |-> {},
          m_tx_keys |-> {}, m_pending_key_images |-> {}]

\* clear: the transaction keys and the pending key images survive it.
clear(m) == [Empty EXCEPT !.m_tx_keys = m.m_tx_keys,
                          !.m_pending_key_images = m.m_pending_key_images]

set_transfer_spent_flag(m, indexes, flag) ==
  [m EXCEPT !.m_transfers = [i \in DOMAIN @ |->
     IF i \in indexes THEN [@[i] EXCEPT !.m_spent = flag] ELSE @[i]]]

\* The key image of an output just received, as far as this wallet knows it.
KnownImage(m, o) ==
  IF m_is_view_only /\ o \notin m.m_pending_key_images
  THEN NoKey ELSE KeyImage[o]

\* One output of the loop in process_new_transaction; one whose key image is
\* known already can never be spent and is skipped.
Received(m, o, h) ==
  LET ki == KnownImage(m, o)
      i == Len(m.m_transfers) + 1
      td == [out |-> o, m_block_height |-> h, m_spent |-> FALSE,
             m_key_image |-> ki]
  IN IF ki \in DOMAIN m.m_key_images THEN m
     ELSE [m EXCEPT
             !.m_transfers = Append(@, td),
             !.m_key_images = IF ki = NoKey THEN @
                ELSE [k \in DOMAIN @ \cup {ki} |-> IF k = ki THEN i ELSE @[k]]]

process_unconfirmed(m, t) == [m EXCEPT !.m_unconfirmed_txs = @ \ {t}]

\* (mutant) only the transactions the wallet sent itself mark their sources
SentByUs(m, t) ==
  {m.m_key_images[k] : k \in (IF t \in m.m_tx_keys THEN Ins[t] ELSE {})
                               \cap DOMAIN m.m_key_images}
\* The indexes of the transfers that t spends, as far as they are known.
Own(m, t) == {m.m_key_images[k] : k \in Ins[t] \cap DOMAIN m.m_key_images}

process_new_transaction(m, t, h) ==
  LET got[n \in 0..Len(Outs[t])] ==
        IF n = 0 THEN process_unconfirmed(m, t)
        ELSE Received(got[n - 1], Outs[t][n], h)
      all == got[Len(Outs[t])]
  IN set_transfer_spent_flag(all, Own(all, t), TRUE)

\* detach_blockchain drops everything from a height on.  It throws at the
\* first transfer whose key image is not found; the key images of the
\* transfers before it are erased by then.
FirstFrom(m, h) ==
  LET at == {i \in DOMAIN m.m_transfers : m.m_transfers[i].m_block_height >= h}
  IN IF at = {} THEN Len(m.m_transfers) + 1 ELSE Min(at)

Unfound(m, h) ==
  {i \in FirstFrom(m, h)..Len(m.m_transfers) :
     \/ m.m_transfers[i].m_key_image \notin DOMAIN m.m_key_images
     \/ \E j \in FirstFrom(m, h)..(i - 1) :
          m.m_transfers[j].m_key_image = m.m_transfers[i].m_key_image}

ImagesErased(m, first, last) ==
  [m EXCEPT !.m_key_images =
     LET gone == {m.m_transfers[i].m_key_image : i \in first..last}
     IN [k \in DOMAIN @ \ gone |-> @[k]]]

\* (mutant) the key images of the detached transfers stay
ImagesKept(m, h) ==
  [m EXCEPT !.m_transfers = SubSeq(@, 1, FirstFrom(m, h) - 1),
            !.m_blockchain = SubSeq(@, 1, h)]
detach_blockchain(m, h) ==
  LET first == FirstFrom(m, h)
  IN [ImagesErased(m, first, Len(m.m_transfers)) EXCEPT
        !.m_transfers = SubSeq(@, 1, first - 1),
        !.m_blockchain = SubSeq(@, 1, h)]

-----------------------------------------------------------------------------
(* refresh and pull_blocks.                                                *)

\* run.left: the blocks of the answer still to do, the first at run.height;
\* run.entry: whether that first one is under way, run.txs what is left of it.
Idle == [stage |-> "idle", left |-> <<>>, height |-> 0, entry |-> "none",
         txs |-> <<>>, added |-> FALSE, fetched |-> FALSE]

\* (mutant) only the genesis block is sent
GenesisOnly(size) == {0}
\* get_short_chain_history: the heights whose ids are sent.  Offsets from the
\* end grow by one at first and then double; genesis is always last.
get_short_chain_history(size) ==
  {0} \cup {size - o : o \in {n \in 1..(size - 1) :
     n <= Dense + 1 \/ \E k \in 1..size : n + 1 = Dense + 2^(k + 1)}}

\* How many blocks the wallet and the daemon have in common.
Common(chain) ==
  Cardinality({i \in DOMAIN chain : i \in DOMAIN Chain[top] /\ chain[i] = Chain[top][i]})

\* The call getblocks.bin: the daemon starts from the highest id it has on
\* its chain, that block included (find_blockchain_supplement); the blocks
\* the wallet has already are passed over.
PullBlocks ==
  /\ run.stage \in {"idle", "loop"}
  /\ \E common \in {Common(w.m_blockchain)} :
     \E start \in {Max({h \in get_short_chain_history(Len(w.m_blockchain)) :
                          h < common})} :
     \E end \in {Min({Len(Chain[top]), start + MaxCount})} :
       run' = [Idle EXCEPT !.stage = "pull", !.height = Min({common, end}),
                 !.left = SubSeq(Chain[top], Min({common, end}) + 1, end),
                 !.fetched = run.fetched]
  /\ UNCHANGED <<m_is_view_only, w, Files, Offline, Daemon, half, lost, kills>>

\* An exception leaves pull_blocks: refresh tries again or gives up (after
\* try_count tries); what the wallet did so far stays.
Throws ==
  \E again \in BOOLEAN :
    run' = IF again THEN [Idle EXCEPT !.stage = "loop",
                            !.fetched = run.fetched \/ run.added] ELSE Idle

PullLost ==
  /\ run.stage = "loop" /\ lost < MaxLost
  /\ run' = Idle /\ lost' = lost + 1
  /\ UNCHANGED <<m_is_view_only, w, Files, Offline, Daemon, half, kills>>

CallFails == lost < MaxLost /\ lost' = lost + 1

AtEntry == run.stage = "pull" /\ run.entry = "none" /\ run.left # <<>>
Split == run.height < Len(w.m_blockchain)

EntryNew ==
  /\ AtEntry /\ ~Split
  /\ run' = [run EXCEPT !.entry = "new", !.txs = TxsOf[Head(run.left)]]
  /\ UNCHANGED <<m_is_view_only, w, Files, Offline, Daemon, half, lost, kills>>

EntrySplit ==
  /\ AtEntry /\ Split
  /\ LET bad == Unfound(w, run.height)
     IN IF bad = {}
        THEN /\ w' = detach_blockchain(w, run.height)
             /\ half' = half \cap Recorded(w')
             /\ run' = [run EXCEPT !.entry = "split",
                                   !.txs = TxsOf[Head(run.left)]]
        ELSE /\ w' = ImagesErased(w, FirstFrom(w, run.height), Min(bad) - 1)
             /\ Throws /\ UNCHANGED half
  /\ UNCHANGED <<m_is_view_only, Files, Offline, Daemon, lost, kills>>

InEntry(t) == run.entry # "none" /\ run.txs # <<>> /\ t = Head(run.txs)

\* One transaction of the block.  The daemon is asked for the indexes of its
\* outputs (get_o_indexes.bin) when some are ours.
ProcessTx(t) ==
  /\ InEntry(t)
  /\ Outs[t] = <<>> \/ t \in TxsIn(Chain[top])
  /\ w' = process_new_transaction(w, t, run.height)
  /\ half' = half \cup (Recorded(w') \ Recorded(w))
  /\ run' = [run EXCEPT !.txs = Tail(@)]
  /\ UNCHANGED <<m_is_view_only, Files, Offline, Daemon, lost, kills>>

\* The call fails; the transaction is no longer unconfirmed by then.
Interrupted(t) ==
  /\ InEntry(t) /\ Outs[t] # <<>>
  /\ w' = process_unconfirmed(w, t)
  /\ Throws
  /\ UNCHANGED <<m_is_view_only, Files, Offline, Daemon, half, kills>>

\* The daemon has left that block meanwhile and does not know the indexes.
ProcessTxGone(t) ==
  Interrupted(t) /\ t \notin TxsIn(Chain[top]) /\ UNCHANGED lost

ProcessTxLost(t) == Interrupted(t) /\ CallFails

\* The end of process_new_blockchain_entry.  Only a block beyond the wallet's
\* chain is counted in blocks_added, not the first one after a split.
EntryDone ==
  /\ run.entry # "none" /\ run.txs = <<>>
  /\ w' = [w EXCEPT !.m_blockchain = Append(@, Head(run.left))]
  /\ half' = half \ (OutsIn(<<Head(run.left)>>) \X {run.height})
  /\ run' = [run EXCEPT !.left = Tail(@), !.height = @ + 1, !.entry = "none",
                        !.added = @ \/ run.entry = "new"]
  /\ UNCHANGED <<m_is_view_only, Files, Offline, Daemon, lost, kills>>

\* The answer is done.  Refresh pulls again as long as blocks were added, and
\* relays the unconfirmed transactions at the end (resend_unconfirmed).
PullDone ==
  /\ run.stage = "pull" /\ run.entry = "none" /\ run.left = <<>>
  /\ IF run.added
     THEN /\ run' = [Idle EXCEPT !.stage = "loop", !.fetched = TRUE]
          /\ UNCHANGED <<net, lost>>
     ELSE /\ run' = Idle
          /\ \/ /\ net' = IF run.fetched THEN net \cup w.m_unconfirmed_txs ELSE net
                /\ UNCHANGED lost
             \/ run.fetched /\ CallFails /\ UNCHANGED net
  /\ UNCHANGED <<m_is_view_only, w, Files, Offline, top, pool, half, kills>>

-----------------------------------------------------------------------------
(* transfer, and the two halves it has in a watch-only wallet.             *)

is_transfer_unlocked(td) ==
  td.m_block_height + SpendableAge <= Len(w.m_blockchain)

\* select_transfers: free transfers, one for each key image that t spends.
Sources(t) ==
  {src \in [Ins[t] -> DOMAIN w.m_transfers] :
     \A k \in Ins[t] :
       LET td == w.m_transfers[src[k]]
       IN ~td.m_spent /\ is_transfer_unlocked(td) /\ KeyImage[td.out] = k}

AddPending(m, outs) == [m EXCEPT !.m_pending_key_images = @ \cup outs]
\* (mutant) the pending key images are kept in the wallet's own file only
FileSkipped(outs) == pki_file' = pki_file
ToFile(outs) == pki_file' = pki_file \o SetToSeq(outs \ w.m_pending_key_images)

\* What finalize_transaction does once the transaction is out: the sources
\* are locked, the transaction and its key remembered.  A watch-only wallet
\* learns the key images of the sources (u.outs) and of the change.
Finalized(t, src, outs) ==
  LET locked == [set_transfer_spent_flag(w, Range(src), TRUE) EXCEPT
                   !.m_unconfirmed_txs = @ \cup {t}, !.m_tx_keys = @ \cup {t}]
      named == [AddPending(locked, outs) EXCEPT
                  !.m_transfers = [i \in DOMAIN @ |->
                     IF i \in Range(src)
                     THEN [@[i] EXCEPT !.m_key_image =
                             CHOOSE k \in DOMAIN src : src[k] = i]
                     ELSE @[i]],
                  !.m_key_images = [k \in DOMAIN @ \cup DOMAIN src |->
                     IF k \in DOMAIN src THEN src[k] ELSE @[k]]]
  IN IF m_is_view_only THEN w' = named /\ ToFile(outs)
     ELSE w' = locked /\ UNCHANGED pki_file

\* The transaction is refused, or no answer comes: the sources are unlocked.
\* The daemon may have taken the transaction all the same.
Unlocked(src) == w' = set_transfer_spent_flag(w, Range(src), FALSE)

Sent(t) == net' = net \cup {t} /\ pool' = pool \cup {t}

\* finalize_transaction with the call sendrawtransaction.
finalize_transaction(t, src, outs) ==
  \/ /\ Accepts(t) /\ Sent(t)
     /\ Range(src) \subseteq DOMAIN w.m_transfers
     /\ Finalized(t, src, outs) /\ UNCHANGED lost
  \/ \* accepted, but a source index is stale: set_transfer_spent_flag throws
     /\ Accepts(t) /\ Sent(t)
     /\ ~ (Range(src) \subseteq DOMAIN w.m_transfers)
     /\ w' = set_transfer_spent_flag(w, Range(src), TRUE)
     /\ UNCHANGED <<pki_file, lost>>
  \/ /\ Accepts(t) /\ CallFails /\ Sent(t) /\ Unlocked(src) /\ UNCHANGED pki_file
  \/ /\ CallFails /\ Unlocked(src) /\ UNCHANGED <<net, pool, pki_file>>
  \/ /\ ~Accepts(t) /\ Unlocked(src) /\ UNCHANGED <<net, pool, pki_file, lost>>

Transfer(t) ==
  /\ run.stage = "idle" /\ ~m_is_view_only /\ t \in OwnTxs \ made
  /\ \E src \in Sources(t) : finalize_transaction(t, src, {})
  /\ made' = made \cup {t}
  /\ UNCHANGED <<m_is_view_only, run, File, unsigned, top, half, kills>>

\* transfer with do_not_relay: the blob is handed to the caller.
TransferNotRelayed(t) ==
  /\ run.stage = "idle" /\ ~m_is_view_only /\ t \in OwnTxs \ made
  /\ \E src \in Sources(t) : Finalized(t, src, {})
  /\ made' = made \cup {t}
  /\ UNCHANGED <<m_is_view_only, run, File, unsigned, Daemon, half, lost, kills>>

\* transfer in a watch-only wallet: lock the sources, save them for signing.
TransferUnsigned(t) ==
  /\ run.stage = "idle" /\ m_is_view_only /\ t \in OwnTxs \ made
  /\ \E src \in Sources(t) :
       /\ w' = set_transfer_spent_flag(w, Range(src), TRUE)
       /\ unsigned' = unsigned \cup
            {[tx |-> t, src |-> src,
              outs |-> {w.m_transfers[i].out : i \in Range(src)}]}
  /\ made' = made \cup {t}
  /\ UNCHANGED <<m_is_view_only, run, Files, Daemon, half, lost, kills>>

SubmitTransfer(u) ==
  /\ run.stage = "idle" /\ u.tx \notin w.m_tx_keys
  /\ finalize_transaction(u.tx, u.src, u.outs \cup Range(Outs[u.tx]))
  /\ UNCHANGED <<m_is_view_only, run, File, Offline, top, half, kills>>

\* It throws when a source is not marked spent; an index out of range reads
\* and writes memory past the vector, which the wallet's state does not show.
CancelTransfer(u) ==
  /\ run.stage = "idle"
  /\ \A i \in Range(u.src) : i \in DOMAIN w.m_transfers => w.m_transfers[i].m_spent
  /\ w' = set_transfer_spent_flag(w, Range(u.src), FALSE)
  /\ UNCHANGED <<m_is_view_only, run, Files, Offline, Daemon, half, lost, kills>>

-----------------------------------------------------------------------------
(* store, and a start after a kill (load).  The file is truncated and      *)
(* written in place, see KillInStore.                                      *)

Store ==
  /\ run.stage = "idle" /\ wallet_file # w
  /\ wallet_file' = w /\ half_stored' = half
  /\ UNCHANGED <<m_is_view_only, w, run, pki_file, Offline, Daemon, half, lost, kills>>

\* load_keys2ki: fewer pending key images than the file has means that the
\* stored wallet is older than the file; it takes the file's and resyncs.
load_keys2ki(m) ==
  IF Cardinality(m.m_pending_key_images) < Len(pki_file)
  THEN clear([m EXCEPT !.m_pending_key_images = Range(pki_file)]) ELSE m

KillAndLoad ==
  /\ kills < MaxKills /\ kills' = kills + 1
  /\ LET m == IF wallet_file = None THEN Empty ELSE wallet_file
     IN w' = IF m_is_view_only THEN load_keys2ki(m) ELSE m
  /\ half' = half_stored \cap Recorded(w')
  /\ run' = Idle
  /\ UNCHANGED <<m_is_view_only, Files, Offline, Daemon, lost>>

\* Of a file cut short load keeps the transaction keys it could read and resyncs;
\* it is written down here as what the next load will read.
KillInStore ==
  /\ run.stage = "idle"
  /\ kills < MaxKills /\ kills' = kills + 1
  /\ \E keys \in SUBSET w.m_tx_keys : wallet_file' = [Empty EXCEPT !.m_tx_keys = keys]
  /\ w' = IF m_is_view_only THEN load_keys2ki(wallet_file') ELSE wallet_file'
  /\ half' = {} /\ half_stored' = {}
  /\ run' = Idle
  /\ UNCHANGED <<m_is_view_only, pki_file, Offline, Daemon, lost>>

-----------------------------------------------------------------------------
\* A wallet with the spend key is stored when it is generated; a watch-only
\* one starts from its keys file alone.
Init ==
  /\ m_is_view_only \in ViewOnly
  /\ w = Empty /\ run = Idle
  /\ wallet_file = IF m_is_view_only THEN None ELSE Empty
  /\ pki_file = <<>> /\ unsigned = {} /\ made = {}
  /\ top = Genesis /\ pool = {} /\ net = {}
  /\ half = {} /\ half_stored = {} /\ lost = 0 /\ kills = 0

Refresh ==
  \/ PullBlocks \/ EntryNew \/ EntrySplit
  \/ \E t \in Txs : ProcessTx(t) \/ ProcessTxGone(t)
  \/ EntryDone \/ PullDone

Next ==
  \/ Refresh \/ PullLost
  \/ \E t \in Txs : ProcessTxLost(t)
  \/ \E b \in Blocks : DaemonMoves(b)
  \/ \E t \in OwnTxs : Transfer(t) \/ TransferNotRelayed(t) \/ TransferUnsigned(t)
  \/ \E u \in unsigned : SubmitTransfer(u) \/ CancelTransfer(u)
  \/ Store \/ KillAndLoad \/ KillInStore

Spec == Init /\ [][Next]_vars
\* The wallet's owner refreshes it again and again (wallet_rpc_server and the
\* GUI do so on a timer).
FairSpec == Spec /\ WF_vars(Refresh)

-----------------------------------------------------------------------------
(* Properties.                                                             *)

Transfers == [out : DOMAIN KeyImage, m_block_height : Nat, m_spent : BOOLEAN,
              m_key_image : Range(KeyImage) \cup {NoKey}]

\* Type invariant of the members and of refresh.
TypeOK ==
  /\ m_is_view_only \in ViewOnly /\ top \in Blocks
  /\ Range(w.m_blockchain) \subseteq Blocks /\ w.m_blockchain # <<>>
  /\ Range(w.m_transfers) \subseteq Transfers
  /\ DOMAIN w.m_key_images \subseteq Range(KeyImage)
  /\ w.m_unconfirmed_txs \cup w.m_tx_keys \cup net \cup made \subseteq OwnTxs
  /\ Range(pki_file) \cup w.m_pending_key_images \subseteq DOMAIN KeyImage
  /\ run.stage \in {"idle", "loop", "pull"}
  /\ run.height <= Len(w.m_blockchain)

\* The transfers are those of the wallet's chain, across splits, failed calls
\* and restarts: apart from outputs left over from a block whose processing
\* was interrupted, every transfer is an output of the block at its height;
\* and a wallet with the spend key records every key image its chain has paid
\* to, once, and finds it through m_key_images.
FollowsChain ==
  /\ \A td \in Range(w.m_transfers) :
       <<td.out, td.m_block_height>> \notin half =>
       /\ td.m_block_height < Len(w.m_blockchain)
       /\ td.out \in OutsIn(<<w.m_blockchain[td.m_block_height + 1]>>)
  /\ ~m_is_view_only =>
       /\ {KeyImage[o] : o \in OutsIn(w.m_blockchain)}
            \subseteq DOMAIN w.m_key_images
       /\ Len(w.m_transfers) = Cardinality(DOMAIN w.m_key_images)
       /\ \A k \in DOMAIN w.m_key_images :
            /\ w.m_key_images[k] \in DOMAIN w.m_transfers
            /\ w.m_transfers[w.m_key_images[k]].m_key_image = k

\* A wallet with the spend key never offers for spending, or counts in its
\* balance, an output that its own chain has spent, whoever made the spending
\* transaction and whatever became of transfers refused or interrupted since.
SpentSeen ==
  ~m_is_view_only =>
    \A td \in Range(w.m_transfers) :
      td.m_key_image \in SpentIn(w.m_blockchain) => td.m_spent

\* A kill at any moment leaves files that load accepts: the stored wallet
\* never has more pending key images than their file ("UNRECOVERABLE ERROR,
\* wallet stops"), and the file names no output twice (insert failed).
LoadNeverStops ==
  /\ wallet_file # None =>
       Cardinality(wallet_file.m_pending_key_images) <= Len(pki_file)
  /\ Cardinality(Range(pki_file)) = Len(pki_file)

\* Once the daemon stays on its chain and answers, refreshing brings a wallet
\* with the spend key to that chain.
CatchesUp == m_is_view_only \/ <>[](w.m_blockchain = Chain[top])

\* detach_blockchain asserts that the key image of every transfer it detaches
\* is found ("key image not found", else it throws half way).
DetachFindsKeyImages == AtEntry /\ Split => Unfound(w, run.height) = {}
=============================================================================
