---------------------------- MODULE SyncProtocol ----------------------------
(***************************************************************************)
(* currency::t_currency_protocol_handler: one node downloading blocks from *)
(* its peers.  The node is the code's client side (the handlers of what a  *)
(* peer sends), the peers are its server side (handle_request_chain,       *)
(* handle_request_get_objects, get_payload_sync_data).  A connection is a  *)
(* TCP stream, so both directions are queues; it may break at any moment.  *)
(*                                                                         *)
(* Every handler that looks at the core runs inside                        *)
(* call_if_no_batch_exclusive_operation, which keeps its two locks         *)
(* (m_exclusive_batch_lock, m_blockchain_lock) to its end, and touches no  *)
(* context but its own: a handler is one step.  The batch flag is set and  *)
(* cleared inside that region, so no other thread ever finds it set and    *)
(* the branches for have_called = false are not taken.                     *)
(*                                                                         *)
(* The core is blockchain_storage as ChainStorage shows it to be: a main   *)
(* chain (its top block), alternative blocks and blocks marked invalid.    *)
(*                                                                         *)
(* A block's id fixes the ids of its transactions, and a transaction's id  *)
(* fixes its prefix, not its signatures.  handle_response_get_objects      *)
(* compares the number of transactions only and a transaction kept by a    *)
(* block enters the pool unchecked, so a peer can leave the pool without   *)
(* the transactions a good block needs, or with other signatures.  Such a  *)
(* block is spoilt: it fails, from whichever peer it comes.  It stays so   *)
(* in the model, where the code recovers when the pool drops the           *)
(* transaction; nothing is claimed of a spoilt block.                      *)
(***************************************************************************)
EXTENDS Integers, Sequences, FiniteSets, SequencesExt, FiniteSetsExt, Subsequence

CONSTANTS
  Blocks, Genesis,
  Path,              \* Path[b]: the blocks from Genesis to b
  Work,              \* Work[b]: cumulative difficulty
  Invalid,           \* blocks the main chain refuses
  BadTx,             \* blocks with a transaction that handle_incoming_tx refuses
  TxBlocks,          \* blocks with transactions besides the miner's
  Peers,
  Outgoing,          \* the peers this node dials (~m_is_income)
  Tampering,         \* the peers that may send transactions with other signatures
  Served,            \* Served[p]: the blocks p's main chain may ever end in
  StartTop,          \* the node's top block at start
  PeerStart,         \* PeerStart[p]: p's top block at start
  Unsynced,          \* the peers not m_been_synchronized at start
  ExplicitOnline,    \* --explicit-set-online
  Found,             \* the blocks this node may find itself
  LocalCheckpoint,   \* get_top_checkpoint_height, the node's one checkpoint; 0: none
  RemoteCheckpoint,  \* RemoteCheckpoint[p]: p's last_checkpoint_height
  IdsCount,          \* BLOCKS_IDS_SYNCHRONIZING_DEFAULT_COUNT
  BatchCount,        \* BLOCKS_SYNCHRONIZING_DEFAULT_COUNT
  DenseCount,        \* 10: ids in a row at the head of a short history
  FailsBeforBlock,   \* P2P_IP_FAILS_BEFOR_BLOCK
  MaxConnects        \* bound: MaxConnects[p] connections are ever made with p

Main(b) == ToSet(Path[b])
Height(b) == Len(Path[b])       \* get_current_blockchain_height with top b
Prev(b) == Path[b][Len(Path[b]) - 1]

ASSUME SyncAssumption ==
  /\ Genesis \in Blocks
  /\ Path \in [Blocks -> Seq(Blocks)]
  /\ \A b \in Blocks : /\ Path[b] # <<>>
                       /\ Path[b][1] = Genesis
                       /\ Path[b][Len(Path[b])] = b
  /\ \A b \in Blocks : \A i \in DOMAIN Path[b] :
        Path[Path[b][i]] = SubSeq(Path[b], 1, i)
  /\ Work \in [Blocks -> Nat]
  /\ Invalid \subseteq Blocks \ {Genesis} /\ BadTx \subseteq Blocks \ {Genesis}
  /\ TxBlocks \subseteq Blocks
  /\ Outgoing \subseteq Peers /\ Tampering \subseteq Peers
  /\ Served \in [Peers -> SUBSET Blocks]
  /\ StartTop \in Blocks /\ Main(StartTop) \cap Invalid = {}
  /\ PeerStart \in [Peers -> Blocks]
  /\ Unsynced \subseteq Peers /\ ExplicitOnline \in BOOLEAN
  /\ Found \subseteq Blocks \ ({Genesis} \cup Invalid \cup BadTx)
  /\ LocalCheckpoint \in Nat /\ RemoteCheckpoint \in [Peers -> Nat]
  /\ IdsCount \in Nat \ {0, 1} /\ BatchCount \in Nat \ {0}
  /\ DenseCount \in Nat /\ FailsBeforBlock \in Nat /\ MaxConnects \in [Peers -> Nat]

VARIABLES
  core,                 \* [top, alt, invalid] of blockchain_storage, and the spoilt blocks
  context,              \* context[p]: the currency_connection_context
  requests,             \* requests[p]: notifications under way to p
  inbox,                \* inbox[p]: messages under way from p
  peer,                 \* peer[p]: [top, synced], p's chain and m_been_synchronized
  m_synchronized,
  m_been_synchronized,
  m_want_stop,
  m_ip_fails_score,
  m_blocked_ips,
  connects              \* connects[p]: connections made so far

vars == <<core, context, requests, inbox, peer, m_synchronized,
          m_been_synchronized, m_want_stop, m_ip_fails_score, m_blocked_ips,
          connects>>
flags == <<m_synchronized, m_been_synchronized, m_want_stop>>
bans  == <<m_ip_fails_score, m_blocked_ips>>

Closed == [m_state |-> "closed", needed |-> <<>>, requested |-> {},
           remote_height |-> 0, last_response |-> 0, callbacks |-> 0]

States == {"closed", "befor_handshake", "synchronizing", "idle", "normal"}

Contexts == [m_state : States, needed : Seq(Blocks), requested : SUBSET Blocks,
             remote_height : Nat, last_response : Nat, callbacks : Nat]

Requests == [type : {"chain"}, ids : SUBSET Blocks]
            \cup [type : {"objects"}, blocks : Seq(Blocks)]

Messages == [type : {"payload"}, is_inital : BOOLEAN, height : Nat, top : Blocks]
            \cup [type : {"chain"}, start : Nat, total : Nat, ids : Seq(Blocks)]
            \cup [type : {"objects"}, blocks : Seq(Blocks), height : Nat]
            \cup [type : {"new_block"}, block : Blocks]

-----------------------------------------------------------------------------
(***************************************************************************)
(* The core.                                                               *)
(***************************************************************************)
have_block(c, b) == b \in Main(c.top) \cup c.alt \cup c.invalid

\* The part of b's branch that a switch to b drops: a block that fails and all above it.
FromInvalid(c, b) == {x \in Main(b) : Main(x) \cap (Invalid \cup c.spoilt) # {}}

\* is_height_passed_zone for b, with top the last block of the main chain.
PassedZone(b, top) ==
  LocalCheckpoint # 0 /\ Height(b) - 1 <= LocalCheckpoint /\ LocalCheckpoint <= Height(top) - 1

Verdict(c, result) == [core |-> c, result |-> result]

(***************************************************************************)
(* handle_block_to_main_chain: wrong inputs mark the block invalid, every  *)
(* other failure leaves no trace.                                          *)
(***************************************************************************)
ToMain(c, b) ==
  CASE b \in Invalid -> Verdict(c, "failed")
    [] b \notin Invalid /\ b \in c.spoilt ->
         Verdict([c EXCEPT !.invalid = @ \cup {b}], "failed")
    [] OTHER -> Verdict([c EXCEPT !.top = b], "added")

(***************************************************************************)
(* switch_to_alternative_blockchain: a block of the branch fails, or an    *)
(* old block is declined for the checkpoint the branch has reached; either *)
(* way the old chain is put back.                                          *)
(***************************************************************************)
Switch(c, b) ==
  CASE FromInvalid(c, b) # {} ->
         Verdict([c EXCEPT !.alt = @ \ FromInvalid(c, b),
                           !.invalid = @ \cup FromInvalid(c, b)], "failed")
    [] FromInvalid(c, b) = {} /\ (\E x \in Main(c.top) \ Main(b) : PassedZone(x, b)) ->
         Verdict([c EXCEPT !.alt = @ \cup {b}], "failed")
    [] OTHER -> Verdict([c EXCEPT !.top = b,
                                  !.alt = (@ \cup Main(c.top)) \ Main(b)], "added")

(***************************************************************************)
(* blockchain_storage::add_new_block, as far as its caller can tell.       *)
(***************************************************************************)
add_new_block(c, b) ==
  CASE have_block(c, b) -> Verdict(c, "exists")
    [] ~have_block(c, b) /\ Prev(b) = c.top -> ToMain(c, b)
    [] ~have_block(c, b) /\ Prev(b) # c.top /\ PassedZone(b, c.top) -> Verdict(c, "failed")
    [] /\ ~have_block(c, b) /\ Prev(b) # c.top /\ ~PassedZone(b, c.top)
       /\ Prev(b) \in Main(c.top) \cup c.alt ->
         IF Work[b] <= Work[c.top]
           THEN Verdict([c EXCEPT !.alt = @ \cup {b}], "alternative")
           ELSE Switch(c, b)
    [] OTHER -> Verdict(c, "orphaned")

(***************************************************************************)
(* A block_complete_entry: its transactions go to the core before it.      *)
(***************************************************************************)
handle_entry(c, b) ==
  IF b \in BadTx THEN Verdict(c, "tx_failed") ELSE add_new_block(c, b)

Failures == {"tx_failed", "failed", "orphaned"}

(***************************************************************************)
(* The core once p's transactions are in the pool.  Those of a block in    *)
(* the main chain are known and left alone.                                *)
(***************************************************************************)
WithTxsOf(p, c) ==
  {[c EXCEPT !.spoilt = @ \cup S] :
     S \in IF p \in Tampering THEN SUBSET (TxBlocks \ Main(c.top)) ELSE {{}}}

(***************************************************************************)
(* The batch loop of handle_response_get_objects over blocks: it ends at   *)
(* the first failure and keeps what it had added.                          *)
(***************************************************************************)
handle_batch(c, blocks) ==
  LET after[n \in 0..Len(blocks)] ==
        IF n = 0 THEN Verdict(c, "added")
        ELSE IF after[n - 1].result \in Failures THEN after[n - 1]
        ELSE handle_entry(after[n - 1].core, blocks[n])
  IN after[Len(blocks)]

(***************************************************************************)
(* get_short_chain_history: the top DenseCount + 1 ids, then ids at        *)
(* distances growing by 2, 4, 8..., and always the genesis block.          *)
(***************************************************************************)
BackOffsets(size) ==
  {o \in 1..(size - 1) :
     o <= DenseCount + 1 \/ \E j \in 1..size : o = DenseCount + 2^(j + 1) - 1}

get_short_chain_history(top) ==
  {Genesis} \cup {Path[top][Height(top) + 1 - o] : o \in BackOffsets(Height(top))}

-----------------------------------------------------------------------------
(***************************************************************************)
(* What several handlers do.                                               *)
(***************************************************************************)
ChainRequest(c) == [type |-> "chain", ids |-> get_short_chain_history(c.top)]

Asked(ctx, c, check) ==
  LET wanted == {b \in ToSet(ctx.needed) : ~(check /\ have_block(c, b))}
      full == {i \in DOMAIN ctx.needed :
                 Cardinality({j \in 1..i : ctx.needed[j] \in wanted}) = BatchCount}
      taken == Min(full \cup {Len(ctx.needed)})
  IN [blocks |-> OnlyIn(SubSeq(ctx.needed, 1, taken), wanted),
      rest |-> SubSeq(ctx.needed, taken + 1, Len(ctx.needed))]

FinalCondition(ctx) ==
  ctx.last_response = ctx.remote_height - 1 /\ ctx.requested = {}

NoFurtherIds(ctx, c, check) ==
  IF ctx.needed # <<>> THEN
    LET a == Asked(ctx, c, check) IN
    [ctx |-> [ctx EXCEPT !.needed = a.rest, !.requested = @ \cup ToSet(a.blocks)],
     out |-> <<[type |-> "objects", blocks |-> a.blocks]>>]
  ELSE
    [ctx |-> IF FinalCondition(ctx) THEN [ctx EXCEPT !.m_state = "normal"] ELSE ctx,
     out |-> <<>>]

(***************************************************************************)
(* request_missing_objects: the new context and what is posted.            *)
(***************************************************************************)
request_missing_objects(ctx, c, check) ==
  IF ctx.needed # <<>> THEN
    LET a == Asked(ctx, c, check) IN
    [ctx |-> [ctx EXCEPT !.needed = a.rest, !.requested = @ \cup ToSet(a.blocks)],
     out |-> <<[type |-> "objects", blocks |-> a.blocks]>>]
  ELSE IF ctx.last_response < ctx.remote_height - 1 THEN
    [ctx |-> ctx, out |-> <<ChainRequest(c)>>]
  ELSE
    [ctx |-> IF FinalCondition(ctx) THEN [ctx EXCEPT !.m_state = "normal"] ELSE ctx,
     out |-> <<>>]

Received(p, type) == inbox[p] # <<>> /\ Head(inbox[p]).type = type

\* The handler ends: the message is gone, the context is ctx, out is posted.
Finish(p, ctx, out) ==
  /\ context' = [context EXCEPT ![p] = ctx]
  /\ inbox' = [inbox EXCEPT ![p] = Tail(@)]
  /\ requests' = [requests EXCEPT ![p] = @ \o out]

\* drop_connection: the context and everything under way are gone.
drop_connection(p) ==
  /\ context' = [context EXCEPT ![p] = Closed]
  /\ inbox' = [inbox EXCEPT ![p] = <<>>]
  /\ requests' = [requests EXCEPT ![p] = <<>>]

add_ip_fail(p) ==
  IF m_ip_fails_score[p] + 1 > FailsBeforBlock
    THEN /\ m_ip_fails_score' = [m_ip_fails_score EXCEPT ![p] = FailsBeforBlock \div 2]
         /\ m_blocked_ips' = m_blocked_ips \cup {p}
    ELSE /\ m_ip_fails_score' = [m_ip_fails_score EXCEPT ![p] = @ + 1]
         /\ UNCHANGED m_blocked_ips

-----------------------------------------------------------------------------
(***************************************************************************)
(* The node's handlers.                                                    *)
(***************************************************************************)

(***************************************************************************)
(* A connection is made; the first message on it is the peer's side of the *)
(* handshake.  A blocked address is refused (is_remote_ip_allowed).        *)
(***************************************************************************)
Payload(p, is_inital) ==
  [type |-> "payload", is_inital |-> is_inital,
   height |-> Height(peer[p].top), top |-> peer[p].top]

Connect(p) ==
  /\ context[p].m_state = "closed" /\ p \notin m_blocked_ips /\ ~m_want_stop
  /\ connects[p] < MaxConnects[p]
  /\ connects' = [connects EXCEPT ![p] = @ + 1]
  /\ context' = [context EXCEPT ![p].m_state = "befor_handshake"]
  /\ inbox' = [inbox EXCEPT ![p] = <<Payload(p, TRUE)>>]
  /\ UNCHANGED <<core, requests, peer, flags, bans>>

\* The stream breaks: both ends lose what was under way.
Disconnect(p) ==
  /\ context[p].m_state # "closed"
  /\ drop_connection(p)
  /\ UNCHANGED <<core, peer, flags, bans, connects>>

Unblock(p) ==
  /\ p \in m_blocked_ips
  /\ m_blocked_ips' = m_blocked_ips \ {p}
  /\ UNCHANGED <<core, context, requests, inbox, peer, flags, m_ip_fails_score, connects>>

\* The peer's checkpoints reach further than ours and we are still below them.
OutdatedFor(p) ==
  /\ RemoteCheckpoint[p] # 0
  /\ LocalCheckpoint < RemoteCheckpoint[p]
  /\ Height(core.top) < RemoteCheckpoint[p]

IgnoredBeforHandshake(ctx, m) == ctx.m_state = "befor_handshake" /\ ~m.is_inital

PayloadIgnored(ctx, m) ==
  \/ ctx.m_state = "befor_handshake" /\ ~m.is_inital
  \/ ctx.m_state = "synchronizing"

(***************************************************************************)
(* process_payload_sync_data, from a handshake (is_inital) or a timed sync *)
(* in either direction.  False from a handshake, or from a timed sync the  *)
(* peer began, closes the connection; false from the answer to our own     *)
(* timed sync is not looked at.                                            *)
(***************************************************************************)
process_payload_sync_data(p) ==
  /\ Received(p, "payload")
  /\ LET m == Head(inbox[p])
         ctx == [context[p] EXCEPT !.remote_height = m.height]
     IN \/ PayloadIgnored(ctx, m) /\ Finish(p, ctx, <<>>)
        \/ /\ ~PayloadIgnored(ctx, m)
           /\ IF ~m_been_synchronized /\ p \in Outgoing /\ m.height = 1 /\ m.is_inital
                THEN drop_connection(p)
              ELSE IF have_block(core, m.top)
                THEN Finish(p, [ctx EXCEPT !.m_state = "normal"], <<>>)
              ELSE IF OutdatedFor(p)
                THEN drop_connection(p) \/ (~m.is_inital /\ Finish(p, ctx, <<>>))
              ELSE Finish(p, [ctx EXCEPT !.m_state = "synchronizing",
                                         !.callbacks = @ + 1], <<>>)
  /\ UNCHANGED <<core, peer, flags, bans, connects>>

on_callback(p) ==
  /\ context[p].callbacks > 0
  /\ context' = [context EXCEPT ![p].callbacks = @ - 1]
  /\ requests' = IF context[p].m_state = "synchronizing"
                   THEN [requests EXCEPT ![p] = Append(@, ChainRequest(core))]
                   ELSE requests
  /\ UNCHANGED <<core, inbox, peer, flags, bans, connects>>

(***************************************************************************)
(* handle_notify_new_block.  The block goes to the core only when the node *)
(* is synchronised and the connection in its normal state; an orphan       *)
(* starts a download from this peer.                                       *)
(***************************************************************************)
handle_notify_new_block(p) ==
  /\ Received(p, "new_block")
  /\ \E c \in WithTxsOf(p, core) :
     LET v == handle_entry(c, Head(inbox[p]).block)
         ctx == context[p]
     IN IF ~m_synchronized \/ ctx.m_state # "normal" \/ ctx.remote_height <= 1
        THEN Finish(p, ctx, <<>>) /\ UNCHANGED core
        ELSE /\ core' = v.core
             /\ CASE v.result \in {"tx_failed", "failed"} -> drop_connection(p)
                  [] v.result = "orphaned" ->
                       Finish(p, [ctx EXCEPT !.m_state = "synchronizing"],
                              <<ChainRequest(v.core)>>)
                  [] OTHER -> Finish(p, ctx, <<>>)
  /\ UNCHANGED <<peer, flags, bans, connects>>

(***************************************************************************)
(* handle_response_chain_entry.                                            *)
(***************************************************************************)
handle_response_chain_entry(p) ==
  /\ Received(p, "chain")
  /\ LET m == Head(inbox[p])
         last == m.start + Len(m.ids) - 1
         unknown == {b \in ToSet(m.ids) : ~have_block(core, b)}
     IN \E ctx \in {[context[p] EXCEPT !.remote_height = m.total, !.last_response = last,
                                       !.needed = @ \o OnlyIn(m.ids, unknown)]} :
        LET r == request_missing_objects(ctx, core, FALSE) IN
        IF m.ids = <<>> \/ m.ids[1] \in unknown
        THEN drop_connection(p) /\ add_ip_fail(p)
        ELSE /\ IF last > m.total \/ m_want_stop
                  THEN drop_connection(p)
                  ELSE Finish(p, r.ctx, r.out)
             /\ UNCHANGED bans
  /\ UNCHANGED <<core, peer, flags, connects>>

IdleKeepsObjects(ctx) == [ctx EXCEPT !.m_state = "idle"]

SetIdle(ctx) == [ctx EXCEPT !.m_state = "idle", !.needed = <<>>, !.requested = {}]

(***************************************************************************)
(* What the first loop of handle_response_get_objects makes of the answer. *)
(* A second block that some other connection has delivered already ends    *)
(* the whole download from this peer.                                      *)
(***************************************************************************)
Prevalidation(ctx, blocks) ==
  CASE blocks # <<>> /\ m_want_stop -> "drop"
    [] blocks # <<>> /\ ~m_want_stop /\ blocks[1] \notin ctx.requested -> "drop"
    [] /\ ~m_want_stop /\ Len(blocks) > 1
       /\ blocks[1] \in ctx.requested /\ have_block(core, blocks[2]) -> "idle"
    [] OTHER -> IF ToSet(blocks) = ctx.requested /\ IsInjective(blocks)
                  THEN "handle" ELSE "drop"

(***************************************************************************)
(* handle_response_get_objects: the answer is validated, its blocks go to  *)
(* the core one after the other, and the next objects are requested.       *)
(* done < Len(blocks): the stop flag was raised while the batch ran.       *)
(***************************************************************************)
handle_response_get_objects(p) ==
  /\ Received(p, "objects")
  /\ LET m == Head(inbox[p])
         ctx == [context[p] EXCEPT !.remote_height = m.height]
         verdict == Prevalidation(ctx, m.blocks)
     IN \/ /\ ctx.last_response > m.height \/ verdict = "drop"
           /\ drop_connection(p)
           /\ UNCHANGED <<core, m_want_stop, bans>>
        \/ /\ ctx.last_response <= m.height /\ verdict = "idle"
           /\ Finish(p, SetIdle(ctx), <<>>)
           /\ UNCHANGED <<core, m_want_stop, bans>>
        \/ /\ ctx.last_response <= m.height /\ verdict = "handle"
           /\ \E c \in WithTxsOf(p, core) :
              LET v == handle_batch(c, m.blocks)
                  r == request_missing_objects([ctx EXCEPT !.requested = {}], v.core, TRUE)
              IN /\ core' = v.core
                 /\ IF v.result \in Failures THEN drop_connection(p)
                                             ELSE Finish(p, r.ctx, r.out)
                 /\ IF v.result \in {"failed", "orphaned"} THEN add_ip_fail(p)
                                                           ELSE UNCHANGED bans
           /\ UNCHANGED m_want_stop
        \/ /\ ctx.last_response <= m.height /\ verdict = "handle"
           /\ \E done \in 0..(Len(m.blocks) - 1), c \in WithTxsOf(p, core) :
                LET v == handle_batch(c, SubSeq(m.blocks, 1, done)) IN
                /\ v.result \notin Failures
                /\ core' = v.core
           /\ m_want_stop' = TRUE
           /\ drop_connection(p)
           /\ UNCHANGED bans
  /\ UNCHANGED <<peer, m_synchronized, m_been_synchronized, connects>>

(***************************************************************************)
(* on_idle: the share of connections in the normal state decides whether   *)
(* the node takes itself to be synchronised.                               *)
(***************************************************************************)
on_idle ==
  LET total == Cardinality({p \in Peers : context[p].m_state # "closed"})
      synced == Cardinality({p \in Peers : context[p].m_state = "normal"
                                          /\ context[p].remote_height > 1})
  IN /\ IF synced > 0 /\ synced > total \div 2 /\ ~m_synchronized
          THEN m_synchronized' = TRUE /\ m_been_synchronized' = TRUE
        ELSE IF (total = 0 \/ synced < total \div 3) /\ m_synchronized
          THEN m_synchronized' = FALSE /\ UNCHANGED m_been_synchronized
        ELSE UNCHANGED <<m_synchronized, m_been_synchronized>>
     /\ UNCHANGED <<core, context, requests, inbox, peer, m_want_stop, bans, connects>>

\* A block from the miner or from RPC: core::handle_block_found.
handle_block_found(b) ==
  /\ Prev(b) = core.top /\ ~have_block(core, b) /\ b \notin core.spoilt
  /\ core' = add_new_block(core, b).core
  /\ UNCHANGED <<context, requests, inbox, peer, flags, bans, connects>>

set_want_stop ==
  /\ ~m_want_stop
  /\ m_want_stop' = TRUE
  /\ UNCHANGED <<core, context, requests, inbox, peer, m_synchronized,
                 m_been_synchronized, bans, connects>>

-----------------------------------------------------------------------------
(***************************************************************************)
(* The peers: the same handler's other half, on their own chains.          *)
(***************************************************************************)
Answer(p, m) ==
  /\ requests' = [requests EXCEPT ![p] = Tail(@)]
  /\ inbox' = [inbox EXCEPT ![p] = Append(@, m)]
  /\ UNCHANGED <<core, context, peer, flags, bans, connects>>

Requested(p, type) == requests[p] # <<>> /\ Head(requests[p]).type = type

SupplementAfterSplit(top, history) ==
  LET split == Max({i \in DOMAIN Path[top] : Path[top][i] \in history})
  IN [type |-> "chain", start |-> split, total |-> Height(top),
      ids |-> SubSeq(Path[top], split + 1, Min({Height(top), split + IdsCount}))]

(***************************************************************************)
(* find_blockchain_supplement: ids from the highest block of the history   *)
(* that is in the main chain, that one included, IdsCount at most.         *)
(***************************************************************************)
find_blockchain_supplement(top, history) ==
  LET split == Max({i \in DOMAIN Path[top] : Path[top][i] \in history})
  IN [type |-> "chain", start |-> split - 1, total |-> Height(top),
      ids |-> SubSeq(Path[top], split, Min({Height(top), split + IdsCount - 1}))]

handle_request_chain(p) ==
  /\ Requested(p, "chain")
  /\ Answer(p, IF peer[p].synced
                 THEN find_blockchain_supplement(peer[p].top, Head(requests[p]).ids)
                 ELSE [type |-> "chain", start |-> 0, total |-> 1, ids |-> <<Genesis>>])

(***************************************************************************)
(* The blocks of the request that are in the main chain, in its order.     *)
(***************************************************************************)
handle_request_get_objects(p) ==
  /\ Requested(p, "objects")
  /\ peer[p].synced
  /\ Answer(p, [type |-> "objects", height |-> Height(peer[p].top),
                 blocks |-> OnlyIn(Head(requests[p]).blocks, Main(peer[p].top))])

(***************************************************************************)
(* A timed sync, the peer's or the answer to ours (every                   *)
(* P2P_DEFAULT_HANDSHAKE_INTERVAL); at most one is under way.              *)
(***************************************************************************)
timed_sync(p) ==
  /\ context[p].m_state # "closed"
  /\ \A i \in DOMAIN inbox[p] : inbox[p][i].type # "payload"
  /\ inbox' = [inbox EXCEPT ![p] = Append(@, Payload(p, FALSE))]
  /\ UNCHANGED <<core, context, requests, peer, flags, bans, connects>>

(***************************************************************************)
(* The peer's main chain gets heavier, by a block it mined or was sent     *)
(* (relayed to us when connected) or by a download of its own.             *)
(***************************************************************************)
PeerAdopt(p, b) ==
  /\ b \in Served[p] /\ Work[b] > Work[peer[p].top]
  /\ peer' = [peer EXCEPT ![p].top = b]
  /\ \/ UNCHANGED inbox
     \/ /\ context[p].m_state # "closed"
        /\ inbox' = [inbox EXCEPT ![p] = Append(@, [type |-> "new_block", block |-> b])]
  /\ UNCHANGED <<core, context, requests, flags, bans, connects>>

PeerSynchronized(p) ==
  /\ ~peer[p].synced
  /\ peer' = [peer EXCEPT ![p].synced = TRUE]
  /\ UNCHANGED <<core, context, requests, inbox, flags, bans, connects>>

-----------------------------------------------------------------------------
Init ==
  /\ core = [top |-> StartTop, alt |-> {}, invalid |-> {}, spoilt |-> {}]
  /\ context = [p \in Peers |-> Closed]
  /\ requests = [p \in Peers |-> <<>>]
  /\ inbox = [p \in Peers |-> <<>>]
  /\ peer = [p \in Peers |-> [top |-> PeerStart[p], synced |-> p \notin Unsynced]]
  /\ m_synchronized = FALSE
  /\ m_been_synchronized = ExplicitOnline
  /\ m_want_stop = FALSE
  /\ m_ip_fails_score = [p \in Peers |-> 0]
  /\ m_blocked_ips = {}
  /\ connects = [p \in Peers |-> 0]

Deliver(p) ==
  \/ process_payload_sync_data(p)
  \/ handle_notify_new_block(p)
  \/ handle_response_chain_entry(p)
  \/ handle_response_get_objects(p)

Serve(p) == handle_request_chain(p) \/ handle_request_get_objects(p)

Next ==
  \/ \E p \in Peers : Connect(p)
  \/ \E p \in Peers : Disconnect(p)
  \/ \E p \in Peers : Unblock(p)
  \/ \E p \in Peers : Deliver(p)
  \/ \E p \in Peers : on_callback(p)
  \/ \E p \in Peers : Serve(p)
  \/ \E p \in Peers : timed_sync(p)
  \/ \E p \in Peers, b \in Blocks : PeerAdopt(p, b)
  \/ \E p \in Peers : PeerSynchronized(p)
  \/ on_idle
  \/ \E b \in Found : handle_block_found(b)
  \/ set_want_stop

Spec == Init /\ [][Next]_vars

\* The blocks p may ever have in its main chain.
ServedBlocks(p) == UNION {Main(b) : b \in Served[p] \cup {PeerStart[p]}}

\* The peers that only ever serve good blocks, as they are.
Honest == {p \in Peers \ Tampering : ServedBlocks(p) \cap (Invalid \cup BadTx) = {}}

(***************************************************************************)
(* The network threads run what has arrived from a good peer, it answers   *)
(* while it is connected, and both sides' timers fire.  Nothing makes a    *)
(* connection, or keeps it.                                                *)
(***************************************************************************)
Fairness ==
  \A p \in Honest : /\ WF_vars(Deliver(p))
                    /\ WF_vars(on_callback(p))
                    /\ WF_vars(Serve(p))
                    /\ WF_vars(timed_sync(p))

FairSpec == Spec /\ Fairness

-----------------------------------------------------------------------------
(***************************************************************************)
(* Properties.                                                             *)
(***************************************************************************)

\* Every variable holds what its C++ declaration allows.
TypeOK ==
  /\ core \in [top : Blocks, alt : SUBSET Blocks, invalid : SUBSET Blocks,
               spoilt : SUBSET Blocks]
  /\ context \in [Peers -> Contexts]
  /\ requests \in [Peers -> Seq(Requests)]
  /\ inbox \in [Peers -> Seq(Messages)]
  /\ peer \in [Peers -> [top : Blocks, synced : BOOLEAN]]
  /\ m_synchronized \in BOOLEAN /\ m_been_synchronized \in BOOLEAN
  /\ m_want_stop \in BOOLEAN
  /\ m_ip_fails_score \in [Peers -> 0..FailsBeforBlock]
  /\ m_blocked_ips \subseteq Peers
  /\ connects \in [Peers -> Nat]

Under(p) ==
  context[p].callbacks + Len(requests[p])
  + Cardinality({i \in DOMAIN inbox[p] : inbox[p][i].type \in {"chain", "objects"}})

(***************************************************************************)
(* A connection in the synchronizing state has exactly one thing under way *)
(* (a callback, a request or an answer), any other connection none.  With  *)
(* none it would stay synchronizing for good: timed syncs are ignored      *)
(* there.  With two, the second answer would be taken for a wrong one and  *)
(* an honest peer dropped.                                                 *)
(***************************************************************************)
OneRequestUnderWay ==
  \A p \in Peers :
    Under(p) = IF context[p].m_state = "synchronizing" THEN 1 ELSE 0

(***************************************************************************)
(* "request_missing_blocks final condition failed!" is never logged: a     *)
(* download that has nothing left to ask for has reached the height the    *)
(* peer announced and lacks no object.                                     *)
(***************************************************************************)
FinalConditionMet ==
  \A p \in Peers :
    context[p].m_state = "synchronizing" /\ Under(p) = 0 => FinalCondition(context[p])

(***************************************************************************)
(* m_requested_objects is what the outstanding request asks for.  An       *)
(* answer is checked against it, so one id more or less drops the peer.    *)
(***************************************************************************)
RequestedIsOutstanding ==
  \A p \in Peers :
    /\ context[p].requested # {} =>
          \/ \E i \in DOMAIN requests[p] :
               /\ requests[p][i].type = "objects"
               /\ ToSet(requests[p][i].blocks) = context[p].requested
          \/ \E i \in DOMAIN inbox[p] : inbox[p][i].type = "objects"
    /\ context[p].m_state # "synchronizing" => context[p].needed = <<>>

\* Up to the checkpoint there is one chain of valid blocks.
CheckpointSettled ==
  \A x, y \in Blocks :
    /\ Height(x) = Height(y) /\ Height(x) - 1 <= LocalCheckpoint
    /\ (Main(x) \cup Main(y)) \cap Invalid = {}
    => x = y

(***************************************************************************)
(* A peer whose chain was always good gets no failure point, which would   *)
(* end in its address being blocked, whatever blocks other peers delivered *)
(* in the meantime and however its own chain changed.  Until some peer has *)
(* spoilt a block of its chain: the code then blames whoever sends that    *)
(* block, or the one after it.  And as long as no valid chain leaves the   *)
(* node's own below the checkpoint: it would be declined.                  *)
(***************************************************************************)
HonestNeverBlamed ==
  CheckpointSettled =>
    \A p \in Honest :
      ServedBlocks(p) \cap core.spoilt = {} =>
        m_ip_fails_score[p] = 0 /\ p \notin m_blocked_ips

(***************************************************************************)
(* The node ends up with the chain of every good, synchronised peer that   *)
(* it stays connected to ("we have to fetch more objects ids" until it has *)
(* them all), unless some peer has spoilt a block of that chain.           *)
(***************************************************************************)
CatchesUp ==
  \A p \in Honest :
    RemoteCheckpoint[p] <= LocalCheckpoint =>
      <>[](\/ context[p].m_state = "closed" \/ m_want_stop
           \/ ~peer[p].synced
           \/ ServedBlocks(p) \cap core.spoilt # {}
           \/ have_block(core, peer[p].top))
=============================================================================
