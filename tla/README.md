# Boolberry: TLA+ specification of the node

Boolberry is a CryptoNote currency. Its daemon keeps a block chain and a pool
of unconfirmed transactions, follows the heaviest valid branch it knows,
downloads blocks from its peers, and mines. This directory holds TLA+ modules
for the parts of the daemon that carry its logic, TLC configurations that check
them on small instances, and TLAPS proofs. Source paths are relative to the
repository (`src/currency_core/...`; `PROJECT.json` writes them with a leading
`src/`).

* `tlc -workers 2 -config X.cfg MC_Y` checks a configuration,
* `tlapm X.tla` checks the proofs of `ChainStorageProofs`, `BestChainProofs`,
  `SyncProofs`, `NetNodeProofs`, `ChainDbProofs`, `BlockRulesProofs`,
  `WalletProofs` and `SubsequenceProofs` (one to four minutes each),
* `PROJECT.json` maps every definition to the lines it models and lists the
  runs, the mutants that each property is known to catch, findings, hazards and
  theorems.

## 1. Inventory

| Component | State | Operations | Uses / used by |
|---|---|---|---|
| **blockchain_storage** (`currency_core/blockchain_storage.*`) | `m_db_blocks` (main chain), `m_db_transactions`, `m_db_spent_keys`, outputs, aliases, per block scratchpad data in the database; `m_alternative_chains`, `m_invalid_blocks`, `m_is_in_checkpoint_zone` in memory | `add_new_block` (main, alternative, reorganise, roll back), `pop_block_from_blockchain`, `check_tx_inputs`, `prune_aged_alt_blocks`, `create_block_template`, chain queries | feeds and empties the pool; called by core under pool lock, then chain lock |
| **checkpoints** (`checkpoints.*`) | table height -> id | `is_in_checkpoint_zone`, `is_height_passed_zone`, `check_block` | asked by blockchain_storage |
| **tx_memory_pool** (`tx_pool.*`) | `m_transactions` with cached check results, `m_spent_key_images`, the pool file | `add_tx`, `take_tx`, `remove_stuck_transactions`, `fill_block_template`, `is_transaction_ready_to_go`, load and store | asks blockchain_storage about inputs |
| **core** (`currency_core.*`) | `m_incoming_tx_lock`, the parts above | `handle_incoming_tx`, `handle_incoming_block`, `handle_block_found`, `on_idle`, start and stop | called by protocol handler, RPC, miner |
| **currency_protocol_handler** (`currency_protocol/*`) | per connection: state, `m_needed_objects`, `m_requested_objects`, remote height; `m_synchronized`, `m_been_synchronized`, `m_want_stop` | sync payloads, callback, chain and object requests and answers, new block and transaction notifications, `on_idle` | core; p2p node |
| **p2p node, peer lists** (`p2p/*`) | connections, white and gray list, failure scores, blocked addresses | connect, handshake, timed sync, ping, list maintenance | carries the protocol handler |
| **miner** (`miner.*`) | template, `m_pausers_count`, threads | `set_block_template`, `pause`, `resume`, worker loop | core |
| **scratchpad** (`scratchpad_helpers.*`) | memory mapped scratchpad, cache file | push and pop of a block's addendum | blockchain_storage, proof of work |
| **aliases** (`put_alias_info`, `pop_alias_info`) | name -> history, address -> names | register, update, undo | blockchain_storage |
| **database** (`common/db_*`) | LMDB environment, nested transactions, write lock | begin, commit, abort, containers with caches | blockchain_storage |
| **difficulty, reward** (`difficulty.cpp`, `currency_basic_impl.cpp`) | none | pure functions | blockchain_storage |
| **wallet2** (`wallet/*`) | transfers, payments, known chain | refresh, detach, transfer | RPC |
| format utils, cryptography, serialization, epee, RPC, user interfaces | | | not modelled, see 8 |

**What is hard here.**

* A reorganisation is a loop of pops and connects. Each can fail, and
  everything done so far then has to be undone by the same operations, in a
  state that includes a pool filled by the pops.
* Transactions are taken in over five short lock regions; a block may be
  handled between any two of them.
* Several cached facts (`max_used_block_id`, `last_failed_id`, the checkpoint
  flag, a peer's height) are used later than they were computed.
* A download is a chain of one-way messages. No timer watches it, so a handler
  that ends without sending something ends the download.
* The pool file is removed on load; alternative blocks live in memory only; an
  exception aborts the database transaction, not the memory.
* Five locks (incoming transactions, pool, chain, batch, database write) are
  taken in more than one order.
* A transaction's id is the hash of its prefix: the same block may arrive with
  other signatures, and fails because of what an earlier peer sent.

**What makes each part correct.** blockchain_storage: tables equal to what the
chain says, nothing spent twice, a switch all or nothing and only to a heavier
acceptable branch, no transaction lost. Pool: the index follows the entries, and a
template will be accepted. Protocol handler: one request
under way per download, no good peer blamed, the node catches up. Miner: hashes
the newest template when nobody pauses it. Database: what is committed is
between blocks. Scratchpad, aliases: pop is the inverse of push. Peer lists:
bounded, a good peer is not lost.

## 2. Modules

| Module | Models | Lines of code it stands for |
|---|---|---|
| `Checkpoints` | the three tests of `checkpoints.cpp`; the table is a constant | `checkpoints.cpp` |
| `BestChain` | abstract: one ledger that moves in one step to a heavier acceptable path | none, a specification |
| `ChainStorage` | blockchain_storage and tx_memory_pool, except taking transactions in; EXTENDS `Checkpoints`, INSTANCEs `BestChain` | `blockchain_storage.cpp`, `tx_pool.cpp`, `currency_core.cpp` |
| `TxIntake` | `handle_incoming_tx` at its lock regions and the specifications of ledger and pool; EXTENDS `ChainStorage` | `currency_core.cpp`, `tx_pool.cpp` |
| `SyncProtocol` | one node and its peers: block download over connections that break | `currency_protocol_handler.inl`, parts of `net_node.inl` |
| `PeerList` | the white and the gray list as operators | `net_peerlist.h` |
| `NetNode` | connections, handshakes, back pings, failed and blocked addresses; EXTENDS `PeerList` | `net_node.inl` |
| `Scratchpad` | push, pop and patch of the scratchpad as operators | `scratchpad_helpers.h` |
| `Aliases` | `put_alias_info` and `pop_alias_info` on their two tables as operators | `blockchain_storage.cpp` |
| `DbArray` | an array container with its two caches as operators | `db_abstract_accessor.h`, `cache_helper.h` |
| `ChainDb` | what is stored for a chain, over transactions, kills and restarts; EXTENDS `Scratchpad`, `Aliases`, `DbArray` | `blockchain_storage.cpp`, `scratchpad_helpers.cpp` |
| `BlockRules` | difficulty, timestamps and hash test of main and alternative blocks | `difficulty.cpp`, `blockchain_storage.cpp` |
| `Wallet` | a wallet, or watch-only wallet, and its daemon | `wallet2.cpp`, `wallet2.h`, the calls in `core_rpc_server.cpp` |
| `Miner` | worker threads, template, scratchpad copy, pause, start and stop | `miner.cpp`, its callers in `currency_core.cpp` and the protocol handler |
| `NodeLocks` | the lock and unlock steps of every handler | `currency_core.cpp`, `blockchain_storage.*`, `tx_pool.cpp`, protocol handler |
| `Subsequence` | `OnlyIn`: what is left of a list when the elements outside a set are taken out; used by `SyncProtocol` and `PeerList` | the loop of `request_missing_objects` |
| `ChainStorageProofs`, `BestChainProofs` | theorems about `IntakeSpec`: the ledger, and then switches and the refinement of `BestChain` | |
| `SyncProofs`, `NetNodeProofs`, `BlockRulesProofs`, `WalletProofs`, `SubsequenceProofs` | theorems about `SyncProtocol`, `NetNode` and the modules of those names | |
| `ChainDbProofs` | theorems about `ChainDb` and its operators in `Scratchpad`, `Aliases` and `DbArray` | |
| `MC_*` | block trees, transactions and peers for TLC | |

### ChainStorage

The variables carry the names of the members they model. Blocks form a fixed
tree (`Prev`, `Path`, `Work`); transactions are model values with key images
and ring member sources. What the code recomputes for a block from its
ancestors alone (height, cumulative difficulty, timestamp, proof of work, miner
transaction, reward) is a constant of the block: `PowBlocks`, `PrevalidBlocks`,
`RewardBlocks`. What depends on the node's state is computed in the state: spent
key images, presence in pool and chain, unlock heights, checkpoints passed.

`pc` is `idle` when nobody holds the locks. `add_new_block` keeps pool and
chain lock to its end, so a block that extends the main chain is one step
(`AddMainBlock`, which either connects or rejects the whole block) and a
reorganisation is a series of steps that nothing else interleaves with:

    AddAltBlock -> DisconnectOld* -> ConnectAlt* -> OldToAlt* -> idle
                                        | a block fails   | an old block is declined
                                        v                 v
                                     RollbackPop* -> RollbackPush* -> idle

`Connect`, `Reject` and `PopTop` are the only ways in which chain and tables
change. `Reject` includes what a failed block leaves behind: transactions back
in the pool, without their signatures when the flag said checkpoint zone, and
the block marked invalid when its inputs were wrong. `fill_block_template` only
changes the cached check results of the entries it asks about; which ones it
asks about depends on fees and sizes, so any subset may be.
`remove_stuck_transactions` may drop any set since receive times are arbitrary.
`Restart(crash)` keeps the database, forgets alternative and invalid blocks, and
keeps or loses the pool.

### TxIntake

`core::add_new_tx` asks the pool, then the chain; `tx_memory_pool::add_tx` asks
the key image index, checks the inputs, and inserts: five lock regions, five
actions, one transaction at a time (`m_incoming_tx_lock`). All other actions of
`ChainStorage` may come in between; there is no other way for a transaction to
get in, so everything that is checked and proved of the ledger is about
transactions taken in this way (`IntakeSpec`, `FairSpec`). A pop that fails
(finding 4) leaves a block without some of its data; behaviours are followed up
to that point (`PopsSucceed` in `IntakeNext`), which is why `chain_storage` does
not check for deadlock.

### SyncProtocol

The node is the client half of the handler, a peer the server half. A
connection is two queues, both emptied when it breaks. Every handler that looks
at the core runs inside `call_if_no_batch_exclusive_operation`, which holds the
batch and the chain lock to the end of the handler, so a handler is one action.
The core is a top block with alternative and invalid ones, `add_new_block` its
visible effect (as `ChainStorage` shows it), the refusal of blocks at or below a
passed checkpoint and the switch that is undone for them included (`PassedZone`).
What the core makes of a block does not depend on the block alone: a peer in
`Tampering` may send a block of `TxBlocks` with transactions that lack their
signatures or have wrong ones, since the handler compares only their number with the
block's (`currency_protocol_handler.inl:461`) and the id of a transaction is the
hash of its prefix. Such a block is `spoilt` from then on: it fails and is marked
invalid, from whichever peer it comes. `request_missing_objects` is the
three-way decision at the end of a handler: ask for objects (`Asked` says which),
ask for further ids, or finish.

### PeerList and NetNode

A peer list is a sequence ordered by `last_seen`, the oldest first, so that a
time is a place in it; an entry that arrives says before how many younger ones
it belongs. One thread runs `connections_maker`: `maker` is its program counter,
with the seed it is at, the indexes tried, and the calls of
`make_expected_connections_count` still to make. It waits for its own handshakes
(`handshake`, then `shaken`), and everything else happens in between: answers,
incoming connections with `handle_handshake` and the back ping, timed syncs,
lines that break. `Alive` nodes accept and answer correctly, `Flaky` ones may; a
node may claim an id that is not its own in a handshake, and a list may name
this node under an old id. A connection that the maker closes itself stays in
`closing`, and in the counts, until its last handler has run. `Unsteady` nodes
close connections as often as they like, the moment after the handshake too; what
the others do wrong is bounded by `MaxFaults`. `answered` is a history variable: which address has
answered this node under which id.

### Scratchpad, Aliases, DbArray and ChainDb

Three modules of operators and one state machine over them. A hash in the
scratchpad is a set of atoms and `xor_pod` their symmetric difference, which
keeps what matters: patches of one index add up, and an entry that occurs twice
cancels out. A container is a record of the database's content, the value cache
with its list of recent keys, and the cached size; each operation is what it
returns and what it leaves behind (`size` and `Sized`, `get` and `Got`, `back`
and `Backed`), since reading changes the caches. `set` pushes a second node for
a key that is cached already, as `cache_base::set` does.

`ChainDb` has one transaction per `add_new_block`, in which blocks are popped
and pushed in any number; `Kill` ends the process at any point, also while
`deinit` is writing the scratchpad file; `Start` takes the file only if length
and last entry fit. `AltPad` is the scratchpad an alternative block is hashed
over: the copy in memory, the branch's own entries, and one merged patch.
`AbortTransaction` is the catch block of `add_new_block`; it is part of
`ThrowingSpec` only (limitation h).

### BlockRules

A block is its timestamp and cumulative difficulty. `AddMain` and `AddAlt`
collect what the rules look at as the two pieces of code do, and `AddAlt`
includes the switch, with its connection of every block of the branch and the
return of the old blocks as alternative ones. `check_hash` works on four words of
`WordValues` values each, with the carries of the code. A
difficulty has 128 bits: a quotient that does not fit makes `next_difficulty` 0,
which `Spread` returns and both rules refuse ("difficulty overhead"). The cumulative
difficulty itself is a number without a width (128 bits in the code).

### Wallet

`refresh` is cut at its calls to the daemon (`PullBlocks`, and one
`get_o_indexes` per transaction with an output to us), because the daemon may
reorganise and a call may be lost at each; what was recorded by then stays.
`transfer`, `submit_transfer`, `cancel_transfer`, `store` run while no refresh
does. `KillAndLoad` is a restart from whatever was stored last, `KillInStore` one
while the wallet file is being written: `load` does not get through the torn file
and starts synchronising anew. A watch-only
wallet has its pending key images twice, in the wallet file and in a file of
their own that is written at once. `half` is a history variable: outputs
recorded from a block whose processing has not ended.

### Miner

The chain is the number of its top block, a template and a scratchpad copy are
named by the top block they were made for. Every place where the code leaves a
lock is a step: a worker copies the template and reads its number in two, an
update replaces the scratchpad and the template in two. `start` holds
`m_threads_lock` to its end; a `stop` writes its signal first (`Signal`) and asks for
the lock afterwards (`LockThreads`), so it may come inside a start, or inside another
stop (`Stoppers`). `unheard` is a history variable: the stops whose signal a start
has written over. `FairSpec` has blocks
that are announced or found; `BatchSpec` adds downloaded batches.

### NodeLocks

A request is the sequence of lock and unlock steps of its handler, put together
from the nested regions of the functions it calls; a branch in the code makes it
a set of sequences. Nothing else is state, so the module is about the order of
the four recursive locks and nothing more. Other locks are left out, among them the
miner's, some of which are held around a request for these; the module may miss a
cycle through one of those, and invents none.

## 3. Runs

| Run | Specification | Shows |
|---|---|---|
| `chain_storage` | `FairSpec` | all properties of ledger and pool over a tree with a double spend on a branch, a block with a wrong reward, transactions that depend on each other, missing parents, expiry, pruning and restarts, with transactions taken in over five lock regions; refinement of `BestChain`; every switch ends |
| `checkpoints` | `IntakeSpec` | a checkpoint in the middle of a tree: nothing unsigned above it (`PastZoneSigned`), refinement of `BestChain` over switches and rollbacks across it |
| `sync` | `FairSpec` | one request per download, requested objects are those outstanding, good peers not blamed, the node catches up |
| `net_node` | `Spec` | the peer lists, the white list's promise, the number and the difference of connections |
| `chain_db` | `Spec` | caches, scratchpad copies, cache file and aliases after every push, pop, read, kill and restart; the scratchpad of alternative blocks |
| `block_rules` | `Spec` | the rules for alternative blocks agree with the main chain's |
| `wallet` | `FairSpec` | transfers, spent flags and key images follow the daemon's chain; loading works; the wallet catches up |
| `miner` | `FairSpec` | threads return to the newest block; a stop that is heard ends |
| `wallet_watch` | `Spec` | violation, finding 1 |
| `node_locks` | `Spec` | violation, finding 2 |
| `miner_batch` | `BatchSpec` | violation, finding 3 |
| `tx_intake_pops` | `IntakeSpec` | violation, finding 4 |

Four more configurations belong to the known limitations below and are not runs of
`PROJECT.json`: `MC_ChainStorage_index.cfg` (d), `MC_Miner_overlap.cfg` (e) and
`MC_ChainDb_throw.cfg` (h) end with a violation, `MC_NetNode_maker.cfg` (n) passes.

The properties, and what they are about:

* `SwitchOK`: the loops of a switch stay inside their arrays, and
  `for (i = size - 1; i >= split_height; i--)` stops above the genesis block.
* `TablesMatchChain`, `NoDoubleSpend`: hold after every step of a switch, not
  only between blocks.
* `IndexNeverDangles`: the key image index names no transaction that the pool has
  not, after interrupted insertions, expiry, pops and restarts. The other direction
  is false (limitation d), and so is that pool and chain are disjoint (finding 4).
* `KnownOnce`, `HeaviestKnown`: the book-keeping of alternative blocks after
  successful and failed switches.
* `RollbackReconnects`: the rollback's "PANIC!!! failed to add (again) block": every
  old block connects again, whatever the pops, the failed branch and an intake under
  way did to the pool. The other assertion of the rollback, that pops succeed, is the
  subject of finding 4.
* `NoTxLost`: the transactions of disconnected blocks survive a switch. It is
  about switches: expiry and crashes may drop pool transactions.
* `ReadyIsMinable`: the cached check results (`RefusalIsSound`: see limitation a).
* `ImplementsBestChain`: seen from outside the locks, a switch is one step to a
  heavier acceptable path, or nothing.
* `OneRequestUnderWay`, `RequestedIsOutstanding`: a download neither stalls nor
  doubles, whatever becomes of the blocks. `HonestNeverBlamed`: no failure point for a
  peer that only ever served good blocks, as long as nobody has spoilt one of them and
  up to the node's checkpoint there is one valid chain; without either condition it is
  false (limitation m). `CatchesUp`: see fairness below.
* `ListsDisjoint`: no address is in both peer lists or twice in one, through the
  moves between them and the trims. `WhiteAnswered`: an address gets onto the
  white list only after it answered this node under the id listed; what a third
  node says of it, or what it claims itself, is not enough. `OutgoingBounded`,
  `DistinctPeers`: with callbacks between the count and the connect, no more
  connections than wanted and no two to one node.
* `CachesCoherent`, `IteratorsLive`: a cache never answers with something else
  than the database, and no iterator kept with a value dangles.
  `PadFollowsChain`, `AliasesFollowChain`: after any pushes, pops and restarts
  both scratchpads and both alias tables are those of a node that was only ever
  given the present chain. `AltPadRight`: the scratchpad put together for an
  alternative block is the one it will meet when connected.
* `AltDifficultyRight`, `OldBlocksReturn`: what the rules ask of an alternative
  block is what a switch will ask of it, and what a switch disconnects passes as
  alternative. `WorkGrows`: work grows along the chain and along the branch, and
  the next difficulty is not 0 as long as the chain's work times the target fits
  128 bits. `HashTestRight`: the hash test by words and carries is the comparison
  it stands for.
* `FollowsChain`, `SpentSeen`: across splits, failed calls and restarts the
  wallet's transfers are outputs of its chain, except those recorded from a block
  whose processing was interrupted (`half`): should the daemon leave that block's
  branch before the wallet gets back to it, such a transfer stays, and the property
  does not look at it. An output spent on the wallet's chain,
  by whichever copy of the wallet, is not offered again. `LoadNeverStops`: no
  state that a kill leaves makes the next load refuse the files.
  `Wallet!CatchesUp`: the wallet ends up at the daemon's chain.
* `MinesOnTop`: threads come back to the newest block after every mixture of pauses,
  updates, starts and stops. `StopEnds`: every stop returns unless a start has written
  over its signal (limitation e).

The type invariants of `SyncProtocol`, `NetNode`, `ChainDb`, `Wallet` and `Miner`
(`TypeOK` in each) hold on the same instances and, but for `Miner`'s, are proved;
they are left out of the configurations, whose properties imply little less.

### Findings

1. **`wallet_watch`.** A watch-only wallet has no key image for most of its
   transfers. `detach_blockchain` looks each one up and throws "key image not
   found" (`wallet2.cpp:567`), so after the first reorganisation that takes back
   such a transfer every refresh fails until the wallet is synchronised anew.
2. **`node_locks`.** `add_new_block` takes the pool's lock first "to avoid
   deadlock" (`blockchain_storage.cpp:445`). A downloaded batch holds the chain's
   lock already when it takes the pool's (`currency_protocol_handler.inl:486`),
   and `get_transactions` does the same: two threads can wait for each other.
3. **`miner_batch`.** The end of a batch builds a call of `resume_mine` and does
   not make it (`currency_protocol_handler.inl:490`): one downloaded batch pauses
   the miner for as long as the process runs.
4. **`tx_intake_pops`.** `add_new_tx` asks the chain and inserts into the pool later
   (`currency_core.cpp:348`), without a lock that `add_new_block` takes. If in between
   a reorganisation connects a block with the transaction, it is in pool and chain;
   the next switch cannot pop that block, since the pool refuses to take the
   transaction back ("failed to remove block on chain switching",
   `blockchain_storage.cpp:1735`, or "PANIC!!!" at 2463), and stops half way.

### Known limitations of the code

Met while modelling; each can be reproduced with the modules here, as said with it.

a. A pool transaction that failed once is refused unchecked as long as the block
   that was top then is in the main chain, also after later blocks brought its
   ring members (`tx_pool.cpp:569`): `RefusalIsSound` instead of the invariants of
   `MC_ChainStorage.cfg`.
b. A node that left the checkpointed branch below the checkpoint cannot get back:
   the blocks it disconnects are declined as alternative ones and the switch is
   rolled back (`blockchain_storage.cpp:1767`, `2135`): `HeaviestKnown` in
   `MC_Checkpoints.cfg`.
c. Right after the block of the last checkpoint a template may contain a
   transaction whose signature was never checked (`tx_pool.cpp:575`):
   `ReadyIsMinable` in `MC_Checkpoints.cfg`.
d. A reorganisation between the key image test and the insertion can return a
   conflicting transaction to the pool: the loop that enters the key images ("here
   should everything goes ok", `tx_pool.cpp:136`) fails after the entry was put into
   `m_transactions`, and leaves it there without its key images in the index:
   `PoolIndexComplete`, `MC_ChainStorage_index.cfg`.
e. `miner::stop` writes `m_stop` (`miner.cpp:338`) before it asks for
   `m_threads_lock`; a `start` that holds the lock writes over it (298). That stop
   then joins threads that mine on, and never returns: `StopReturns`,
   `MC_Miner_overlap.cfg`.
f. A branch longer than one list of ids (2000) whose listed part is lighter than
   the main chain is asked for again and again and never gets further
   (`currency_protocol_handler.inl:682`): `CatchesUp` in
   `MC_SyncProtocol.cfg` with the peer `p` alone and `IdsCount` 2.
g. A peer that moves to a heavier chain one block shorter while its last answer
   is under way leaves the connection synchronizing with nothing under way
   (`currency_protocol_handler.inl:408`): `OneRequestUnderWay` in
   `MC_SyncProtocol.cfg` with a block `s1` on `g` heavier than `a2`, both peers at
   `a2`, `p` going on to `s1`, `BatchCount` 1 and `LocalCheckpoint` 0.
h. `abort_transaction` clears the cached values of a container and not its
   cached size (`db_abstract_accessor.h:718`): after an exception in a block that
   grew the chain, `back()` asks for an element that is not there and throws.
   `BackFound` under `ThrowingSpec`, `MC_ChainDb_throw.cfg`.
i. `trim_white_peerlist` trims the gray list and `trim_gray_peerlist` the white
   one (`net_peerlist.h:175`); each list exceeds its limit until the other one
   changes. `ListsWithinLimits` in `MC_NetNode.cfg`.
j. `check_block_timestamp` of an alternative block takes the median over the
   whole branch once that is longer than the window of 60, the main chain over
   the last 60: old blocks of a longer branch can be refused when a switch returns
   them, which rolls the switch back. `OldBlocksReturn` without its bound on the
   length fails in `MC_BlockRules.cfg`. An alternative block is not held
   to the future limit, and with exactly 60 blocks only the main rule takes the median.
k. `check_hash` at the difficulty 2^64 - 1 takes the path for larger ones and
   refuses hashes with a highest word of 1 that would do (`difficulty.cpp:77`);
   `HashTestRight` excepts it, and fails without the exception for `WordValues` 4
   and `HashWords` {0, 1, 2, 3} in `MC_BlockRules.cfg`.
l. `connections_maker` asks a seed whenever the white list is empty, without
   comparing the number of connections (`net_node.inl:736`). That is harmless
   because a kept connection has put its address on the white list; but
   `append_with_peer_white` ignores an address that `is_ip_allowed` refuses. If the
   stored gray list holds local addresses (from a run with `--allow-local-ip`) the
   node connects to them, the white list stays empty, and every round opens a
   connection to a seed beyond the limit, or a second one to the same node:
   `OutgoingBounded` and `DistinctPeers` with `LocalAddrs = {"f"}` and
   `connections_count = 1` in `MC_NetNode.cfg`.
m. A good peer can be blamed for what others did. A block that some peer delivered
   with transactions that lack their signatures, or have wrong ones, is marked
   invalid; the good peer that sends the same block, or the next one, gets a failure
   point (`currency_protocol_handler.inl:461`, `535-540`), and after ten of them its
   address is blocked. And when a valid chain leaves the node's own at or below a
   checkpoint the node has passed, its blocks are declined or the switch to them is
   undone (`blockchain_storage.cpp:2135`, `2314`), and the sender is blamed
   (`currency_protocol_handler.inl:528-532`). `HonestNeverBlamed` without
   `ServedBlocks(p) \cap core.spoilt = {}`, or without `CheckpointSettled`.
n. A peer that answers the handshake and closes at once (or is dropped as busy,
   `currency_protocol_handler.inl:153-158`, where the handshake still counts as
   successful) is neither used, failed nor blocked, so
   `make_expected_connections_count` may pick it for ever
   (`net_node.inl:801-809`); the thread that also drives the timers then never gets
   back to them. `MakerReturns` says that a round ends unless connections to peers are
   lost again and again; `MC_NetNode_maker.cfg` checks it with two nodes that close
   as they like, and its first disjunct alone fails there.

## 4. Bounds

* `MC_ChainStorage`: nine blocks on three branches, four transactions. The
  tree contains every outcome of a switch: success, failure at the first (a
  transaction is missing) and at a later block, failure for a double spend and for a
  reward, a transaction on two branches, a branch that goes on after its failed block,
  two branches of the same weight, a heavier branch that is shorter than the main
  chain. Up to three reorganisations fit into one intake and can bring the first
  branch's transaction back, which findings and limitations of the intake need.
  `AltLivetime = 1` makes pruning happen at height 2 and lets a branch lose its
  root while its tip is known.
* `MC_Checkpoints`: nine blocks, one checkpoint at height 2, branches that end
  below it, contradict it, and continue above it with signed, wrongly signed and
  stripped transactions. `AltLivetime = 5`: no pruning, so that branches survive.
* `MC_SyncProtocol`: two peers, chains of up to four blocks, one checkpoint at height
  1 that a block of the second peer contradicts. That peer may spoil a block of the
  first one's chain. The first may connect again once after its connection broke, the
  second connects once (`MaxConnects`). The counts are scaled so that each limit is
  crossed:
  `IdsCount` 3 (2000 in the code) needs a second list of ids, `BatchCount` 2
  (200) a second batch, `DenseCount` 1 (10) leaves gaps in a short history,
  `FailsBeforBlock` 0 (10) blocks an address at the first failure point, so a
  single wrong one is visible. A connection may break at any point; the other one, and
  a later one to the same peer, go on with the core as it was left.
* `MC_NetNode`: this node, one that answers and one that may not, lists of two,
  two connections wanted, at most three open, one incoming, one fault, blocking
  at the first failure point. The stored and sent lists make the node meet itself
  under an old id, a node under a stale id, a list from the future and an empty
  white list, so that seeds are asked. With a limit of two both trims happen.
  `MC_NetNode_maker.cfg` has no incoming connection and no bounded fault, and both
  nodes are `Unsteady`.
* `MC_ChainDb`: six blocks, chains of up to four, caches of three values (10000
  in the code), so that every push of a scratchpad addendum trims; addenda that
  patch one index several times, the first and the last index; one kill.
* `MC_BlockRules`: windows of 2 (timestamps) and 4 with lag 1 and cut 1
  (difficulty), so that chains of six blocks and branches of two lie below, at and
  above each of them; words of 8 values and a target of 6, so that the largest
  value of two words is 63 and the overflow to the difficulty 0 happens; all
  timestamps on a clock from 0 to 3.
* `MC_Wallet`: six blocks on two branches, answers of at most `MaxCount` blocks,
  one lost call, one kill, at any point or while the file is written; an output whose key image repeats, a spend by another
  copy of the wallet on one branch only.
* `MC_Miner`: two threads, two blocks, enough for a block found while another
  is brought and while the template is replaced, and two callers of stop.
  `MC_NodeLocks`: two threads.
* No symmetry is used: blocks, transactions and peers all differ; under liveness
  properties it would not be sound.

## 5. Fairness

* `TxIntake!FairSpec`: weak fairness of `SwitchStep`, as long as pops succeed. The
  steps of a switch are statements of one thread that holds the locks and waits for
  nothing. `SwitchEnds`: every switch ends, or comes to a pop that fails.
* `SyncProtocol!FairSpec`: for the good peers, weak fairness of `Deliver` (the
  network threads handle what has arrived), `on_callback` (queued to the same threads),
  `Serve` (the peer's threads) and `timed_sync` (a 60 s timer on both sides).
  Nothing makes a connection or keeps it, the peer need not become synchronised,
  and nothing is assumed of other peers; `CatchesUp` says that the node has the
  peer's chain in the end, or the connection is gone, the node stops, or the
  peer does not serve chains yet, or somebody has spoilt a block of its chain. It is
  stated for peers whose checkpoints do
  not reach further than the node's, since others are dropped.
* `NetNode!FairSpec` (`MC_NetNode_maker.cfg` only): weak fairness of the steps of the
  thread that runs `connections_maker`, and of the end of a handshake it waits for,
  which `P2P_DEFAULT_HANDSHAKE_INVOKE_TIMEOUT` guarantees. Nothing is assumed of
  `Unsteady` peers, which is why `MakerReturns` has to except endless losses.
* `Wallet!FairSpec`: weak fairness of refresh; its callers repeat it on a timer.
  Lost calls are bounded by `MaxLost`, so from some point on the daemon answers;
  it moves to heavier chains only, and of these there are finitely many.
* `Miner!FairSpec`: weak fairness of each worker, of the handler of an announced
  block, of the two timers of `on_idle` (5 and 30 seconds), of a start once begun and
  of a join; strong fairness of a stop's `LockThreads`, since another stop may have
  `m_threads_lock` in between: nobody stops so often that another stop never gets it.
  Nobody has to start, stop or bring a block. `BatchSpec` has the same
  fairness, the batch's own step included, so that its counterexample is not a
  thread that just stops.

## 6. Proofs

Every theorem holds for every value of the constants that satisfies the named
assumptions, which TLC evaluates for its instances. Each inductive invariant was
first checked by TLC as an invariant of the run of its component.

### ChainStorageProofs

`ChainStorageProofs` shows, for every block tree, transaction set, checkpoint
table and number of steps, with transactions taken in over five lock regions and
any step in between, `IntakeSpec => []` of: `TypeOK`, `SwitchOK`,
`TablesMatchChain`, `NoDoubleSpend` and `IndexNeverDangles`.

*Assumptions*: `TreeAssumption` (paths end at the genesis block and grow by one
block, work grows along them), `TxAssumption` (types; the genesis block has no
transactions), `EntryAssumption` (`NoEntry` is not an entry) and the checkpoint
table's type.

*Argument.* None of the properties is inductive alone. That the tables match
the chain after a pop needs that nothing is in the chain twice (else erasing
the popped block's key images would erase another's). That a connected block is new to the chain
needs that the tables match. That a pop is never the genesis block needs where
the loops of the switch are, which in turn needs that the block at index `i` has
height `i - 1`. So the invariant is

    Inv == TypeOK /\ SwitchOK /\ LedgerInv
    LedgerInv == TablesMatchChain /\ NoDoubleSpend /\ IndexNeverDangles

`ConnectKeeps`, `RejectKeeps` and `PopKeeps` show that the three changes
preserve the ledger part, `AltForksBelowTop` that an alternative branch leaves
the main chain below its top (so the first pop is legal), and one lemma per
action puts these together. Nothing is claimed of pool and chain together: a
transaction may be in both, and `IntakeSpec` ends where a pop fails for that reason
(finding 4).

### BestChainProofs

About the same specification, on top of `Inv`: `KnownOnce`,
`RollbackReconnects`, `PastZoneSigned`, `NoTxLost`, `HeaviestKnown` (without
checkpoints), and the refinement `IntakeSpec => ImplementsBestChain`.

*Argument.* `ReorgInv == ChainInv /\ OldInv /\ HeldInv /\ BranchInv /\ KnownInv`:

* `ChainInv`: the main chain is a path of the tree, every block on it passes
  the rules, and `PastZoneSigned`. Apart from where its transactions are, whether a block is valid is a
  matter of its ancestors; so a block that was connected once connects again on
  top of the same ancestors if its transactions can be found.
* `OldInv`: during a switch the disconnected blocks and what is left of the main
  chain are the old chain, `Path[OldTop]`, which was valid.
* `HeldInv`: their transactions are in the pool or on the new branch, with their
  signatures above the checkpoint zone. With `OldInv` this is why the rollback
  finds what it connects ("PANIC!!! failed to add (again) block" is not reached), and
  why no transaction is lost.
* `BranchInv`: the blocks of the branch are alternative ones, its tip is heavier
  than the old top, and it forks inside the checkpoint zone only if all of the old
  chain lies there. What stands on the kept part is the branch, and during the
  last loop of a rollback the old chain.
* `KnownInv`: alternative blocks agree with the checkpoints; a kept block is
  neither alternative nor invalid; a disconnected one is not invalid, and is
  alternative exactly when the last loop of the switch has stored it.

*Refinement.* The abstract `Ledger` is the path of the old top while a switch is
under way and the main chain otherwise. Every step leaves it alone, except the
main chain's growth and the last step of a successful switch, which are the
abstract `Adopt`: the new top is heavier and every block of its path is valid,
which is `ChainInv`.

`HeaviestKept` needs a further invariant (`HeavyInv`: an alternative block is no heavier
than the old top, unless it is the tip of the switch under way or lies at or above
a checkpoint; a rollback of a branch below every checkpoint has blocks to drop) and
is stated for an empty checkpoint
table. With checkpoints it is false, which is limitation b.

### SyncProofs

For every number of peers, connections and blocks: `TypeOK`,
`HonestNeverBlamed`, `RequestedIsOutstanding`, that at most one callback, request
or answer is under way for a connection (`AtMostOneUnderWay`), and
`OneRequestUnderWay`, that there is exactly one while it synchronizes.

*Assumption*: `SyncAssumption` (types; the blocks form a tree whose paths start at
the genesis block, which is good; the blocks the node finds itself are good).

*Argument.* `SyncInv` is stated for every set `D` of blocks that contains the spoilt
ones, since how a download goes is decided before it is known which blocks will be
spoilt:

    SyncInv == /\ PeerInv /\ Main(core.top) \cap Invalid = {}
               /\ \A D \in SUBSET Blocks : core.spoilt \subseteq D =>
                    OnlyDirtyInvalid(D, core) /\ ConnInv(D) /\ Blameless(D)

A block is clean for `D` if it has nothing invalid and nothing of `D` on its path and
the checkpoint is settled; only others are ever marked invalid, and a peer that
serves clean blocks only is blameless. With `D = core.spoilt` this is
`HonestNeverBlamed`; `RequestsMatched`, `AtMostOneUnderWay` and `OneUnderWay` have no
such condition. `ConnInv` says for each connection what is under way and that it determines the
context: a request for objects that is travelling is `m_requested_objects`, an
answer from a clean peer is that request in the peer's own blocks, a request for
ids finds `m_needed_objects` empty. The core only grows (`Extends`), so a list
that was linked to it when it was received stays linked (`LinkedStable`) although
other connections add blocks and switch branches in between. An answer that
passes the prevalidation equals the request, so its blocks come in order on top
of known ones, `add_new_block` does not refuse them, and the peer gets no failure
point.

`OneUnderWay` is proved under the hypothesis `NeverShorter`: among the tops
a peer serves, a heavier one is never a shorter one. Without it the property is false, which is
limitation g (`currency_protocol_handler.inl:408` compares heights for equality).

### NetNodeProofs

For every number of nodes, sent and stored lists and connections: `ListsDisjoint`,
`WhiteAnswered`, `OutgoingBounded`, `DistinctPeers`, and the types.

*Assumptions*: `NodeAssumption` (types of the constants), `ListAssumption` (nodes
send and claim addresses and ids of any age; stored lists are lists: an address in
one of them at most, and once), `LimitAssumption`. `OutgoingBounded` and
`DistinctPeers` have the hypothesis `StoredAllowed`: no stored address is one that
`is_ip_allowed` refuses. Without it both are false, limitation l.

*Argument.* First the operators of `PeerList`: erase, insert by time and trim keep
every address once, `AppendWhite` and `AppendGray` keep the lists apart, and
`MergeKeeps` carries that over a whole list that was sent. Only
`append_with_peer_white` adds a white entry, and a white list that has an entry
keeps one. The invariant

    NodeInv == TypeOK /\ Counted /\ ArePeerLists(m_peerlist) /\ WhiteAnswered /\ ConnInv /\ MakerInv

(`Counted`: what is counted, the connections that are `closing` included, is finite)
adds that an id kept for an outgoing connection is one the far end answered with
(timed sync puts it on the white list long after the handshake), and that the
connection the maker waits for, if it is still open, is the one it opened, to the
address it picked. The bounds need `BoundInv`: a kept connection means a
white list that is not empty, so no seed is asked beside it; while the maker picks,
connects or waits, the connections it keeps besides are fewer than
`connections_count` (pings only raise the count it compared, and nobody else opens
such connections) and lead elsewhere. The only step that makes the maker keep one
more is the end of a handshake.

### ChainDbProofs

For every set of blocks, addenda and alias registrations, every size of the caches
and any number of pushes, pops, reads, transactions, kills and restarts:
`CachesCoherent`, `IteratorsLive`, `PadFollowsChain`, `AliasesFollowChain`,
`AltPadRight` and the types.

*Assumptions*: types of the constants; the genesis block has an addendum and no
alias, `MaxElements` is not 0, a null signature is no address.

*Argument.* `Holds(c, s)` says that a container is the sequence `s` whatever is
cached of it: the database has its elements, a cached value is the element at its
place and is in the list of recent keys, a cached size is the length. Each operation
of `DbArray` is shown to keep it and to return what the sequence has, then the
loops over such operations (patch, push and pop of the scratchpad) by induction
over their recursive functions. With

* `PopUndoesPush`: for every pad that is a sequence of hashes and every block,
  `pop_block_scratchpad_data(push_block_scratchpad_data(pad, b), b) = pad`. The push
  patches the old part only (an index is taken modulo the old length), so the pop
  finds the addendum untouched at the end, computes the same patch from it, and
  `xor` with the same value twice is the identity;
* `PopUndoesPut`: for every pair of tables that agree with each other and every
  registration or update that `put_alias_info` accepts, `pop_alias_info` is not
  refused and gives back both tables (it needs that the old owner's set holds the
  name);

the inductive invariant `DbInv` is that the database file is empty or that of some
chain, that what is in memory is what that chain makes, or, in a transaction, some
other chain, and that the scratchpad file is a front part of the stored chain's pad
(a kill may cut it anywhere), so that a start that finds the length right has the
right pad. The four properties are parts of it. `AltPadRight` follows from
`AltPadMeets`: the copy in memory cut at the split, extended by the branch's addenda
and patched once with the merged patch, is the pad of the branch, because patches of
different blocks commute and those of the disconnected blocks cancel.

### BlockRulesProofs

For every window, lag, cut, target, size of words and order of timestamps, every
height of a split and every length of a branch: `AltDifficultyRight`, `WorkGrows`,
`OldBlocksReturn` and `HashTestRight`.

*Assumption*: `RulesAssumption` (types; at least two blocks are left of the window
after the cut, a word has at least two values).

*Argument.* `RulesInv` says that work grows along the chain and along the branch
(`Growing`), and that every block of the main chain passed the two rules on the
blocks before it (`TimesChecked`, `WorkChecked`). The two pieces of code collect the
blocks they look at in different orders and from different places; `SameBlocks`
shows that the difficulty sees the same ones. The median and the cut timestamps are
values of a sorted list, which is unique, so the order in which they were collected
does not matter. The hash test goes through a product of words with carries:
`LongProduct` shows that the carries are the digits of the product, and the test
reads the last carry.

### WalletProofs

For every block tree and set of outputs, both kinds of wallet, any number of lost
calls and kills: `FollowsChain`, `SpentSeen`, `LoadNeverStops` and the types.

*Assumptions*: `WalletAssumption` (types; `NoKey` is no key image) and
`TreeAssumption`: the blocks form a tree, no key image of ours appears before the
output it belongs to was paid (the ring members of `check_tx_input` have to exist;
below a checkpoint the signature is not verified, but the blocks are fixed), and the
genesis block, which the wallet never scans, pays us nothing.

*Argument.* `WalletInv` says of the members in memory and of those in the file
(`Good`): the known chain is a path of the tree; every transfer that is not in `half`
is an output of the block at its height; and for a wallet with the spend key
(`Sound`) `m_key_images` and `m_transfers` are inverse to each other, transfers stand
in the order of heights, every block of the chain has been scanned: the key
images it pays to are known since its height at the latest, and what it spends is
marked. That order and those heights are needed for `detach_blockchain`, which cuts
the transfers at the first one from the split on: nothing that the rest of the
chain pays or spends goes with it. That nothing is spent before it is paid is needed
for a transfer found later: its flag starts as unspent, which is right only because
no block scanned before could have spent it. `Refreshing` says where a
refresh is: the blocks to come go on from the known chain, and those transactions
of the current block that are done have left the same traces; an exception may
leave it at any of them. `PendingFiled`: the pending key images in memory are those
of their file, which names none twice, and the stored ones are among them; so a
stored wallet with as many as the file has all of them. A transfer that is refused
unmarks its sources, which is harmless since `select_transfers` took unspent ones
only. A kill inside `store` leaves a wallet without blocks and transfers, which
has all of this trivially.

### SubsequenceProofs

Lemmas for the proofs above that go through lists. `OnlyIn` and
`merge_peerlist` are recursive functions because the provers know nothing of
`SelectSeq` and of folds. An induction over a number is put as a statement about a
set (`UpTo`: a set that holds 0 and with each number below `n` the next one holds
them all), and `RecursionExists` shows that the function a recursion describes
exists; with them `OnlyInPlaces` says where each element of the result stood.

### Only model-checked

* Liveness, which is out of the prover's reach: `SwitchEnds`, both `CatchesUp`,
  `MakerReturns`, `MinesOnTop`, `StopEnds`.
* `ReadyIsMinable`: false with checkpoints (limitation c), and its runs have
  `UnlockHeight` 0: a switch to a heavier but shorter chain can make an unlock height
  that had passed lie ahead again while the entry still counts as checked (TLC finds
  this with one transaction and a heavier branch of one block against two).
* `Miner` and `NodeLocks`: what their runs check is liveness, and a property that
  the code violates.

## 7. Abstractions to know about

* Ring members are named by the transaction they come from, not by global
  output index; an index that means another output after a reorganisation is not
  represented (its signature would fail).
* Proof of work, timestamps, rewards and alias entries are verdicts attached to
  a block. An alternative block's difficulty is computed from its own branch in
  the code, so these do not depend on the node.
* Proof of work itself is a verdict; `BlockRules` and `ChainDb` check what it is
  computed from: difficulty, timestamps, scratchpad.
* Proof of work and timestamps have one verdict per block; the two rules of the code
  differ in the cases of limitation j.
* After a failed block of a switch the code marks, for every block to drop, the block
  of one and the same iterator, which the first round has erased
  (`blockchain_storage.cpp:1753-1756`). With two or more blocks after the failed one
  this is undefined: the model has the outcomes that the same block is marked again,
  that an id is marked which no block has, and that the process dies.
* Exceptions from the database are modelled in `ChainDb` only, as an action of
  `ThrowingSpec`, which no run takes (limitation h).
* `NetNode`: every node has an address of its own, and an incoming connection's
  far end has another port than the node listens at; the maintainers entry,
  priority peers and offline mode are left out. `m_conn_fails_cache` and
  `m_blocked_ips` forget at any time. Only the maker's own closes are asynchronous
  (`closing`); a close by others is one step.
* `Wallet`: one daemon; amounts, payments, history, pool scan, time locks and the
  creation time are left out. Which transfers a transaction spends is its own;
  the selection by amount is not modelled. An index out of range after a
  `cancel_transfer` of an old file touches memory beyond the vector, which is not
  represented.
* `Miner`: one start at a time (`m_threads_lock` is held from its tests to its end), no
  failing template.
* `BlockRules`: one branch at a time; a block's work is what its difficulty says.
* In `SyncProtocol`: no pruning of alternative blocks; a short history is a set
  of ids; the branches for a busy core (`have_called` false) are not taken, since
  the batch flag is only ever set under the lock that its test takes; the calls
  that pause the miner and the progress counters are left out; at most one timed
  sync of a peer is under way at a time; a spoilt block stays so, where the code recovers
  once the pool drops the transaction, and a block whose transactions are left out
  counts as one; there is one checkpoint; a peer's `m_been_synchronized` only
  goes from false to true, as in the code.

## 8. Not modelled

Cryptography (`src/crypto`) and the hash function: numeric code, beyond TLC; only
its verdicts matter here. Everything under `contrib` except the cache of
`epee/include/cache_helper.h` and `median` (LMDB, zlib, the network library):
third party. Serialization: encodings. RPC servers: queries and forwarding, but
for the calls a wallet makes. Daemon, simplewallet, GUI, connectivity tool, tests:
user interfaces and pure I/O. Transaction construction in
`currency_format_utils.cpp`: only its verdicts matter to the node. These are most
of the repository's lines, which is why the share of lines that `PROJECT.json`
maps is small although the node's own logic (chain, pool, protocol, peers,
storage, miner, wallet) is covered.

Of the modelled components: block reward, donations and their votes; global
output indexes; the failures of LMDB calls and the backend's write lock; tables
that only serve queries.

## 9. Plan

Left, in order:

1. `Reward`: `get_block_reward` and donations as operators with their widths.
2. Failures of the database calls and the write lock (`db_backend_lmdb.cpp:145`,
   `208`), with exceptions in the middle of a switch and what memory keeps.
3. Global output indexes over a reorganisation.
4. Proofs: `ReadyIsMinable` without checkpoints and with passed unlock heights; the
   types of `Miner`.
