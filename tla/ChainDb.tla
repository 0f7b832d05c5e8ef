------------------------------- MODULE ChainDb -------------------------------
(***************************************************************************)
(* What blockchain_storage keeps on disk and in front of it: the blocks    *)
(* and the scratchpad as arrays of the database, the scratchpad a second   *)
(* time in memory, the file that carries the second copy over a restart,   *)
(* and the tables of the aliases.  add_new_block runs in one transaction   *)
(* of the database, in which a reorganisation pops and pushes blocks; the  *)
(* process may be killed at any point.                                     *)
(*                                                                         *)
(* m_blockchain_lock is held by whoever is in a transaction, so other      *)
(* threads read between transactions only.  Its other containers (indexes, *)
(* transactions, outputs) are accessors of the same kind.                  *)
(***************************************************************************)
EXTENDS Scratchpad, DbArray, Aliases, Subsequence

CONSTANTS
  Genesis,
  AliasOf,      \* for a block whose miner transaction carries an alias: the alias_info
  MaxHeight,    \* bound on the length of the chain
  MaxKills      \* bound on kills of the process

ASSUME GenesisAssumption == Genesis \in Blocks /\ Addendum[Genesis] # <<>>
ASSUME AliasOfAssumption ==
  DOMAIN AliasOf \subseteq Blocks \ {Genesis} /\ \A b \in DOMAIN AliasOf : AliasOf[b] \in AliasInfo

ASSUME BoundsAssumption == MaxHeight \in Nat /\ MaxKills \in Nat

NoFile == <<>>   \* no file, or an empty one

VARIABLES
  committed,           \* the database file: [blocks, pad, alias]
  m_db_blocks,         \* containers, see DbArray
  m_rdb_scratchpad,
  alias,               \* the tables of the aliases, see Aliases
  m_scratchpad_cache,  \* the copy in memory
  file,                \* the scratchpad cache file
  pc,                  \* "down", "ready", or in a transaction: "tx"
  kills

vars == <<committed, m_db_blocks, m_rdb_scratchpad, alias, m_scratchpad_cache, file, pc, kills>>

Empty == [blocks |-> <<>>, pad |-> <<>>, alias |-> NoAliases]

Init ==
  /\ committed = Empty
  /\ m_db_blocks = Opened(<<>>) /\ m_rdb_scratchpad = Opened(<<>>) /\ alias = NoAliases
  /\ m_scratchpad_cache = <<>>
  /\ file = NoFile
  /\ pc = "down"
  /\ kills = 0

Elements(db) == [k \in 1..Cardinality(DOMAIN db) |-> db[k - 1]]
-----------------------------------------------------------------------------
(***************************************************************************)
(* The scratchpad in the database goes through its accessor: the addendum  *)
(* is appended, read back, and the patch applied entry by entry.           *)
(***************************************************************************)
Appended(c, b) ==
  LET add == Entries(Addendum[b])
      appended[n \in 0..Len(add)] == IF n = 0 THEN Sized(c) ELSE push_back(appended[n - 1], add[n])
  IN  appended[Len(add)]

ReadBack(c, from) ==
  LET count == size(c) - from
      read[n \in 0..count] == IF n = 0 THEN Sized(c) ELSE Got(read[n - 1], from + n - 1)
  IN  read[count]

PatchOne(c, i, h) == set(Got(c, i), i, xor_pod(get(c, i), h))

Patched(c, start, add) ==
  LET patch == get_scratchpad_patch(start, add)
      patched[n \in 0..start] ==
        IF n = 0 THEN c
        ELSE IF n - 1 \in PatchedIndexes(start, add) THEN PatchOne(patched[n - 1], n - 1, patch[n - 1])
        ELSE patched[n - 1]
  IN  patched[start]

PushPad(c, b) ==
  LET start == size(c)
      long == Appended(c, b)
  IN  Patched(IF start = 0 THEN long ELSE ReadBack(long, start), start, Addendum[b])

Resized(c, new_size) ==
  LET count == size(c) - new_size
      popped[n \in 0..count] == IF n = 0 THEN Sized(c) ELSE pop_back(popped[n - 1])
  IN  popped[count]

PopPad(c, b) ==
  LET start == size(c) - Len(Addendum[b])
  IN  Resized(Patched(Sized(c), start, Addendum[b]), start)
-----------------------------------------------------------------------------
BlockEntry(b, offset) == [bl |-> b, scratch_offset |-> offset]

(***************************************************************************)
(* init.  The file is taken if its length and last entry are those of the  *)
(* database, and removed in any case.  A database without blocks gets the  *)
(* genesis block.                                                          *)
(***************************************************************************)
FileNotCompared(pad) == file # NoFile

FileAccepted(pad) ==
  /\ file # NoFile
  /\ size(pad) = Len(file)
  /\ Last(file) = back(pad)

Start ==
  /\ pc = "down"
  /\ LET pad == Opened(committed.pad)
         blocks == Sized(Opened(committed.blocks))
         cached == FileAccepted(pad)
         loaded == IF cached THEN Backed(pad) ELSE Sized(pad)
     IN  IF size(blocks) = 0
         THEN /\ alias' = NoAliases
              /\ m_scratchpad_cache' = push_block_scratchpad_data(<<>>, Genesis)
              /\ m_rdb_scratchpad' = PushPad(clear(loaded), Genesis)
              /\ m_db_blocks' = Backed(push_back(clear(blocks), BlockEntry(Genesis, 0)))
         ELSE /\ alias' = committed.alias
              /\ m_scratchpad_cache' = IF cached THEN file ELSE Elements(committed.pad)
              /\ m_rdb_scratchpad' = loaded
              /\ m_db_blocks' = Backed(blocks)
  /\ committed' = [blocks |-> m_db_blocks'.db, pad |-> m_rdb_scratchpad'.db, alias |-> alias']
  /\ file' = NoFile
  /\ pc' = "ready"
  /\ UNCHANGED kills

(* add_new_block, up to the transaction: it compares with the top block.   *)
BeginTransaction ==
  /\ pc = "ready"
  /\ pc' = "tx"
  /\ m_db_blocks' = Backed(m_db_blocks)
  /\ UNCHANGED <<committed, m_rdb_scratchpad, alias, m_scratchpad_cache, file, kills>>

OnChain == {m_db_blocks.db[h].bl : h \in DOMAIN m_db_blocks.db}

(* The miner transaction's alias, when the block has one.                  *)
process_blockchain_tx_extra(b)   == IF b \in DOMAIN AliasOf THEN put_alias_info(alias, AliasOf[b]) ELSE alias
unprocess_blockchain_tx_extra(b) == IF b \in DOMAIN AliasOf THEN pop_alias_info(alias, AliasOf[b]) ELSE alias

(* handle_block_to_main_chain: what it does to arrays and aliases.  An     *)
(* alias that is not accepted fails the block before anything is stored.   *)
PushBlock(b) ==
  /\ pc = "tx"
  /\ b \in DOMAIN AliasOf => PutAllowed(alias, AliasOf[b])
  /\ alias' = process_blockchain_tx_extra(b)
  /\ b \notin OnChain
  /\ size(m_db_blocks) < MaxHeight
  /\ m_db_blocks' = push_back(Backed(m_db_blocks), BlockEntry(b, Len(m_scratchpad_cache)))
  /\ m_scratchpad_cache' = push_block_scratchpad_data(m_scratchpad_cache, b)
  /\ m_rdb_scratchpad' = PushPad(m_rdb_scratchpad, b)
  /\ UNCHANGED <<committed, file, pc, kills>>

pop_block_from_blockchain ==
  /\ pc = "tx"
  /\ size(m_db_blocks) > 1
  /\ LET top == back(m_db_blocks).bl
     IN  /\ alias' = unprocess_blockchain_tx_extra(top)
         /\ m_scratchpad_cache' = pop_block_scratchpad_data(m_scratchpad_cache, top)
         /\ m_rdb_scratchpad' = PopPad(m_rdb_scratchpad, top)
         /\ m_db_blocks' = Backed(pop_back(Backed(m_db_blocks)))
  /\ UNCHANGED <<committed, file, pc, kills>>

CommitTransaction ==
  /\ pc = "tx"
  /\ committed' = [blocks |-> m_db_blocks.db, pad |-> m_rdb_scratchpad.db, alias |-> alias]
  /\ pc' = "ready"
  /\ UNCHANGED <<m_db_blocks, m_rdb_scratchpad, alias, m_scratchpad_cache, file, kills>>

(* A read of a block by height, under m_blockchain_lock: by another thread *)
(* between transactions, or by a handler inside its own.                   *)
ReadBlock(h) ==
  /\ pc # "down"
  /\ h < size(m_db_blocks)
  /\ m_db_blocks' = Got(Sized(m_db_blocks), h)
  /\ UNCHANGED <<committed, m_rdb_scratchpad, alias, m_scratchpad_cache, file, pc, kills>>

MemoryLost ==
  /\ pc' = "down"
  /\ m_db_blocks' = Opened(<<>>) /\ m_rdb_scratchpad' = Opened(<<>>) /\ alias' = NoAliases
  /\ m_scratchpad_cache' = <<>>

(* deinit.                                                                 *)
Stop ==
  /\ pc = "ready"
  /\ file' = m_scratchpad_cache
  /\ MemoryLost
  /\ UNCHANGED <<committed, kills>>

(***************************************************************************)
(* The process ends without deinit, or in it with part of the file         *)
(* written.                                                                *)
(***************************************************************************)
Kill ==
  /\ pc # "down"
  /\ kills < MaxKills
  /\ kills' = kills + 1
  /\ \/ UNCHANGED file
     \/ pc = "ready" /\ \E n \in 1..Len(m_scratchpad_cache) : file' = SubSeq(m_scratchpad_cache, 1, n)
  /\ MemoryLost
  /\ UNCHANGED committed

Next ==
  \/ Start \/ BeginTransaction \/ CommitTransaction \/ Stop \/ Kill
  \/ \E b \in Blocks : PushBlock(b)
  \/ pop_block_from_blockchain
  \/ \E h \in 0..MaxHeight : ReadBlock(h)

Spec == Init /\ [][Next]_vars
-----------------------------------------------------------------------------
(***************************************************************************)
(* An exception in the transaction.  The locks are left before the catch   *)
(* block of add_new_block aborts; the containers clear their values and    *)
(* nobody touches size_cache or the copy in memory.                        *)
(***************************************************************************)
AbortTransaction ==
  /\ pc = "tx"
  /\ pc' = "ready"
  /\ m_db_blocks' = [CacheCleared(m_db_blocks) EXCEPT !.db = committed.blocks]
  /\ m_rdb_scratchpad' = [CacheCleared(m_rdb_scratchpad) EXCEPT !.db = committed.pad]
  /\ alias' = committed.alias
  /\ UNCHANGED <<committed, m_scratchpad_cache, file, kills>>

ThrowingSpec == Init /\ [][Next \/ AbortTransaction]_vars
-----------------------------------------------------------------------------
Running == pc # "down"

Chain == [k \in 1..Cardinality(DOMAIN m_db_blocks.db) |-> m_db_blocks.db[k - 1].bl]

PadOf(chain) ==
  LET pad[n \in 0..Len(chain)] == IF n = 0 THEN <<>> ELSE push_block_scratchpad_data(pad[n - 1], chain[n])
  IN  pad[Len(chain)]

IsArray(f, S) == DOMAIN f = 0..(Cardinality(DOMAIN f) - 1) /\ \A k \in DOMAIN f : f[k] \in S

BlockEntries == [bl : Blocks, scratch_offset : Nat]

(***************************************************************************)
(* The types.  The keys of an array have no gap.                           *)
(***************************************************************************)
TypeOK ==
  /\ IsArray(committed.blocks, BlockEntries) /\ IsArray(committed.pad, Hash)
  /\ IsArray(m_db_blocks.db, BlockEntries) /\ IsArray(m_rdb_scratchpad.db, Hash)
  /\ alias \in AliasTables /\ committed.alias \in AliasTables
  /\ m_scratchpad_cache \in Pad
  /\ file \in Pad
  /\ pc \in {"down", "ready", "tx"}
  /\ kills \in 0..MaxKills

Coherent(c) ==
  /\ DOMAIN c.db = 0..(Cardinality(DOMAIN c.db) - 1)
  /\ \A k \in DOMAIN c.data : k \in DOMAIN c.db /\ c.data[k] = c.db[k]
  /\ c.size # NoSize => c.size = Cardinality(DOMAIN c.db)

(***************************************************************************)
(* A reader never gets a value or a size that is not the database's: the   *)
(* caches follow every set, erase, fill and trim, the keys of an array     *)
(* have no gap, and between transactions what is read is committed.        *)
(***************************************************************************)
CachesCoherent ==
  Running =>
    /\ Coherent(m_db_blocks) /\ Coherent(m_rdb_scratchpad)
    /\ pc = "ready" => /\ m_db_blocks.db = committed.blocks
                       /\ m_rdb_scratchpad.db = committed.pad

(***************************************************************************)
(* back() finds the element it asks for whenever there is one, as its      *)
(* assertion says.                                                         *)
(***************************************************************************)
BackFound ==
  pc = "ready" => size(m_db_blocks) - 1 \in DOMAIN m_db_blocks.db

(***************************************************************************)
(* A cached value has a node in most_recet_acessed: get and erase follow   *)
(* the iterator kept with the value, also for a key that was set twice.    *)
(***************************************************************************)
IteratorsLive ==
  \A c \in {m_db_blocks, m_rdb_scratchpad} :
    DOMAIN c.data \subseteq Range(c.recent) /\ Len(c.recent) <= MaxElements

(***************************************************************************)
(* The two copies of the scratchpad are the one that the blocks of the     *)
(* chain make when they are pushed in turn, whatever was popped before,    *)
(* and after a restart from the file, from part of it or without it.       *)
(***************************************************************************)
PadFollowsChain ==
  Running =>
    /\ m_scratchpad_cache = PadOf(Chain)
    /\ Elements(m_rdb_scratchpad.db) = PadOf(Chain)
    /\ \A k \in DOMAIN Chain : m_db_blocks.db[k - 1].scratch_offset = Len(PadOf(SubSeq(Chain, 1, k - 1)))

(***************************************************************************)
(* The history of a name is what the blocks of the chain say of it, and    *)
(* the address to names table is its inverse, whatever was registered,     *)
(* given away and popped before; so the next pop of an alias succeeds.     *)
(***************************************************************************)
AliasesFollowChain ==
  Running =>
    /\ \A n \in Names :
         LET about == OnlyIn(Chain, {b \in DOMAIN AliasOf : AliasOf[b].m_alias = n})
         IN  alias.aliases[n] = [k \in DOMAIN about |-> AliasOf[about[k]].m_address]
    /\ Agree(alias)
    /\ \A k \in {Len(Chain)} : Chain[k] \in DOMAIN AliasOf => PopAllowed(alias, AliasOf[Chain[k]])
-----------------------------------------------------------------------------
(***************************************************************************)
(* The scratchpad that handle_alternative_block uses for a block on top of *)
(* alt_chain, which leaves the main chain at connection_height: the main   *)
(* chain's copy in memory, entries of the alternative blocks, and one      *)
(* patch that adds those of the alternative blocks and takes back those of *)
(* the main chain's.                                                       *)
(***************************************************************************)
XorPatch(p, q) == [i \in DOMAIN p \cup DOMAIN q |->
                     IF i \notin DOMAIN p THEN q[i] ELSE IF i \notin DOMAIN q THEN p[i] ELSE xor_pod(p[i], q[i])]

ConnectionOffset(h) == m_db_blocks.db[h].scratch_offset

MainLinePatches(h) ==
  LET count == size(m_db_blocks) - h
      patches[n \in 0..count] ==
        IF n = 0 THEN <<>>
        ELSE XorPatch(patches[n - 1], get_scratchpad_patch(ConnectionOffset(h + n - 1),
                                                           Addendum[m_db_blocks.db[h + n - 1].bl]))
  IN  patches[count]

alt_scratchppad(alt_chain) ==
  LET pad[n \in 0..Len(alt_chain)] == IF n = 0 THEN <<>> ELSE pad[n - 1] \o Entries(Addendum[alt_chain[n]])
  IN  pad[Len(alt_chain)]

(* scratch_offset of the alternative block at k, or of the one to come.    *)
AltOffset(h, alt_chain, k) == ConnectionOffset(h) + Len(alt_scratchppad(SubSeq(alt_chain, 1, k - 1)))

AltPatches(h, alt_chain) ==
  LET patches[n \in 0..Len(alt_chain)] ==
        IF n = 0 THEN <<>>
        ELSE XorPatch(patches[n - 1], get_scratchpad_patch(AltOffset(h, alt_chain, n), Addendum[alt_chain[n]]))
  IN  patches[Len(alt_chain)]

AllPatches(h, alt_chain) == XorPatch(AltPatches(h, alt_chain), MainLinePatches(h))

alt_scratchppad_patch(h, alt_chain) ==
  XorPatch(AltPatches(h, alt_chain), Restrict(MainLinePatches(h), 0..(ConnectionOffset(h) - 1)))

AltPad(h, alt_chain) ==
  apply_scratchpad_patch(SubSeq(m_scratchpad_cache, 1, ConnectionOffset(h)) \o alt_scratchppad(alt_chain),
                         alt_scratchppad_patch(h, alt_chain))

(***************************************************************************)
(* The proof of work of an alternative block is computed over the          *)
(* scratchpad it would meet on the main chain, for every branch of up to   *)
(* two blocks at every height.                                             *)
(***************************************************************************)
Branches(h) ==
  LET free == Blocks \ {Chain[k] : k \in 1..h}
  IN  {<<>>} \cup {<<a>> : a \in free} \cup {<<a, b>> : a, b \in free}

AltPadRight ==
  pc = "ready" =>
    \A h \in 1..(size(m_db_blocks) - 1) :
      \A alt \in {s \in Branches(h) : Len(s) = 2 => s[1] # s[2]} :
        AltPad(h, alt) = PadOf(SubSeq(Chain, 1, h) \o alt)
=============================================================================
