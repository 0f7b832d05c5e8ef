------------------------------ MODULE NodeLocks ------------------------------
(***************************************************************************)
(* The order in which the daemon's threads take the locks of the core.     *)
(* Each thread serves one request after another: a connection's message, a *)
(* call of the RPC server, a block the miner found.  A request is the      *)
(* sequence of lock and unlock steps of its handler, built from the nested *)
(* CRITICAL_REGIONs of the functions it calls; what is done under the      *)
(* locks belongs to the other modules.  A branch that decides which locks  *)
(* are taken makes a handler a set of sequences.                           *)
(*                                                                         *)
(* The locks are recursive mutexes:                                        *)
(*   batch    blockchain_storage::m_exclusive_batch_lock                   *)
(*   chain    blockchain_storage::m_blockchain_lock                        *)
(*   pool     tx_memory_pool::m_transactions_lock                          *)
(*   incoming core::m_incoming_tx_lock                                     *)
(* Other locks are left out, also where one of these is asked for under    *)
(* them: the miner holds m_threads_lock, m_aliace_to_apply_in_block_lock   *)
(* and m_scratchpad_access while it gets a template or copies the          *)
(* scratchpad.  The model may miss a circle of waiting threads that way,   *)
(* it invents none.                                                        *)
(* m_exclusive_batch_active is left out: it is set and reset by a thread   *)
(* that holds batch all the while and read under batch only, so that no    *)
(* other thread ever reads it set.                                         *)
(***************************************************************************)
EXTENDS Naturals, Sequences

CONSTANT Threads

Locks  == {"batch", "chain", "pool", "incoming"}
Nobody == "nobody"   \* no thread

VARIABLES
  owner,   \* of each lock
  depth,   \* how often its owner holds it
  todo     \* of each thread: the steps left of the request it serves

vars == <<owner, depth, todo>>

Step == [op : {"lock", "unlock"}, on : Locks]

Lock(l)   == <<[op |-> "lock", on |-> l]>>
Unlock(l) == <<[op |-> "unlock", on |-> l]>>

\* CRITICAL_REGION_LOCAL(l) around each way the code inside may go
Region(l, bodies) == {Lock(l) \o b \o Unlock(l) : b \in bodies}
Leaf(l)           == Region(l, {<<>>})

\* one piece of code after another
Then(before, after) == {b \o a : b \in before, a \in after}

-----------------------------------------------------------------------------
\* blockchain_storage: one transaction is looked for in the pool when the chain lacks it
get_transactions == Region("chain", {<<>>} \cup Leaf("pool"))

\* The pool asks the chain about each of its transactions while it is locked.
fill_block_template   == Region("pool", {<<>>} \cup Leaf("chain"))
create_block_template == Then(Leaf("chain"), fill_block_template)

\* Both are held up to the end; what is called below takes them again.
add_new_block == Region("pool", Leaf("chain"))

handle_incoming_block(update_template) ==
  {<<>>} \cup add_new_block \cup (IF update_template THEN Then(add_new_block, create_block_template) ELSE {})

\* core: the pool and the chain are asked in turn, then tx_memory_pool::add_tx
\* looks at the key images unless a block brought the transaction.
add_tx(kept_by_block) ==
  LET key_images == IF kept_by_block THEN {<<>>} ELSE Leaf("pool")
  IN  {<<>>} \cup key_images \cup Then(key_images, Then(Leaf("chain"), Leaf("pool")))

add_new_tx(kept_by_block) ==
  Leaf("pool") \cup Then(Leaf("pool"),
                         Leaf("chain") \cup Then(Leaf("chain"), add_tx(kept_by_block)))

\* one overload calls the other, each takes the lock
handle_incoming_tx(kept_by_block) ==
  Region("incoming", {<<>>} \cup Region("incoming", {<<>>} \cup add_new_tx(kept_by_block)))

-----------------------------------------------------------------------------
(* What a thread may be asked to do.                                       *)

\* a block of one transaction
handle_notify_new_block ==
  handle_incoming_tx(TRUE) \cup Then(handle_incoming_tx(TRUE), handle_incoming_block(TRUE))

handle_notify_new_transactions == handle_incoming_tx(FALSE)

\* start_batch_exclusive_operation and finish_batch_exclusive_operation
Batch(body) == Then(Leaf("batch"), Then(Region("chain", body), Leaf("batch")))

call_if_no_batch_exclusive_operation(body) == Region("batch", Region("chain", body))

\* The callback of handle_response_get_objects: the answer is refused, or its blocks
\* are added in a batch, up to the first transaction or block that fails.
handle_response_get_objects ==
  call_if_no_batch_exclusive_operation(
    {<<>>} \cup Region("pool", Batch(handle_incoming_tx(TRUE)
                                     \cup Then(handle_incoming_tx(TRUE),
                                               handle_incoming_block(FALSE)))))

handle_get_objects == Region("chain", get_transactions)

\* The block of a miner's thread or of submitblock; when it made the main chain, its
\* transactions are collected for the relay.
handle_block_found ==
  LET added == Then(add_new_block, create_block_template)
  IN  added \cup Then(added, get_transactions)

Requests ==
  handle_notify_new_block \cup handle_notify_new_transactions \cup handle_response_get_objects
  \cup handle_get_objects \cup handle_block_found \cup get_transactions \cup create_block_template

-----------------------------------------------------------------------------
Init ==
  /\ owner = [l \in Locks |-> Nobody]
  /\ depth = [l \in Locks |-> 0]
  /\ todo = [t \in Threads |-> <<>>]

Serve(t) ==
  /\ todo[t] = <<>>
  /\ \E r \in Requests : todo' = [todo EXCEPT ![t] = r]
  /\ UNCHANGED <<owner, depth>>

Acquire(t) ==
  /\ todo[t] # <<>>
  /\ LET s == Head(todo[t])
     IN  /\ s.op = "lock"
         /\ owner[s.on] \in {Nobody, t}
         /\ owner' = [owner EXCEPT ![s.on] = t]
         /\ depth' = [depth EXCEPT ![s.on] = @ + 1]
  /\ todo' = [todo EXCEPT ![t] = Tail(@)]

Release(t) ==
  /\ todo[t] # <<>>
  /\ LET s == Head(todo[t])
     IN  /\ s.op = "unlock"
         /\ depth' = [depth EXCEPT ![s.on] = @ - 1]
         /\ owner' = [owner EXCEPT ![s.on] = IF depth[s.on] = 1 THEN Nobody ELSE @]
  /\ todo' = [todo EXCEPT ![t] = Tail(@)]

Next == \E t \in Threads : Serve(t) \/ Acquire(t) \/ Release(t)

Spec == Init /\ [][Next]_vars

-----------------------------------------------------------------------------
\* t wants a lock somebody in S holds
WaitsFor(t, S) ==
  /\ todo[t] # <<>>
  /\ Head(todo[t]).op = "lock"
  /\ owner[Head(todo[t]).on] \in S \ {t}

(***************************************************************************)
(* No threads wait for each other in a circle, which is what taking the    *)
(* pool's lock before the chain's in add_new_block is for: "to avoid       *)
(* deadlock lets lock tx_pool for whole add/reorganize process".           *)
(***************************************************************************)
NoDeadlock == \A S \in SUBSET Threads : S # {} => \E t \in S : ~WaitsFor(t, S)
=============================================================================
