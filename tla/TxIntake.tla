------------------------------ MODULE TxIntake ------------------------------
(***************************************************************************)
(* The node's ledger with core::handle_incoming_tx, as the five critical   *)
(* sections it is.                                                         *)
(* m_incoming_tx_lock admits one transaction at a time, but add_new_block  *)
(* does not take that lock: between two sections any block may be          *)
(* connected and any reorganisation may run.  Each section needs the pool  *)
(* lock or the blockchain lock, so none runs while pc # "idle".            *)
(***************************************************************************)
EXTENDS ChainStorage

CONSTANT Nobody          \* m_incoming_tx_lock is free

VARIABLE intake          \* Nobody, or the call in progress

allVars == <<vars, intake>>

Intake == [stage : {"have_tx_chain", "key_images", "inputs", "insert"},
           tx : Txs, kept : BOOLEAN, max_used : Blocks \cup {NoBlock}]

IntakeInit == Init /\ intake = Nobody

At(stage) == pc = "idle" /\ intake # Nobody /\ intake.stage = stage

GoTo(stage) == intake' = [intake EXCEPT !.stage = stage]

(* add_new_tx, first test: tx_memory_pool::have_tx.                        *)
StartIntake(t, kept) ==
  /\ pc = "idle"
  /\ intake = Nobody
  /\ ~have_tx(t)
  /\ intake' = [stage |-> "have_tx_chain", tx |-> t, kept |-> kept, max_used |-> NoBlock]
  /\ UNCHANGED vars

(* Second test: blockchain_storage::have_tx.                               *)
AskChain ==
  /\ At("have_tx_chain")
  /\ CASE have_tx_chain(intake.tx) -> intake' = Nobody
       [] intake.kept /\ ~have_tx_chain(intake.tx) -> GoTo("inputs")
       [] OTHER -> GoTo("key_images")
  /\ UNCHANGED vars

(* add_tx, for a transaction that comes alone: is a key image in the pool? *)
AskKeyImages ==
  /\ At("key_images")
  /\ IF have_tx_keyimges_as_spent(intake.tx) THEN intake' = Nobody ELSE GoTo("inputs")
  /\ UNCHANGED vars

(* The inputs are checked before the pool lock is taken.                   *)
CheckInputs ==
  /\ At("inputs")
  /\ CASE CheckNow(intake.tx, TRUE) ->
            intake' = [intake EXCEPT !.stage = "insert", !.max_used = MaxUsedBlock(intake.tx)]
       [] ~CheckNow(intake.tx, TRUE) /\ intake.kept -> GoTo("insert")
       [] OTHER -> intake' = Nobody
  /\ UNCHANGED vars

(***************************************************************************)
(* The insertion, under the pool lock.  A transaction already there is     *)
(* refused.  The loop over the inputs fails at the first key image that    *)
(* another transaction has taken meanwhile; m_transactions keeps the       *)
(* entry, m_spent_key_images the key images before that one.               *)
(***************************************************************************)
FreeImages(t) == {k \in Images[t] : m_spent_key_images[k] = {}}

InsertTx ==
  LET t == intake.tx IN
  /\ At("insert")
  /\ intake' = Nobody
  /\ \/ have_tx(t) /\ UNCHANGED poolVars
     \/ /\ ~have_tx(t)
        /\ m_transactions' = [m_transactions EXCEPT ![t] = Checked(TRUE, intake.max_used)]
        /\ IF intake.kept \/ FreeImages(t) = Images[t]
             THEN m_spent_key_images' = Index(m_spent_key_images, {t})
             ELSE \E done \in SUBSET FreeImages(t) :
                    m_spent_key_images' = [k \in KeyImages |->
                      IF k \in done THEN {t} ELSE m_spent_key_images[k]]
  /\ UNCHANGED <<dbVars, altVars, m_is_in_checkpoint_zone, swVars>>

IntakeStep == AskChain \/ AskKeyImages \/ CheckInputs \/ InsertTx

(***************************************************************************)
(* A pop that fails leaves a block without its key images, miner           *)
(* transaction and scratchpad data; behaviours are followed up to there.   *)
(***************************************************************************)
IntakeNext ==
  \/ \E t \in Txs, kept \in BOOLEAN : StartIntake(t, kept)
  \/ IntakeStep
  \/ PopsSucceed /\ BlockAndIdleSteps /\ UNCHANGED intake
  \/ \E crash \in BOOLEAN : Restart(crash) /\ intake' = Nobody

IntakeSpec == IntakeInit /\ [][IntakeNext]_allVars

(* The thread that holds the locks keeps running.                          *)
FairSpec == IntakeSpec /\ WF_allVars(PopsSucceed /\ SwitchStep /\ UNCHANGED intake)
=============================================================================
