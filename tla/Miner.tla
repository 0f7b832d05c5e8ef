-------------------------------- MODULE Miner --------------------------------
(***************************************************************************)
(* The miner: worker threads that hash a block template over their copy of *)
(* the scratchpad, the calls that replace the template and the copy when   *)
(* the chain grows, the timers that do the same, pausing, start and stop.  *)
(*                                                                         *)
(* The chain is the number of its top block, which every change replaces.  *)
(* A template is named by the top block it extends, the scratchpad by the  *)
(* top block it was copied under; a hash counts for a template if the two  *)
(* agree.  m_template_no is only compared with the number a worker read    *)
(* last, so it is kept as whether the two are equal.  A template is        *)
(* requested and set under m_aliace_to_apply_in_block_lock, so requests do *)
(* not overlap and are one step.  Nonces, the hash rate, the alias to      *)
(* register and a failure to make a template are left out.                 *)
(***************************************************************************)
EXTENDS Naturals, FiniteSets

CONSTANTS
  Workers,     \* threads_count of them
  Stoppers,    \* threads that call stop: the console, RPC, core::deinit
  MaxBlocks    \* bound on the blocks that connections bring and threads find

VARIABLES
  top,
  m_template,        \* 0: none yet, as m_template_no = 0
  m_scratchpad,
  m_pausers_count,
  m_stop,
  worker,            \* the threads, see Worker
  net,               \* the connection that brings blocks: "idle", "add", "pad", ...
  control,           \* the start that holds m_threads_lock: "idle" (none), "pad", ...
  stopper,           \* the stops: "idle", "lock" (waits for m_threads_lock), "join"
  unheard,           \* history: the stops whose signal a start wrote over
  blocks             \* how many so far

mineVars == <<m_template, m_scratchpad, m_pausers_count, m_stop>>
stopVars == <<stopper, unheard>>
vars == <<top, mineVars, worker, net, control, stopVars, blocks>>

Tops == 1..(MaxBlocks + 1)
NewBlock == blocks < MaxBlocks /\ blocks' = blocks + 1

\* b: the template copied.  fresh: local_template_ver = m_template_no.  good: the hash
\* that met the difficulty was taken over the scratchpad of that template.
Worker == [pc : {"none", "loop", "number", "hash", "pause", "add", "pad", "template", "resume", "ended"},
           b : {0} \cup Tops, fresh : BOOLEAN, good : BOOLEAN]

Absent  == [pc |-> "none", b |-> 0, fresh |-> FALSE, good |-> FALSE]
Started == [Absent EXCEPT !.pc = "loop"]

Init ==
  /\ top = 1
  /\ m_template = 0 /\ m_scratchpad = 0
  /\ m_pausers_count = 0
  /\ m_stop = TRUE
  /\ worker = [t \in Workers |-> Absent]
  /\ net = "idle" /\ control = "idle"
  /\ stopper = [s \in Stoppers |-> "idle"] /\ unheard = {}
  /\ blocks = 0

is_mining == ~m_stop
-----------------------------------------------------------------------------
(* What several threads call.  ws: the workers otherwise as they will be.  *)

NumberKept(ws) == m_template' = top /\ worker' = ws

set_block_template(ws) ==
  /\ m_template' = top
  /\ worker' = [t \in Workers |-> [ws[t] EXCEPT !.fresh = FALSE]]

pause  == m_pausers_count' = m_pausers_count + 1
resume == m_pausers_count' = m_pausers_count - 1   \* never below 0 here

At(t, pc)  == worker[t].pc = pc
Goto(t, pc) == [worker EXCEPT ![t].pc = pc]
-----------------------------------------------------------------------------
(* worker_thread.  A paused worker sleeps and looks again.                 *)

Loop(t) ==
  /\ At(t, "loop")
  /\ is_mining
  /\ m_pausers_count = 0
  /\ worker' = IF worker[t].fresh
               THEN Goto(t, "hash")
               ELSE [worker EXCEPT ![t].pc = "number", ![t].b = m_template]
  /\ UNCHANGED <<top, mineVars, net, control, stopVars, blocks>>

\* m_template_no is read after m_template_lock was left
ReadNumber(t) ==
  /\ At(t, "number")
  /\ worker' = [worker EXCEPT ![t].pc = "hash", ![t].fresh = TRUE]
  /\ UNCHANGED <<top, mineVars, net, control, stopVars, blocks>>

Hash(t) ==
  /\ At(t, "hash")
  /\ \/ worker' = Goto(t, "loop") /\ UNCHANGED blocks
     \/ /\ NewBlock
        /\ worker' = [worker EXCEPT ![t].pc = "pause", ![t].good = (m_scratchpad = worker[t].b)]
  /\ UNCHANGED <<top, mineVars, net, control, stopVars>>

(***************************************************************************)
(* core::handle_block_found in the worker.  A block over an older top      *)
(* becomes an alternative one, one with a wrong hash is refused; the       *)
(* template is updated in any case.                                        *)
(***************************************************************************)
PauseFound(t) ==
  /\ At(t, "pause")
  /\ pause
  /\ worker' = Goto(t, "add")
  /\ UNCHANGED <<top, m_template, m_scratchpad, m_stop, net, control, stopVars, blocks>>

AddFound(t) ==
  /\ At(t, "add")
  /\ top' = IF worker[t].b = top /\ worker[t].good THEN top + 1 ELSE top
  /\ worker' = Goto(t, IF is_mining THEN "pad" ELSE "resume")
  /\ UNCHANGED <<mineVars, net, control, stopVars, blocks>>

UpdatePadFound(t) ==
  /\ At(t, "pad")
  /\ m_scratchpad' = top
  /\ worker' = Goto(t, "template")
  /\ UNCHANGED <<top, m_template, m_pausers_count, m_stop, net, control, stopVars, blocks>>

UpdateTemplateFound(t) ==
  /\ At(t, "template")
  /\ set_block_template(Goto(t, "resume"))
  /\ UNCHANGED <<top, m_scratchpad, m_pausers_count, m_stop, net, control, stopVars, blocks>>

ResumeFound(t) ==
  /\ At(t, "resume")
  /\ resume
  /\ worker' = Goto(t, "loop")
  /\ UNCHANGED <<top, m_template, m_scratchpad, m_stop, net, control, stopVars, blocks>>

ThreadEnds(t) ==
  /\ At(t, "loop")
  /\ m_stop
  /\ worker' = Goto(t, "ended")
  /\ UNCHANGED <<top, mineVars, net, control, stopVars, blocks>>

WorkerStep(t) ==
  \/ Loop(t) \/ ReadNumber(t) \/ Hash(t) \/ ThreadEnds(t)
  \/ PauseFound(t) \/ AddFound(t) \/ UpdatePadFound(t) \/ UpdateTemplateFound(t) \/ ResumeFound(t)
-----------------------------------------------------------------------------
(***************************************************************************)
(* handle_notify_new_block, with handle_incoming_block and                 *)
(* on_block_chain_update inside.                                           *)
(***************************************************************************)
PauseNet(next) ==
  /\ net = "idle"
  /\ NewBlock
  /\ pause
  /\ net' = next
  /\ UNCHANGED <<top, m_template, m_scratchpad, m_stop, worker, control, stopVars>>

AddNet ==
  /\ net = "add"
  /\ \/ top' = top + 1 /\ net' = (IF is_mining THEN "pad" ELSE "resume")
     \/ top' = top /\ net' = "resume"
  /\ UNCHANGED <<mineVars, worker, control, stopVars, blocks>>

UpdatePadNet ==
  /\ net = "pad"
  /\ m_scratchpad' = top
  /\ net' = "template"
  /\ UNCHANGED <<top, m_template, m_pausers_count, m_stop, worker, control, stopVars, blocks>>

UpdateTemplateNet ==
  /\ net = "template"
  /\ set_block_template(worker)
  /\ net' = "resume"
  /\ UNCHANGED <<top, m_scratchpad, m_pausers_count, m_stop, control, stopVars, blocks>>

ResumeNet ==
  /\ net = "resume"
  /\ resume
  /\ net' = "idle"
  /\ UNCHANGED <<top, m_template, m_scratchpad, m_stop, worker, control, stopVars, blocks>>

NetStep == AddNet \/ UpdatePadNet \/ UpdateTemplateNet \/ ResumeNet

(***************************************************************************)
(* A batch of handle_response_get_objects: its blocks are added without    *)
(* an update of the template, and at its end a call of resume_mine is put  *)
(* together (boost::bind) and not made.                                    *)
(***************************************************************************)
AddBatch ==
  /\ net = "batch"
  /\ top' \in {top, top + 1}
  /\ net' = "idle"
  /\ UNCHANGED <<mineVars, worker, control, stopVars, blocks>>
-----------------------------------------------------------------------------
(* on_idle: every 5 and every 30 seconds.                                  *)

IdleTemplate ==
  /\ is_mining
  /\ set_block_template(worker)
  /\ UNCHANGED <<top, m_scratchpad, m_pausers_count, m_stop, net, control, stopVars, blocks>>

IdlePad ==
  /\ is_mining
  /\ m_scratchpad' = top
  /\ UNCHANGED <<top, m_template, m_pausers_count, m_stop, worker, net, control, stopVars, blocks>>
-----------------------------------------------------------------------------
(***************************************************************************)
(* start, under m_threads_lock from its tests to its end.  It gets a       *)
(* template only if there never was one.                                   *)
(***************************************************************************)
ThreadsLockFree == control = "idle" /\ \A s \in Stoppers : stopper[s] # "join"

Start ==
  /\ ThreadsLockFree
  /\ m_stop
  /\ \A t \in Workers : worker[t] = Absent   \* "there are still active mining threads"
  /\ m_template' = IF m_template = 0 THEN top ELSE m_template
  /\ control' = "pad"
  /\ UNCHANGED <<top, m_scratchpad, m_pausers_count, m_stop, worker, net, stopVars, blocks>>

UpdatePadStart ==
  /\ control = "pad"
  /\ m_scratchpad' = top
  /\ control' = "flag"
  /\ UNCHANGED <<top, m_template, m_pausers_count, m_stop, worker, net, stopVars, blocks>>

\* also over the signal of a stop that came after the test of Start
ClearStop ==
  /\ control = "flag"
  /\ m_stop' = FALSE
  /\ unheard' = {s \in Stoppers : stopper[s] # "idle"}
  /\ control' = "threads"
  /\ UNCHANGED <<top, m_template, m_scratchpad, m_pausers_count, worker, net, stopper, blocks>>

StartThreads ==
  /\ control = "threads"
  /\ worker' = [t \in Workers |-> Started]
  /\ control' = "idle"
  /\ UNCHANGED <<top, mineVars, net, stopVars, blocks>>

(***************************************************************************)
(* stop.  The signal is written before m_threads_lock is asked for, at any *)
(* time: mining or not, and inside a start.                                *)
(***************************************************************************)
NoSignal         == m_stop' = m_stop
send_stop_signal == m_stop' = TRUE

Signal(s) ==
  /\ stopper[s] = "idle"
  /\ send_stop_signal
  /\ stopper' = [stopper EXCEPT ![s] = "lock"]
  /\ unheard' = {}
  /\ UNCHANGED <<top, m_template, m_scratchpad, m_pausers_count, worker, net, control, blocks>>

LockThreads(s) ==
  /\ stopper[s] = "lock"
  /\ ThreadsLockFree
  /\ stopper' = [stopper EXCEPT ![s] = "join"]
  /\ UNCHANGED <<top, mineVars, worker, net, control, unheard, blocks>>

Join(s) ==
  /\ stopper[s] = "join"
  /\ \A t \in Workers : worker[t].pc \in {"none", "ended"}
  /\ worker' = [t \in Workers |-> Absent]
  /\ stopper' = [stopper EXCEPT ![s] = "idle"]
  /\ unheard' = unheard \ {s}
  /\ UNCHANGED <<top, mineVars, net, control, blocks>>

StartStep   == UpdatePadStart \/ ClearStop \/ StartThreads
StopStep(s) == LockThreads(s) \/ Join(s)
-----------------------------------------------------------------------------
Next ==
  \/ \E t \in Workers : WorkerStep(t)
  \/ PauseNet("add") \/ NetStep
  \/ IdleTemplate \/ IdlePad
  \/ Start \/ StartStep
  \/ \E s \in Stoppers : Signal(s) \/ StopStep(s)

Spec == Init /\ [][Next]_vars

(***************************************************************************)
(* Every thread runs on, and the timers fire.  Nobody has to bring blocks, *)
(* start or stop, and nobody stops so often that another stop never gets   *)
(* m_threads_lock.                                                         *)
(***************************************************************************)
Fairness ==
  /\ \A t \in Workers : WF_vars(WorkerStep(t))
  /\ WF_vars(NetStep \/ AddBatch)
  /\ WF_vars(IdleTemplate) /\ WF_vars(IdlePad)
  /\ WF_vars(StartStep)
  /\ \A s \in Stoppers : SF_vars(LockThreads(s)) /\ WF_vars(Join(s))

FairSpec == Spec /\ Fairness

\* with downloads of blocks in batches
BatchSpec == Init /\ [][Next \/ PauseNet("batch") \/ AddBatch]_vars /\ Fairness
-----------------------------------------------------------------------------
(***************************************************************************)
(* The types; nobody resumes without having paused, which                  *)
(* "Unexpected miner::resume() called" would report.                       *)
(***************************************************************************)
TypeOK ==
  /\ top \in Tops
  /\ m_template \in {0} \cup Tops
  /\ m_scratchpad \in {0} \cup Tops
  /\ m_pausers_count \in Nat
  /\ m_stop \in BOOLEAN
  /\ worker \in [Workers -> Worker]
  /\ net \in {"idle", "add", "pad", "template", "resume", "batch"}
  /\ control \in {"idle", "pad", "flag", "threads"}
  /\ stopper \in [Stoppers -> {"idle", "lock", "join"}]
  /\ unheard \in SUBSET Stoppers
  /\ blocks \in 0..MaxBlocks

(***************************************************************************)
(* As long as nobody stops mining, every thread hashes the block that      *)
(* extends the newest top, over that block's scratchpad, again and again:  *)
(* a template copied under an old number, a scratchpad replaced before the *)
(* template, a template left over from an earlier start and a block that   *)
(* came while mining was about to start are all made good, and a pause     *)
(* ends.  on_block_chain_update says that threads "may work few rounds     *)
(* without".                                                               *)
(***************************************************************************)
MinesOnTop ==
  \A t \in Workers : is_mining ~> (m_stop \/ (At(t, "hash") /\ worker[t].b = top /\ m_scratchpad = top))

(***************************************************************************)
(* stop returns, unless a start that took m_threads_lock first wrote over  *)
(* its signal (and no later stop signalled again): every thread, also one  *)
(* that is paused, has just found a block or is only being started, sees   *)
(* the signal and can be joined, and the lock is not held for ever.        *)
(***************************************************************************)
StopEnds == \A s \in Stoppers : stopper[s] # "idle" ~> (stopper[s] = "idle" \/ s \in unheard)

(***************************************************************************)
(* What stop logs and the RPC answers: "Mining has been stopped".  It is   *)
(* refuted by a stop inside start: the signal of miner.cpp:338 is written  *)
(* over at 298, and the stop then waits for threads that mine on.          *)
(***************************************************************************)
StopReturns == \A s \in Stoppers : stopper[s] # "idle" ~> stopper[s] = "idle"
=============================================================================
