------------------------------ MODULE Session -------------------------------
(***************************************************************************)
(* One session under its managers: start_session, deliver, resume and      *)
(* reopen calls on any pods (orcastork/manager/manager.py), the            *)
(* orchestrator run each may spawn (orchestrator.py _run), and the shared  *)
(* state they meet on: the fenced lock with its completion flag, the       *)
(* inbox, the DataPoint store, the aggregator's durable record and its     *)
(* contribution marker.  One step per awaited operation on shared state.   *)
(*                                                                         *)
(* A delivery's DataPoint is named by the call that delivers it, the seed  *)
(* by the starting call.  Draining an entry is one step here; Inbox has    *)
(* its inside, SessionStateMirror that of the mirror.  The flow has one    *)
(* aggregator.  The per-pod takeover guard only forbids interleavings and  *)
(* is left out.                                                            *)
(***************************************************************************)
EXTENDS FencedLock, FiniteSets

CONSTANTS Starter,      \* the start_session call
          Deliveries,   \* the deliver calls
          Reopening,    \* those passing reopen_if_complete = True
          Redrives,     \* the host's resume calls
          MAX_BACKSTOP_RESPAWNS,
          MaxFaults     \* bound on crashes, failures and lapses of a live lease

Call == {Starter} \cup Deliveries \cup Redrives
Fence == {"store", "record", "marker"}

ASSUME SessionAssumption ==
    /\ Reopening \subseteq Deliveries
    /\ Starter \notin Deliveries \cup Redrives
    /\ Deliveries \cap Redrives = {}
    /\ MAX_BACKSTOP_RESPAWNS \in Nat
    /\ MaxFaults \in Nat

VARIABLES pending,      \* the inbox: delivered, not yet acked
          store,        \* the DataPoints of the persisted store
          record,       \* the DataPoints folded into the durable output
          marked,       \* the aggregator's contribution marker
          fence,        \* the highest epoch each guarded scope has accepted
          calls,        \* call -> its progress
          faults,       \* faults that have happened
          finalized,    \* history: the last epoch that raised the flag
          excuses       \* history: the ways data can escape the record

vars == <<lockVars, pending, store, record, marked, fence, calls, faults,
          finalized, excuses>>

\* A call outside a run.  While it runs: its epoch, its mirror of the store,
\* whether the run was given a fresh deadline, and how the run ended.
Out(pc, budget) ==
    [pc |-> pc, epoch |-> 0, mirror |-> {}, fresh |-> FALSE, status |-> "none",
     budget |-> budget]

ManagerPC == {"idle", "delivered", "deliver_held", "sleeping", "due", "resume",
              "resume_epoch", "resume_held", "reopen", "reopen_held", "clear",
              "unmark", "spawn", "probe", "done", "crashed"}
RunPC == {"rehydrate", "gather", "gathered", "aggregate", "contributed", "fold",
          "attempted", "mark", "check", "redrive", "finalize"}

TypeOK ==
    /\ LockTypeOK
    /\ pending \subseteq Deliveries
    /\ store \subseteq Call \ Redrives /\ record \subseteq store
    /\ marked \in BOOLEAN
    /\ fence \in [Fence -> 0..epoch_counter]
    /\ faults \in 0..MaxFaults
    /\ finalized \in 0..epoch_counter
    /\ excuses \subseteq {"late", "inherited", "strayed", "dead_lettered"}
    /\ \A c \in Call :
         /\ calls[c].pc \in ManagerPC \cup RunPC \cup {"release"}
         /\ calls[c].epoch \in 0..epoch_counter
         /\ calls[c].epoch = 0 <=> calls[c].pc \in ManagerPC
         /\ calls[c].mirror \subseteq store
         /\ calls[c].fresh \in BOOLEAN
         /\ calls[c].status \in {"none", "completed", "parked", "superseded", "failed"}
         /\ calls[c].status # "none" => calls[c].pc = "release"
         /\ calls[c].budget \in 0..MAX_BACKSTOP_RESPAWNS

Init ==
    /\ LockInit
    /\ pending = {} /\ store = {} /\ record = {}
    /\ marked = FALSE
    /\ fence = [s \in Fence |-> 0]
    /\ calls = [c \in Call |-> Out("idle", MAX_BACKSTOP_RESPAWNS)]
    /\ faults = 0
    /\ finalized = 0
    /\ excuses = {}

-----------------------------------------------------------------------------

At(c, pc) == calls[c].pc = pc
Go(c, pc) == calls' = [calls EXCEPT ![c].pc = pc]

data == <<pending, store, record, marked, fence>>
history == <<faults, finalized, excuses>>

-----------------------------------------------------------------------------
(* The manager's calls.                                                    *)

start_session ==
    /\ At(Starter, "idle")
    /\ Go(Starter, "spawn")
    /\ UNCHANGED <<lockVars, data, history>>

\* The durable append comes before anything else.
deliver(c) ==
    /\ c \in Deliveries /\ At(c, "idle")
    /\ pending' = pending \cup {c}
    /\ Go(c, "delivered")
    /\ UNCHANGED <<lockVars, store, record, marked, fence, history>>

\* is_complete decides between the re-open, the drop and the free-lock path.
DeliverReadsComplete(c) ==
    /\ At(c, "delivered")
    /\ Go(c, IF ~complete THEN "deliver_held"
             ELSE IF c \in Reopening THEN "reopen" ELSE "done")
    /\ UNCHANGED <<lockVars, data, history>>

DeliverReadsHeld(c) ==
    /\ At(c, "deliver_held")
    /\ Go(c, IF is_held THEN "sleeping" ELSE "resume")
    /\ UNCHANGED <<lockVars, data, history>>

\* The recheck delay exceeds the lease TTL: when it is over, the lease that
\* was seen has been renewed or has ended, and every sleeper has seen it.
Ripened(f) ==
    [c \in Call |-> IF f[c].pc = "sleeping" THEN [f[c] EXCEPT !.pc = "due"] ELSE f[c]]

\* _reopen_or_resume for a call that asked for the re-open, resume otherwise.
recheck(c) ==
    /\ At(c, "due")
    /\ Go(c, IF c \in Reopening /\ complete THEN "reopen" ELSE "resume")
    /\ UNCHANGED <<lockVars, data, history>>

\* The host's own resume call.
Redrive(c) ==
    /\ c \in Redrives /\ At(c, "idle")
    /\ Go(c, "resume")
    /\ UNCHANGED <<lockVars, data, history>>

resume(c) ==
    /\ At(c, "resume")
    /\ Go(c, IF complete THEN "done" ELSE "resume_epoch")
    /\ UNCHANGED <<lockVars, data, history>>

\* A session never started is left to its start_session.
resume_if_started(c) == IF epoch_counter = 0 THEN "done" ELSE "resume_held"

ResumeReadsEpoch(c) ==
    /\ At(c, "resume_epoch")
    /\ Go(c, resume_if_started(c))
    /\ UNCHANGED <<lockVars, data, history>>

ResumeReadsHeld(c) ==
    /\ At(c, "resume_held")
    /\ Go(c, IF is_held THEN "done" ELSE "spawn")
    /\ UNCHANGED <<lockVars, data, history>>

reopen(c) ==
    /\ At(c, "reopen")
    /\ Go(c, IF complete THEN "reopen_held" ELSE "done")
    /\ UNCHANGED <<lockVars, data, history>>

ReopenReadsHeld(c) ==
    /\ At(c, "reopen_held")
    /\ Go(c, IF is_held THEN "done" ELSE "clear")
    /\ UNCHANGED <<lockVars, data, history>>

\* reopen's and _respawn_to_drain's clear steps, neither of them fenced; the
\* run that follows is given a fresh deadline.
ClearComplete(c) ==
    /\ At(c, "clear")
    /\ clear_complete
    /\ Go(c, "unmark")
    /\ UNCHANGED <<data, history>>

ClearContribution(c) ==
    /\ At(c, "unmark")
    /\ marked' = FALSE
    /\ calls' = [calls EXCEPT ![c].pc = "spawn", ![c].fresh = TRUE]
    /\ UNCHANGED <<lockVars, pending, store, record, fence, history>>

\* Mutant: no probe once the run has released.
no_probe(c) == {}

\* What the manager finds in the inbox after its run released the epoch.
stragglers(c) == IF calls[c].budget > 0 THEN pending ELSE {}

\* _spawn_and_drain after a completed run.
Backstop(c) ==
    /\ At(c, "probe")
    /\ calls' = [calls EXCEPT ![c] = IF stragglers(c) = {}
                                     THEN Out("done", @.budget)
                                     ELSE Out("clear", @.budget - 1)]
    /\ UNCHANGED <<lockVars, data, history>>

-----------------------------------------------------------------------------
(* The run.                                                                *)

\* The run ends and goes to its finally block; only the epoch is used there.
Ends(c, status) ==
    calls' = [calls EXCEPT ![c] = [@ EXCEPT !.pc = "release", !.status = status,
                                            !.mirror = {}, !.fresh = FALSE]]

\* A fence that has seen a higher epoch raises StaleEpochError.
Accepts(scope, c) == calls[c].epoch >= fence[scope]
Raise(scope, c) == fence' = [fence EXCEPT ![scope] = calls[c].epoch]

\* A store write of this run may go past its successor's mirror.
Strays(c) == calls[c].epoch < epoch_counter

\* Mutant: a merge that stays in the mirror.
merge_locally(points) == store

\* A merge goes through the mirror to the store.
merge(points) == store \cup points

\* LockHeldError: resume, reopen and the backstop stand down, start raises.
LockHeld(c) ==
    /\ At(c, "spawn") /\ is_held
    /\ calls' = [calls EXCEPT ![c] = Out("done", @.budget)]
    /\ UNCHANGED <<lockVars, data, history>>

Acquire(c) ==
    /\ At(c, "spawn")
    /\ acquire
    /\ calls' = [calls EXCEPT ![c].pc = "rehydrate", ![c].epoch = epoch_counter']
    /\ excuses' = excuses \cup (IF complete THEN {"late"} ELSE {})
    /\ UNCHANGED <<data, faults, finalized>>

\* The drift check writes the flow's fingerprint on the session's first run
\* only; the mirror is read; the start then merges its seed.
Rehydrate(c) ==
    LET writes == fence["store"] = 0 \/ c = Starter
        seed == IF c = Starter THEN {c} ELSE {}
    IN  /\ At(c, "rehydrate")
        /\ IF writes /\ ~Accepts("store", c)
           THEN Ends(c, "superseded") /\ UNCHANGED <<data, history>>
           ELSE /\ IF writes THEN Raise("store", c) ELSE UNCHANGED fence
                /\ store' = merge(seed)
                /\ calls' = [calls EXCEPT ![c].pc = "gather", ![c].mirror = store \cup seed]
                /\ excuses' = excuses \cup (IF seed # {} /\ Strays(c)
                                            THEN {"strayed"} ELSE {})
                /\ UNCHANGED <<pending, record, marked, faults, finalized>>
        /\ UNCHANGED lockVars

\* A gathering pass drains the inbox: the entries become durable, then are
\* acked.  A fresh deadline is persisted before the first pass.  The renew
\* of a lease that is gone may end the run instead.
GatherPass(c) ==
    /\ At(c, "gather") \/ (At(c, "gathered") /\ pending # {})
    /\ IF pending = {} /\ ~(calls[c].fresh /\ At(c, "gather"))
       THEN calls' = Ripened([calls EXCEPT ![c].pc = "gathered"]) /\ UNCHANGED <<data, history>>
       ELSE IF Accepts("store", c)
       THEN /\ store' = merge(pending)
            /\ pending' = {}
            /\ Raise("store", c)
            /\ calls' = Ripened([calls EXCEPT ![c].pc = "gathered",
                                              ![c].mirror = @ \cup pending])
            /\ excuses' = excuses \cup (IF pending # {} /\ Strays(c)
                                        THEN {"strayed"} ELSE {})
            /\ UNCHANGED <<record, marked, faults, finalized>>
       ELSE Ends(c, "superseded") /\ UNCHANGED <<data, history>>
    /\ UNCHANGED lockVars

LeaseLost(c) ==
    /\ calls[c].pc \in {"gather", "gathered", "aggregate", "attempted"}
    /\ ~CanRenew(calls[c].epoch)
    /\ Ends(c, "superseded")
    /\ UNCHANGED <<lockVars, data, history>>

\* The loop is quiescent, or the deadline passed.  A rehydrated deadline may
\* already be spent, and then there is no pass at all.
Quiesce(c) ==
    /\ At(c, "gathered") \/ (At(c, "gather") /\ ~calls[c].fresh)
    /\ Go(c, "aggregate")
    /\ UNCHANGED <<lockVars, data, history>>

\* Idle past park_after; an entry already there wins over parking.
Park(c) ==
    /\ At(c, "gathered") /\ pending = {}
    /\ Ends(c, "parked")
    /\ UNCHANGED <<lockVars, data, history>>

Aggregate(c) ==
    /\ At(c, "aggregate") /\ CanRenew(calls[c].epoch)
    /\ calls' = Ripened([calls EXCEPT ![c].pc = "contributed"])
    /\ UNCHANGED <<lockVars, data, history>>

\* An aggregator whose contribution is marked is not run.
SkipContributed(c) ==
    /\ At(c, "contributed")
    /\ Go(c, IF marked THEN "check" ELSE "fold")
    /\ excuses' = excuses \cup (IF marked /\ fence["marker"] # calls[c].epoch
                                THEN {"inherited"} ELSE {})
    /\ UNCHANGED <<lockVars, data, faults, finalized>>

\* The aggregator writes the output it computes from the run's view.
Fold(c) ==
    /\ At(c, "fold")
    /\ IF Accepts("record", c)
       THEN record' = calls[c].mirror /\ Raise("record", c)
       ELSE UNCHANGED <<record, fence>>
    /\ Go(c, "attempted")
    /\ UNCHANGED <<lockVars, pending, store, marked, history>>

\* The renew after the attempt; one that was fenced out has lost its lease.
AfterAttempt(c) ==
    /\ At(c, "attempted") /\ CanRenew(calls[c].epoch)
    /\ calls' = Ripened([calls EXCEPT ![c].pc = "mark"])
    /\ UNCHANGED <<lockVars, data, history>>

mark_contribution(c) ==
    /\ At(c, "mark")
    /\ IF Accepts("marker", c)
       THEN marked' = TRUE /\ Raise("marker", c) /\ Go(c, "check")
       ELSE Ends(c, "superseded") /\ UNCHANGED <<marked, fence>>
    /\ UNCHANGED <<lockVars, pending, store, record, history>>

CheckInbox(c) ==
    /\ At(c, "check")
    /\ Go(c, IF pending = {} THEN "finalize" ELSE "redrive")
    /\ UNCHANGED <<lockVars, data, history>>

\* Mutant: a redrive that leaves the contribution marked.
redrive_marked(c) == [marker |-> marked, fresh |-> TRUE]

\* Mutant: a redrive on the spent deadline.
redrive_spent(c) == [marker |-> FALSE, fresh |-> calls[c].fresh]

\* What _prepare_redrive sets: the marker cleared, a fresh deadline.
prepared(c) == [marker |-> FALSE, fresh |-> TRUE]

prepare_redrive(c) ==
    /\ At(c, "redrive")
    /\ marked' = prepared(c).marker
    /\ calls' = [calls EXCEPT ![c].pc = "gather", ![c].fresh = prepared(c).fresh]
    /\ UNCHANGED <<lockVars, pending, store, record, fence, history>>

Finalize(c) ==
    /\ At(c, "finalize")
    /\ IF CanFinalize(calls[c].epoch)
       THEN /\ mark_complete(calls[c].epoch)
            /\ finalized' = calls[c].epoch
            /\ Ends(c, "completed")
       ELSE Ends(c, "superseded") /\ UNCHANGED <<lockVars, finalized>>
    /\ UNCHANGED <<data, faults, excuses>>

\* The finally block; only a completed run is followed by the probe.
Release(c) ==
    /\ At(c, "release")
    /\ release(calls[c].epoch)
    /\ calls' = Ripened([calls EXCEPT ![c] =
                  Out(IF @.status = "completed" THEN "probe" ELSE "done", @.budget)])
    /\ UNCHANGED <<data, history>>

-----------------------------------------------------------------------------
(* Faults.                                                                 *)

Fault == faults < MaxFaults /\ faults' = faults + 1

\* The pod dies: the call, its recheck and its run are gone, its lease stays.
Crash(c) ==
    /\ Fault
    /\ calls[c].pc \notin {"idle", "done", "crashed"}
    /\ calls' = [calls EXCEPT ![c] = Out("crashed", @.budget)]
    /\ UNCHANGED <<lockVars, data, finalized, excuses>>

\* Any other exception, or a cancellation, leaves through the finally block.
RunFails(c) ==
    /\ Fault
    /\ calls[c].pc \in RunPC
    /\ Ends(c, "failed")
    /\ UNCHANGED <<lockVars, data, finalized, excuses>>

\* The bounded tail step gives up on a mark_complete that lands all the same.
FinalizeTimesOut(c) ==
    /\ Fault
    /\ At(c, "finalize")
    /\ mark_complete(calls[c].epoch)
    /\ finalized' = calls[c].epoch
    /\ Ends(c, "failed")
    /\ UNCHANGED <<data, excuses>>

\* Every attempt failed; the session still completes.
DeadLetter(c) ==
    /\ Fault
    /\ At(c, "fold") /\ CanRenew(calls[c].epoch)
    /\ Go(c, "check")
    /\ excuses' = excuses \cup {"dead_lettered"}
    /\ UNCHANGED <<lockVars, data, finalized>>

\* The lease of a dead run ends by itself, that of a live one if it stalls.
Lapse ==
    /\ expire
    /\ IF \E c \in Call : calls[c].epoch = holder THEN Fault ELSE UNCHANGED faults
    /\ calls' = Ripened(calls)
    /\ UNCHANGED <<data, finalized, excuses>>

-----------------------------------------------------------------------------

ManagerStep(c) ==
    \/ DeliverReadsComplete(c) \/ DeliverReadsHeld(c) \/ recheck(c)
    \/ resume(c) \/ ResumeReadsEpoch(c) \/ ResumeReadsHeld(c)
    \/ reopen(c) \/ ReopenReadsHeld(c) \/ ClearComplete(c) \/ ClearContribution(c)
    \/ LockHeld(c) \/ Acquire(c) \/ Backstop(c)

RunStep(c) ==
    \/ Rehydrate(c) \/ GatherPass(c) \/ LeaseLost(c) \/ Quiesce(c) \/ Park(c)
    \/ Aggregate(c) \/ SkipContributed(c) \/ Fold(c) \/ AfterAttempt(c)
    \/ mark_contribution(c) \/ CheckInbox(c) \/ prepare_redrive(c)
    \/ Finalize(c) \/ Release(c)

FaultStep ==
    \/ Lapse
    \/ \E c \in Call : Crash(c) \/ RunFails(c) \/ FinalizeTimesOut(c) \/ DeadLetter(c)

Next ==
    \/ start_session
    \/ \E c \in Call : deliver(c) \/ Redrive(c) \/ ManagerStep(c) \/ RunStep(c)
    \/ FaultStep

\* The event loop runs every live call on; the host starts the session.
Fairness ==
    /\ WF_vars(start_session)
    /\ \A c \in Call : WF_vars(ManagerStep(c) \/ RunStep(c))

Spec == Init /\ [][Next]_vars /\ Fairness

-----------------------------------------------------------------------------
(* Properties.                                                             *)

Returned(c) == calls[c].pc \in {"idle", "done"}
Settled == At(Starter, "done") /\ \A c \in Call : Returned(c)

\* Whenever the completion flag is up the durable record has every stored
\* DataPoint folded in, whatever the calls interleave, whatever crashes, stalls
\* or fails and whoever is still running, unless one of the known escapes
\* happened: a run acquired an already complete session, a run skipped its
\* aggregator on another run's marker, a stalled predecessor wrote to the
\* store after its successor's grant, or the aggregator was dead-lettered.  So
\* the check of the inbox, the redrive and the clearing of the marker do cover
\* every late delivery otherwise.
FoldedUnlessExcused == complete /\ excuses = {} => store \subseteq record

\* With no fault, and no run on an already complete session, once every call
\* has returned no entry is left in the inbox that asked for a re-open: the
\* drain before the release, the deferred recheck and the manager's probe
\* after the release leave no gap between them.
NoStragglerLeft ==
    Settled /\ faults = 0 /\ "late" \notin excuses => pending \cap Reopening = {}

\* With no fault, an entry that asked for a re-open does reach the store: no
\* interleaving spins, and no call stands down for a consumer that is not
\* there.
EveryDeliveryDrained ==
    \A d \in Reopening :
      d \in pending ~> (d \in store \/ faults > 0 \/ "late" \in excuses)

\* Claimed: completion is on the lock, so a session its newest run finished
\* is seen as finished by every peer.
FinishedStaysComplete ==
    Settled /\ faults = 0 /\ finalized # 0 /\ finalized = epoch_counter => complete
=============================================================================
