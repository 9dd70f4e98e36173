-------------------------- MODULE LiteOrchestrator --------------------------
(***************************************************************************)
(* A session of orcastork_lite (orchestrator.py, with state.py,            *)
(* scheduling.py and capabilities.py): one process, no lease, no store,    *)
(* and a deadline that bounds the waits, the runs and the session.  Time   *)
(* is a clock in ticks; it passes where the loop awaits something that     *)
(* takes time, and a timer that is due fires before it passes further.     *)
(* The events published change nothing the loop reads; what is modelled of *)
(* them is that the loop awaits each for up to the publish timeout.        *)
(***************************************************************************)
EXTENDS LiteGraph, SequencesExt

CONSTANTS Sessions,         \* the flows to run, accepted or not, each with a
                            \* session_deadline: ticks, or None
          Identity,         \* DataPoint identities, (class, value) pairs
          TypeOf,           \* identity -> its class
          Seed,
          OperationTimeout, \* of an activation
          PublishTimeout,   \* of one event
          RetryDelay,       \* backoff before the one retry (jitter left out)
          MaxEmissions,     \* bound on the emissions of one run
          MaxRevocations,   \* bound on the changes of the catalog
          None

ASSUME LiteAssumption ==
    /\ OperationTimeout \in Nat /\ PublishTimeout \in Nat /\ RetryDelay \in Nat
    /\ Sessions \subseteq [flow: FlowType, deadline: Nat \cup {None}]
    /\ \A s \in Sessions : IsFiniteSet(s.flow.operators)
    /\ None \notin Int
    /\ MaxEmissions \in Nat

VARIABLES
    flow, deadline,         \* fixed
    ops, caps,              \* self._operators and the breaker's caps
    now,                    \* the clock
    \* SessionState
    entries,                \* identity -> [added, updated] revisions
    revision,
    watermark,              \* operator -> revision, or None
    \* the loop
    pc,
    pass,                   \* the locals of the pass, read at its top:
                            \* [remaining, able, pending, wake], with the
                            \* activations it made and when _plan began
    until,                  \* when the await the loop is in ends at the latest
    running,                \* operator -> its task, or Idle
    queue,                  \* signals from the tasks
    batch,                  \* completions taken off it, not yet recorded
    runs,                   \* operator -> finished runs, up to its cap + 1
    failures,               \* operator -> "none", "error" or "cancelled"
    failed_attempts,
    retries, debounce,      \* operator -> due time, or None
    armed_retries,          \* operator -> revision its failed run observed
    prev_caps,
    activated, failed,      \* capabilities built, and given up
    deadline_hit,
    leaving,                \* why _drain_remaining was entered
    \* the surroundings
    permitted,              \* the catalog
    revocations,
    \* history
    covered,                \* operator -> its concluded runs were shown
                            \* every change up to this revision
    last,                   \* operator -> how its last run ended
    ownTimeout,             \* a clipped run raised a TimeoutError of its own
    stall,                  \* the time the activations and publishes of this
                            \* pass may take in all
    lag                     \* the longest stall of a pass before its launches

fixed == <<flow, deadline, ops, caps>>
stateVars == <<entries, revision, watermark>>
windows == <<retries, debounce, armed_retries>>
results == <<runs, failures, failed_attempts, deadline_hit>>
capVars == <<activated, failed>>
catalog == <<permitted, revocations>>
loop == <<pc, pass, until, leaving, stall>>
tasks == <<running, queue, batch>>
history == <<covered, last, ownTimeout>>
vars == <<fixed, now, stateVars, loop, tasks, results, windows, prev_caps,
          capVars, catalog, history, lag>>

Idle == [stage |-> "idle"]
NoPass == [remaining |-> None, able |-> {}, pending |-> {}, wake |-> None,
           news |-> 0, planned |-> 0]
Absent == [added |-> 0, updated |-> 0]
present_types(ents) == {TypeOf[i] : i \in {k \in Identity : ents[k] # Absent}}
all(x) == [o \in Operator |-> x]

-----------------------------------------------------------------------------
(* SessionState.merge: of the identities already known, those in `newer`   *)
(* were observed at a later time.                                          *)

\* Mutant: a freshness-only merge is stamped and leaves the revision alone.
merge_stamped_only(ents, rev, ids, newer) ==
    LET added == {i \in ids : ents[i] = Absent}
    IN  [entries |-> [i \in Identity |->
            IF i \in added THEN [added |-> rev + 1, updated |-> rev + 1]
            ELSE IF i \in newer THEN [ents[i] EXCEPT !.updated = rev + 1]
            ELSE ents[i]],
         revision |-> IF added = {} THEN rev ELSE rev + 1]

merge(ents, rev, ids, newer) ==
    LET added == {i \in ids : ents[i] = Absent}
    IN  [entries |-> [i \in Identity |->
            IF i \in added THEN [added |-> rev + 1, updated |-> rev + 1]
            ELSE IF i \in newer THEN [ents[i] EXCEPT !.updated = rev + 1]
            ELSE ents[i]],
         revision |-> IF added \cup newer = {} THEN rev ELSE rev + 1]

Merge(ids) ==
    \E newer \in SUBSET {i \in ids : entries[i] # Absent} :
        LET m == merge(entries, revision, ids, newer)
        IN  /\ entries' = m.entries
            /\ revision' = m.revision

Init ==
    /\ \E s \in Sessions : /\ flow = prune_to_consumed_closure(s.flow)
                          /\ deadline = s.deadline
    /\ validate_acyclic_or_bounded(flow)
    /\ caps = cycle_caps(flow)
    /\ ops \in {flow.operators \cap allowed : allowed \in flow.permits}
    /\ now = 0
    /\ LET m == merge([i \in Identity |-> Absent], 0, Seed, {})
       IN  entries = m.entries /\ revision = m.revision
    /\ watermark = all(None)
    /\ pc = "top" /\ pass = NoPass /\ until = 0 /\ leaving = "deadline"
    /\ running = all(Idle) /\ queue = <<>> /\ batch = {}
    /\ runs = all(0) /\ failures = all("none") /\ failed_attempts = all(0)
    /\ retries = all(None) /\ debounce = all(None) /\ armed_retries = all(None)
    /\ prev_caps = all({})
    /\ activated = {} /\ failed = {}
    /\ deadline_hit = FALSE
    /\ permitted = flow.capabilities /\ revocations = 0
    /\ covered = all(0) /\ last = all("none") /\ ownTimeout = FALSE
    /\ stall = 0 /\ lag = 0

-----------------------------------------------------------------------------
(* The top of a pass and the activation of capabilities.                   *)

past_deadline == deadline # None /\ now >= deadline

\* The loop awaits something that is over in n ticks at the latest.
Await(n) == until' = now + n /\ stall' = stall + n

\* _publish, for n events one after the other.
publish(n) == Await(PublishTimeout * n)

\* The capabilities whose requirements are built.
ready_of(pending, built) == {c \in pending : Provided(built, flow.requires[c])}

Activatable == ready_of(pass.pending, activated)

\* The time the next activation may take, if there is one.
activation_time(pending, built) ==
    IF ready_of(pending, built) = {} THEN 0 ELSE OperationTimeout

\* The loop goes on: the budget left and the view are read here, before the
\* activations, and used after them.
BeginPass ==
    LET able == compute_available(flow, permitted, present_types(entries))
        pending == able \ (activated \cup failed)
    IN
    /\ pc = "top" /\ ~deadline_hit /\ ~past_deadline
    /\ pass' = [NoPass EXCEPT
                  !.remaining = IF deadline = None THEN None ELSE deadline - now,
                  !.able = able,
                  !.pending = pending]
    /\ stall' = activation_time(pending, activated)
    /\ until' = now + activation_time(pending, activated)
    /\ pc' = "activate"
    /\ UNCHANGED <<fixed, now, stateVars, leaving, tasks, results, windows,
                   prev_caps, capVars, catalog, history, lag>>

\* One activation ends: built, raised, or cut at its timeout.
Activate(c) ==
    /\ pc = "activate" /\ c \in Activatable
    /\ \/ activated' = activated \cup {c} /\ UNCHANGED failed
       \/ failed' = failed \cup {c} /\ UNCHANGED activated
    /\ pass' = [pass EXCEPT !.pending = @ \ {c}, !.news = @ + 1]
    /\ Await(activation_time(pass.pending \ {c}, activated'))
    /\ UNCHANGED <<fixed, now, stateVars, pc, leaving, tasks, results, windows,
                   prev_caps, catalog, history, lag>>

\* The rest of _refresh_capabilities: an event for each activation.
Announce ==
    /\ pc = "activate" /\ Activatable = {}
    /\ publish(pass.news)
    /\ pc' = "announce"
    /\ UNCHANGED <<fixed, now, stateVars, pass, leaving, tasks, results, windows,
                   prev_caps, capVars, catalog, history, lag>>

-----------------------------------------------------------------------------
(* _plan and the launches.                                                 *)

Available == pass.able \cap activated

is_tripped(o, count) == caps[o] # NoCap /\ count >= caps[o]

\* Mutant: a window is due only after its time.
is_due_late(due, t) == due # None /\ t > due

\* Looked at at time t.
is_due(due, t) == due # None /\ t >= due

\* delta_for and _has_relevant_new_data: what changed after revision `since`.
Relevant(o, since) ==
    {i \in Identity :
        /\ \E t \in flow.depends_on[o] \cup flow.uses[o] : issubclass(TypeOf[i], t)
        /\ IF o \in flow.added_only THEN entries[i].added > since
                                    ELSE entries[i].updated > since}

has_relevant_new_data(o) ==
    \/ Available \ prev_caps[o] # {}
    \/ Relevant(o, watermark[o]) # {}

Considered == {o \in ops : running[o] = Idle /\ ~is_tripped(o, runs[o])}
Ready == {o \in Considered : is_ready(flow, o, present_types(entries), Available)}
RetryOwned == {o \in Considered : retries[o] # None}

\* Mutant: a window whose operator lost its readiness is just forgotten.
stranded_forgotten(o) == FALSE

\* A capability was revoked under an armed retry.
stranded(o) == o \in RetryOwned \ Ready

First == {o \in Ready \ RetryOwned : watermark[o] = None}
rerun_eligible == {o \in (Ready \ RetryOwned) \cap flow.rerun :
                      watermark[o] # None /\ has_relevant_new_data(o)}

\* _plan looks at operator o at time at[o].
Retried(at) == {o \in RetryOwned \cap Ready : is_due(retries[o], at[o])}

Armed(at) == [o \in Operator |->
                IF o \in rerun_eligible /\ debounce[o] = None
                THEN at[o] + flow.debounce[o] ELSE debounce[o]]

Rerun(at) == {o \in rerun_eligible : is_due(Armed(at)[o], at[o])}

\* The windows that hold the loop open.
Tracked(at) == {retries[o] : o \in (RetryOwned \cap Ready) \ Retried(at)} \cup
               {Armed(at)[o] : o \in rerun_eligible \ Rerun(at)}

Earlier(x, y) == IF y # None /\ y < x THEN y ELSE x

\* The soonest of them, never past the deadline.
next_wake(at) ==
    IF Tracked(at) = {} THEN None
    ELSE Earlier(CHOOSE t \in Tracked(at) : \A u \in Tracked(at) : t <= u, deadline)

\* Mutant: a run is given its own timeout, whatever the session has left.
task_unclipped(o) ==
    [stage |-> "run", emitted |-> 0, observed |-> revision,
     until |-> now + flow.timeout[o], clipped |-> FALSE]

\* _run_one: the timeout clipped to the budget the pass read at its top.
task(o) ==
    LET clipped == pass.remaining # None /\ pass.remaining < flow.timeout[o]
    IN  [stage |-> "run", emitted |-> 0, observed |-> revision,
         until |-> now + (IF clipped THEN pass.remaining ELSE flow.timeout[o]),
         clipped |-> clipped]

Advance(o, rev) ==
    IF (watermark[o] = None \/ watermark[o] <= covered[o]) /\ rev > covered[o]
    THEN rev ELSE covered[o]

\* The retries that can never be launched: _record_terminal_failure for each,
\* with its event, while _plan goes through the operators.
GiveUp ==
    LET dropped == RetryOwned \ Ready
        lost == {o \in dropped : stranded(o)}
    IN
    /\ pc = "announce"
    /\ retries' = [o \in Operator |-> IF o \in dropped THEN None ELSE retries[o]]
    /\ armed_retries' = [o \in Operator |-> IF o \in dropped THEN None ELSE armed_retries[o]]
    /\ failures' = [o \in Operator |-> IF o \in lost THEN "error" ELSE failures[o]]
    /\ failed_attempts' = [o \in Operator |-> IF o \in lost THEN 0 ELSE failed_attempts[o]]
    /\ watermark' = [o \in Operator |-> IF o \in lost THEN armed_retries[o] ELSE watermark[o]]
    /\ covered' = [o \in Operator |-> IF o \in lost THEN Advance(o, armed_retries[o]) ELSE covered[o]]
    /\ publish(Cardinality(lost))
    /\ pass' = [pass EXCEPT !.planned = now]
    /\ pc' = "plan"
    /\ UNCHANGED <<fixed, now, entries, revision, leaving, tasks, runs, deadline_hit,
                   debounce, prev_caps, capVars, catalog, last, ownTimeout, lag>>

\* The other operators, each looked at before or after some of those events,
\* then the launches.
Plan ==
    /\ pc = "plan"
    /\ \E at \in [ops -> pass.planned..now] :
         LET launched == Retried(at) \cup First \cup Rerun(at) IN
         /\ running' = [o \in Operator |-> IF o \in launched THEN task(o) ELSE running[o]]
         /\ prev_caps' = [o \in Operator |->
                            IF o \in launched THEN Available ELSE prev_caps[o]]
         /\ retries' = [o \in Operator |-> IF o \in Retried(at) THEN None ELSE retries[o]]
         /\ armed_retries' = [o \in Operator |->
                                IF o \in Retried(at) THEN None ELSE armed_retries[o]]
         /\ debounce' = [o \in Operator |->
                           IF o \in First \cup Rerun(at) THEN None ELSE Armed(at)[o]]
         /\ lag' = IF launched # {} /\ stall > lag THEN stall ELSE lag
         /\ pass' = [NoPass EXCEPT !.wake = next_wake(at)]
         /\ pc' = IF \E o \in Operator : running'[o] # Idle THEN "wait"
                  ELSE IF Tracked(at) # {} THEN "sleep" ELSE "quiescent"
    /\ until' = 0
    /\ UNCHANGED <<fixed, now, stateVars, leaving, stall, queue, batch, results,
                   capVars, catalog, history>>

\* A window comes due, or the deadline passes, while the loop waits.
Wake ==
    /\ pc = "sleep" \/ (pc = "wait" /\ queue = <<>>)
    /\ pass.wake # None /\ now >= pass.wake
    /\ pc' = "top" /\ pass' = NoPass
    /\ UNCHANGED <<fixed, now, stateVars, until, leaving, stall, tasks, results,
                   windows, prev_caps, capVars, catalog, history, lag>>

-----------------------------------------------------------------------------
(* _run_one: an operator task.                                             *)

emits(o, i) == \E p \in flow.produces[o] : issubclass(TypeOf[i], p)

Emit(o) ==
    /\ running[o].stage = "run"
    /\ running[o].emitted < MaxEmissions
    /\ \E i \in Identity :
          /\ emits(o, i)
          /\ queue' = Append(queue, [op |-> o, emitted |-> i])
    /\ running' = [running EXCEPT ![o].emitted = @ + 1]
    /\ UNCHANGED <<fixed, now, stateVars, loop, batch, results, windows, prev_caps,
                   capVars, catalog, history, lag>>

\* A TimeoutError of a clipped run, whoever raised it.
cut_by_deadline(o, error) == running[o].clipped /\ error \in {"timeout", "bound"}

\* The run returns, raises, or is stopped at its bound.  A TimeoutError of the
\* operator's own is an error like any other, except to a clipped run.
Finish(o) ==
    /\ running[o].stage = "run"
    /\ \E error \in {"none", "error", "timeout", "bound"} :
          /\ error = "bound" => now >= running[o].until
          /\ error = "timeout" => running[o].clipped
          /\ queue' = Append(queue, [op |-> o, error |-> error,
                                     cut |-> cut_by_deadline(o, error)])
          /\ ownTimeout' = (ownTimeout \/ error = "timeout")
    /\ running' = [running EXCEPT ![o].stage = "done"]
    /\ UNCHANGED <<fixed, now, stateVars, loop, batch, results, windows, prev_caps,
                   capVars, catalog, covered, last, lag>>

-----------------------------------------------------------------------------
(* _consume: one merge for the batch, then each completion is recorded.    *)

EmittedIn(q) == {s.emitted : s \in {t \in ToSet(q) : "emitted" \in DOMAIN t}}
CompletedIn(q) == {s \in ToSet(q) : "error" \in DOMAIN s}

count_run(o) ==
    LET cap == IF caps[o] = NoCap THEN 0 ELSE caps[o]
    IN  IF runs[o] > cap THEN runs[o] ELSE runs[o] + 1

schedule_retry(o) ==
    /\ failed_attempts[o] + 1 < flow.max_attempts[o]
    /\ ~is_tripped(o, count_run(o))

\* Mutant: the run is credited with what was merged while it ran.
observed_live(o) == revision

observed_by(o) == running[o].observed

\* The batch is taken and merged, with an event for each DataPoint added or
\* updated; its completions are recorded in `next`, or there are none and the
\* loop is at `otherwise`.
TakeQueued(next, otherwise) ==
    /\ Merge(EmittedIn(queue))
    /\ batch' = CompletedIn(queue)
    /\ queue' = <<>>
    /\ publish(Cardinality({i \in Identity : entries'[i] # entries[i]}))
    /\ pc' = IF CompletedIn(queue) = {} THEN otherwise ELSE next
    /\ pass' = NoPass

Consume ==
    /\ pc = "wait" /\ queue # <<>>
    /\ TakeQueued("record", "top")
    /\ UNCHANGED <<fixed, now, watermark, leaving, running, results, windows,
                   prev_caps, capVars, catalog, history, lag>>

\* Where the loop goes once a batch is recorded, by where it records it.
recorded == [record |-> "top", drain |-> "cancel", sweep |-> "report"]

\* _record_completion of one completion, with its event.
RecordCompletion(s) ==
    LET o == s.op
        again == ~s.cut /\ s.error # "none" /\ schedule_retry(o)
        concluded == ~s.cut /\ ~again
    IN
    /\ pc \in DOMAIN recorded /\ s \in batch
    /\ deadline_hit' = (deadline_hit \/ s.cut)
    /\ runs' = [runs EXCEPT ![o] = IF s.cut THEN @ ELSE count_run(o)]
    /\ failures' = [failures EXCEPT ![o] =
                      IF s.cut THEN "cancelled"
                      ELSE IF concluded /\ s.error # "none" THEN "error" ELSE @]
    /\ failed_attempts' = [failed_attempts EXCEPT ![o] =
                             IF again THEN @ + 1 ELSE IF concluded THEN 0 ELSE @]
    /\ retries' = [retries EXCEPT ![o] = IF again THEN now + RetryDelay ELSE @]
    /\ armed_retries' = [armed_retries EXCEPT ![o] = IF again THEN running[o].observed ELSE @]
    /\ watermark' = [watermark EXCEPT ![o] = IF concluded THEN observed_by(o) ELSE @]
    /\ covered' = [covered EXCEPT ![o] =
                     IF concluded THEN Advance(o, running[o].observed) ELSE @]
    /\ last' = [last EXCEPT ![o] = IF s.cut THEN "cancelled"
                                   ELSE IF s.error = "none" THEN "ok" ELSE "error"]
    /\ running' = [running EXCEPT ![o] = Idle]
    /\ batch' = batch \ {s}
    /\ pc' = IF batch = {s} THEN recorded[pc] ELSE pc
    /\ publish(1)
    /\ UNCHANGED <<fixed, now, entries, revision, pass, leaving, queue, debounce,
                   prev_caps, capVars, catalog, ownTimeout, lag>>

-----------------------------------------------------------------------------
(* _drain_remaining: what is queued is recorded first, the rest cancelled. *)

\* The loop ends at the deadline.
DrainQueued ==
    /\ pc = "top" /\ (deadline_hit \/ past_deadline)
    /\ deadline_hit' = TRUE
    /\ leaving' = "deadline"
    /\ TakeQueued("drain", "cancel")
    /\ UNCHANGED <<fixed, now, watermark, running, runs, failures, failed_attempts,
                   windows, prev_caps, capVars, catalog, history, lag>>

\* Or in an exception: a read of the catalog, or the constructor of a
\* capability, raised where _activate does not catch it.
ActivationRaises ==
    /\ pc = "activate" /\ (Activatable # {} \/ pass.news = 0)
    /\ leaving' = "raised"
    /\ TakeQueued("drain", "cancel")
    /\ UNCHANGED <<fixed, now, watermark, running, results, windows, prev_caps,
                   capVars, catalog, history, lag>>

\* The runs that are left end here; what they emitted or completed while the
\* first batch was recorded, and their last words, are a second batch.
CancelRunning ==
    /\ pc = "cancel"
    /\ running' = [o \in Operator |->
                     IF running[o].stage = "run"
                     THEN [running[o] EXCEPT !.stage = "cancelled"] ELSE running[o]]
    /\ TakeQueued("sweep", "report")
    /\ UNCHANGED <<fixed, now, watermark, leaving, results, windows, prev_caps,
                   capVars, catalog, history, lag>>

\* What did not complete is reported as cancelled.
Report ==
    LET cancelled == {o \in ops : running[o] # Idle} IN
    /\ pc = "report"
    /\ failures' = [o \in Operator |-> IF o \in cancelled THEN "cancelled" ELSE failures[o]]
    /\ last' = [o \in Operator |-> IF o \in cancelled THEN "cancelled" ELSE last[o]]
    /\ running' = all(Idle)
    /\ publish(Cardinality(cancelled))
    /\ pc' = "closing"
    /\ UNCHANGED <<fixed, now, stateVars, pass, leaving, queue, batch, runs,
                   failed_attempts, deadline_hit, windows, prev_caps, capVars,
                   catalog, covered, ownTimeout, lag>>

Close ==
    /\ pc = "closing"
    /\ pc' = leaving
    /\ UNCHANGED <<fixed, now, stateVars, pass, until, leaving, stall, tasks, results,
                   windows, prev_caps, capVars, catalog, history, lag>>

-----------------------------------------------------------------------------
(* Time and the catalog.                                                   *)

Ended == pc \in {"quiescent", "deadline", "raised"}

\* Time passes in the awaits: an activation or a publish, the wait for a signal
\* or a window, the sleep.
Tick ==
    /\ \/ pc = "wait" /\ queue = <<>> /\ (pass.wake # None => now < pass.wake)
       \/ pc = "sleep" /\ now < pass.wake
       \/ ~Ended /\ pc \notin {"wait", "sleep"} /\ now < until
    /\ \A o \in Operator : running[o].stage = "run" => now < running[o].until
    /\ now' = now + 1
    /\ UNCHANGED <<fixed, stateVars, loop, tasks, results, windows, prev_caps,
                   capVars, catalog, history, lag>>

\* The namespace loses or regains a capability; noticed at the next refresh.
CatalogChange ==
    /\ pc = "top" /\ revocations < MaxRevocations
    /\ revocations' = revocations + 1
    /\ \E c \in flow.capabilities :
          permitted' = IF c \in permitted THEN permitted \ {c} ELSE permitted \cup {c}
    /\ UNCHANGED <<fixed, now, stateVars, loop, tasks, results, windows, prev_caps,
                   capVars, history, lag>>

Over == Ended /\ UNCHANGED vars

LoopStep == \/ BeginPass \/ Announce \/ GiveUp \/ Plan \/ Wake \/ Consume
            \/ DrainQueued \/ CancelRunning \/ Report \/ Close
            \/ \E c \in Capability : Activate(c)
            \/ \E s \in batch : RecordCompletion(s)

Next == \/ LoopStep \/ ActivationRaises \/ Tick \/ CatalogChange \/ Over
        \/ \E o \in Operator : Emit(o) \/ Finish(o)

\* The event loop runs what can run and its timers fire.
Fairness == /\ WF_vars(LoopStep) /\ WF_vars(Tick)
            /\ \A o \in Operator : WF_vars(Finish(o))

Spec == Init /\ [][Next]_vars /\ Fairness

-----------------------------------------------------------------------------
(* Properties.                                                             *)

TypeOK ==
    /\ ops \subseteq Operator /\ now \in Nat /\ revision \in Nat
    /\ entries \in [Identity -> [added: 0..revision, updated: 0..revision]]
    /\ watermark \in [Operator -> 0..revision \cup {None}]
    /\ pc \in {"top", "activate", "announce", "plan", "wait", "sleep", "record",
              "drain", "cancel", "sweep", "report", "closing",
              "quiescent", "deadline", "raised"}
    /\ until \in Nat /\ stall \in Nat /\ lag \in Nat
    /\ \A o \in Operator :
         /\ running[o] # Idle => o \in ops
         /\ (retries[o] = None) <=> (armed_retries[o] = None)
    /\ runs \in [Operator -> Nat] /\ failed_attempts \in [Operator -> Nat]
    /\ failures \in [Operator -> {"none", "error", "cancelled"}]
    /\ activated \cap failed = {}

\* A session that went quiescent left nothing undone: every ready operator the
\* breaker lets run has concluded a run, and each that reruns on new data was
\* shown, by a run that succeeded or failed for good, everything that triggers
\* it (orchestrator.py _record_completion, _record_terminal_failure).
QuiescentUpToDate ==
    pc = "quiescent" =>
        \A o \in ops : 
            running[o] = Idle /\ ~is_tripped(o, runs[o])
            /\ is_ready(flow, o, present_types(entries),
                        compute_available(flow, permitted, present_types(entries))
                          \cap activated) =>
               /\ watermark[o] # None
               /\ o \in flow.rerun => Relevant(o, covered[o]) = {}

\* No failure is dropped: in a session that went quiescent an operator whose
\* last run failed is in `failures`, though its retry was waiting for a
\* capability that was revoked (_plan: "not silently forgotten with the
\* window").  A deadline does drop the failure of an operator whose retry was
\* still armed.
FailuresReported ==
    /\ pc = "quiescent" => \A o \in Operator : last[o] = "error" => failures[o] # "none"
    /\ pc = "deadline" => \A o \in Operator :
          last[o] \in {"error", "cancelled"} /\ retries[o] = None => failures[o] # "none"

\* No run outlives the deadline where no capability has to be activated or can
\* be revoked, however long the events of a pass take to publish.  (The module's
\* docstring says so of every session: "no operator outlives the deadline".)
ClippedToDeadline ==
    flow.capabilities = {} /\ deadline # None =>
        \A o \in Operator : running[o].stage = "run" => now <= deadline

\* The deadline ends the runs and the session, up to what the loop cannot be
\* cut short in.  A run outlives it by no more than the pass that launched it
\* may have spent before its launches, since the budget the run is clipped to
\* was read at the top of the pass (_gather, _run_one): the activation timeout
\* for each capability tried, the publish timeout for each event; and not at
\* all without capabilities.  The session outlives it by that and by the events
\* and activations of its last pass ("a stalled sink costs this much per
\* event").  And it says that it hit its deadline only when the deadline is
\* past, unless an operator raised a TimeoutError of its own while its bound
\* was clipped, which _run_one cannot tell from the deadline.
DeadlineHonoured ==
    /\ deadline # None =>
         /\ \A o \in Operator : running[o].stage = "run" => now <= deadline + lag
         /\ now <= deadline + lag + stall
    /\ ClippedToDeadline
    /\ deadline_hit => past_deadline \/ ownTimeout

\* Operators among `free` that trigger one another again without end: each is
\* fed by one of them.  The constructor refuses such a loop of depends_on when
\* nothing caps it; one through `uses` is no edge of the graph (graph.py
\* build_edges), so it is accepted and its operators have no cap, unlike what
\* __init__ ("Fail fast on an unbounded cycle") and _has_relevant_new_data say.
SelfTriggering(free) ==
    UNION {S \in SUBSET free :
             \A y \in S : \E x \in S : feeds(flow, x, flow.depends_on[y] \cup flow.uses[y])}

\* Every session ends whose operators cannot trigger themselves without end;
\* with a deadline, also one whose operators can, if each time waits out a
\* debounce window (_gather: the caps end the cycles of depends_on, the windows
\* come due, the deadline ends the rest).  Others do not: an operator that uses
\* what it produces, with no deadline, runs for ever.
SessionEnds ==
    LET uncapped == {o \in ops \cap flow.rerun : caps[o] = NoCap}
    IN  SelfTriggering(IF deadline = None THEN uncapped
                       ELSE {o \in uncapped : flow.debounce[o] = 0}) = {}
          => <>Ended
=============================================================================
