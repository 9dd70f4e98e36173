----------------------------- MODULE GatherLoop -----------------------------
(***************************************************************************)
(* The gathering loop of an orchestrator (orchestrator.py, _gather and     *)
(* what it calls) with the operator tasks it launches, over the session's  *)
(* lives: crash, park, resume, and a redrive for late data.  The loop is   *)
(* the only writer of the session, so the mirror it works from is the      *)
(* store.  A step of the loop ends at the awaits in which operator tasks,  *)
(* deliveries and time can matter to it.                                   *)
(***************************************************************************)
EXTENDS DependencyGraph, SequencesExt

CONSTANTS Flows,            \* the flows to gather, accepted or not
          Identity,         \* DataPoint identities, (type, value) pairs
          TypeOf,           \* identity -> its leaf type
          Seed,             \* identities merged before the first gather
          QueueSize,        \* emission_queue_size
          ActivationAttempts, \* max_attempts of an activation
          MaxEmissions,     \* bound on the emissions of one run
          Deliverable,      \* flow -> identities the inbox may bring it
          MaxInputs,        \* bound on the deliveries
          MaxUpsets,        \* bound on crashes, catalog changes and the
                            \* deadline, together
          Never             \* the watermark of an operator without one

\* Only an aggregator refreshes in the interim; the constructor replaces a
\* queue size below one by its default.
ASSUME GatherAssumption ==
    /\ Flows \subseteq FlowType
    /\ \A f \in Flows : f.interim \subseteq f.aggregators /\ Deliverable[f] \subseteq Identity
    /\ QueueSize \in Nat \ {0} /\ ActivationAttempts \in Nat \ {0}
    /\ MaxEmissions \in Nat
    /\ Never \notin Nat

VARIABLES
    flow,                   \* fixed
    ops, caps,              \* self._gathering and the breaker's caps
    \* the store
    entries,                \* identity -> [added, updated] revisions
    revision,
    watermark,              \* operator -> revision, or Never
    \* the loop
    pc,                     \* where it is, or how gathering ended
    running,                \* operator -> its task, or Idle
    queue,                  \* signals from the tasks
    batch,                  \* operator -> did the run succeed: taken off
                            \* the queue and not yet recorded
    runs,                   \* operator -> completed runs, up to its cap + 1
    failed_attempts,
    retries, debounce,      \* operator -> state of its window
    prev_caps,              \* operator -> capabilities at its last launch
    available,              \* capabilities of the last pass
    activated, activation_failures, cooling,
    \* the surroundings
    inbox, inputs,          \* undrained deliveries; how many there were
    permitted,              \* the catalog
    expired,                \* is the session deadline past?
    upsets,
    \* history
    covered,                \* operator -> its concluded runs were shown
                            \* every change up to this revision
    abandoned               \* operators in the middle of their retries when
                            \* gathering ended in this process, and with no
                            \* concluded run since

storeVars == <<entries, revision, watermark>>
taskVars  == <<running, queue>>
runVars   == <<runs, failed_attempts>>
capVars   == <<available, activated, activation_failures, cooling>>
envVars   == <<inbox, inputs, permitted, expired, upsets>>
history   == <<covered, abandoned>>
fixed     == <<flow, ops, caps>>
vars == <<fixed, storeVars, pc, taskVars, batch, runVars, retries, debounce,
          prev_caps, capVars, envVars, history>>

Idle == [stage |-> "idle"]
NoBatch == [o \in {} |-> TRUE]
Ended == {"quiescent", "deadline"}
Window == {"none", "armed", "due"}

Absent == [added |-> 0, updated |-> 0]
Present(ents) == {TypeOf[i] : i \in {k \in Identity : ents[k] # Absent}}

-----------------------------------------------------------------------------
(* _merge_emissions: one apply for a batch.  Of the identities already     *)
(* known, those in `newer` were observed at a later time.                  *)

merge(ents, rev, ids, newer) ==
    LET added == {i \in ids : ents[i] = Absent}
        touched == added \cup newer
    IN  [entries |-> [i \in Identity |->
            IF i \in added THEN [added |-> rev + 1, updated |-> rev + 1]
            ELSE IF i \in newer THEN [ents[i] EXCEPT !.updated = rev + 1]
            ELSE ents[i]],
         revision |-> IF touched = {} THEN rev ELSE rev + 1]

Merge(ids) ==
    \E newer \in SUBSET {i \in ids : entries[i] # Absent} :
        LET m == merge(entries, revision, ids, newer)
        IN  /\ entries' = m.entries
            /\ revision' = m.revision

\* What a run gathers with: _exclude_unpermitted_operators, then the breaker.
permitted_operators == {allowed \cap gathering(flow) : allowed \in flow.permits}

Init ==
    /\ flow \in {f \in Flows : validate_acyclic_or_bounded(f, gathering(f))}
    /\ ops \in permitted_operators
    /\ caps = build_circuit_breaker(flow, ops)
    /\ LET m == merge([i \in Identity |-> Absent], 0, Seed, {})
       IN  entries = m.entries /\ revision = m.revision
    /\ watermark = [o \in Operator |-> Never]
    /\ pc = "top"
    /\ running = [o \in Operator |-> Idle] /\ queue = <<>> /\ batch = NoBatch
    /\ runs = [o \in Operator |-> 0]
    /\ failed_attempts = [o \in Operator |-> 0]
    /\ retries = [o \in Operator |-> "none"]
    /\ debounce = [o \in Operator |-> "none"]
    /\ prev_caps = [o \in Operator |-> {}]
    /\ available = {} /\ activated = {} /\ cooling = {}
    /\ activation_failures = [c \in Capability |-> 0]
    /\ inbox = {} /\ inputs = 0
    /\ permitted = flow.capabilities
    /\ expired = FALSE /\ upsets = 0
    /\ covered = [o \in Operator |-> 0] /\ abandoned = {}

-----------------------------------------------------------------------------
(* The top of a pass: drain the inbox, take the view, refresh capabilities *)

\* Capabilities a refresh tries to activate, each once those it requires
\* are active.  Those in `ok` succeed.
attempted(pending, ok) ==
    LET Next_ready(tried) ==
          {c \in pending :
              flow.requires[c] \subseteq activated \cup (tried \cap ok)}
    IN  LeastFixpoint(Next_ready, pending)

may_attempt(c) ==
    /\ c \notin activated \cup cooling
    /\ activation_failures[c] < ActivationAttempts

refresh(present) ==
    LET able == compute_available(flow, permitted, present)
        pending == {c \in able : may_attempt(c)}
    IN  \E ok \in SUBSET pending :
            LET tried == attempted(pending, ok)
                failed == tried \ ok
            IN  /\ activated' = activated \cup (tried \cap ok)
                /\ activation_failures' =
                     [c \in Capability |->
                        IF c \in failed THEN activation_failures[c] + 1
                        ELSE IF c \in tried THEN 0
                        ELSE activation_failures[c]]
                /\ cooling' = cooling \cup failed
                /\ available' = able \cap activated'

Refresh ==
    /\ pc = "top" /\ ~expired
    /\ Merge(inbox)
    /\ inbox' = {}
    /\ refresh(Present(entries'))
    /\ pc' = "plan"
    /\ UNCHANGED <<fixed, watermark, taskVars, batch, runVars, retries,
                   debounce, prev_caps, inputs, permitted, expired, upsets,
                   history>>

-----------------------------------------------------------------------------
(* _plan and the launches.                                                 *)

\* Mutant: one run too many.
is_tripped_late(o) == caps[o] # NoCap /\ runs[o] > caps[o]

is_tripped(o) == caps[o] # NoCap /\ runs[o] >= caps[o]

Ran(o) == runs[o] > 0 \/ watermark[o] # Never

Since(o) == IF watermark[o] = Never THEN 0 ELSE watermark[o]

\* What changed after revision `since` that triggers a rerun of o.
Relevant(o, since) ==
    {i \in Identity :
        /\ \E t \in flow.depends_on[o] \cup flow.uses[o] :
              TypeOf[i] \in SubtypesOf[t]
        /\ IF o \in flow.added_only THEN entries[i].added > since
                                    ELSE entries[i].updated > since}

has_relevant_new_data(o) ==
    \/ available \ prev_caps[o] # {}
    \/ Relevant(o, Since(o)) # {}

Considered == {o \in ops : running[o] = Idle /\ ~is_tripped(o)}
Ready == {o \in Considered : is_ready(flow, o, Present(entries), available)}
not_yet_run == {o \in Considered : ~Ran(o)}

Retried == {o \in Ready : retries[o] = "due"}
First == {o \in Ready : retries[o] = "none" /\ ~Ran(o)}
rerun_eligible ==
    {o \in Ready : /\ retries[o] = "none" /\ Ran(o)
                   /\ o \in flow.rerun /\ has_relevant_new_data(o)}

\* The debounce windows once the eligible operators are armed.
Armed == [o \in Operator |->
            IF o \in rerun_eligible /\ debounce[o] = "none"
            THEN IF o \in flow.debounced THEN "armed" ELSE "due"
            ELSE debounce[o]]

Rerun == {o \in rerun_eligible : Armed[o] = "due"}

Satisfying == completion_satisfied(flow, Present(entries))

\* Mutant: every armed rerun is given up once the flow is satisfied.
window_defers_any(o) == Satisfying

window_defers_to_finalize(o) == Satisfying /\ o \in flow.interim

\* What keeps the loop from ending: next_due_in is set.
Held ==
    {o \in Ready : retries[o] = "armed"} \cup
    {o \in rerun_eligible : Armed[o] = "armed" /\ ~window_defers_to_finalize(o)}

Task == [stage |-> "run", emitted |-> 0, observed |-> revision]

Plan ==
    LET launched == Retried \cup First \cup Rerun IN
    /\ pc = "plan"
    /\ running' = [o \in Operator |->
                     IF o \in launched THEN Task ELSE running[o]]
    /\ prev_caps' = [o \in Operator |->
                       IF o \in launched THEN available ELSE prev_caps[o]]
    /\ retries' = [o \in Operator |->
                     IF o \in Retried THEN "none" ELSE retries[o]]
    /\ debounce' = [o \in Operator |->
                      IF o \in Rerun THEN "none" ELSE Armed[o]]
    /\ pc' = IF \E o \in Operator : running'[o] # Idle THEN "wait"
             ELSE IF Held # {} THEN "sleep"
             ELSE IF Satisfying THEN "quiescent"
             ELSE "inbox"
    /\ abandoned' = IF pc' = "quiescent"
                    THEN abandoned \cup {o \in Operator : failed_attempts[o] > 0}
                    ELSE abandoned
    /\ UNCHANGED <<fixed, storeVars, queue, batch, runVars, capVars, envVars,
                   covered>>

\* The sleep to the soonest window that holds the loop.
Wake ==
    /\ pc = "sleep"
    /\ \E o \in Ready :
          \/ retries[o] = "due"
          \/ o \in rerun_eligible /\ debounce[o] = "due"
                                  /\ ~window_defers_to_finalize(o)
    /\ pc' = "top"
    /\ UNCHANGED <<fixed, storeVars, taskVars, batch, runVars, retries,
                   debounce, prev_caps, capVars, envVars, history>>

-----------------------------------------------------------------------------
(* _run_one: an operator task.                                             *)

Signal(o, i) == [op |-> o, emitted |-> i]
Completed(o, ok) == [op |-> o, ok |-> ok]

Emit(o) ==
    /\ running[o].stage = "run"
    /\ running[o].emitted < MaxEmissions
    /\ Len(queue) < QueueSize
    /\ \E i \in Identity :
          /\ TypeOf[i] \in effective_produces(flow, o)
          /\ queue' = Append(queue, Signal(o, i))
    /\ running' = [running EXCEPT ![o].emitted = @ + 1]
    /\ UNCHANGED <<fixed, storeVars, pc, batch, runVars, retries, debounce,
                   prev_caps, capVars, envVars, history>>

\* Mutant: completions are put whether there is room or not.
put_completed_unbounded(o, ok) == queue' = Append(queue, Completed(o, ok))

\* A full queue delays the completion.
put_completed(o, ok) ==
    /\ Len(queue) < QueueSize
    /\ queue' = Append(queue, Completed(o, ok))

\* The run ends, raises, or times out (as it may while blocked in a put).
Finish(o) ==
    /\ running[o].stage = "run"
    /\ \E ok \in BOOLEAN : put_completed(o, ok)
    /\ running' = [running EXCEPT ![o].stage = "done"]
    /\ UNCHANGED <<fixed, storeVars, pc, batch, runVars, retries, debounce,
                   prev_caps, capVars, envVars, history>>

-----------------------------------------------------------------------------
(* _consume_batch: everything queued is taken, the emissions merged, then  *)
(* the completions recorded one by one.                                    *)

EmittedIn(q) == {s.emitted : s \in {t \in ToSet(q) : "emitted" \in DOMAIN t}}
CompletedIn(q) == {s \in ToSet(q) : "ok" \in DOMAIN s}

ConsumeBatch ==
    /\ pc = "wait" /\ queue # <<>>
    /\ Merge(EmittedIn(queue))
    /\ batch' = [o \in {s.op : s \in CompletedIn(queue)} |->
                   \E s \in CompletedIn(queue) : s.op = o /\ s.ok]
    /\ queue' = <<>>
    /\ pc' = IF CompletedIn(queue) = {} THEN "top" ELSE "record"
    /\ UNCHANGED <<fixed, watermark, running, runVars, retries, debounce,
                   prev_caps, capVars, envVars, history>>

count_run(o) ==
    LET cap == IF caps[o] = NoCap THEN 0 ELSE caps[o]
    IN  IF runs[o] > cap THEN runs[o] ELSE runs[o] + 1

maybe_schedule_retry(o, count) ==
    /\ failed_attempts[o] + 1 < flow.max_attempts[o]
    /\ ~(caps[o] # NoCap /\ count >= caps[o])

\* Mutant: the run is credited with data merged while it ran.
new_watermark_live(o, retrying) == IF retrying THEN watermark[o] ELSE revision

\* Mutant: only a first run sets the watermark.
new_watermark_once(o, retrying) ==
    IF retrying \/ watermark[o] # Never THEN watermark[o] ELSE running[o].observed

new_watermark(o, retrying) ==
    IF retrying THEN watermark[o] ELSE running[o].observed

RecordCompletion(o) ==
    /\ pc = "record" /\ o \in DOMAIN batch
    /\ LET count == count_run(o)
           retrying == ~batch[o] /\ maybe_schedule_retry(o, count)
       IN  /\ runs' = [runs EXCEPT ![o] = count]
           /\ failed_attempts' =
                [failed_attempts EXCEPT ![o] = IF retrying THEN @ + 1 ELSE 0]
           /\ retries' = [retries EXCEPT ![o] = IF retrying THEN "armed" ELSE @]
           /\ watermark' = [watermark EXCEPT ![o] = new_watermark(o, retrying)]
           /\ covered' = [covered EXCEPT ![o] =
                            IF ~retrying /\ Since(o) <= @ /\ @ < running[o].observed
                            THEN running[o].observed ELSE @]
           /\ abandoned' = IF retrying THEN abandoned ELSE abandoned \ {o}
    /\ running' = [running EXCEPT ![o] = Idle]
    /\ batch' = [p \in DOMAIN batch \ {o} |-> batch[p]]
    /\ pc' = IF DOMAIN batch = {o} THEN "top" ELSE "record"
    /\ UNCHANGED <<fixed, entries, revision, queue, debounce, prev_caps,
                   capVars, envVars>>

-----------------------------------------------------------------------------
(* The other ways out of the loop.                                         *)

\* _wait_for_inbox: a delivery or the deadline.
InboxWakeup ==
    /\ pc = "inbox"
    /\ inbox # {} \/ expired
    /\ pc' = "top"
    /\ UNCHANGED <<fixed, storeVars, taskVars, batch, runVars, retries,
                   debounce, prev_caps, capVars, envVars, history>>

\* The process is gone, with all that it held.
Forget ==
    /\ running' = [o \in Operator |-> Idle] /\ queue' = <<>>
    /\ batch' = NoBatch
    /\ runs' = [o \in Operator |-> 0]
    /\ failed_attempts' = [o \in Operator |-> 0]
    /\ retries' = [o \in Operator |-> "none"]
    /\ debounce' = [o \in Operator |-> "none"]
    /\ prev_caps' = [o \in Operator |-> {}]
    /\ available' = {} /\ activated' = {} /\ cooling' = {}
    /\ activation_failures' = [c \in Capability |-> 0]
    /\ abandoned' = {}

\* park_after elapsed; a delivery may just have been missed.
Park ==
    /\ pc = "inbox" /\ ~expired
    /\ pc' = "parked"
    /\ Forget
    /\ UNCHANGED <<fixed, storeVars, envVars, covered>>

\* _drain_remaining at the deadline: what was emitted is merged, the tasks
\* are cancelled, their completions are not recorded.
DrainRemaining ==
    /\ pc = "top" /\ expired
    /\ Merge(EmittedIn(queue))
    /\ queue' = <<>>
    /\ running' = [o \in Operator |-> Idle]
    /\ pc' = "deadline"
    /\ abandoned' = abandoned \cup {o \in Operator : failed_attempts[o] > 0}
    /\ UNCHANGED <<fixed, watermark, batch, runVars, retries, debounce,
                   prev_caps, capVars, envVars, covered>>

\* After aggregation, a pending delivery: the same process gathers again,
\* with new windows and a fresh deadline.
Redrive ==
    /\ pc \in Ended /\ inbox # {}
    /\ expired' = FALSE
    /\ pc' = "top"
    /\ retries' = [o \in Operator |-> "none"]
    /\ debounce' = [o \in Operator |-> "none"]
    /\ UNCHANGED <<fixed, storeVars, taskVars, batch, runVars, prev_caps,
                   capVars, inbox, inputs, permitted, upsets, history>>

\* The process dies, is fenced, or fails in one of its awaits, those of the
\* aggregation that follows gathering included.
Crash ==
    /\ pc \notin {"parked", "down"}
    /\ upsets < MaxUpsets
    /\ upsets' = upsets + 1
    /\ pc' = "down"
    /\ Forget
    /\ UNCHANGED <<fixed, storeVars, inbox, inputs, permitted, expired, covered>>

\* A new process takes the session over, from the store alone.
Resume ==
    /\ \/ pc = "down"
       \/ pc = "parked" /\ inbox # {}
    /\ pc' = "top"
    /\ ops' \in permitted_operators
    /\ caps' = build_circuit_breaker(flow, ops')
    /\ UNCHANGED <<flow, storeVars, taskVars, batch, runVars, retries, debounce,
                   prev_caps, capVars, envVars, history>>

-----------------------------------------------------------------------------
(* The surroundings: deliveries, the catalog, time.  Each happens where    *)
(* the loop can next notice it, as its moment before that makes no         *)
(* difference.                                                             *)

Deliver ==
    /\ pc \in Ended \cup {"top", "inbox", "parked"}
    /\ inputs < MaxInputs
    /\ \E i \in Deliverable[flow] : inbox' = inbox \cup {i}
    /\ inputs' = inputs + 1
    /\ UNCHANGED <<fixed, storeVars, pc, taskVars, batch, runVars, retries,
                   debounce, prev_caps, capVars, permitted, expired, upsets,
                   history>>

CatalogChange ==
    /\ pc = "top"
    /\ upsets < MaxUpsets
    /\ upsets' = upsets + 1
    /\ \E c \in flow.capabilities :
          permitted' = IF c \in permitted THEN permitted \ {c}
                                          ELSE permitted \cup {c}
    /\ UNCHANGED <<fixed, storeVars, pc, taskVars, batch, runVars, retries,
                   debounce, prev_caps, capVars, inbox, inputs, expired,
                   history>>

Expire ==
    /\ pc \in {"top", "inbox"}
    /\ ~expired /\ upsets < MaxUpsets
    /\ upsets' = upsets + 1
    /\ expired' = TRUE
    /\ UNCHANGED <<fixed, storeVars, pc, taskVars, batch, runVars, retries,
                   debounce, prev_caps, capVars, inbox, inputs, permitted,
                   history>>

Elapse(o) ==
    /\ pc \in {"plan", "sleep"}
    /\ \/ /\ retries[o] = "armed"
          /\ retries' = [retries EXCEPT ![o] = "due"]
          /\ UNCHANGED debounce
       \/ /\ debounce[o] = "armed"
          /\ debounce' = [debounce EXCEPT ![o] = "due"]
          /\ UNCHANGED retries
    /\ UNCHANGED <<fixed, storeVars, pc, taskVars, batch, runVars, prev_caps,
                   capVars, envVars, history>>

CoolOff ==
    /\ pc = "top"
    /\ \E c \in cooling : cooling' = cooling \ {c}
    /\ UNCHANGED <<fixed, storeVars, pc, taskVars, batch, runVars, retries,
                   debounce, prev_caps, available, activated,
                   activation_failures, envVars, history>>

\* Gathering is over and nothing asks for more of it.
Over ==
    /\ pc \in Ended \cup {"parked", "inbox"}
    /\ UNCHANGED vars

LoopStep == \/ Refresh \/ Plan \/ Wake \/ ConsumeBatch
            \/ \E o \in Operator : RecordCompletion(o)
            \/ InboxWakeup \/ DrainRemaining \/ Resume

Next ==
    \/ LoopStep \/ Park \/ Redrive \/ Crash
    \/ Deliver \/ CatalogChange \/ Expire \/ CoolOff \/ Over
    \/ \E o \in Operator : Emit(o) \/ Finish(o) \/ Elapse(o)

\* The event loop runs what can run, an operation timeout ends every run, a
\* window elapses, and a dead process is replaced.
Fairness ==
    /\ WF_vars(LoopStep)
    /\ \A o \in Operator : WF_vars(Finish(o)) /\ WF_vars(Elapse(o))

Spec == Init /\ [][Next]_vars /\ Fairness

-----------------------------------------------------------------------------
TaskType ==
    [stage: {"run", "done"}, emitted: 0..MaxEmissions, observed: Nat]

TypeOK ==
    /\ flow \in Flows /\ ops \subseteq Operator
    /\ entries \in [Identity -> [added: Nat, updated: Nat]]
    /\ revision \in Nat
    /\ watermark \in [Operator -> Nat \cup {Never}]
    /\ pc \in {"top", "plan", "wait", "record", "sleep", "inbox", "parked",
              "down"} \cup Ended
    /\ \A o \in Operator : running[o] = Idle \/ running[o] \in TaskType
    /\ Len(queue) <= QueueSize
    /\ DOMAIN batch \subseteq Operator
    /\ runs \in [Operator -> Nat] /\ failed_attempts \in [Operator -> Nat]
    /\ retries \in [Operator -> Window] /\ debounce \in [Operator -> Window]
    /\ prev_caps \in [Operator -> SUBSET Capability]
    /\ available \subseteq activated /\ activated \subseteq Capability
    /\ activation_failures \in [Capability -> 0..ActivationAttempts]
    /\ inbox \subseteq Identity /\ permitted \subseteq Capability
    /\ covered \in [Operator -> Nat] /\ abandoned \subseteq Operator

\* A watermark never passes over a change: everything up to it was in the
\* delta of a run of that operator that succeeded or failed for good, through
\* retries, crashes and resumes.  (_record_completion: the watermark is the
\* revision the launch observed, and a retried failure keeps the old one.)
WatermarkHonest ==
    \A o \in Operator : watermark[o] # Never => watermark[o] <= covered[o]

\* When gathering goes quiescent every ready operator the breaker lets run has
\* concluded a run, each that reruns on new data was shown everything that
\* triggers it, and none that has not run could still become ready from what the
\* others would produce (_warn_if_stalled has nothing to warn of).  Left out are the interim aggregators, which finalize does over
\* again, and operators whose retries an earlier end of gathering in the same
\* process (the deadline, then a redrive) cut short.
QuiescentUpToDate ==
    pc = "quiescent" =>
        /\ \A o \in Ready \ abandoned :
            /\ watermark[o] # Never
            /\ o \in flow.rerun \ flow.interim => Relevant(o, covered[o]) = {}
        /\ reachable_pending(flow, not_yet_run, Present(entries), available) = {}

\* An operator on a cycle is not run more often than its max_cycles in one
\* process, the run in flight and the retried attempts included.
CyclesBounded ==
    \A o \in ops : caps[o] # NoCap =>
        runs[o] + (IF running[o] = Idle THEN 0 ELSE 1) <= caps[o]

\* Operators that trigger one another again without end: they rerun on new
\* data, no cap stops them, and each is fed by one of them.  The constructor
\* refuses such a loop of depends_on; one through `uses` is no cycle of the
\* graph (builder.py), so it is accepted and its operators have no cap, unlike
\* what orchestrator.py says of it ("Fail fast on an unbounded cycle rather than
\* busy-looping to the session deadline").
SelfTriggering ==
    LET Feeds(x, y) == \E t \in flow.depends_on[y] \cup flow.uses[y] :
                          effective_produces(flow, x) \cap SubtypesOf[t] # {}
        free == {o \in ops \cap flow.rerun : caps[o] = NoCap}
    IN  UNION {S \in SUBSET free : \A y \in S : \E x \in S : Feeds(x, y)}

\* Gathering comes to an end or to waiting for input, however full the queue
\* gets and with no deadline to help, in every flow without a loop through
\* `uses` that nothing caps: no operator's disposition is lost, and the caps
\* end the cycles of depends_on (_gather, _run_one, circuit_breaker.py).
GatherSettles ==
    [](SelfTriggering = {}) => []<>(pc \in Ended \cup {"parked", "inbox"})

\* An operator kept by pruning that never ran is not the victim of pruning: if
\* it could have come to run among all operators, it could among those kept.
\* (reachability.py: what is pruned "feeds neither the aggregator nor any
\* operator the aggregator (transitively) needs".)
PruningLossless ==
    LET seeded == {TypeOf[i] : i \in Seed}
    IN  pc = "quiescent" =>
            not_yet_run \cap
              Runnable(flow, Unpruned(flow), seeded, flow.capabilities)
            \subseteq Runnable(flow, gathering(flow), seeded, flow.capabilities)

\* The same for the flows in which no capability waits for data.
DataPruningLossless ==
    (\A c \in flow.capabilities : flow.depends_on[c] = {}) => PruningLossless
=============================================================================
