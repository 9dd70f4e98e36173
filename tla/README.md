# A TLA+ model of orcastork

orcastork runs *sessions*: operators gather DataPoints into a shared, fenced
store until nothing is left to do, then aggregators fold what was gathered into
durable records. A session outlives its process. It can be parked, resumed by
another pod after a crash, and re-opened when data arrives late. `orcastork_lite`
is the variant for one process: no lease, no store, one deadline.

The modules here model the ownership and recovery protocol, the stores and logs
it protects, the gathering loop, the aggregation phase and the lite session, and
check them with TLC on small instances. Most of the safety properties are also
proved with TLAPS, for every value of the constants.

Paths below are relative to the repository root (`orcastork/...`).

## 1. Inventory

| Component | State | Operations | Model |
|---|---|---|---|
| `SessionLock` port, memory and Redis adapters | epoch counter, lease with TTL, completion flag | acquire, renew, release, current_epoch, is_held, mark_complete, is_complete, clear_complete | `FencedLock`, `SessionLock` |
| `DataPointStore` | entries with added/updated revisions, revision, highest epoch that wrote, watermarks, effect marks, deadline, flow fingerprint | write, apply_resolved, change_set_since, set_watermark, claim/commit/revert_effect, set_* | `DataPointStore`, `EffectGuard` |
| `SessionStateMirror` | a run's local copy of the store, primed baselines | rehydrate, prime_change_baseline, write, snapshot, change_set_since | `SessionStateMirror` |
| `EffectGuard` | the progress of one guarded block | once: claim, recover, commit, revert | `EffectGuard` |
| `Inbox` (Redis) and the drain | stream entries with claim and delivery count, quarantine, its own fence, wakeup channel | append and publish, consume, reclaim, ack, quarantine, pending_count, wait_for_entry; `_drain_inbox` | `Inbox` |
| `SessionOrchestrationManager` | rechecks, takeover guards, backstop budget | start_session, resume, reopen, deliver, backstop probe | `Session` (not the takeover guard) |
| `Orchestrator._run` | epoch, mirror, fresh-deadline flag | acquire, rehydrate, gather, aggregate, re-check, redrive, finalize, release | `Session` (gathering and aggregation abstract) |
| Gathering loop and scheduling | running operators, watermarks, retries, debounces, breaker, emission queue | plan, launch, drain signals, merge, retry, park, redrive, quiescence | `GatherLoop` |
| Dependency graph | none (pure) | build, cycles, reachability, readiness, quiescence | `DependencyGraph` (results, not the Tarjan traversal) |
| Capabilities | activated set, cool-offs | availability fixpoint, activation | `DependencyGraph`, `GatherLoop` (closing sessions left out) |
| Aggregation | attempt, version read, last error | upsert, add_to_set, interim refresh, retry, dead letter, contribution marker | `Aggregation` (one step per aggregator in `Session`) |
| Durable store (Mongo) | versioned document, set field, epoch guards, markers | guard, find, conditional write, set-add, mark, clear | `DurableStore` |
| DataPoint archive (Mongo) | fence with sequence counter, buffer, committed rows | archive_many, flush, read | `Archive`, `WriteBehind` |
| Audit trail | fenced log, coalesced counts of a run | append_many, coalesced report | `WriteBehind` (what the rows account for) |
| `orcastork_lite` session | entries, watermarks, windows, running, activated and failed capabilities, outcome | construct and prune, gather, activate, plan, run, retry, drain | `LiteGraph`, `LiteOrchestrator` |
| Rate limiter, cooldown gate, value sealing, Redis store, DataPoint classes, replay and tools, lite events | see section 7 | | not modelled |

How they interact. A manager call (on any pod) reads the lock, and may spawn an
orchestrator. The orchestrator acquires the lock and passes the epoch it is
given to every write: the store, the inbox, the durable store, the audit log, the
archive and the completion flag each refuse an epoch lower than the highest they
have accepted. Deliveries reach a run only through the inbox. The drain merges
them through the mirror into the store before it acks them. Every merge leaves
audit and archive rows behind it. Operators guard side effects with marks in the
store. Aggregators write durable records and set contribution markers, which are
what lets a resumed run skip them.

What is hard about it:

* the lease ends by time, so a stalled run goes on beside its successor. Each
  fence only knows the epochs that have *written* to it, not those granted;
* completion, ownership and the inbox are read in separate awaits, by several
  pods, and acted on afterwards;
* two clears are unfenced (`clear_complete`, `clear_contribution`), and one
  re-open performs both, in two steps;
* a call that is cancelled or times out may still land;
* in Mongo and in the Redis inbox one port call is several round trips: the guard
  and the write it protects, the entry and its wakeup, a page committed and
  cleared;
* delivery is at least once: an entry may be held by two runs at a time.

`PROJECT.json` lists the hazards line by line with the properties aimed at them.

## 2. Modules

**`FencedLock`** is what the lock port promises, without a clock: one holder, an
epoch per grant above all earlier ones, a completion flag only the newest epoch
may raise. `acquire`, `release`, `mark_complete` and `clear_complete` are the
Lua scripts of `adapters/redis/lock.py` (single atomic steps). The sliding TTL
of the counters is left out.

**`SessionLock`** is the adapter with its TTL (`adapters/memory/lock.py`).
`ttl_left` is `expires_at - now`. `grant[r]` is the epoch run `r` works under,
`window[r]` (history) the lease time it was last given, and `finalizer` (history)
the epoch of the run that last raised the completion flag. `Crash` drops a run and
leaves its lease. It implements `FencedLock` with
`holder <- IF is_live THEN lease.epoch ELSE 0`.

**`DataPointStore`** (`adapters/memory/store.py`) has the keyed merge as the
store itself does it (`write`), the blind application of a pre-merged batch
(`apply_resolved`), the change sets and the fenced session fields.
**`SessionStateMirror`** (`orchestrator/mirror.py`) adds the runs: each acquires,
checks the flow fingerprint, rehydrates in two reads, primes baselines, and then
resolves every batch against its own copy and writes it through. Nothing tells a
run that it lost its lease but a refused write. `slipped` (history) names the
runs whose copy missed a predecessor's write.

**`EffectGuard`** (`operators/effects.py`, with the store's mark operations). A
store call is *sent*, *lands* and *answers*, each separately: it can fail before
landing, land with its answer lost, or outlive an attempt that was cancelled.
SKIP and RERUN are both allowed at every stale mark. `Crash` ends a process and
leaves its calls in flight.

**`Inbox`** (`adapters/redis/inbox.py`, `orchestrator.py` `_drain_inbox` to
`_quarantine_inbox_entry`, `_wait_for_inbox`). Entries are good, bad (the store
always refuses them), poison (not JSON) or alien (JSON `parse_data_point`
rejects, which raises out of the drain). One step per round trip. The order inside
a batch is any order. `store_epoch` and `inbox_epoch` are the two separate fences.
An append is the XADD, and the PUBLISH that wakes a waiter is a step of its own;
the appender may die between them. A run with nothing left subscribes, counts what
is pending and then waits. The count is itself two reads, the length of the stream
and the counter of acks, and acks or appends may come between them.

**`Session`** (`manager/manager.py`, `orchestrator.py` `_run`) composes the lock
with manager calls, their runs and the shared data, one step per awaited
operation. A call's `pc` names the operation it awaits next.
Decisions taken in it:

* a DataPoint is named by the call that brings it, and the store, the record and
  a mirror are sets of them. `Inbox` and `SessionStateMirror` have the detail
  that this leaves out: here a drain is one step, and drift check, rehydration
  and seed are one step;
* one aggregator, always ready. Its `Fold` is the fenced upsert of what the run's
  view holds, in one step (`Aggregation` takes it apart);
* the lease may lapse at any time (`Lapse`). It counts as a fault while its run
  is alive, and is free when the run is dead;
* the deferred recheck sleeps longer than the lease TTL (35 s against 30 s), so
  a sleeper wakes (`Ripened`) once the lease it saw was renewed, released or
  ended;
* a rehydrated deadline may be spent, so `Quiesce` may come before any pass; a
  fresh deadline (`fresh`) may not. Deadlines carry no time;
* the takeover guard is left out. It only forbids interleavings of resumes
  within one pod, so what holds here holds with it, and the finding below does
  not need two resumes of one pod at once;
* the write-behind flush and audit appends change nothing this model has
  (`WriteBehind` has them). Their failures are `RunFails`. A cancellation between the acquire and the `try`
  (`orchestrator.py:307`) leaves the lease behind, which is `Crash`; an ordinary
  failure there is swallowed where it arises.

`excuses` is history: the four ways found in which data can stay out of the
record. `late`: a run acquired a session already complete. `inherited`: the
aggregator was skipped on a marker of another run. `strayed`: a run wrote to the
store after its successor's grant. `dead_lettered`: every attempt failed.

**`DependencyGraph`** is what is computed from a flow's declarations alone: the
graph with its cycles and breaker caps, pruning, readiness, availability and the
quiescence check. A flow is a record (`FlowType`). The code's loops that add until
nothing changes are least fixpoints, and its strongly connected components are
mutual reachability, so the Tarjan traversal itself is not modelled. A subtype
relation is given as the set of leaves that satisfy each type; capability types
are their own only subtypes.

**`GatherLoop`** (`orchestrator.py` `_gather`, `_plan`, `_run_one`,
`_record_completion`, `_wait_for_inbox`, `_drain_remaining`, `_prepare_redrive`;
`CapabilityActivator.refresh`) runs the loop of one flow with its operator tasks,
through crashes, parking, resumes and redrives. Decisions taken in it:

* the loop is the session's only writer, so store and mirror are one. `Session`
  and `SessionStateMirror` cover what happens when it is not;
* a pass is two steps, `Refresh` (drain, view, capabilities) and `Plan` (the
  launches and how the pass ends). Between them, and while the loop sleeps, a
  window may elapse;
* time: a retry or debounce window is armed and then due, and windows elapse in
  any order. The deadline passes at most once per gather (`Expire`);
* deliveries, catalog changes, cool-offs and the deadline happen where the loop
  can next notice them. Earlier moments give the same behaviours;
* `Finish` is a run's end, by result, failure or timeout, together with the put
  of its completion, which needs room in the queue. `Emit` needs room too. An
  operator emits only types it declares;
* a batch is merged in one step (`ConsumeBatch`), and its completions are
  recorded one by one (`RecordCompletion`), each with its awaited writes;
* a failed or fenced await of the loop ends the process, which is `Crash`. It may
  also die after gathering has ended, in the aggregation before a redrive;
* `runs` saturates above the cap, since only its comparison with the cap and with
  zero is read;
* aggregation between two gathers, and an interim aggregator's durable write, are
  left out: neither touches what the loop reads.

`covered` and `abandoned` are history. `covered[o]` is the revision up to which
`o`'s concluded runs were shown every change. `abandoned` has the operators whose
retries were cut short by the deadline of an earlier gather in this process.

**`DurableStore`** (`adapters/mongo/durable_store.py`) is one output key: the
versioned document, the set field, the guard document of the key, the contribution
markers and their guard. The guard and the write are separate round trips.
**`Aggregation`** (`aggregation/helpers.py`, `aggregation/retry.py`,
`orchestrator.py` `_aggregate`, `_run_aggregator`) runs a predecessor, its
successor and a run of another session with the same output key through it, one
round trip per step: the interim refresh, the final pass with its retries, the
fenced renew after an attempt, dead letter and marker. An attempt that times out,
or a run that dies, in the write may leave the write under way (`strays`). One
aggregator per run: siblings share only the lease. The document is reduced to
version, status and the epoch that wrote it. `fence.session` and `folded` are
history.

**`Archive`** (`adapters/mongo/datapoint_archive.py`) is the meta document that
fences the epoch and hands out sequence numbers, the buffer, and the committed
rows, each identity folded to first, last and epoch. `read` is the answer of a
quiet archive, committed rows first and the buffer in sequence after them.
**`WriteBehind`** (`orchestrator.py` `_merge_bookkeeping`,
`_append_coalesced_audits`, `_flush_write_behind`, the tail of `_run`) lets runs
merge, append, flush, park and re-drive over it. The number of merges tells the
time. Batches are written in order, so a call that is cut leaves a prefix of its
rows (any subset for a deletion). The audit log's guard and insert are one step:
only replay reads that log. `landed`, `late`, `merged`, `absorbed` are history:
the rows ever buffered, the points with a row that landed behind one of theirs with
a higher number or behind the cursor of a flush, the merges of each run, and the runs that swallowed a failed bookkeeping
of an inbox entry.

**`LiteGraph`** (`orcastork_lite/graph.py`, and the pure parts of `scheduling.py`
and `capabilities.py`) is what a lite session computes from its declarations:
edges, cycles and caps, pruning, readiness, availability.
**`LiteOrchestrator`** (`orcastork_lite/orchestrator.py`, `state.py`) is the
session. Decisions taken in it:

* the clock is an integer, since here what counts is how deadline, timeouts, retry
  delay and debounce relate. It advances only while the loop awaits something that
  takes time, and a timer that is due fires before it advances further;
* a pass reads the budget left, the view and the permitted capabilities in one
  step (`BeginPass`), activates in any order (`Activate`), announces what it
  activated (`Announce`), gives up the retries that lost a capability (`GiveUp`),
  and launches (`Plan`) with what it read at its top. Each activation takes up to
  the operation timeout and each event up to the publish timeout (`until` is when
  the current await ends at the latest). Events that are published one after the
  other with nothing between them are one await. `_plan` goes through its operators
  between such events, so it looks at each at some time between its start and its
  end (`at`);
* an operator has its own run timeout (`policy.timeout`, or the session's);
* the queue is unbounded, as in the code. A batch is merged (`TakeQueued`) and its
  completions are recorded one by one (`RecordCompletion`), each with its event;
  what operators emit meanwhile joins the queue. The order within a batch is any
  order;
* an exception that leaves the loop ends the session through its `finally`
  (`ActivationRaises`): the constructor of a capability and the reads of the catalog
  are outside the `try` of `_activate`. The reads of the catalog return at once or
  raise;
* the drain takes what is queued, cancels what still runs (`CancelRunning`), takes
  what came in the meantime as a second batch, and reports the rest (`Report`);
* an operator emits only types it declares. What the events say is left out;
* `stall` and `lag` are history: the time the activations and publishes of the
  current pass may take in all, and the longest that of any pass before its launches.
  `covered`, `last` and `ownTimeout` are history too;
* the constructor's refusal of a cycle without a bound is a session that does not
  come into being.

**`EffectGuardProofs`**, **`InboxProofs`**, **`SessionProofs`**,
**`AggregationProofs`**, **`WriteBehindProofs`**, **`GatherLoopProofs`** and
**`LiteOrchestratorProofs`** have the theorems about the module they are named after
(section 5). **`LockAndMirrorProofs`** has those about `SessionLock` and
`SessionStateMirror`, the two a run rests on; it extends both, which is why the lock's
specification is called `LockSpec`, its next-state relation `LockNext`, and so on. The
`MC*` modules only instantiate.

## 3. Runs

| Run | Question | Bounds |
|---|---|---|
| `lock` | Exclusive leases, finalization by the newest epoch only, dead leases expire, the adapter implements the port | 3 runs, TTL 3, 5 grants |
| `mirror` | Does a sole mutator's copy, its change sets and its merged batches agree with the store? | 2 epochs, 2 identities, 2 times, batches up to 2, 3 revisions |
| `effects` | Committed effects never refire; none refires within an epoch after a clean exit; each skip has a cause | 2 epochs, 3 attempts |
| `inbox` | Nothing lost, no wakeup missed, quarantine once and for cause, everything settles | 2 entries of all kinds, 2 runs, cap 2 |
| `session` | With no fault: no delivery is stranded, and each is drained | 2 deliveries, backstop 2, 8 epochs |
| `session_faults` | With two faults: a complete session is folded but for the excuses | 1 delivery, 1 host resume, backstop 1, 3 epochs |
| `session_lost_flag` | (violation) a finished session stays complete | 2 deliveries, no fault |
| `gather` | Is every watermark honest, everything relevant shown at quiescence, every cycle bounded, and does every gather settle? | 6 flows, queue of 2, 1 emission per run, 2 deliveries, 1 upset (crash, deadline or catalog change), 2 activation attempts |
| `gather_pruning` | (violation) pruning takes nothing a kept operator needs | 2 flows, same bounds |
| `lite` | Does a lite session leave nothing undone, report its failures, end its runs and itself with the deadline but for what the loop cannot cut short, and end? | 6 flows of 1 to 3 operators, deadline 2 or none, run timeouts 1 and 2, activation timeout 2, publish timeout 1, retry delay 1, 1 emission per run, 1 catalog change |
| `aggregation` | Does a final record stay final and an old epoch's document never replace a newer one's; does a marker mean the output landed; is a takeover never a dead letter? | 2 runs of a session and 1 of another on the same key, 2 attempts, 1 fault |
| `archive` | Is the archive's answer decided by the rows that landed, and has a clean run accounted for its merges? | 2 runs, 3 kinds of point, 2 merges, 1 redrive, pages of 1 row, 1 fault |

Why the bounds are enough for the cases that matter. The protocols compare an
epoch with one other, so two overlapping owners (three for the lock, where a
third stands behind both) show every comparison in both directions. Two
identities and a batch of two give duplicates in a batch, re-observation of a
known and of a new identity, and both orders of times. Three attempts are a
failed one, its retry and a rerun. Eight epochs exceed what one start, two
deliveries and their backstops can mint. In `session_faults` three epochs do bind:
behaviours that need a fourth owner are cut short, which is sound for the safety
properties it has. `session_faults` was also explored with four epochs while the
excuses were found; each of the four is needed there.

The flows of `gather` each aim at a part of the loop: `Chain` (an abstract input,
reruns and retries), `Cycle` (two operators that feed each other, with caps, and a
catalog that may permit only one of them), `Layered` (capabilities that need data
and each other, optional inputs), `Interim` (a debounced operator and an interim
aggregator in a flow that waits for input), `Pruned`, `Feedback` (a loop through
`uses` that an operator without reruns ends). Two operators and a queue of
two fill the queue while a completion is due, and one emission per run is enough
to make the other's watermark stale. The safety properties were also explored
with two upsets for each flow. The flows of `lite` are chosen the same way. One
of them is a cycle the constructor refuses; one (`SlowFolder`) triggers itself for
ever, on a window, and is ended by its deadline alone. A deadline of two with run
timeouts of one and two, an activation of two, publishes of one and a retry after
one lets the deadline fall in an activation, in a publish before the launches or
after them, in a clipped run, in an unclipped one, and between a failure and its
retry.

In `aggregation` one fault is one write left under way by a timeout or a death,
with the successor, its own retry and the other session's run still to come; a
re-open in between gives the session a second final pass. In `archive` pages of one
row put a commit and a clear between any two rows, so two flushes interleave at
every point, and one cut call leaves every prefix of the longest batch.

Deadlock is checked in `mirror`, `gather`, `lite`, `aggregation` and `archive`,
where a step (`Over`, `Finished`, `AllDone`) marks the states in which the system
may be over. In the others it is not: calls return, attempts run out and entries
are all settled, so these systems may stop. What must not stop is stated as
liveness.

Fairness:

* `lock`: `WF(Tick)`. The clock advances; nothing is assumed of any run;
* `inbox`: `WF(Grant)`, a supervisor resumes what has ended; weak fairness
  of each live run's drain, which the gathering loop repeats; and of each publish,
  whose appender goes on or dies. The last run is one that does not die, or nothing
  could be promised;
* `gather`: weak fairness of the loop's own step (the event loop), of each
  `Finish` (`wait_for` with the operation timeout ends every run) and of each
  `Elapse` (the clock). The deadline is not fair: gathering
  settles without it, unless operators trigger themselves through `uses`;
* `lite`: weak fairness of the loop's step, of the clock and of each `Finish`
  (`wait_for` ends every run, and every publish and activation). A session without a
  deadline ends unless its operators trigger themselves through `uses`; one with a
  deadline, if they then at least wait out a window. Without a window the clock need
  not advance between two instant runs, which says nothing about real time, so that
  case is left out of `SessionEnds`;
* `session`: weak fairness of each call's next step (the event loop runs every
  live coroutine on) and of the start. Weak fairness chooses no branch: a run
  may always find itself quiescent, or out of time.

`mirror`, `effects`, `aggregation` and `archive` check no liveness and assume no
fairness.

Each property has at least one mutant of the code under which it fails, given in
`PROJECT.json`; their definitions stand before what they replace, marked
*Mutant*.

## 4. What was found

1. **A finished session can lose its flag** (`session_lost_flag`). Two re-opens
   pass the same checks. One runs and finalizes; before it releases, the other
   clears the flag (unfenced), fails to acquire and stands down. The session is
   finished and looks orphaned.
2. **Pruning can starve a capability** (`gather_pruning`). `backward_reachable`
   keeps the capabilities a kept operator requires but does not follow the data
   those depend on (`reachability.py:50`), so the only producer of that data is
   pruned and the operator never runs. `reachability.py:6-10` says that what is
   dropped feeds nothing the aggregator needs. `DataPruningLossless` shows that
   the statement does hold when no capability waits for data.

Noted while modelling, without a run. Where a property names one of these as an
exception, the exception is needed: without it TLC shows the behaviour.

Ownership and the session:

* `mirror.py:15-17` says another writer's data makes the next forwarded write
  raise. It does when the other writer is above. A *predecessor's* write that
  lands after the successor's rehydration and before its first guarded write is
  accepted, and so are the successor's later writes, from a copy that lacks it.
  `MirrorInStep` states when the copy is exact: no higher writer, and nothing
  slipped in (`slipped`);
* the claim of an effect is awaited outside the `try` and unshielded
  (`effects.py:67`): a cancellation while it is in flight leaves the epoch's pending
  mark, and the retry is turned away although the effect never ran. Effects are
  never doubled by this (`SkipsExplained`);
* the completion flag and the contribution markers are cleared in two awaits
  (`manager.py:295-301`, `518`). A resume that acquires between them drains the late
  data, finds the aggregator marked, skips it, and completes (`excuses`);
* the README's statement that every mutating method takes a fencing epoch does
  not hold for `clear_complete` and `clear_contribution`;
* `pending_count` of the Redis inbox reads the stream's length, then the counter of
  acks, and can come out low. A waiter it sends to sleep is still woken by the
  publish of the entry it missed, unless the appender died in between
  (`NoLostWakeup`). An append renews the TTL of the stream alone.

Gathering:

* an operator whose retry was cut short by the deadline counts as having run, so
  after a redrive in the same process it is not attempted again unless new data
  makes it rerun (`abandoned` is there for this);
* the breaker counts per process, not per session as `circuit_breaker.py:5` says,
  so `CyclesBounded` is stated per process;
* a loop through `uses` has no cap. `uses` triggers a rerun just as `depends_on`
  does, but is no edge of the graph the cycle check looks at (`graph/builder.py:49-55`,
  `orcastork_lite/graph.py:54-58`). An operator that reruns on a type it both uses and
  produces is accepted without `max_cycles` and then runs on its own output until the
  deadline, and in a lite session without a deadline for ever. Both orchestrators say
  the opposite (`orchestrator.py:253` "Fail fast on an unbounded cycle rather than
  busy-looping to the session deadline" and `1022-1024`; lite `orchestrator.py:134`
  and `428-429`). `GatherSettles` and `SessionEnds` are therefore stated for flows
  without such a loop (`SelfTriggering`). Its revisions grow without end, so no run
  has one but `lite`, where a window and the deadline bound it;
* a retried run is not shown again the capabilities that were new to the failed
  attempt: `prev_caps` moves at launch (`orchestrator.py:660`);
* the sleep for a window (`orchestrator.py:689`) is not cut at the deadline or at
  the lease renewal.

Aggregation, archive and audit:

* the Mongo guard and the write behind it are separate, so a lower epoch's
  `add_to_set` that passed the guard lands after a higher epoch's. For the document
  the version filter is what stops this (`RecordNeverRegresses`);
* the guard is per output key and epochs are per session: another session with a
  higher epoch on the same key fences this one, whose attempts then end in a dead
  letter (`DeadLetterExplained` allows exactly this);
* a crash between the write and the marker reruns the aggregator; a marker's insert
  that was guarded before a re-open may land after the clear;
* numbers are handed out before rows are inserted, so rows of two runs can land out
  of sequence. The first observation of such a point may then be the later one
  (`late`), and a row behind a flush's cursor stays buffered until the next flush.
  With three owners the second leads to the first: a row behind the cursor is
  overtaken by a later row of its point, which that flush commits first;
* `flushed` is not reset by a redrive (`orchestrator.py:457`), so a second pass
  that parks or fails skips the flush of the `finally`, which `orchestrator.py:21`
  says always runs. `CleanEndAccounted` leaves that case out;
* a failed bookkeeping of an inbox entry is swallowed (`absorbed`), and a crash
  between a merge and its rows leaves a point that is neither audited nor archived;
* a read beside a flush takes the committed rows first and the buffer after, and
  can miss rows that moved in between. `read` here is the quiet one.

`orcastork_lite` (the exceptions in `DeadlineHonoured` and `FailuresReported`):

* a run can outlive the deadline. The budget left is read at the top of the pass
  (`orchestrator.py:238`), the capabilities are activated, and the run launched after
  that is given the whole of it. `orchestrator.py:11-12` and `462`, and the lite
  `README.md:97-98`, say that no run outlives the deadline. `DeadlineHonoured` bounds
  how long it does (`lag`), and its part `ClippedToDeadline` shows that without
  capabilities it does not. Without that condition TLC has a counterexample in the flow `Gated`;
* the deadline is looked at between passes only, and publishing is not cut by it: the
  session goes on for the publish timeout of each event of its last pass and of the
  drain (`orchestrator.py:47-49` accepts this per event);
* an event published for a retry given up in `_plan`, or for an activation, delays the
  launches of the same pass, and so adds to the first point;
* a `TimeoutError` of the operator's own in a run clipped by the deadline is taken
  for the deadline;
* a failure whose retry is still armed at the deadline is reported nowhere.

## 5. What is proved

Every theorem is of the form `Spec => []Inv` or `Spec => [][A]_vars` for every
value of the constants: any number of runs, epochs, entries, calls, flows and
faults. The bounds the runs need (`MaxEpoch`, `MaxFaults`, ...) are constants in
the theorems, so each holds however large they are.

| Module | Theorem | Property |
|---|---|---|
| `LockAndMirrorProofs` | `LockTypeCorrect` | `LockTypeOK` |
| | `LockMutualExclusion` | `LeaseMutualExclusion` |
| | `LockOnlyNewestFinalizes` | `OnlyNewestFinalizes` (action property) |
| | `LockImplementsPort` | `ImplementsPort`, the refinement of `FencedLock` |
| | `MirrorTypeCorrect` | `TypeOK` |
| | `MirrorStaysInStep` | `MirrorInStep` |
| | `MirrorChangeSetsExact` | `ChangeSetsExact` |
| | `MirrorResolvesAsTheStore` | `ResolvedIsKeyedMerge` |
| `EffectGuardProofs` | `EffectTypeCorrect` | `TypeOK` |
| | `EffectOncePerEpoch` | `NoRefireWithinEpoch` |
| | `EffectSkipsExplained` | `SkipsExplained` |
| | `EffectCommittedForGood` | `CommittedNeverRefires` (action property) |
| `InboxProofs` | `InboxTypeCorrect` | `TypeOK` |
| | `InboxLosesNothing` | `NoEntryLost` |
| | `InboxMissesNoWakeup` | `NoLostWakeup` |
| | `HealthyEntrySurvives` | `HealthySurvivesItsBatch` |
| `SessionProofs` | `SessionTypeCorrect` | `TypeOK` |
| | `CompleteMeansFolded` | `FoldedUnlessExcused` |
| | `BackstopLeavesNoStraggler` | `NoStragglerLeft`, given `WideBackstop` |
| `AggregationProofs` | `AggregationTypeCorrect` | `TypeOK` |
| | `ContributionIsReal` | `MarkedMeansFolded` |
| | `TakeoverIsNoDeadLetter` | `DeadLetterExplained` |
| | `RecordForward` | `RecordNeverRegresses` (action property) |
| `WriteBehindProofs` | `WriteBehindTypeCorrect` | `TypeOK` |
| | `ArchiveAnswersForRows` | `ArchiveFaithful` |
| | `CleanEndIsAccounted` | `CleanEndAccounted` |
| `GatherLoopProofs` | `GatherTypeCorrect` | `TypeOK` |
| | `WatermarkNeverSkips` | `WatermarkHonest` |
| | `CircuitBreakerHolds` | `CyclesBounded` |
| | `QuiescenceIsComplete` | `QuiescentUpToDate` |
| | `DataPruningSound` | `DataPruningLossless` |
| `LiteOrchestratorProofs` | `LiteTypeCorrect` | `TypeOK` |
| | `LiteQuiescenceIsComplete` | `QuiescentUpToDate` |
| | `NoFailureDropped` | `FailuresReported` |
| | `RunsEndAtTheDeadline` | `ClippedToDeadline`, a part of the next |
| | `DeadlineIsHonoured` | `DeadlineHonoured` |

Each proof has the same shape: an inductive invariant (named below, checked with
TLC before it was proved), a lemma that `Init` implies it, a lemma for each kind of
step, and a last step that combines them. What each invariant adds, and why the
property alone is not inductive:

**The lock** (`LockInv`). Mutual exclusion says nothing of the lease behind a run's
window, so a step could grant a second one. `LockInv` adds that the lease is always
the newest epoch's (`LeaseIsNewest`), that runs hold minted epochs (`GrantsMinted`)
and different ones (`GrantsUnique`), and that a run still inside its window is
backed by a lease of its own epoch with exactly that much time left
(`WindowBacked`). Two runs in their windows would then share the lease's epoch.
`OnlyNewestFinalizes` is about the run that raises the flag, through `finalizer`: its
epoch is the newest granted, whether or not a later run still lives. The
refinement maps each action to a port action or to a stutter, `Tick` to `expire`
when it ends the lease.

**The mirror** (`MirrorInv`). `MirrorInStep` compares the values of copy and store and
says nothing of stamps, so the next change set could be wrong; and it speaks of live
runs only, so a run between its two reads could become live with an old snapshot.
`MirrorInv` says of every run: its copy knows no identity and no revision the store has
not (`CopyBehind`), which holds even of a run whose copy missed a write. Of a run that
is `Undisturbed` (no higher epoch wrote, no predecessor slipped a write behind its
reads) it says, from the snapshot on, that copy and store have the same values
(`Same`), and once the run is live, that a stamp of the copy is the store's if the run
wrote it and 0 otherwise (`StampsKept`), and that a primed baseline, overlaid with
those stamps, is the store's split (`BaselinesKept`). The last is what every further
write has to preserve for every revision primed. On the store's side stamps are
ordered and at least 1 (`Stamped`), so that a stamp of 0 in a copy always means
"rehydrated".

`ResolvedIsKeyedMerge` is about the operators: for a batch of any length, with
repetitions, resolving against the copy and applying the outcome blindly is what the
store's own `write` does. Both are folds, and the claim carried along the batch is
that after each prefix the store's fold has merged exactly what the copy's fold has
resolved (`Merges`, preserved by one more DataPoint in `MergeOneMore`; `FoldsAgree`).
As in the write-behind, the induction takes the least prefix for which it fails.

**The effect guard** (`EffectInv`). An epoch *owes* the store an end while it is in
the block or its commit or revert is in flight, and it owes at most one
(`OneExit`). What it entered the block with is still there unless a later epoch has
written (`MarkHeld`). After a clean exit nothing that could free the mark is left in
flight (`CleanSettled`); that is what a late revert could break. `MarkExplained` and
`ClaimsWatched` say that a pending mark, and a claim in flight, have a holder or a
recorded reason for having none.

**The inbox** (`InboxInv`). What a run is about to ack is durable, and what it is
about to quarantine for its count has failed on its own (`AckedWhenApplied`). For
the wakeup: a count that has become short since its first half is made good by a
wakeup heard or on its way, or its appender died (`CountHonest`). Only finitely many
entries have been appended at a time, so the cardinalities of the count are numbers.

**The session** (`SessionInv`). Unless excused, the newest run's mirror is the whole
store, what it has folded is the whole store, and its fence keeps every
predecessor's fold out (`NewestKnowsAll`). The marker a run may still find is never
its own (`MarkerForeign`), so skipping the aggregator is always the excuse
`inherited`. The flag was raised over a complete record (`Finished`). From this
`FoldedUnlessExcused` follows at every moment the flag is up, whether or not other
runs are still at work.

`NoStragglerLeft` needs a second invariant (`GapInv`) for sessions without faults
and latecomers: at most one run, which holds the lease (`LeaseLive`); whatever lies
in the inbox with a re-open asked for has a call on its way to it, or some run or
probe that will look into the inbox before it is done (`Awaited`); and a respawn is
spent only on a delivery that landed in the gap, which the run that follows drains
(`Spending`). The theorem has a hypothesis, `WideBackstop`: at least as many
respawns as deliveries. It is needed: with fewer, TLC finds the last straggler left
behind, which is what `manager.py:479` accepts and logs, and what the hazard at that
line says.

**Aggregation** (`AggregationInv`). The fence document alone does not order the
writes, since guard and write are separate. The version does: while the version a
run has read still stands, so does what the run concluded from it, that no higher
epoch wrote and, for an interim refresh, that the document is not final
(`VersionPins`, for the runs and for the writes left in flight). A new version is
above all that were ever read, so a late write finds its filter unmatched. For the
dead letter: the owner has the newest epoch granted (`OwnerNewest`), and the fence's
epoch was granted to a run of the session it names (`FenceGranted`), so a run told
that its own session fenced it has lost the lock, and its renew says so first
(`SupersededLost`).

**The write-behind** (`WriteBehindInv`). A number is handed out once, and a higher
one to no lower epoch, counting the rows still on their way (`Numbers`). A row leaves
the buffer only when the committed rows say all it says (`Content`), and the first
observation committed is that of the lowest number (`FirstKept`). For the last one the
flushes have to be in the invariant: none has passed a row of a point that is still to
be committed (`PassedNone`), so the first row of a point in a page is the first there
is. A run's own rows are ahead of its cursor or in its page (`OwnAhead`), and its
merges are its audit rows, the ones about to be appended and its tally (`Balanced`);
together they give the clean end. Each step is one run's, and the others need only
know that it took nothing away from the committed rows and put no row behind their
cursors unnoticed (`Harmless`). Below this are lemmas about sorting and folding: a
page in the order of the numbers skips no row (`PageSkipsNone`), and what a fold over
a page of any length comes to (`FoldRowsFoldsTo`). They are inductions, done by taking
the least number for which the claim fails (`LeastNumber`). The first attempt at this
proof failed for a reason: with three runs `ArchiveFaithful` did not hold while `late`
named only rows overtaken by a higher number of their point.

**The gathering loop** (`GatherInv`). A completion that is queued or in the batch is
that of a task which is done, and is in one of the two only (`InFlight`). Without it
recording a completion could move the watermark of a task still running. An operator
that ran and has no watermark is in the middle of its retries (`Unconcluded`), which
is what quiescence has to exclude. `DataPruningLossless` rests on lemmas about the
declarations alone: what pruning keeps is closed under feeding (`KeptFeedsKept`),
and with capabilities that wait for no data, availability does not depend on the
data (`AvailableWithoutData`). The second is exactly what fails in the finding
`gather_pruning`.

**The lite session** (`LiteInv`). A task is done exactly when its completion is on
the queue or in the batch, and in one of them only (`InFlight`); an armed retry
belongs to an operator the loop will consider (`RetryOwners`), and the launches find
none that cannot be made (`GivenUp`); a failure with no retry to come is in the
results (`Reported`); after the drain nothing runs and nothing is queued (`Swept`).
For the deadline: a run launched when the await the loop is in is over, with the
budget read at the top of the pass, ends by the deadline or as much later as the
awaits of the pass may take (`Budget`), and so does every task, with `lag` for the
pass that launched it (`OnTime`).

`ClippedToDeadline` needs a second invariant (`Unstalled`) for sessions without
capabilities: no pass spends time before its launches, so `lag` stays 0. There are no
activations to wait for and no events about them; and the events of retries given up
do not occur, since what runs or is to be retried was ready once and data does not
go away.

What is assumed of the constants is in the modules' `ASSUME`s. Those that say more
than a type:

* `LockAssumption`: a TTL above zero;
* `MirrorAssumption`: epochs start above 0 (the lock mints the first as 1, and a store
  nobody has written to has the fence 0), and times are numbers;
* `AggregationAssumption` and `WriteBehindAssumption`: the runs of one session have
  different epochs, which is what the lock proves of its grants. Pages have at least
  one row (`ArchiveAssumption`);
* `InboxAssumption`: a delivery cap of at least one;
* `GatherAssumption`: only aggregators refresh in the interim (`interim_refresh` is
  declared on `Aggregator`, and `debounce.py:46` asks for one), a queue of at least
  one (`orchestrator.py:223-226` replaces anything below by the default), at least one
  activation attempt (`RetryPolicy` refuses less, `retry.py:32`), and a mark for "no
  watermark" that is no revision;
* `LiteAssumption`: a flow declares finitely many operators, timeouts and delays are
  naturals, and a mark for "no deadline" that is no time.

Only model-checked:

* liveness (`GatherSettles`, `SessionEnds`, and the like): it needs fairness and
  `ENABLED`, which this prover does not handle.

Every invariant and every action property of a passing run has a theorem.

## 6. Plan

Next modules: the Tarjan traversal against `find_cycles` over all small graphs, and
the sliding TTLs of the Redis keys (what is lost when a session is left alone longer
than the TTL of one of its keys, and not of another).

Each would bring its theorems: that the traversal's components are those of
reachability needs an induction over its stack, in the style of the folds above.

## 7. Not modelled

* **Rate limiter**: one atomic script per call over real-valued tokens. What is hard
  about it is floating point and clock skew, which its tests drive directly;
* **cooldown gate**: one atomic check-and-arm and no other state;
* **value sealing**: cryptography. `Archive` keeps only whether a real cipher is
  wired, for the gate on personal data;
* **Redis store** and the sliding TTLs: its port is `DataPointStore`, each write
  one script. No model lets a key expire;
* **takeover guard** of the manager: it saves work within one pod, the lock decides
  who runs, and `Session` lets takeovers overlap freely;
* **DataPoint classes, views, flow declarations**: immutable. Identity and times are
  in `DataPointStore`, declarations in the flows of the graph modules;
* **replay, introspection, tools, telemetry, the content of lite events**: nothing the
  system does reads them back;
* in modelled components: the choice among providers in `CapabilityView.resolve`,
  auditing and rate limiting of a capability's invocation, an operator that swallows
  its cancellation or is slow to end on it, the publish of a lite session's
  completion after gathering, reads of the catalog that hang (nothing bounds them),
  retention of the archive and the setup of indexes, a read beside
  a flush, XAUTOCLAIM's page of 100.

## 8. Running

    tlc -workers 2 -config MCSession.cfg MCSession
    tlapm LockAndMirrorProofs.tla

The configuration of each run is the one `PROJECT.json` names.
