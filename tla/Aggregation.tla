---------------------------- MODULE Aggregation -----------------------------
(***************************************************************************)
(* The aggregation phase of a run (orchestrator.py _aggregate and          *)
(* _run_aggregator) with the helpers an aggregator writes through          *)
(* (aggregation/helpers.py) and its bounded retries (aggregation/retry.py) *)
(* over the durable store.  A predecessor and its successor may both be in *)
(* it, and runs of another session that shares the output key.  One        *)
(* aggregator per run: siblings run side by side and share only the lease. *)
(***************************************************************************)
EXTENDS DurableStore, FiniteSets

CONSTANTS Run,
          SessionOf,    \* run -> its session
          EpochOf,      \* run -> its fencing epoch
          Ops,          \* the choices of op below
          Refreshing,   \* sessions whose aggregator is interim_refresh
          MaxAttempts,  \* RetryPolicy.max_attempts
          MaxFaults     \* bound on failed calls, timeouts and crashes

ASSUME AggregationAssumption ==
    /\ SessionOf \in [Run -> Session] /\ EpochOf \in [Run -> Nat \ {0}]
    /\ \A r, q \in Run : r # q /\ SessionOf[r] = SessionOf[q] => EpochOf[r] # EpochOf[q]
    /\ Ops \subseteq [Session -> {"upsert", "add"}] /\ Refreshing \subseteq Session
    /\ MaxAttempts \in Nat \ {0} /\ MaxFaults \in Nat

VARIABLES op,           \* session -> what its aggregator calls: "upsert"
                        \* or "add" (add_to_set); fixed
          task,         \* run -> [pc, is_final, attempt, expected, error]
          interims,     \* runs that have done their interim refresh
          owner,        \* session -> the run that holds the lock, or none
          strays,       \* writes in flight whose caller has given up
          faults,
          folded        \* history: sessions whose final output has landed

vars == <<durableVars, op, task, interims, owner, strays, faults, folded>>

NoRun == "no run"
Ended == {"skipped", "done", "dead", "superseded", "failed"}
InCall == {"read", "guard", "find", "write", "add"}

Fresh == [pc |-> "none", is_final |-> FALSE, attempt |-> 0, expected |-> 0, error |-> "none"]

TypeOK ==
    /\ DurableType
    /\ \A r \in Run :
         /\ task[r].pc \in {"none", "gather", "after", "mark", "insert"} \cup InCall \cup Ended
         /\ task[r].attempt \in 0..MaxAttempts
         /\ task[r].expected <= doc.version
    /\ \A s \in Session : owner[s] # NoRun => SessionOf[owner[s]] = s
    /\ folded \subseteq Session

Init ==
    /\ DurableInit
    /\ op \in Ops
    /\ task = [r \in Run |-> Fresh]
    /\ interims = {}
    /\ owner = [s \in Session |-> NoRun]
    /\ strays = {} /\ faults = 0 /\ folded = {}

Go(r, pc) == task' = [task EXCEPT ![r].pc = pc]
\* The attempt is over; what it raised, or "none".
Over(r, error) ==
    task' = [task EXCEPT ![r] = [@ EXCEPT !.pc = "after", !.error = error, !.expected = 0]]
\* The run leaves the phase; a dead letter keeps its last error.
End(r, pc) ==
    task' = [task EXCEPT ![r] = [Fresh EXCEPT !.pc = pc,
                                   !.error = IF pc = "dead" THEN task[r].error ELSE "none"]]
Owns(r) == owner[SessionOf[r]] = r

\* The run acquires the session: the first, or after the predecessor's lease
\* lapsed or was released.
Grant(r) ==
    /\ task[r].pc = "none"
    /\ \A q \in Run : SessionOf[q] = SessionOf[r] /\ EpochOf[q] < EpochOf[r] =>
           task[q].pc # "none"
    /\ Go(r, "gather")
    /\ owner' = [owner EXCEPT ![SessionOf[r]] = r]
    /\ UNCHANGED <<durableVars, op, interims, strays, faults, folded>>

FirstCall(r) == IF op[SessionOf[r]] = "upsert" THEN "read" ELSE "guard"

\* An interim_refresh aggregator, run by the gathering loop.
RefreshInterim(r) ==
    /\ SessionOf[r] \in Refreshing
    /\ task[r].pc = "gather" /\ r \notin interims
    /\ interims' = interims \cup {r}
    /\ task' = [task EXCEPT ![r] = [Fresh EXCEPT !.pc = FirstCall(r)]]
    /\ UNCHANGED <<durableVars, op, owner, strays, faults, folded>>

\* _aggregate: a fenced renew stops the run, a marked contribution stands, an
\* aggregator whose inputs never came is reported and skipped.
Aggregate(r) ==
    /\ task[r].pc = "gather"
    /\ \/ /\ ~Owns(r)
          /\ End(r, "superseded")
       \/ Owns(r) /\ End(r, "skipped")
       \/ /\ Owns(r) /\ SessionOf[r] \notin markers
          /\ task' = [task EXCEPT ![r] = [Fresh EXCEPT !.pc = FirstCall(r),
                                            !.is_final = TRUE, !.attempt = 1]]
    /\ UNCHANGED <<durableVars, op, interims, owner, strays, faults, folded>>

-----------------------------------------------------------------------------
(* AggregationHelpers.upsert and add_to_set, call by call.                 *)

\* An interim refresh finds a final record and leaves it.
finalized(r) == ~task[r].is_final /\ doc.status = "final"

Read(r) ==
    /\ task[r].pc = "read"
    /\ IF finalized(r) THEN Over(r, "none")
       ELSE task' = [task EXCEPT ![r].pc = "guard", ![r].expected = doc.version]
    /\ UNCHANGED <<durableVars, op, interims, owner, strays, faults, folded>>

Guard(r) ==
    /\ task[r].pc = "guard"
    /\ IF not_superseded(EpochOf[r], fence.epoch)
       THEN /\ guard_durable_epoch(SessionOf[r], EpochOf[r])
            /\ Go(r, IF op[SessionOf[r]] = "upsert" THEN "find" ELSE "add")
       ELSE /\ Over(r, IF fence.session = SessionOf[r] THEN "superseded" ELSE "foreign")
            /\ UNCHANGED fence
    /\ UNCHANGED <<doc, members, markers, mark_fence, op, interims, owner,
                   strays, faults, folded>>

\* find_one: the version moved since the read, or the write is tried.
Find(r) ==
    /\ task[r].pc = "find"
    /\ IF doc.version = task[r].expected THEN Go(r, "write") ELSE Over(r, "conflict")
    /\ UNCHANGED <<durableVars, op, interims, owner, strays, faults, folded>>

\* The conditional write, as the server carries it out.
Land(r, is_final, expected) ==
    IF version_matches(expected)
    THEN /\ put(expected, IF is_final THEN "final" ELSE "in_progress", EpochOf[r])
         /\ folded' = IF is_final THEN folded \cup {SessionOf[r]} ELSE folded
    ELSE UNCHANGED <<doc, folded>>

Write(r) ==
    /\ task[r].pc = "write"
    /\ Land(r, task[r].is_final, task[r].expected)
    /\ Over(r, IF version_matches(task[r].expected) THEN "none" ELSE "conflict")
    /\ UNCHANGED <<members, fence, markers, mark_fence, op, interims, owner,
                   strays, faults>>

add_to_set(r) ==
    /\ task[r].pc = "add"
    /\ members' = members \cup {SessionOf[r]}
    /\ folded' = IF task[r].is_final THEN folded \cup {SessionOf[r]} ELSE folded
    /\ Over(r, "none")
    /\ UNCHANGED <<doc, fence, markers, mark_fence, op, interims, owner, strays, faults>>

\* A call fails, or the attempt times out in it: a write may be under way.
AttemptFails(r) ==
    /\ task[r].pc \in InCall
    /\ faults < MaxFaults
    /\ faults' = faults + 1
    /\ Over(r, "fault")
    /\ \/ UNCHANGED strays
       \/ /\ task[r].pc = "write"
          /\ strays' = strays \cup {[run |-> r, is_final |-> task[r].is_final,
                                     expected |-> task[r].expected]}
    /\ UNCHANGED <<durableVars, op, interims, owner, folded>>

StrayLands(w) ==
    /\ w \in strays
    /\ strays' = strays \ {w}
    /\ Land(w.run, w.is_final, w.expected)
    /\ UNCHANGED <<members, fence, markers, mark_fence, op, task, interims,
                   owner, faults>>

-----------------------------------------------------------------------------
(* run_with_retry, the hook after an attempt, the marker.                  *)

\* Mutant: the hook's fenced renew counts as one more failed attempt.
fenced_as_failure(r) == FALSE

\* after_attempt: the renew raises out of the retry loop.
fenced(r) == ~Owns(r)

\* Mutant: a dead letter is marked as a contribution.
contributed_always(r) == TRUE

contributed(r) == task[r].error = "none"

next_attempt(r) == task[r].attempt + 1

Retries(r) == task[r].error # "none" /\ task[r].attempt < MaxAttempts

AfterAttempt(r) ==
    /\ task[r].pc = "after"
    /\ \/ /\ ~task[r].is_final
          /\ task' = [task EXCEPT ![r] = [Fresh EXCEPT !.pc = "gather"]]
       \/ /\ task[r].is_final /\ fenced(r)
          /\ End(r, "superseded")
       \/ /\ task[r].is_final /\ ~fenced(r) /\ Retries(r)
          /\ task' = [task EXCEPT ![r] = [@ EXCEPT !.pc = FirstCall(r), !.error = "none",
                                            !.attempt = next_attempt(r)]]
       \/ /\ task[r].is_final /\ ~fenced(r) /\ ~Retries(r)
          /\ IF contributed(r) THEN Go(r, "mark") ELSE End(r, "dead")
    /\ UNCHANGED <<durableVars, op, interims, owner, strays, faults, folded>>

MarkGuard(r) ==
    /\ task[r].pc = "mark"
    /\ IF not_superseded(EpochOf[r], mark_fence[SessionOf[r]])
       THEN guard_contribution_epoch(SessionOf[r], EpochOf[r]) /\ Go(r, "insert")
       ELSE End(r, "superseded") /\ UNCHANGED mark_fence
    /\ UNCHANGED <<doc, members, fence, markers, op, interims, owner, strays,
                   faults, folded>>

Mark(r) ==
    /\ task[r].pc = "insert"
    /\ markers' = markers \cup {SessionOf[r]}
    /\ End(r, "done")
    /\ UNCHANGED <<doc, members, fence, mark_fence, op, interims, owner, strays,
                   faults, folded>>

\* The process dies, or the marker's call raises out of the run.
RunFails(r) ==
    /\ task[r].pc \notin {"none"} \cup Ended
    /\ faults < MaxFaults
    /\ faults' = faults + 1
    /\ End(r, "failed")
    /\ \/ UNCHANGED strays
       \/ /\ task[r].pc = "write"
          /\ strays' = strays \cup {[run |-> r, is_final |-> task[r].is_final,
                                     expected |-> task[r].expected]}
    /\ UNCHANGED <<durableVars, op, interims, owner, folded>>

\* The manager re-opens a finished session: its marker goes, unfenced.
Reopen(s) ==
    /\ owner[s] # NoRun /\ task[owner[s]].pc = "done"
    /\ \E r \in Run : SessionOf[r] = s /\ task[r].pc = "none"
    /\ s \in markers
    /\ clear_contribution(s)
    /\ UNCHANGED <<doc, members, fence, mark_fence, op, task, interims, owner,
                   strays, faults, folded>>

RunStep(r) ==
    \/ Aggregate(r) \/ Read(r) \/ Guard(r) \/ Find(r) \/ Write(r)
    \/ add_to_set(r) \/ AfterAttempt(r) \/ MarkGuard(r) \/ Mark(r)

Finished == (\A r \in Run : task[r].pc \in Ended) /\ strays = {} /\ UNCHANGED vars

Next ==
    \/ \E r \in Run : Grant(r) \/ RefreshInterim(r) \/ RunStep(r) \/ AttemptFails(r)
                      \/ RunFails(r)
    \/ \E w \in strays : StrayLands(w)
    \/ \E s \in Session : Reopen(s)
    \/ Finished

Spec == Init /\ [][Next]_vars

-----------------------------------------------------------------------------
(* Properties.                                                             *)

\* The record only goes forward: a final record stays final whatever interim
\* refresh was reading when it was finalized, and a superseded run's document
\* never replaces its successor's, though guard, check and write are separate
\* round trips and a write may land after its caller has gone
\* (helpers.py upsert, mongo durable_store.py upsert).
RecordNeverRegresses ==
    [][/\ doc.status = "final" => doc'.status = "final"
       /\ doc'.epoch >= doc.epoch]_vars

\* A contribution is on record only when the session's final output has landed:
\* a later run that skips the aggregator skips finished work, and a dead letter
\* stays open for a re-drive (orchestrator.py:1124, 1281-1299).
MarkedMeansFolded ==
    \A s \in markers :
        /\ s \in folded
        /\ IF op[s] = "upsert" THEN doc.status = "final" ELSE s \in members

\* A takeover is never mistaken for a failing aggregator: a dead letter's last
\* error is not the fence of the session's own next run (orchestrator.py:
\* 1265-1271).  It may be the fence of another session that shares the key,
\* whose epochs are not comparable.
DeadLetterExplained == \A r \in Run : task[r].pc = "dead" => task[r].error # "superseded"
=============================================================================
