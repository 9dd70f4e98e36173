--------------------------- MODULE DataPointStore ---------------------------
(***************************************************************************)
(* The fenced, keyed-merge DataPoint store of one session                  *)
(* (orcastork/adapters/memory/store.py; the Redis adapter's Lua scripts    *)
(* are atomic and do the same).  A DataPoint is its identity (type and     *)
(* normalised value) and the times it was first and last retrieved.        *)
(*                                                                         *)
(* The fence is the highest epoch that WROTE here (max_epoch), not the     *)
(* highest epoch the lock minted: a new owner fences its predecessors with *)
(* its first guarded write, not by acquiring.                              *)
(***************************************************************************)
EXTENDS Naturals, Sequences, SequencesExt

CONSTANTS Identity,     \* (type, value) pairs
          Operator,     \* operators with a watermark
          Never         \* nothing was persisted yet

VARIABLES entries,      \* identity -> [first, last, added_rev, updated_rev]
          revision,     \* advances once per write that changed something
          max_epoch,    \* the highest epoch whose write was accepted
          watermarks,   \* operator -> revision it last processed, or Never
          flow_fingerprint \* the flow that last drove the session, or Never

storeVars == <<entries, revision, max_epoch, watermarks, flow_fingerprint>>

NoEntries == [k \in {} |-> {}]

StoreInit ==
    /\ entries = NoEntries
    /\ revision = 0
    /\ max_epoch = 0
    /\ watermarks = [o \in Operator |-> Never]
    /\ flow_fingerprint = Never

\* _guard_epoch lets an epoch through; a lower one is a StaleEpochError.
Accepts(e) == e >= max_epoch

\* An observation that an operator or the inbox presents.
Observation(k, t) == [id |-> k, at |-> t]

Later(a, b) == IF a > b THEN a ELSE b

\* BaseDataPoint.reobserved: first_retrieved stays, last_retrieved is the max.
reobserved(dp, t) == [dp EXCEPT !.last = Later(@, t)]

NewEntry(t, rev) ==
    [first |-> t, last |-> t, added_rev |-> rev, updated_rev |-> rev]

Put(f, k, v) == [x \in DOMAIN f \cup {k} |-> IF x = k THEN v ELSE f[x]]

-----------------------------------------------------------------------------
(* write: the keyed-merge one DataPoint at a time, as the store does it.   *)

WriteOne(s, o) ==
    LET next == s.revision + 1
    IN  IF o.id \notin DOMAIN s.entries
        THEN [s EXCEPT !.entries = Put(@, o.id, NewEntry(o.at, next)),
                       !.changed = TRUE]
        ELSE IF o.at > s.entries[o.id].last
        THEN [s EXCEPT !.entries[o.id] =
                  [reobserved(@, o.at) EXCEPT !.updated_rev = next],
                       !.changed = TRUE]
        ELSE s

write(ents, rev, batch) ==
    LET s == FoldLeft(WriteOne,
                 [entries |-> ents, revision |-> rev, changed |-> FALSE], batch)
    IN  [entries |-> s.entries,
         revision |-> IF s.changed THEN rev + 1 ELSE rev]

-----------------------------------------------------------------------------
(* apply_resolved: a batch its caller already merged, applied blindly.     *)

\* Mutant: an update that forgets when the identity was added.
unstamped_entry(ents, dp, k, rev) ==
    [first |-> dp.first, last |-> dp.last,
     added_rev |-> 0, updated_rev |-> rev]

\* An update of an unknown identity lands with no added stamp.
updated_entry(ents, dp, k, rev) ==
    [first |-> dp.first, last |-> dp.last,
     added_rev |-> IF k \in DOMAIN ents THEN ents[k].added_rev ELSE 0,
     updated_rev |-> rev]

apply_resolved(ents, rev, added, updated) ==
    IF DOMAIN added = {} /\ DOMAIN updated = {}
    THEN [entries |-> ents, revision |-> rev]
    ELSE [entries |->
            [k \in DOMAIN ents \cup DOMAIN added \cup DOMAIN updated |->
               IF k \in DOMAIN updated
               THEN updated_entry(ents, updated[k], k, rev + 1)
               ELSE IF k \in DOMAIN added
               THEN [first |-> added[k].first, last |-> added[k].last,
                     added_rev |-> rev + 1, updated_rev |-> rev + 1]
               ELSE ents[k]],
          revision |-> rev + 1]

\* The split of what changed after `since` into new and re-observed.
change_set_since(ents, since) ==
    [added |-> {k \in DOMAIN ents : ents[k].added_rev > since},
     updated |-> {k \in DOMAIN ents : /\ ents[k].added_rev <= since
                                      /\ since < ents[k].updated_rev}]

\* set_watermark: fenced like every write, and it raises the fence.
set_watermark(e, o, rev) ==
    /\ Accepts(e)
    /\ max_epoch' = e
    /\ watermarks' = [watermarks EXCEPT ![o] = rev]
    /\ UNCHANGED <<entries, revision, flow_fingerprint>>

set_flow_fingerprint(e, flow) ==
    /\ Accepts(e)
    /\ max_epoch' = e
    /\ flow_fingerprint' = flow
    /\ UNCHANGED <<entries, revision, watermarks>>

\* Of the deadline itself nothing depends here; the write raises the fence.
set_session_deadline(e) ==
    /\ Accepts(e)
    /\ max_epoch' = e
    /\ UNCHANGED <<entries, revision, watermarks, flow_fingerprint>>
=============================================================================
