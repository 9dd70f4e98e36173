------------------------- MODULE SessionStateMirror -------------------------
(***************************************************************************)
(* The orchestrators of one session and the local copy of its DataPoints   *)
(* each of them works from (orcastork/orchestrator/mirror.py), over the    *)
(* shared store.  Epoch e is the run that holds it.  A run rehydrates with *)
(* two reads, primes a baseline for each watermark older than that, and    *)
(* then resolves every batch locally and writes it through.  A run whose   *)
(* lease ran out does not know it: it goes on until the store refuses it.  *)
(* One that dies simply takes no further step.                             *)
(***************************************************************************)
EXTENDS DataPointStore

CONSTANTS Epoch,        \* 1..n: epochs in the order the lock grants them
          Flow,         \* flow fingerprints a run may be spawned with
          Time,         \* the times an observation may carry
          MaxBatch,     \* DataPoints in one merge
          MaxRevision   \* bound on the store's revision

ASSUME MirrorAssumption ==
    /\ Epoch \subseteq Nat \ {0}
    /\ Time \subseteq Nat
    /\ MaxBatch \in Nat
    /\ MaxRevision \in Nat

VARIABLES minted,       \* the lock's epoch_counter
          phase,        \* epoch -> where its run is
          mirror,       \* epoch -> [entries, revision, rehydrated_at]
          baselines,    \* epoch -> primed revision -> its change split
          slipped       \* history: epochs whose copy missed a write of a
                        \* predecessor, accepted after their first read

mirrorVars == <<minted, phase, mirror, baselines, slipped>>
vars == <<storeVars, mirrorVars>>

Phase == {"none", "acquired", "checked", "snapshotted", "live", "stopped"}

Batch == BoundedSeq({Observation(k, t) : k \in Identity, t \in Time}, MaxBatch)

EmptyMirror == [entries |-> NoEntries, revision |-> 0, rehydrated_at |-> 0]

Init ==
    /\ StoreInit
    /\ minted = 0
    /\ phase = [e \in Epoch |-> "none"]
    /\ mirror = [e \in Epoch |-> EmptyMirror]
    /\ baselines = [e \in Epoch |-> NoEntries]
    /\ slipped = {}

-----------------------------------------------------------------------------
(* _resolve: the keyed-merge against the local copy, batch duplicates      *)
(* included, before anything is written.                                   *)

DataPoint(t) == [first |-> t, last |-> t]

\* Mutant: a duplicate within the batch is taken for a fresh add.
ResolveOne_overwrite(ents, res, o) ==
    IF o.id \in DOMAIN ents /\ o.at > ents[o.id].last
    THEN [res EXCEPT !.updated =
             Put(@, o.id, [first |-> ents[o.id].first, last |-> o.at])]
    ELSE IF o.id \notin DOMAIN ents
    THEN [res EXCEPT !.added = Put(@, o.id, DataPoint(o.at))]
    ELSE res

ResolveOne(ents, res, o) ==
    IF o.id \in DOMAIN res.added
    THEN [res EXCEPT !.added[o.id] = reobserved(@, o.at)]
    ELSE IF o.id \in DOMAIN res.updated
    THEN [res EXCEPT !.updated[o.id] = reobserved(@, o.at)]
    ELSE IF o.id \notin DOMAIN ents
    THEN [res EXCEPT !.added = Put(@, o.id, DataPoint(o.at))]
    ELSE IF o.at > ents[o.id].last
    THEN [res EXCEPT !.updated =
             Put(@, o.id, [first |-> ents[o.id].first, last |-> o.at])]
    ELSE res

resolve(ents, batch) ==
    FoldLeft(LAMBDA res, o : ResolveOne(ents, res, o),
             [added |-> NoEntries, updated |-> NoEntries], batch)

\* Mutant: the local copy keeps the revision it had.
apply_at_old_revision(m, res, rev) ==
    [m EXCEPT !.entries =
        [k \in DOMAIN m.entries \cup DOMAIN res.added |->
           IF k \in DOMAIN res.added
           THEN [first |-> res.added[k].first, last |-> res.added[k].last,
                 added_rev |-> rev, updated_rev |-> rev]
           ELSE IF k \in DOMAIN res.updated
           THEN [m.entries[k] EXCEPT !.first = res.updated[k].first,
                                     !.last = res.updated[k].last,
                                     !.updated_rev = rev]
           ELSE m.entries[k]]]

\* _apply: the local copy moves to the revision the store allocated.
apply(m, res, rev) ==
    [m EXCEPT !.entries =
        [k \in DOMAIN m.entries \cup DOMAIN res.added |->
           IF k \in DOMAIN res.added
           THEN [first |-> res.added[k].first, last |-> res.added[k].last,
                 added_rev |-> rev, updated_rev |-> rev]
           ELSE IF k \in DOMAIN res.updated
           THEN [m.entries[k] EXCEPT !.first = res.updated[k].first,
                                     !.last = res.updated[k].last,
                                     !.updated_rev = rev]
           ELSE m.entries[k]],
              !.revision = rev]

-----------------------------------------------------------------------------
(* Change sets served from the local copy.                                 *)

local_change_set(m, since) == change_set_since(m.entries, since)

\* Mutant: local stamps are not overlaid on the primed split.
stale_change_set(m, baseline, since) ==
    [added |-> {k \in DOMAIN m.entries :
                   m.entries[k].added_rev > since \/ k \in baseline.added},
     updated |-> baseline.updated]

baselined_change_set(m, baseline, since) ==
    LET isAdded(k) == m.entries[k].added_rev > since \/ k \in baseline.added
    IN  [added |-> {k \in DOMAIN m.entries : isAdded(k)},
         updated |-> {k \in DOMAIN m.entries :
                        /\ ~isAdded(k)
                        /\ \/ k \in baseline.updated
                           \/ m.entries[k].updated_rev > since}]

-----------------------------------------------------------------------------
(* The run.                                                                *)

Acquire(e) ==
    /\ e = minted + 1
    /\ minted' = e
    /\ phase' = [phase EXCEPT ![e] = "acquired"]
    /\ UNCHANGED <<storeVars, mirror, baselines, slipped>>

\* _detect_flow_drift: only another flow than the stored one is written, so
\* a resume under the same flow reads and goes on without raising the fence.
DetectFlowDrift(e, flow) ==
    /\ phase[e] = "acquired"
    /\ IF flow_fingerprint = flow
       THEN /\ phase' = [phase EXCEPT ![e] = "checked"]
            /\ UNCHANGED storeVars
       ELSE IF Accepts(e)
       THEN /\ phase' = [phase EXCEPT ![e] = "checked"]
            /\ set_flow_fingerprint(e, flow)
       ELSE /\ phase' = [phase EXCEPT ![e] = "stopped"]
            /\ UNCHANGED storeVars
    /\ UNCHANGED <<minted, mirror, baselines, slipped>>

\* rehydrate, first await: the snapshot.
ReadSnapshot(e) ==
    /\ phase[e] = "checked"
    /\ mirror' = [mirror EXCEPT ![e].entries =
                    [k \in DOMAIN entries |->
                       [entries[k] EXCEPT !.added_rev = 0, !.updated_rev = 0]]]
    /\ phase' = [phase EXCEPT ![e] = "snapshotted"]
    /\ UNCHANGED <<storeVars, minted, baselines, slipped>>

\* rehydrate, second await: the revision.
ReadRevision(e) ==
    /\ phase[e] = "snapshotted"
    /\ mirror' = [mirror EXCEPT ![e].revision = revision,
                                ![e].rehydrated_at = revision]
    /\ baselines' = [baselines EXCEPT ![e] = NoEntries]
    /\ phase' = [phase EXCEPT ![e] = "live"]
    /\ UNCHANGED <<storeVars, minted, slipped>>

\* _remaining_session_budget at the start of a gather: the first one, and one
\* with a fresh deadline, persist it.
PersistDeadline(e) ==
    /\ phase[e] = "live"
    /\ set_session_deadline(e)
    /\ UNCHANGED mirrorVars

\* prime_change_baseline for a watermark that predates the rehydration.
PrimeBaseline(e, o) ==
    LET since == watermarks[o]
    IN  /\ phase[e] = "live"
        /\ since # Never
        /\ since < mirror[e].rehydrated_at
        /\ since \notin DOMAIN baselines[e]
        /\ baselines' = [baselines EXCEPT ![e] =
                           Put(@, since, change_set_since(entries, since))]
        /\ UNCHANGED <<storeVars, minted, phase, mirror, slipped>>

CanWrite(e) == Accepts(e)

\* The successors of e that have read the store and not yet fenced it.
MissedBy(e) ==
    {f \in Epoch : /\ f > e
                   /\ f > max_epoch
                   /\ phase[f] \in {"snapshotted", "live"}}

\* write: resolve, forward, apply at the revision the store returned.
Write(e, batch) ==
    LET res == resolve(mirror[e].entries, batch)
        post == apply_resolved(entries, revision, res.added, res.updated)
    IN  /\ phase[e] = "live"
        /\ CanWrite(e)
        /\ post.revision <= MaxRevision
        /\ entries' = post.entries
        /\ revision' = post.revision
        /\ max_epoch' = e
        /\ mirror' = [mirror EXCEPT ![e] = apply(@, res, post.revision)]
        /\ slipped' = IF post.revision = revision THEN slipped
                      ELSE slipped \cup MissedBy(e)
        /\ UNCHANGED <<watermarks, flow_fingerprint, minted, phase, baselines>>

\* _advance_watermark to a revision this run observed.
AdvanceWatermark(e, o) ==
    /\ phase[e] = "live"
    /\ \E rev \in mirror[e].rehydrated_at..mirror[e].revision :
         set_watermark(e, o, rev)
    /\ UNCHANGED mirrorVars

\* A fenced write raises StaleEpochError and the run ends, its copy untouched.
Superseded(e) ==
    /\ phase[e] = "live"
    /\ ~CanWrite(e)
    /\ phase' = [phase EXCEPT ![e] = "stopped"]
    /\ UNCHANGED <<storeVars, minted, mirror, baselines, slipped>>

Next ==
    \E e \in Epoch :
        \/ Acquire(e)
        \/ \E flow \in Flow : DetectFlowDrift(e, flow)
        \/ PersistDeadline(e)
        \/ ReadSnapshot(e)
        \/ ReadRevision(e)
        \/ \E o \in Operator : PrimeBaseline(e, o) \/ AdvanceWatermark(e, o)
        \/ \E batch \in Batch : Write(e, batch)
        \/ Superseded(e)

Spec == Init /\ [][Next]_vars

-----------------------------------------------------------------------------
(* Properties.                                                             *)

TypeOK ==
    /\ revision \in 0..MaxRevision
    /\ max_epoch \in 0..minted
    /\ DOMAIN entries \subseteq Identity
    /\ \A k \in DOMAIN entries :
         /\ entries[k].first \in Time /\ entries[k].last \in Time
         /\ 1 <= entries[k].added_rev
         /\ entries[k].added_rev <= entries[k].updated_rev
         /\ entries[k].updated_rev <= revision
    /\ phase \in [Epoch -> Phase]
    /\ \A e \in Epoch : mirror[e].rehydrated_at <= mirror[e].revision
    /\ slipped \subseteq Epoch

\* Epoch e is what its run believes it is: nobody above it has written, and
\* no predecessor did between its first read and its first guarded write.
SoleMutator(e) ==
    /\ phase[e] = "live"
    /\ max_epoch <= e
    /\ e \notin slipped

Content(ents) == [k \in DOMAIN ents |-> <<ents[k].first, ents[k].last>>]

InStep(e) ==
    /\ Content(mirror[e].entries) = Content(entries)
    /\ mirror[e].revision = revision

\* The copy of a sole mutator is the store: every read it serves locally is
\* the read the store would have served (mirror.py snapshot, revision).
MirrorInStep == \A e \in Epoch : SoleMutator(e) => InStep(e)

\* The added/updated split a sole mutator derives from its own stamps, or
\* from a primed baseline and its stamps, is the one the store would give,
\* whatever was written between rehydration, priming and the query
\* (mirror.py change_set_since).
ChangeSetsExact ==
    \A e \in Epoch : SoleMutator(e) =>
        /\ \A since \in mirror[e].rehydrated_at..mirror[e].revision :
             local_change_set(mirror[e], since) = change_set_since(entries, since)
        /\ \A since \in DOMAIN baselines[e] :
             baselined_change_set(mirror[e], baselines[e][since], since)
                 = change_set_since(entries, since)

\* Resolving any batch locally and applying it blindly does to the store
\* what its own keyed-merge of the same batch would do, stamps included
\* (mirror.py _resolve and store.py apply_resolved against store.py write).
ResolvedIsKeyedMerge ==
    \A e \in Epoch : SoleMutator(e) =>
        \A batch \in Batch :
            LET res == resolve(mirror[e].entries, batch)
            IN  apply_resolved(entries, revision, res.added, res.updated)
                    = write(entries, revision, batch)

=============================================================================
