---------------------------- MODULE DurableStore ----------------------------
(***************************************************************************)
(* The durable outputs at one (table, key) and the contribution markers,   *)
(* as the Mongo adapter keeps them (orcastork/adapters/mongo/              *)
(* durable_store.py): a call is several round trips, the epoch guard a     *)
(* round trip of its own before the write it protects.  The in-memory      *)
(* adapter does the same in one step.                                      *)
(***************************************************************************)
EXTENDS Naturals

CONSTANTS Session

VARIABLES doc,          \* [version, status, epoch]; version 0 is absent
          members,      \* the set-valued field, as sessions that added to it
          fence,        \* the guard document of the key: [epoch, session],
                        \* session being whose run set it (history)
          markers,      \* sessions whose aggregator has contributed
          mark_fence    \* session -> epoch of the contribution guard

durableVars == <<doc, members, fence, markers, mark_fence>>

Status == {"none", "in_progress", "final"}

DurableType ==
    /\ doc.version \in Nat /\ doc.status \in Status /\ doc.epoch \in Nat
    /\ (doc.version = 0) <=> (doc.status = "none")
    /\ members \subseteq Session /\ markers \subseteq Session
    /\ fence.epoch \in Nat /\ doc.epoch <= fence.epoch
    /\ mark_fence \in [Session -> Nat]

DurableInit ==
    /\ doc = [version |-> 0, status |-> "none", epoch |-> 0]
    /\ members = {}
    /\ fence = [epoch |-> 0, session |-> "nobody"]
    /\ markers = {}
    /\ mark_fence = [s \in Session |-> 0]

\* Mutant: the guard lets every epoch through.
not_superseded_any(epoch, current) == TRUE

not_superseded(epoch, current) == current <= epoch

\* _guard_durable_epoch, when it does not raise.
guard_durable_epoch(s, epoch) ==
    fence' = [epoch |-> epoch, session |-> s]

\* _guard_contribution_epoch, when it does not raise.
guard_contribution_epoch(s, epoch) ==
    mark_fence' = [mark_fence EXCEPT ![s] = epoch]

\* Mutant: the update is not filtered by the version.
version_matches_any(expected) == TRUE

\* The filter of insert_one and find_one_and_update: the document is still the
\* one that was read.
version_matches(expected) == doc.version = expected

put(expected, status, epoch) ==
    doc' = [version |-> expected + 1, status |-> status, epoch |-> epoch]

clear_contribution(s) == markers' = markers \ {s}
=============================================================================
