----------------------------- MODULE EffectGuard ----------------------------
(***************************************************************************)
(* The claim/commit/revert gate around one non-idempotent side effect      *)
(* (orcastork/operators/effects.py) and the store's effect marks           *)
(* (orcastork/adapters/memory/store.py).  In each epoch the operator runs  *)
(* the guarded block again and again: retries, reruns, and a resume in the *)
(* next epoch while the old run may still be going.                        *)
(*                                                                         *)
(* A store call is sent, lands and answers: it may fail before it lands,   *)
(* its answer may be lost, and an attempt that is cancelled (operator      *)
(* timeout, session deadline) leaves the call it was awaiting in flight.   *)
(***************************************************************************)
EXTENDS Naturals

CONSTANTS MaxEpoch,     \* epochs of the session, in the order they are granted
          MaxAttempts   \* runs of the operator in one epoch

ASSUME EffectAssumption == MaxEpoch \in Nat /\ MaxAttempts \in Nat

Epoch == 1..MaxEpoch

VARIABLES mark,         \* the stored mark: none, committed, or pending:<epoch>
          max_epoch,    \* the store's fence
          minted,       \* the lock's epoch counter
          pc,           \* epoch -> where the current attempt is
          attempt,      \* epoch -> number of attempts begun
          inflight      \* store calls sent and not yet landed or failed

\* History: the epochs in which ...
VARIABLES performed,    \* ... the effect was performed
          clean,        \* ... a guarded block was left without an exception
          skipped,      \* ... an attempt was turned away by its own epoch's mark
          revertFailed, \* ... a revert failed or was refused
          cutOff        \* ... an attempt ended while its call was in flight,
                        \*     or was told of an error though the call landed

storeVars == <<mark, max_epoch>>
hist == <<performed, clean, skipped, revertFailed, cutOff>>
vars == <<mark, max_epoch, minted, pc, attempt, inflight, hist>>

None == [state |-> "none", epoch |-> 0]
Committed == [state |-> "committed", epoch |-> 0]
Pending(e) == [state |-> "pending", epoch |-> e]

Call == [epoch : Epoch, attempt : 1..MaxAttempts,
         op : {"claim", "reclaim", "commit", "revert"}]

TypeOK ==
    /\ mark \in {None, Committed} \cup {Pending(e) : e \in Epoch}
    /\ minted \in 0..MaxEpoch
    /\ max_epoch \in 0..minted
    /\ mark.epoch <= max_epoch
    /\ pc \in [Epoch -> {"none", "idle", "claim", "reclaim", "body",
                         "performed", "commit", "revert", "dead"}]
    /\ attempt \in [Epoch -> 0..MaxAttempts]
    /\ inflight \subseteq Call
    /\ \A c \in inflight : c.attempt <= attempt[c.epoch]
    /\ \A S \in {performed, clean, skipped, revertFailed, cutOff} :
         S \subseteq Epoch

Init ==
    /\ mark = None
    /\ max_epoch = 0
    /\ minted = 0
    /\ pc = [e \in Epoch |-> "none"]
    /\ attempt = [e \in Epoch |-> 0]
    /\ inflight = {}
    /\ performed = {} /\ clean = {} /\ skipped = {}
    /\ revertFailed = {} /\ cutOff = {}

Accepts(e) == e >= max_epoch

-----------------------------------------------------------------------------
(* The store.                                                              *)

\* Mutant: a committed mark may be claimed again.
claim_committed_result(e, reclaim) ==
    IF mark = None \/ mark = Committed THEN "ACQUIRED"
    ELSE IF mark = Pending(e) THEN "PENDING_SAME_EPOCH"
    ELSE IF reclaim THEN "ACQUIRED" ELSE "PENDING_STALE_EPOCH"

\* Mutant: the epoch's own pending mark may be claimed again.
claim_own_result(e, reclaim) ==
    IF mark = None \/ mark = Pending(e) THEN "ACQUIRED"
    ELSE IF mark = Committed THEN "ALREADY_COMMITTED"
    ELSE IF reclaim THEN "ACQUIRED" ELSE "PENDING_STALE_EPOCH"

\* The answer of claim_effect.
claim_result(e, reclaim) ==
    CASE mark = None -> "ACQUIRED"
      [] mark = Committed -> "ALREADY_COMMITTED"
      [] mark = Pending(e) -> "PENDING_SAME_EPOCH"
      [] OTHER -> IF reclaim THEN "ACQUIRED" ELSE "PENDING_STALE_EPOCH"

\* Mutant: a claim that is not a guarded write.
claim_effect_unguarded(e, reclaim) ==
    /\ mark' = IF claim_result(e, reclaim) = "ACQUIRED"
               THEN Pending(e) ELSE mark
    /\ UNCHANGED max_epoch

claim_effect(e, reclaim) ==
    /\ max_epoch' = e
    /\ mark' = IF claim_result(e, reclaim) = "ACQUIRED"
               THEN Pending(e) ELSE mark

\* Only the epoch's own pending mark becomes committed.
commit_effect(e) ==
    /\ max_epoch' = e
    /\ mark' = IF mark = Pending(e) THEN Committed ELSE mark

\* Mutant: a revert that leaves the mark.
revert_effect_kept(e) == max_epoch' = e /\ UNCHANGED mark

\* Only the epoch's own pending mark is deleted.
revert_effect(e) ==
    /\ max_epoch' = e
    /\ mark' = IF mark = Pending(e) THEN None ELSE mark

\* What a landed call does; a stale epoch changes nothing.
Effect(c) ==
    IF ~Accepts(c.epoch) THEN UNCHANGED storeVars
    ELSE \/ c.op = "claim" /\ claim_effect(c.epoch, FALSE)
         \/ c.op = "reclaim" /\ claim_effect(c.epoch, TRUE)
         \/ c.op = "commit" /\ commit_effect(c.epoch)
         \/ c.op = "revert" /\ revert_effect(c.epoch)

-----------------------------------------------------------------------------
(* The guard.                                                              *)

Sent(e, op) == [epoch |-> e, attempt |-> attempt'[e], op |-> op]

\* The attempt of call c is still waiting for it.
Awaited(c) == pc[c.epoch] = c.op /\ attempt[c.epoch] = c.attempt

\* The lock grants the next epoch; older runs may still be going.
Grant ==
    /\ minted < MaxEpoch
    /\ minted' = minted + 1
    /\ pc' = [pc EXCEPT ![minted + 1] = "idle"]
    /\ UNCHANGED <<storeVars, attempt, inflight, hist>>

\* Any other guarded write of the run raises the fence.
LoopWrite(e) ==
    /\ pc[e] \notin {"none", "dead"}
    /\ e > max_epoch
    /\ max_epoch' = e
    /\ UNCHANGED <<mark, minted, pc, attempt, inflight, hist>>

\* The operator runs (again) and enters the guarded block: _claim.
Enter(e) ==
    /\ pc[e] = "idle"
    /\ attempt[e] < MaxAttempts
    /\ attempt' = [attempt EXCEPT ![e] = @ + 1]
    /\ pc' = [pc EXCEPT ![e] = "claim"]
    /\ inflight' = inflight \cup {Sent(e, "claim")}
    /\ UNCHANGED <<storeVars, minted, hist>>

\* The answer to a claim or a reclaim decides whether the block is run.  A
\* stale mark asks for the caller's policy: SKIP, or RERUN by a reclaim.
AfterClaim(e, answer) ==
    \/ /\ answer = "ACQUIRED"
       /\ pc' = [pc EXCEPT ![e] = "body"]
       /\ UNCHANGED skipped
    \/ /\ answer \in {"ALREADY_COMMITTED", "PENDING_SAME_EPOCH"}
       /\ pc' = [pc EXCEPT ![e] = "idle"]
       /\ skipped' = IF answer = "PENDING_SAME_EPOCH"
                     THEN skipped \cup {e} ELSE skipped
    \/ /\ answer = "PENDING_STALE_EPOCH"
       /\ pc' = [pc EXCEPT ![e] = "idle"]
       /\ UNCHANGED skipped

ClaimAnswered(c) ==
    /\ c \in inflight /\ c.op \in {"claim", "reclaim"} /\ Awaited(c)
    /\ Effect(c)
    /\ \/ /\ ~Accepts(c.epoch)      \* StaleEpochError fails the attempt
          /\ pc' = [pc EXCEPT ![c.epoch] = "idle"]
          /\ inflight' = inflight \ {c}
          /\ UNCHANGED skipped
       \/ /\ Accepts(c.epoch)
          /\ AfterClaim(c.epoch, claim_result(c.epoch, c.op = "reclaim"))
          /\ inflight' = inflight \ {c}
       \/ /\ Accepts(c.epoch)       \* RERUN
          /\ claim_result(c.epoch, c.op = "reclaim") = "PENDING_STALE_EPOCH"
          /\ pc' = [pc EXCEPT ![c.epoch] = "reclaim"]
          /\ inflight' = (inflight \ {c})
                \cup {[epoch |-> c.epoch, attempt |-> c.attempt, op |-> "reclaim"]}
          /\ UNCHANGED skipped
    /\ UNCHANGED <<minted, attempt, performed, clean, revertFailed, cutOff>>

\* The caller performs the effect.
Perform(e) ==
    /\ pc[e] = "body"
    /\ pc' = [pc EXCEPT ![e] = "performed"]
    /\ performed' = performed \cup {e}
    /\ UNCHANGED <<storeVars, minted, attempt, inflight, clean, skipped,
                   revertFailed, cutOff>>

\* The block is left without an exception: commit.
LeaveCleanly(e) ==
    /\ pc[e] = "performed"
    /\ pc' = [pc EXCEPT ![e] = "commit"]
    /\ inflight' = inflight \cup {[epoch |-> e, attempt |-> attempt[e], op |-> "commit"]}
    /\ clean' = clean \cup {e}
    /\ UNCHANGED <<storeVars, minted, attempt, performed, skipped,
                   revertFailed, cutOff>>

\* The call an exception in the block leads to.
exit_op == "revert"

\* The block raises or is cancelled, before or after the effect: revert.
LeaveByException(e) ==
    /\ pc[e] \in {"body", "performed"}
    /\ pc' = [pc EXCEPT ![e] = exit_op]
    /\ inflight' = inflight \cup {[epoch |-> e, attempt |-> attempt[e], op |-> exit_op]}
    /\ UNCHANGED <<storeVars, minted, attempt, hist>>

\* A commit or revert answers; a StaleEpochError is logged and swallowed.
ExitAnswered(c) ==
    /\ c \in inflight /\ c.op \in {"commit", "revert"} /\ Awaited(c)
    /\ Effect(c)
    /\ inflight' = inflight \ {c}
    /\ pc' = [pc EXCEPT ![c.epoch] = "idle"]
    /\ revertFailed' = IF c.op = "revert" /\ ~Accepts(c.epoch)
                       THEN revertFailed \cup {c.epoch} ELSE revertFailed
    /\ UNCHANGED <<minted, attempt, performed, clean, skipped, cutOff>>

\* A call nobody waits for any more lands.
StrayLands(c) ==
    /\ c \in inflight /\ ~Awaited(c)
    /\ Effect(c)
    /\ inflight' = inflight \ {c}
    /\ UNCHANGED <<minted, pc, attempt, hist>>

\* A call fails before it lands.  A failed claim fails the attempt; a failed
\* commit or revert is logged and swallowed, and the mark stays.
CallFails(c) ==
    /\ c \in inflight
    /\ inflight' = inflight \ {c}
    /\ pc' = IF Awaited(c) THEN [pc EXCEPT ![c.epoch] = "idle"] ELSE pc
    /\ revertFailed' = IF c.op = "revert"
                       THEN revertFailed \cup {c.epoch} ELSE revertFailed
    /\ UNCHANGED <<storeVars, minted, attempt, performed, clean, skipped, cutOff>>

\* A call lands and its answer is lost: to the attempt it failed.
AnswerLost(c) ==
    /\ c \in inflight /\ Awaited(c)
    /\ Effect(c)
    /\ inflight' = inflight \ {c}
    /\ pc' = [pc EXCEPT ![c.epoch] = "idle"]
    /\ cutOff' = cutOff \cup {c.epoch}
    /\ UNCHANGED <<minted, attempt, performed, clean, skipped, revertFailed>>

\* The attempt is cancelled while it awaits a call.  The claim is not
\* shielded and the block was not entered, so nothing reverts it; a shielded
\* commit or revert goes on by itself.
CancelAwait(e) ==
    /\ pc[e] \in {"claim", "reclaim", "commit", "revert"}
    /\ pc' = [pc EXCEPT ![e] = "idle"]
    /\ cutOff' = cutOff \cup {e}
    /\ UNCHANGED <<storeVars, minted, attempt, inflight, performed, clean,
                   skipped, revertFailed>>

\* The process dies; what it has sent may still land.
Crash(e) ==
    /\ pc[e] \notin {"none", "dead"}
    /\ pc' = [pc EXCEPT ![e] = "dead"]
    /\ UNCHANGED <<storeVars, minted, attempt, inflight, hist>>

Next ==
    \/ Grant
    \/ \E e \in Epoch : \/ LoopWrite(e)
                        \/ Enter(e)
                        \/ Perform(e)
                        \/ LeaveCleanly(e)
                        \/ LeaveByException(e)
                        \/ CancelAwait(e)
                        \/ Crash(e)
    \/ \E c \in inflight : \/ ClaimAnswered(c)
                           \/ ExitAnswered(c)
                           \/ StrayLands(c)
                           \/ CallFails(c)
                           \/ AnswerLost(c)

Spec == Init /\ [][Next]_vars

-----------------------------------------------------------------------------
(* Properties.                                                             *)

InBlock(e) == pc[e] \in {"body", "performed"}

\* A committed effect never fires again: its mark stays, and no attempt of
\* any epoch enters the guarded block after it (effects.py:9-11).
CommittedNeverRefires ==
    [][mark = Committed =>
         /\ mark' = Committed
         /\ \A e \in Epoch : InBlock(e)' => InBlock(e)]_vars

\* Within an epoch the guard prefers a skipped effect to a double one: after
\* a block was left cleanly no attempt of that epoch enters it again, even
\* when the commit failed, was lost or has not landed (effects.py:94-101).
NoRefireWithinEpoch == \A e \in clean : ~InBlock(e)

\* An attempt is turned away by its own epoch's mark only if the effect was
\* performed, a revert failed, or a call was cut off in flight.
SkipsExplained ==
    skipped \subseteq performed \cup revertFailed \cup cutOff

=============================================================================
