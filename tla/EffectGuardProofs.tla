-------------------------- MODULE EffectGuardProofs -------------------------
(***************************************************************************)
(* Theorems about EffectGuard, for every number of epochs and attempts.    *)
(***************************************************************************)
EXTENDS EffectGuard, TLAPS

\* Only granted epochs run and call the store, in attempts that have begun, and
\* a run past the effect has performed it.
RunsConsistent ==
    /\ \A e \in Epoch : pc[e] # "none" => e <= minted
    /\ \A e \in Epoch : pc[e] \notin {"none", "idle", "dead"} => attempt[e] > 0
    /\ \A e \in Epoch : pc[e] = "performed" => e \in performed
    /\ \A c \in inflight : c.epoch <= minted

\* A commit or a revert on its way to the store.
Exits == {c \in inflight : c.op \in {"commit", "revert"}}

\* The epoch owes the store the end of a block it entered.
Owes(e) == InBlock(e) \/ \E c \in Exits : c.epoch = e

\* What an epoch entered the block with is still there, unless a later epoch
\* has written.
MarkHeld == \A e \in Epoch : Owes(e) => mark = Pending(e) \/ e < max_epoch

\* An epoch owes at most one end: it is in the block, or one exit is in flight.
OneExit ==
    /\ \A c \in Exits : ~InBlock(c.epoch)
    /\ \A c, d \in Exits : c.epoch = d.epoch => c = d

\* Once an epoch has left the block cleanly nothing frees its mark for it.
CleanSettled ==
    \A e \in clean :
        /\ ~InBlock(e)
        /\ \A c \in inflight : c.epoch = e => c.op # "revert"
        /\ mark \in {Pending(e), Committed} \/ e < max_epoch

Explained == performed \cup revertFailed \cup cutOff

\* A claim in flight is awaited, or its attempt was cut off, or its run died.
ClaimsWatched ==
    \A c \in inflight : c.op \in {"claim", "reclaim"} =>
        Awaited(c) \/ c.epoch \in cutOff \/ pc[c.epoch] = "dead"

\* A pending mark has a holder, or a reason why it has none.
MarkExplained ==
    \A e \in Epoch : mark = Pending(e) =>
        e \in Explained \/ pc[e] \in {"body", "performed", "revert", "dead"}

EffectInv ==
    /\ TypeOK /\ RunsConsistent
    /\ MarkHeld /\ OneExit /\ CleanSettled
    /\ ClaimsWatched /\ MarkExplained /\ SkipsExplained

-----------------------------------------------------------------------------
(* The marks and what a landed call does to them.                          *)

LEMMA MarkFacts ==
    /\ None # Committed
    /\ \A e : Pending(e) # None /\ Pending(e) # Committed /\ Pending(e).epoch = e
    /\ \A e, f : Pending(e) = Pending(f) => e = f
    /\ None.epoch = 0 /\ Committed.epoch = 0
  BY DEF None, Committed, Pending

\* What a claim is told, one answer at a time (effects.py _claim).
LEMMA ClaimResult ==
    ASSUME NEW e, NEW reclaim \in BOOLEAN
    PROVE  /\ claim_result(e, reclaim) = "ACQUIRED" =>
                mark # Committed /\ mark # Pending(e)
           /\ mark = Pending(e) => claim_result(e, reclaim) = "PENDING_SAME_EPOCH"
           /\ mark # None /\ mark # Committed /\ mark # Pending(e) /\ reclaim =>
                claim_result(e, reclaim) = "ACQUIRED"
           /\ claim_result(e, reclaim) = "PENDING_SAME_EPOCH" => mark = Pending(e)
  <1>1. CASE mark = None
    BY <1>1, MarkFacts DEF claim_result
  <1>2. CASE mark # None /\ mark = Committed
    BY <1>2, MarkFacts DEF claim_result
  <1>3. CASE mark # None /\ mark # Committed /\ mark = Pending(e)
    BY <1>3, MarkFacts DEF claim_result
  <1>4. CASE mark # None /\ mark # Committed /\ mark # Pending(e)
    BY <1>4, MarkFacts DEF claim_result
  <1>. QED
    BY <1>1, <1>2, <1>3, <1>4

\* A landed call raises the fence to its epoch or is refused, and moves the
\* mark only from or to its own epoch's pending mark (store.py).
LEMMA StoreStep ==
    ASSUME TypeOK, NEW c \in inflight, Effect(c)
    PROVE  /\ c \in Call
           /\ max_epoch' = IF c.epoch >= max_epoch THEN c.epoch ELSE max_epoch
           /\ mark' # mark =>
                /\ c.epoch >= max_epoch
                /\ \/ /\ c.op \in {"claim", "reclaim"}
                      /\ mark' = Pending(c.epoch)
                      /\ mark # Committed /\ mark # Pending(c.epoch)
                   \/ /\ c.op = "commit"
                      /\ mark = Pending(c.epoch) /\ mark' = Committed
                   \/ /\ c.op = "revert"
                      /\ mark = Pending(c.epoch) /\ mark' = None
           /\ c.op \in {"commit", "revert"} /\ c.epoch >= max_epoch =>
                mark' # Pending(c.epoch)
           /\ c.op \in {"claim", "reclaim"} /\ c.epoch >= max_epoch =>
                mark' = IF claim_result(c.epoch, c.op = "reclaim") = "ACQUIRED"
                        THEN Pending(c.epoch) ELSE mark
  <1>1. c \in Call
    BY DEF TypeOK
  <1>2. CASE ~(c.epoch >= max_epoch)
    BY <1>1, <1>2 DEF Effect, Accepts, storeVars
  <1>3. CASE c.epoch >= max_epoch
    <2>1. \/ c.op = "claim" /\ claim_effect(c.epoch, FALSE)
          \/ c.op = "reclaim" /\ claim_effect(c.epoch, TRUE)
          \/ c.op = "commit" /\ commit_effect(c.epoch)
          \/ c.op = "revert" /\ revert_effect(c.epoch)
      BY <1>3 DEF Effect, Accepts
    <2>2. CASE c.op \in {"claim", "reclaim"}
      <3>1. claim_effect(c.epoch, c.op = "reclaim")
        <4>1. CASE c.op = "claim"
          <5>1. (c.op = "reclaim") = FALSE
            BY <4>1
          <5>. QED
            BY <2>1, <4>1, <5>1
        <4>2. CASE c.op = "reclaim"
          <5>1. (c.op = "reclaim") = TRUE
            BY <4>2
          <5>. QED
            BY <2>1, <4>2, <5>1
        <4>. QED
          BY <2>2, <4>1, <4>2
      <3>. QED
        BY <1>1, <1>3, <2>2, <3>1, ClaimResult DEF claim_effect
    <2>3. CASE c.op = "commit"
      BY <1>1, <1>3, <2>1, <2>3, MarkFacts DEF commit_effect
    <2>4. CASE c.op = "revert"
      BY <1>1, <1>3, <2>1, <2>4, MarkFacts DEF revert_effect
    <2>. QED
      BY <1>1, <2>2, <2>3, <2>4 DEF Call
  <1>. QED
    BY <1>2, <1>3

-----------------------------------------------------------------------------
(* The invariant.                                                          *)

LEMMA InitEffectInv == Init => EffectInv
  <1> SUFFICES ASSUME Init PROVE EffectInv
    OBVIOUS
  <1>1. TypeOK
    BY EffectAssumption, MarkFacts DEF Init, TypeOK, Epoch
  <1>2. RunsConsistent /\ OneExit /\ CleanSettled /\ ClaimsWatched /\ SkipsExplained
    BY DEF Init, RunsConsistent, OneExit, Exits, CleanSettled, ClaimsWatched,
       SkipsExplained
  <1>3. MarkHeld /\ MarkExplained
    BY MarkFacts DEF Init, MarkHeld, Owes, InBlock, Exits, MarkExplained
  <1>. QED
    BY <1>1, <1>2, <1>3 DEF EffectInv

\* The invariant is kept by a step that sends nothing, leaves the marks alone
\* and moves no run into the block.
LEMMA LocalStep ==
    ASSUME EffectInv, TypeOK', RunsConsistent', mark' = mark, max_epoch' >= max_epoch,
           inflight' \subseteq inflight, clean' = clean, skipped' = skipped,
           performed \subseteq performed', revertFailed \subseteq revertFailed',
           cutOff \subseteq cutOff',
           \A e \in Epoch : InBlock(e)' => InBlock(e),
           \A c \in inflight' : Awaited(c) =>
               Awaited(c)' \/ c.epoch \in cutOff' \/ pc'[c.epoch] = "dead",
           \A e \in Epoch : /\ pc[e] = "dead" => pc'[e] = "dead"
                            /\ pc[e] \in {"body", "performed", "revert"} =>
                                  \/ pc'[e] \in {"body", "performed", "revert", "dead"}
                                  \/ e \in Explained'
    PROVE  EffectInv'
  <1> USE DEF EffectInv, Epoch
  <1>1. MarkHeld'
    BY DEF MarkHeld, Owes, Exits, TypeOK
  <1>2. OneExit'
    BY DEF OneExit, Exits, TypeOK, Call
  <1>3. CleanSettled'
    BY DEF CleanSettled, TypeOK
  <1>4. ClaimsWatched'
    BY DEF ClaimsWatched, TypeOK, Call
  <1>5. MarkExplained'
    BY DEF MarkExplained, Explained
  <1>6. SkipsExplained'
    BY DEF SkipsExplained
  <1>. QED
    BY <1>1, <1>2, <1>3, <1>4, <1>5, <1>6

\* ... and by a call that lands, when it is not the claim that opens the block.
LEMMA LandStep ==
    ASSUME EffectInv, TypeOK', RunsConsistent', NEW c \in inflight, Effect(c),
           inflight' \subseteq inflight \ {c}, clean' = clean,
           SkipsExplained',
           performed \subseteq performed', revertFailed \subseteq revertFailed',
           cutOff \subseteq cutOff',
           \A e \in Epoch : InBlock(e)' => InBlock(e),
           \A d \in inflight' : Awaited(d) =>
               Awaited(d)' \/ d.epoch \in cutOff' \/ pc'[d.epoch] = "dead",
           c.op \in {"claim", "reclaim"} /\ mark' # mark =>
               c.epoch \in Explained' \/ pc'[c.epoch] = "dead",
           \A e \in Epoch : /\ pc[e] = "dead" => pc'[e] = "dead"
                            /\ pc[e] \in {"body", "performed", "revert"} =>
                                  \/ pc'[e] \in {"body", "performed", "revert", "dead"}
                                  \/ e \in Explained'
                                  \/ mark' # Pending(e)
    PROVE  EffectInv'
  <1> USE DEF EffectInv, Epoch
  <1>1. /\ c \in Call /\ c.epoch \in Epoch
        /\ max_epoch' = IF c.epoch >= max_epoch THEN c.epoch ELSE max_epoch
        /\ mark' # mark =>
             /\ c.epoch >= max_epoch
             /\ \/ /\ c.op \in {"claim", "reclaim"}
                   /\ mark' = Pending(c.epoch)
                   /\ mark # Committed /\ mark # Pending(c.epoch)
                \/ /\ c.op = "commit"
                   /\ mark = Pending(c.epoch) /\ mark' = Committed
                \/ /\ c.op = "revert"
                   /\ mark = Pending(c.epoch) /\ mark' = None
    BY StoreStep DEF Call
  <1>2. max_epoch \in Nat /\ max_epoch' \in Nat /\ max_epoch' >= max_epoch
    BY <1>1 DEF TypeOK
  <1>3. \A e : mark = Pending(e) => e <= max_epoch
    BY MarkFacts DEF TypeOK
  <1>4. MarkHeld'
    <2> SUFFICES ASSUME NEW e \in Epoch, Owes(e)'
                 PROVE mark' = Pending(e) \/ e < max_epoch'
      BY DEF MarkHeld
    <2>1. Owes(e)
      BY DEF Owes, Exits
    <2>2. CASE e < max_epoch
      BY <1>2, <2>2
    <2>3. CASE mark = Pending(e)
      <3>1. c.op \in {"commit", "revert"} => c.epoch # e
        BY DEF Owes, Exits, OneExit
      <3>. QED
        BY <1>1, <1>2, <1>3, <2>3, <3>1, MarkFacts
    <2>. QED
      BY <2>1, <2>2, <2>3 DEF MarkHeld
  <1>5. OneExit'
    BY DEF OneExit, Exits, TypeOK, Call
  <1>6. CleanSettled'
    <2> SUFFICES ASSUME NEW e \in clean
                 PROVE /\ ~InBlock(e)'
                       /\ \A d \in inflight' : d.epoch = e => d.op # "revert"
                       /\ mark' \in {Pending(e), Committed} \/ e < max_epoch'
      BY DEF CleanSettled
    <2>1. e \in Epoch
      BY DEF TypeOK
    <2>2. ~InBlock(e)' /\ \A d \in inflight' : d.epoch = e => d.op # "revert"
      BY <2>1 DEF CleanSettled
    <2>3. mark' \in {Pending(e), Committed} \/ e < max_epoch'
      <3>1. c.epoch = e => c.op # "revert"
        BY DEF CleanSettled
      <3>2. mark \in {Pending(e), Committed} \/ e < max_epoch
        BY DEF CleanSettled
      <3>. QED
        BY <1>1, <1>2, <1>3, <2>1, <3>1, <3>2, MarkFacts
    <2>. QED
      BY <2>2, <2>3
  <1>7. ClaimsWatched'
    BY DEF ClaimsWatched, TypeOK, Call
  <1>8. MarkExplained'
    <2> SUFFICES ASSUME NEW e \in Epoch, mark' = Pending(e)
                 PROVE e \in Explained' \/ pc'[e] \in {"body", "performed", "revert", "dead"}
      BY DEF MarkExplained
    <2>1. CASE mark' = mark
      BY <2>1 DEF MarkExplained, Explained
    <2>2. CASE mark' # mark
      BY <1>1, <2>2, MarkFacts
    <2>. QED
      BY <2>1, <2>2
  <1>. QED
    BY <1>4, <1>5, <1>6, <1>7, <1>8

\* Types and the runs, for every step.
LEMMA NextTypes == EffectInv /\ [Next]_vars => TypeOK' /\ RunsConsistent'
  <1> SUFFICES ASSUME EffectInv, [Next]_vars PROVE TypeOK' /\ RunsConsistent'
    OBVIOUS
  <1> USE EffectAssumption, MarkFacts
      DEF EffectInv, TypeOK, RunsConsistent, Epoch, storeVars, hist
  <1>1. CASE Grant
    <2>1. minted + 1 \in 1..MaxEpoch /\ minted' = minted + 1
      BY <1>1 DEF Grant
    <2>2. TypeOK'
      BY <1>1, <2>1 DEF Grant
    <2>3. RunsConsistent'
      BY <1>1, <2>1 DEF Grant, Call
    <2>. QED
      BY <2>2, <2>3
  <1>2. ASSUME NEW e \in Epoch, LoopWrite(e) PROVE TypeOK' /\ RunsConsistent'
    BY <1>2 DEF LoopWrite
  <1>3. ASSUME NEW e \in Epoch, Enter(e) PROVE TypeOK' /\ RunsConsistent'
    <2>1. Sent(e, "claim") \in Call /\ Sent(e, "claim").epoch = e
          /\ Sent(e, "claim").attempt = attempt'[e]
      BY <1>3 DEF Enter, Sent, Call
    <2>2. /\ pc' \in [Epoch -> {"none", "idle", "claim", "reclaim", "body",
                                "performed", "commit", "revert", "dead"}]
          /\ attempt' \in [Epoch -> 0..MaxAttempts]
          /\ \A f \in Epoch : attempt[f] <= attempt'[f]
      BY <1>3 DEF Enter
    <2>3. \A c \in inflight' : c \in Call /\ c.attempt <= attempt'[c.epoch]
      BY <1>3, <2>1, <2>2 DEF Enter, Call
    <2>4. RunsConsistent'
      BY <1>3, <2>1 DEF Enter
    <2>. QED
      BY <1>3, <2>2, <2>3, <2>4 DEF Enter
  <1>4. ASSUME NEW e \in Epoch, Perform(e) PROVE TypeOK' /\ RunsConsistent'
    BY <1>4 DEF Perform
  <1>5. ASSUME NEW e \in Epoch, LeaveCleanly(e) PROVE TypeOK' /\ RunsConsistent'
    <2>1. [epoch |-> e, attempt |-> attempt[e], op |-> "commit"] \in Call
      <3>1. attempt[e] \in 1..MaxAttempts
        BY <1>5 DEF LeaveCleanly
      <3>. QED
        BY <3>1 DEF Call
    <2>2. TypeOK'
      BY <1>5, <2>1 DEF LeaveCleanly
    <2>3. RunsConsistent'
      BY <1>5 DEF LeaveCleanly
    <2>. QED
      BY <2>2, <2>3
  <1>6. ASSUME NEW e \in Epoch, LeaveByException(e) PROVE TypeOK' /\ RunsConsistent'
    <2>1. [epoch |-> e, attempt |-> attempt[e], op |-> "revert"] \in Call
      BY <1>6 DEF LeaveByException, Call
    <2>2. TypeOK'
      BY <1>6, <2>1 DEF LeaveByException, exit_op
    <2>3. RunsConsistent'
      BY <1>6 DEF LeaveByException, exit_op
    <2>. QED
      BY <2>2, <2>3
  <1>7. ASSUME NEW e \in Epoch, CancelAwait(e) PROVE TypeOK' /\ RunsConsistent'
    BY SMTT(30), <1>7 DEF CancelAwait
  <1>8. ASSUME NEW e \in Epoch, Crash(e) PROVE TypeOK' /\ RunsConsistent'
    BY <1>8 DEF Crash
  <1>9. ASSUME NEW c \in inflight, Effect(c)
        PROVE /\ c \in Call /\ c.epoch \in Epoch
              /\ mark' \in {None, Committed} \cup {Pending(e) : e \in Epoch}
              /\ max_epoch' \in 0..minted /\ mark'.epoch <= max_epoch'
    <2>1. c \in Call /\ c.epoch \in Epoch /\ c.epoch <= minted
      BY DEF Call
    <2>2. max_epoch' \in 0..minted /\ max_epoch' >= max_epoch
      <3>1. max_epoch' = IF c.epoch >= max_epoch THEN c.epoch ELSE max_epoch
        BY <1>9, StoreStep
      <3>. QED
        BY <2>1, <3>1
    <2>3. \/ mark' \in {mark, None, Committed}
          \/ mark' = Pending(c.epoch) /\ c.epoch <= max_epoch'
      <3>1. /\ max_epoch' = IF c.epoch >= max_epoch THEN c.epoch ELSE max_epoch
            /\ mark' # mark => /\ c.epoch >= max_epoch
                               /\ mark' \in {Pending(c.epoch), Committed, None}
        BY <1>9, StoreStep
      <3>2. CASE mark' = mark
        BY <3>2
      <3>3. CASE mark' # mark
        BY <2>1, <3>1, <3>3
      <3>. QED
        BY <3>2, <3>3
    <2>. QED
      BY <2>1, <2>2, <2>3
  <1>10. ASSUME NEW c \in inflight, ClaimAnswered(c) PROVE TypeOK' /\ RunsConsistent'
    <2>1. Effect(c)
      BY <1>10 DEF ClaimAnswered
    <2>2. /\ UNCHANGED <<minted, attempt, performed, clean, revertFailed, cutOff>>
          /\ skipped' \in {skipped, skipped \cup {c.epoch}}
          /\ \E p \in {"idle", "body", "reclaim"} : pc' = [pc EXCEPT ![c.epoch] = p]
          /\ pc[c.epoch] \in {"claim", "reclaim"}
          /\ inflight' \subseteq inflight \cup
               {[epoch |-> c.epoch, attempt |-> c.attempt, op |-> "reclaim"]}
      BY <1>10 DEF ClaimAnswered, AfterClaim, Awaited
    <2>3. [epoch |-> c.epoch, attempt |-> c.attempt, op |-> "reclaim"] \in Call
      BY DEF Call
    <2>4. PICK p \in {"idle", "body", "reclaim"} : pc' = [pc EXCEPT ![c.epoch] = p]
      BY <2>2
    <2>5. inflight' \subseteq Call /\ \A d \in inflight' : d.attempt <= attempt'[d.epoch]
      BY <2>2, <2>3
    <2>6. TypeOK'
      BY SMTT(30), <1>9, <2>1, <2>2, <2>4, <2>5
    <2>7. RunsConsistent'
      BY <1>9, <2>1, <2>2, <2>4
    <2>. QED
      BY <2>6, <2>7
  <1>11. ASSUME NEW c \in inflight, ExitAnswered(c) PROVE TypeOK' /\ RunsConsistent'
    <2>1. Effect(c)
      BY <1>11 DEF ExitAnswered
    <2>. QED
      BY SMTT(30), <1>9, <1>11, <2>1 DEF ExitAnswered
  <1>12. ASSUME NEW c \in inflight, StrayLands(c) PROVE TypeOK' /\ RunsConsistent'
    <2>1. Effect(c)
      BY <1>12 DEF StrayLands
    <2>. QED
      BY <1>9, <1>12, <2>1 DEF StrayLands
  <1>13. ASSUME NEW c \in inflight, CallFails(c) PROVE TypeOK' /\ RunsConsistent'
    BY SMTT(30), <1>13 DEF CallFails, Call
  <1>14. ASSUME NEW c \in inflight, AnswerLost(c) PROVE TypeOK' /\ RunsConsistent'
    <2>1. Effect(c)
      BY <1>14 DEF AnswerLost
    <2>. QED
      BY SMTT(30), <1>9, <1>14, <2>1 DEF AnswerLost
  <1>15. CASE UNCHANGED vars
    BY <1>15 DEF vars
  <1>. QED
    BY <1>1, <1>2, <1>3, <1>4, <1>5, <1>6, <1>7, <1>8, <1>10, <1>11, <1>12,
       <1>13, <1>14, <1>15 DEF Next

LEMMA NextEffectInv == EffectInv /\ [Next]_vars => EffectInv'
  <1> SUFFICES ASSUME EffectInv, [Next]_vars PROVE EffectInv'
    OBVIOUS
  <1>0. TypeOK' /\ RunsConsistent' /\ TypeOK /\ RunsConsistent
    BY NextTypes DEF EffectInv
  <1>1. CASE Grant
    <2>1. pc[minted + 1] = "none" /\ minted + 1 \in Epoch
      BY <1>0, <1>1, EffectAssumption DEF Grant, TypeOK, RunsConsistent, Epoch
    <2>. QED
      BY <1>0, <1>1, <2>1, LocalStep
      DEF Grant, storeVars, hist, InBlock, Awaited, TypeOK, Call
  <1>2. ASSUME NEW e \in Epoch, LoopWrite(e) PROVE EffectInv'
    BY <1>0, <1>2, LocalStep DEF LoopWrite, hist, InBlock, Awaited, TypeOK, Epoch
  <1>3. ASSUME NEW e \in Epoch, Enter(e) PROVE EffectInv'
    <2> PICK n : n = Sent(e, "claim")
      OBVIOUS
    <2>1. /\ inflight' = inflight \cup {n} /\ n.op = "claim" /\ n.epoch = e
          /\ n.attempt = attempt'[e] /\ pc[e] = "idle"
          /\ pc' = [pc EXCEPT ![e] = "claim"]
          /\ UNCHANGED <<mark, max_epoch, minted>> /\ UNCHANGED hist
      BY <1>3 DEF Enter, Sent, storeVars
    <2>2. Exits' = Exits
      BY <2>1 DEF Exits
    <2>3. \A f \in Epoch : InBlock(f)' <=> InBlock(f)
      BY <1>0, <2>1 DEF InBlock, TypeOK
    <2>4. MarkHeld' /\ OneExit'
      BY <1>0, <2>1, <2>2, <2>3 DEF EffectInv, MarkHeld, Owes, OneExit, Exits, TypeOK, Call
    <2>5. CleanSettled'
      BY <1>0, <2>1, <2>3 DEF EffectInv, CleanSettled, hist, TypeOK
    <2>6. ClaimsWatched'
      <3>1. Awaited(n)'
        BY <1>0, <2>1 DEF Awaited, TypeOK
      <3>2. ASSUME NEW d \in inflight, d.op \in {"claim", "reclaim"}
            PROVE d.epoch \in cutOff' \/ pc'[d.epoch] = "dead" \/ Awaited(d)'
        BY <1>0, <2>1, <3>2, <1>3 DEF EffectInv, ClaimsWatched, Awaited, hist, TypeOK, Call, Enter
      <3>. QED
        BY <2>1, <3>1, <3>2 DEF ClaimsWatched
    <2>7. MarkExplained' /\ SkipsExplained'
      BY <1>0, <2>1 DEF EffectInv, MarkExplained, SkipsExplained, Explained, hist, TypeOK
    <2>. QED
      BY <1>0, <2>4, <2>5, <2>6, <2>7 DEF EffectInv
  <1>4. ASSUME NEW e \in Epoch, Perform(e) PROVE EffectInv'
    <2>1. /\ pc[e] = "body" /\ pc' = [pc EXCEPT ![e] = "performed"]
          /\ performed \subseteq performed'
          /\ UNCHANGED <<mark, max_epoch, attempt, inflight, clean, skipped,
                         revertFailed, cutOff>>
      BY <1>4 DEF Perform, storeVars
    <2>2. \A f \in Epoch : InBlock(f)' <=> InBlock(f)
      BY <1>0, <2>1 DEF InBlock, TypeOK
    <2>3. \A d \in inflight : Awaited(d) => Awaited(d)'
      BY <1>0, <2>1 DEF Awaited, TypeOK, Call
    <2>. QED
      BY SMTT(30), <1>0, <2>1, <2>2, <2>3, LocalStep DEF TypeOK, Epoch
  <1>5. ASSUME NEW e \in Epoch, LeaveCleanly(e) PROVE EffectInv'
    <2> DEFINE n == [epoch |-> e, attempt |-> attempt[e], op |-> "commit"]
    <2>1. /\ inflight' = inflight \cup {n} /\ n.op = "commit" /\ n.epoch = e
          /\ InBlock(e) /\ pc' = [pc EXCEPT ![e] = "commit"]
          /\ UNCHANGED <<mark, max_epoch, minted, attempt, performed, skipped,
                         revertFailed, cutOff>>
          /\ clean' = clean \cup {e} /\ e \in performed
      BY <1>0, <1>5 DEF RunsConsistent, LeaveCleanly, storeVars, InBlock, exit_op, hist
    <2> HIDE DEF n
    <2>2. Exits' = Exits \cup {n} /\ \A d \in Exits : d.epoch # e
      BY <2>1 DEF Exits, EffectInv, OneExit
    <2>3. \A f \in Epoch : InBlock(f)' <=> InBlock(f) /\ f # e
      BY <1>0, <2>1 DEF InBlock, TypeOK
    <2>4. MarkHeld'
      BY <1>0, <2>1, <2>2, <2>3 DEF EffectInv, MarkHeld, Owes
    <2>5. OneExit'
      BY <1>0, <2>1, <2>2, <2>3 DEF EffectInv, OneExit, Exits, TypeOK, Call
    <2>6. CleanSettled'
      <3>1. ASSUME NEW f \in clean, f # e
            PROVE /\ ~InBlock(f)'
                  /\ \A d \in inflight' : d.epoch = f => d.op # "revert"
                  /\ mark' \in {Pending(f), Committed} \/ f < max_epoch'
        BY <1>0, <2>1, <2>3, <3>1 DEF EffectInv, CleanSettled, TypeOK
      <3>2. /\ ~InBlock(e)'
            /\ \A d \in inflight' : d.epoch = e => d.op # "revert"
            /\ mark' \in {Pending(e), Committed} \/ e < max_epoch'
        BY <2>1, <2>2, <2>3 DEF EffectInv, MarkHeld, Owes, Exits
      <3>. QED
        BY <2>1, <3>1, <3>2 DEF CleanSettled
    <2>7. ClaimsWatched'
      <3>1. ASSUME NEW d \in inflight, d.op \in {"claim", "reclaim"}
            PROVE d.epoch \in cutOff' \/ pc'[d.epoch] = "dead" \/ Awaited(d)'
        BY <1>0, <2>1, <3>1 DEF EffectInv, ClaimsWatched, Awaited, InBlock, TypeOK, Call
      <3>. QED
        BY <2>1, <3>1 DEF ClaimsWatched
    <2>8. MarkExplained' /\ SkipsExplained'
      BY <1>0, <2>1 DEF EffectInv, MarkExplained, SkipsExplained, Explained, InBlock, TypeOK
    <2>. QED
      BY <1>0, <2>4, <2>5, <2>6, <2>7, <2>8 DEF EffectInv
  <1>6. ASSUME NEW e \in Epoch, LeaveByException(e) PROVE EffectInv'
    <2> DEFINE n == [epoch |-> e, attempt |-> attempt[e], op |-> "revert"]
    <2>1. /\ inflight' = inflight \cup {n} /\ n.op = "revert" /\ n.epoch = e
          /\ InBlock(e) /\ pc' = [pc EXCEPT ![e] = "revert"]
          /\ UNCHANGED <<mark, max_epoch, minted, attempt, performed, skipped,
                         revertFailed, cutOff>>
          /\ clean' = clean
      BY <1>6 DEF LeaveByException, storeVars, InBlock, exit_op, hist
    <2> HIDE DEF n
    <2>2. Exits' = Exits \cup {n} /\ \A d \in Exits : d.epoch # e
      BY <2>1 DEF Exits, EffectInv, OneExit
    <2>3. \A f \in Epoch : InBlock(f)' <=> InBlock(f) /\ f # e
      BY <1>0, <2>1 DEF InBlock, TypeOK
    <2>4. MarkHeld'
      BY <1>0, <2>1, <2>2, <2>3 DEF EffectInv, MarkHeld, Owes
    <2>5. OneExit'
      BY <1>0, <2>1, <2>2, <2>3 DEF EffectInv, OneExit, Exits, TypeOK, Call
    <2>6. CleanSettled'
      <3>1. e \notin clean
        BY <2>1 DEF EffectInv, CleanSettled
      <3>. QED
        BY <1>0, <2>1, <2>3, <3>1 DEF EffectInv, CleanSettled, TypeOK
    <2>7. ClaimsWatched'
      <3>1. ASSUME NEW d \in inflight, d.op \in {"claim", "reclaim"}
            PROVE d.epoch \in cutOff' \/ pc'[d.epoch] = "dead" \/ Awaited(d)'
        BY <1>0, <2>1, <3>1 DEF EffectInv, ClaimsWatched, Awaited, InBlock, TypeOK, Call
      <3>. QED
        BY <2>1, <3>1 DEF ClaimsWatched
    <2>8. MarkExplained' /\ SkipsExplained'
      BY <1>0, <2>1 DEF EffectInv, MarkExplained, SkipsExplained, Explained, InBlock, TypeOK
    <2>. QED
      BY <1>0, <2>4, <2>5, <2>6, <2>7, <2>8 DEF EffectInv
  <1>7. ASSUME NEW e \in Epoch, CancelAwait(e) PROVE EffectInv'
    BY SMTT(30), <1>0, <1>7, LocalStep
    DEF CancelAwait, storeVars, InBlock, Awaited, TypeOK, Epoch, Call, Explained
  <1>8. ASSUME NEW e \in Epoch, Crash(e) PROVE EffectInv'
    BY SMTT(30), <1>0, <1>8, LocalStep
    DEF Crash, storeVars, hist, InBlock, Awaited, TypeOK, Epoch, Call, Explained
  <1>9. ASSUME NEW c \in inflight, ClaimAnswered(c) PROVE EffectInv'
    <2> PICK e : e = c.epoch
      OBVIOUS
    <2> DEFINE answer == claim_result(e, c.op = "reclaim")
    <2>1. /\ Effect(c) /\ c \in Call /\ e \in Epoch /\ Awaited(c)
          /\ c.op \in {"claim", "reclaim"} /\ pc[e] = c.op
          /\ UNCHANGED <<attempt, performed, clean, revertFailed, cutOff>>
      BY <1>0, <1>9 DEF ClaimAnswered, Awaited, TypeOK, Call
    <2>2. \A d \in inflight : Awaited(d) /\ d.epoch = e => d = c
      BY <1>0, <2>1 DEF TypeOK, Call, Awaited
    <2>3. \/ /\ e >= max_epoch /\ answer = "ACQUIRED" /\ inflight' = inflight \ {c}
             /\ pc' = [pc EXCEPT ![e] = "body"] /\ skipped' = skipped
          \/ /\ ~(e >= max_epoch /\ answer = "ACQUIRED") /\ inflight' = inflight \ {c}
             /\ pc' = [pc EXCEPT ![e] = "idle"]
             /\ \/ skipped' = skipped
                \/ answer = "PENDING_SAME_EPOCH" /\ skipped' = skipped \cup {e}
          \/ /\ e >= max_epoch /\ answer = "PENDING_STALE_EPOCH"
             /\ pc' = [pc EXCEPT ![e] = "reclaim"] /\ skipped' = skipped
             /\ inflight' = (inflight \ {c}) \cup
                   {[epoch |-> e, attempt |-> c.attempt, op |-> "reclaim"]}
      BY <1>9 DEF ClaimAnswered, AfterClaim, Accepts
    <2>4. /\ answer = "ACQUIRED" => mark # Committed /\ mark # Pending(e)
          /\ answer = "PENDING_SAME_EPOCH" => mark = Pending(e)
      BY ClaimResult
    <2>5. /\ max_epoch' = IF e >= max_epoch THEN e ELSE max_epoch
          /\ e >= max_epoch /\ answer = "ACQUIRED" => mark' = Pending(e)
          /\ ~(e >= max_epoch /\ answer = "ACQUIRED") => mark' = mark
      BY <1>0, <2>1, StoreStep
    <2> HIDE DEF answer
    <2>6. ASSUME e >= max_epoch, answer = "ACQUIRED", inflight' = inflight \ {c},
                 pc' = [pc EXCEPT ![e] = "body"], skipped' = skipped
          PROVE EffectInv'
      <3>1. mark' = Pending(e) /\ max_epoch' = e /\ mark # Pending(e) /\ mark # Committed
        BY <2>4, <2>5, <2>6
      <3>2. \A f \in Epoch : InBlock(f)' <=> InBlock(f) \/ f = e
        BY <1>0, <2>1, <2>6 DEF InBlock, TypeOK
      <3>3. Exits' = Exits
        BY <2>1, <2>6 DEF Exits
      <3>4. ~Owes(e) /\ e \notin clean
        BY <2>1, <2>6, <3>1, <1>0 DEF EffectInv, MarkHeld, CleanSettled, TypeOK, Epoch
      <3>5. \A f \in Epoch : mark = Pending(f) \/ f < max_epoch => f < e \/ f = e
        BY <1>0, <2>1, <2>6, MarkFacts DEF TypeOK, Epoch
      <3>6. MarkHeld'
        BY <1>0, <3>1, <3>2, <3>3, <3>5 DEF EffectInv, MarkHeld, Owes
      <3>7. OneExit'
        BY <1>0, <3>2, <3>3, <3>4 DEF EffectInv, OneExit, Exits, Owes, TypeOK, Call
      <3>8. CleanSettled'
        <4> SUFFICES ASSUME NEW f \in clean
                     PROVE /\ ~InBlock(f)'
                           /\ \A d \in inflight' : d.epoch = f => d.op # "revert"
                           /\ mark' \in {Pending(f), Committed} \/ f < max_epoch'
          BY <2>1 DEF CleanSettled
        <4>1. f \in Epoch /\ f # e
          BY <1>0, <3>4 DEF TypeOK
        <4>2. f < max_epoch'
          BY <1>0, <2>6, <3>1, <3>5, <4>1 DEF EffectInv, CleanSettled
        <4>. QED
          BY <2>6, <3>2, <4>1, <4>2 DEF EffectInv, CleanSettled
      <3>9. ClaimsWatched'
        <4> SUFFICES ASSUME NEW d \in inflight, d # c, d.op \in {"claim", "reclaim"}
                     PROVE Awaited(d)' \/ d.epoch \in cutOff' \/ pc'[d.epoch] = "dead"
          BY <2>6 DEF ClaimsWatched
        <4>1. d.epoch \in cutOff \/ (d.epoch # e /\ (Awaited(d) \/ pc[d.epoch] = "dead"))
          BY <2>1, <2>2 DEF EffectInv, ClaimsWatched
        <4>. QED
          BY <1>0, <2>1, <2>6, <4>1 DEF Awaited, TypeOK, Call
      <3>10. MarkExplained' /\ SkipsExplained'
        BY <1>0, <2>1, <2>6, <3>1, MarkFacts
        DEF EffectInv, MarkExplained, SkipsExplained, TypeOK
      <3>. QED
        BY <1>0, <3>6, <3>7, <3>8, <3>9, <3>10 DEF EffectInv
    <2>7. ASSUME ~(e >= max_epoch /\ answer = "ACQUIRED"), inflight' = inflight \ {c},
                 pc' = [pc EXCEPT ![e] = "idle"],
                 \/ skipped' = skipped
                 \/ answer = "PENDING_SAME_EPOCH" /\ skipped' = skipped \cup {e}
          PROVE EffectInv'
      <3>1. mark' = mark
        BY <2>5, <2>7
      <3>2. \A d \in inflight' : Awaited(d) => Awaited(d)'
        BY <1>0, <2>1, <2>2, <2>7 DEF TypeOK, Call, Awaited
      <3>3. answer = "PENDING_SAME_EPOCH" => e \in Explained
        BY <2>1, <2>4 DEF EffectInv, MarkExplained
      <3>4. SkipsExplained'
        BY <2>1, <2>7, <3>3 DEF EffectInv, SkipsExplained, Explained
      <3>. QED
        BY <1>0, <2>1, <2>7, <3>1, <3>2, <3>4, LandStep DEF InBlock, TypeOK
    <2>8. ASSUME e >= max_epoch, answer = "PENDING_STALE_EPOCH",
                 pc' = [pc EXCEPT ![e] = "reclaim"], skipped' = skipped,
                 inflight' = (inflight \ {c}) \cup
                     {[epoch |-> e, attempt |-> c.attempt, op |-> "reclaim"]}
          PROVE EffectInv'
      <3> PICK n : n = [epoch |-> e, attempt |-> c.attempt, op |-> "reclaim"]
        OBVIOUS
      <3>1. /\ inflight' = (inflight \ {c}) \cup {n} /\ n.op = "reclaim"
            /\ mark' = mark /\ max_epoch' = e
        BY <2>5, <2>8
      <3>2. \A f \in Epoch : InBlock(f)' <=> InBlock(f)
        BY <1>0, <2>1, <2>8 DEF InBlock, TypeOK
      <3>3. Exits' = Exits
        BY <2>1, <3>1 DEF Exits
      <3>4. MarkHeld' /\ OneExit'
        BY SMTT(30), <1>0, <2>1, <2>8, <3>1, <3>2, <3>3
        DEF EffectInv, MarkHeld, Owes, OneExit, Exits, TypeOK, Call, Epoch
      <3>5. CleanSettled'
        BY <1>0, <2>1, <2>8, <3>1, <3>2 DEF EffectInv, CleanSettled, TypeOK, Epoch
      <3>6. ClaimsWatched'
        <4>1. Awaited(n)'
          BY <1>0, <2>1, <2>8 DEF Awaited, TypeOK
        <4>2. ASSUME NEW d \in inflight, d # c, d.op \in {"claim", "reclaim"}
              PROVE Awaited(d)' \/ d.epoch \in cutOff' \/ pc'[d.epoch] = "dead"
          <5>1. d.epoch \in cutOff \/ (d.epoch # e /\ (Awaited(d) \/ pc[d.epoch] = "dead"))
            BY <2>1, <2>2, <4>2 DEF EffectInv, ClaimsWatched
          <5>. QED
            BY <1>0, <2>1, <2>8, <5>1 DEF Awaited, TypeOK, Call
        <4>. QED
          BY <3>1, <4>1, <4>2 DEF ClaimsWatched
      <3>7. MarkExplained' /\ SkipsExplained'
        BY <1>0, <2>1, <2>8, <3>1
        DEF EffectInv, MarkExplained, SkipsExplained, Explained, TypeOK
      <3>. QED
        BY <1>0, <3>4, <3>5, <3>6, <3>7 DEF EffectInv
    <2>. QED
      BY <2>3, <2>6, <2>7, <2>8
  <1>10. ASSUME NEW c \in inflight, ExitAnswered(c) PROVE EffectInv'
    <2>1. /\ Effect(c) /\ c \in Call /\ Awaited(c) /\ c.op \in {"commit", "revert"}
          /\ inflight' = inflight \ {c} /\ pc' = [pc EXCEPT ![c.epoch] = "idle"]
          /\ UNCHANGED <<attempt, performed, clean, skipped, cutOff>>
          /\ revertFailed \subseteq revertFailed'
          /\ c.op = "revert" /\ ~(c.epoch >= max_epoch) => c.epoch \in revertFailed'
      BY <1>0, <1>10 DEF ExitAnswered, Accepts, TypeOK
    <2>2. \A d \in inflight' : Awaited(d) => Awaited(d)'
      BY <1>0, <2>1 DEF TypeOK, Call, Awaited
    <2>3. mark' = Pending(c.epoch) => c.op # "revert" \/ c.epoch \in Explained'
      BY <1>0, <2>1, StoreStep DEF Explained
    <2>4. SkipsExplained'
      BY <2>1 DEF EffectInv, SkipsExplained
    <2>. QED
      BY <1>0, <2>1, <2>2, <2>3, <2>4, LandStep
      DEF InBlock, Awaited, TypeOK, Call
  <1>11. ASSUME NEW c \in inflight, StrayLands(c) PROVE EffectInv'
    <2>1. /\ Effect(c) /\ ~Awaited(c) /\ inflight' = inflight \ {c}
          /\ UNCHANGED <<pc, attempt, performed, clean, skipped, revertFailed, cutOff>>
      BY <1>11 DEF StrayLands, hist
    <2>2. c.op \in {"claim", "reclaim"} => c.epoch \in Explained' \/ pc'[c.epoch] = "dead"
      BY <2>1 DEF EffectInv, ClaimsWatched, Explained
    <2>3. SkipsExplained'
      BY <2>1 DEF EffectInv, SkipsExplained
    <2>. QED
      BY <1>0, <2>1, <2>2, <2>3, LandStep DEF InBlock, Awaited
  <1>12. ASSUME NEW c \in inflight, CallFails(c) PROVE EffectInv'
    <2>1. c \in Call /\ \A d \in inflight : d \in Call /\ (Awaited(c) /\ Awaited(d)
                             /\ d.epoch = c.epoch => d = c)
      BY <1>0 DEF TypeOK, Call, Awaited
    <2>. QED
    BY <1>0, <1>12, <2>1, LocalStep
    DEF CallFails, storeVars, InBlock, Awaited, TypeOK, Epoch, Call, Explained
  <1>13. ASSUME NEW c \in inflight, AnswerLost(c) PROVE EffectInv'
    <2>1. /\ Effect(c) /\ c \in Call /\ Awaited(c) /\ inflight' = inflight \ {c}
          /\ pc' = [pc EXCEPT ![c.epoch] = "idle"]
          /\ UNCHANGED <<attempt, performed, clean, skipped, revertFailed>>
          /\ cutOff' = cutOff \cup {c.epoch}
      BY <1>0, <1>13 DEF AnswerLost, TypeOK
    <2>2. \A d \in inflight' : Awaited(d) => Awaited(d)'
      BY <1>0, <2>1 DEF TypeOK, Call, Awaited
    <2>3. SkipsExplained' /\ c.epoch \in Explained'
      BY <2>1 DEF EffectInv, SkipsExplained, Explained
    <2>. QED
      BY <1>0, <2>1, <2>2, <2>3, LandStep DEF InBlock, Awaited, TypeOK, Call
  <1>14. CASE UNCHANGED vars
    BY <1>0, <1>14, LocalStep DEF vars, hist, InBlock, Awaited, TypeOK, Epoch
  <1>. QED
    BY <1>1, <1>2, <1>3, <1>4, <1>5, <1>6, <1>7, <1>8, <1>9, <1>10, <1>11,
       <1>12, <1>13, <1>14 DEF Next

LEMMA EffectInvAlways == Spec => []EffectInv
  BY InitEffectInv, NextEffectInv, PTL DEF Spec

-----------------------------------------------------------------------------
(* The theorems.                                                           *)

\* The marks, the fence and the calls in flight are well typed, and the fence
\* never passes the newest granted epoch (store.py, effects.py).
THEOREM EffectTypeCorrect == Spec => []TypeOK
  <1>1. EffectInv => TypeOK
    BY DEF EffectInv
  <1>. QED
    BY <1>1, EffectInvAlways, PTL

\* For any number of retries and any cut-off or late call: once a block was left
\* cleanly no attempt of that epoch is in it again (effects.py:94-101).
THEOREM EffectOncePerEpoch == Spec => []NoRefireWithinEpoch
  <1>1. EffectInv => NoRefireWithinEpoch
    BY DEF EffectInv, CleanSettled, NoRefireWithinEpoch
  <1>. QED
    BY <1>1, EffectInvAlways, PTL

\* A skip on the epoch's own mark always has a cause: the effect was performed,
\* a revert failed, or a call was cut off in flight (effects.py _claim).
THEOREM EffectSkipsExplained == Spec => []SkipsExplained
  <1>1. EffectInv => SkipsExplained
    BY DEF EffectInv
  <1>. QED
    BY <1>1, EffectInvAlways, PTL

\* A committed mark is for ever, and nobody enters the block behind it, however
\* many epochs follow and whatever calls of old ones still land
\* (effects.py:9-11).
THEOREM EffectCommittedForGood == Spec => CommittedNeverRefires
  <1> DEFINE Kept == mark = Committed =>
                        /\ mark' = Committed
                        /\ \A e \in Epoch : InBlock(e)' => InBlock(e)
  <1>1. EffectInv /\ [Next]_vars => [Kept]_vars
    <2> SUFFICES ASSUME EffectInv, Next, mark = Committed
                 PROVE mark' = Committed /\ \A e \in Epoch : InBlock(e)' => InBlock(e)
      BY Zenon
    <2> USE MarkFacts DEF EffectInv, InBlock, storeVars, hist
    <2>0. TypeOK /\ TypeOK'
      BY NextTypes
    <2>1. CASE Grant
      BY <2>0, <2>1 DEF Grant, TypeOK, Epoch
    <2>2. CASE \E e \in Epoch : \/ LoopWrite(e) \/ Enter(e) \/ Perform(e)
                                \/ LeaveCleanly(e) \/ LeaveByException(e)
                                \/ CancelAwait(e) \/ Crash(e)
      BY <2>0, <2>2 DEF LoopWrite, Enter, Perform, LeaveCleanly, LeaveByException,
         exit_op, CancelAwait, Crash, TypeOK
    <2>3. ASSUME NEW c \in inflight, Effect(c) PROVE mark' = Committed
      BY <2>0, <2>3, StoreStep
    <2>4. ASSUME NEW c \in inflight, ClaimAnswered(c)
          PROVE mark' = Committed /\ \A e \in Epoch : InBlock(e)' => InBlock(e)
      <3>1. claim_result(c.epoch, c.op = "reclaim") # "ACQUIRED"
        BY ClaimResult
      <3>2. \E p \in {"idle", "reclaim"} : pc' = [pc EXCEPT ![c.epoch] = p]
        BY <2>4, <3>1 DEF ClaimAnswered, AfterClaim
      <3>3. Effect(c)
        BY <2>4 DEF ClaimAnswered
      <3>. QED
        BY <2>0, <2>3, <3>2, <3>3 DEF TypeOK
    <2>5. ASSUME NEW c \in inflight, ExitAnswered(c) \/ StrayLands(c) \/ AnswerLost(c)
          PROVE mark' = Committed /\ \A e \in Epoch : InBlock(e)' => InBlock(e)
      <3>1. Effect(c) /\ (pc' = pc \/ pc' = [pc EXCEPT ![c.epoch] = "idle"])
        BY <2>5 DEF ExitAnswered, StrayLands, AnswerLost
      <3>. QED
        BY <2>0, <2>3, <3>1 DEF TypeOK
    <2>6. ASSUME NEW c \in inflight, CallFails(c)
          PROVE mark' = Committed /\ \A e \in Epoch : InBlock(e)' => InBlock(e)
      BY <2>0, <2>6 DEF CallFails, TypeOK
    <2>. QED
      BY <2>1, <2>2, <2>4, <2>5, <2>6 DEF Next
  <1>. QED
    BY <1>1, EffectInvAlways, PTL DEF Spec, CommittedNeverRefires
=============================================================================
