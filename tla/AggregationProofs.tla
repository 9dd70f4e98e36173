-------------------------- MODULE AggregationProofs -------------------------
(***************************************************************************)
(* Theorems about Aggregation, for every set of sessions and runs, every   *)
(* bound on attempts and faults.                                           *)
(***************************************************************************)
EXTENDS Aggregation, TLAPS

Shapes ==
    /\ doc \in [version : Nat, status : Status, epoch : Nat]
    /\ fence \in [epoch : Nat, session : Session \cup {"nobody"}]
    /\ op \in [Session -> {"upsert", "add"}]
    /\ task \in [Run -> [pc : {"none", "gather", "after", "mark", "insert"} \cup InCall \cup Ended,
                         is_final : BOOLEAN, attempt : 0..MaxAttempts, expected : Nat,
                         error : {"none", "superseded", "foreign", "conflict", "fault"}]]
    /\ owner \in [Session -> Run \cup {NoRun}]
    /\ strays \subseteq [run : Run, is_final : BOOLEAN, expected : Nat]

\* A run is in the calls of its own operation.
CallsFit ==
    \A r \in Run : /\ task[r].pc \in {"read", "find", "write"} => op[SessionOf[r]] = "upsert"
                   /\ task[r].pc = "add" => op[SessionOf[r]] = "add"

\* Whoever is past the guard has left its epoch in it.
GuardPassed ==
    /\ \A r \in Run : task[r].pc \in {"find", "write", "add"} => EpochOf[r] <= fence.epoch
    /\ \A w \in strays : EpochOf[w.run] <= fence.epoch /\ w.expected <= doc.version

\* While the version a run has read still stands, so does what it concluded
\* from that document: no higher epoch wrote it, and for an interim refresh it
\* is not final.
Pins(epoch, is_final, expected) ==
    doc.version = expected => /\ doc.epoch <= epoch
                              /\ ~is_final => doc.status # "final"

VersionPins ==
    /\ \A r \in Run : task[r].pc \in {"find", "write"} =>
           Pins(EpochOf[r], task[r].is_final, task[r].expected)
    /\ \A r \in Run : task[r].pc = "guard" /\ ~task[r].is_final
                      /\ doc.version = task[r].expected => doc.status # "final"
    /\ \A w \in strays : Pins(EpochOf[w.run], w.is_final, w.expected)

Landed(s) ==
    /\ s \in folded
    /\ IF op[s] = "upsert" THEN doc.status = "final" ELSE s \in members

\* A run that is about to mark its contribution has made it.
ContributionLanded ==
    \A r \in Run :
        \/ task[r].pc \in {"mark", "insert"}
        \/ task[r].pc = "after" /\ task[r].is_final /\ task[r].error = "none"
        => Landed(SessionOf[r])

\* Epochs are granted in order, and the owner's is the newest granted.
OwnerNewest ==
    /\ \A r, q \in Run : SessionOf[r] = SessionOf[q] /\ EpochOf[r] < EpochOf[q]
                         /\ task[q].pc # "none" => task[r].pc # "none"
    /\ \A r \in Run : task[r].pc # "none" =>
           /\ owner[SessionOf[r]] \in Run
           /\ SessionOf[owner[SessionOf[r]]] = SessionOf[r]
           /\ EpochOf[r] <= EpochOf[owner[SessionOf[r]]]

\* The guard's epoch was granted to a run of the session it names.
FenceGranted ==
    fence.epoch > 0 => \E r \in Run : /\ SessionOf[r] = fence.session
                                      /\ EpochOf[r] = fence.epoch
                                      /\ task[r].pc # "none"

\* A run told that its own session fenced it is no longer the owner.
SupersededLost ==
    \A r \in Run : task[r].pc = "after" /\ task[r].error = "superseded" => ~Owns(r)

AggregationInv ==
    /\ TypeOK /\ Shapes /\ CallsFit
    /\ GuardPassed /\ VersionPins
    /\ ContributionLanded /\ MarkedMeansFolded
    /\ OwnerNewest /\ FenceGranted /\ SupersededLost /\ DeadLetterExplained

LEMMA InitAggregationInv == Init => AggregationInv
  <1> SUFFICES ASSUME Init PROVE AggregationInv
    OBVIOUS
  <1> USE AggregationAssumption DEF Init, DurableInit, Fresh
  <1>1. Shapes /\ TypeOK
    BY DEF Shapes, TypeOK, DurableType, Status, InCall, Ended
  <1>2. CallsFit /\ GuardPassed /\ VersionPins /\ ContributionLanded /\ MarkedMeansFolded
    BY DEF CallsFit, GuardPassed, VersionPins, ContributionLanded, MarkedMeansFolded
  <1>3. OwnerNewest /\ FenceGranted /\ SupersededLost /\ DeadLetterExplained
    BY DEF OwnerNewest, FenceGranted, SupersededLost, DeadLetterExplained
  <1>. QED
    BY <1>1, <1>2, <1>3 DEF AggregationInv

\* What a run's new locals must satisfy, the rest of the state being the primed.
Fits(r, t) ==
    /\ t \in [pc : {"gather", "after", "mark", "insert"} \cup InCall \cup Ended,
              is_final : BOOLEAN, attempt : 0..MaxAttempts, expected : Nat,
              error : {"none", "superseded", "foreign", "conflict", "fault"}]
    /\ t.expected <= doc.version
    /\ t.pc \in {"read", "find", "write"} => op[SessionOf[r]] = "upsert"
    /\ t.pc = "add" => op[SessionOf[r]] = "add"
    /\ t.pc \in {"find", "write", "add"} => EpochOf[r] <= fence.epoch
    /\ t.pc \in {"find", "write"} => Pins(EpochOf[r], t.is_final, t.expected)
    /\ t.pc = "guard" /\ ~t.is_final /\ doc.version = t.expected => doc.status # "final"
    /\ \/ t.pc \in {"mark", "insert"}
       \/ t.pc = "after" /\ t.is_final /\ t.error = "none"
       => Landed(SessionOf[r])
    /\ t.pc = "after" /\ t.error = "superseded" => ~Owns(r)
    /\ t.pc = "dead" => t.error # "superseded"

\* A step of one run that leaves the document alone.
LEMMA TaskStep ==
    ASSUME AggregationInv, NEW r \in Run, NEW t,
           task[r].pc # "none", task' = [task EXCEPT ![r] = t], Fits(r, t)',
           UNCHANGED <<doc, op, owner>>,
           members \subseteq members', members' \subseteq Session,
           folded \subseteq folded', folded' \subseteq Session,
           MarkedMeansFolded', markers' \subseteq Session,
           mark_fence' \in [Session -> Nat],
           fence' \in [epoch : Nat, session : Session \cup {"nobody"}],
           fence.epoch <= fence'.epoch, FenceGranted',
           strays' \subseteq [run : Run, is_final : BOOLEAN, expected : Nat],
           \A w \in strays' \ strays : /\ EpochOf[w.run] <= fence.epoch
                                       /\ w.expected <= doc.version
                                       /\ Pins(EpochOf[w.run], w.is_final, w.expected)
    PROVE  AggregationInv'
  <1> USE AggregationAssumption DEF AggregationInv
  <1>1. /\ \A q \in Run : q # r => task'[q] = task[q]
        /\ task'[r] = t
        /\ DOMAIN task' = Run
    BY DEF Shapes
  <1>2. Shapes'
    BY DEF Shapes, Fits
  <1>3. TypeOK'
    BY <1>1, <1>2 DEF Fits, TypeOK, DurableType, Shapes
  <1>4. CallsFit'
    BY <1>1 DEF Fits, CallsFit
  <1>5. GuardPassed'
    BY <1>1 DEF Fits, GuardPassed, Shapes
  <1>6. VersionPins'
    BY <1>1 DEF Fits, VersionPins, Pins
  <1>7. ContributionLanded'
    BY <1>1 DEF Fits, ContributionLanded, Landed
  <1>8. OwnerNewest'
    BY <1>1 DEF Fits, OwnerNewest, InCall, Ended
  <1>9. SupersededLost' /\ DeadLetterExplained'
    BY <1>1 DEF Fits, SupersededLost, DeadLetterExplained, Owns
  <1>. QED
    BY <1>2, <1>3, <1>4, <1>5, <1>6, <1>7, <1>8, <1>9

\* What a conditional write may do to the document, whether or not its filter
\* matched: a new version is above every version anybody has read.
Forward ==
    /\ doc' \in [version : Nat, status : Status, epoch : Nat]
    /\ (doc'.version = 0) <=> (doc'.status = "none")
    /\ doc' # doc => doc'.version = doc.version + 1
    /\ doc.epoch <= doc'.epoch /\ doc'.epoch <= fence.epoch
    /\ doc.status = "final" => doc'.status = "final"

\* A write whose writer has passed the guard, and whose reading of the document
\* still pins it, moves the document forward.
LEMMA LandForward ==
    ASSUME AggregationInv, NEW r \in Run, NEW is_final \in BOOLEAN, NEW expected \in Nat,
           EpochOf[r] <= fence.epoch, Pins(EpochOf[r], is_final, expected),
           Land(r, is_final, expected)
    PROVE  /\ Forward
           /\ folded \subseteq folded' /\ folded' \subseteq Session
           /\ version_matches(expected) /\ is_final =>
                  SessionOf[r] \in folded' /\ doc'.status = "final"
  <1> USE AggregationAssumption DEF AggregationInv
  <1>0. /\ doc \in [version : Nat, status : Status, epoch : Nat]
        /\ (doc.version = 0) <=> (doc.status = "none")
        /\ doc.epoch <= fence.epoch /\ fence.epoch \in Nat
        /\ EpochOf[r] \in Nat /\ folded \subseteq Session /\ SessionOf[r] \in Session
    BY DEF Shapes, TypeOK, DurableType
  <1>1. CASE version_matches(expected)
    <2>1. /\ doc' = [version |-> expected + 1,
                     status |-> IF is_final THEN "final" ELSE "in_progress",
                     epoch |-> EpochOf[r]]
          /\ folded' = IF is_final THEN folded \cup {SessionOf[r]} ELSE folded
      BY <1>1 DEF Land, put
    <2>2. doc.version = expected
      BY <1>1 DEF version_matches
    <2>3. doc.epoch <= EpochOf[r] /\ (~is_final => doc.status # "final")
      BY <2>2 DEF Pins
    <2>. QED
      BY <1>0, <2>1, <2>2, <2>3 DEF Forward, Status
  <1>2. CASE ~version_matches(expected)
    BY <1>0, <1>2 DEF Land, Forward
  <1>. QED
    BY <1>1, <1>2

\* A step that moves the document forward; the run that takes it, if one does,
\* ends up with locals that fit.
LEMMA DocStep ==
    ASSUME AggregationInv, Forward, NEW r \in Run, NEW t,
           folded \subseteq folded', folded' \subseteq Session,
           UNCHANGED <<members, fence, markers, mark_fence, op, owner>>,
           strays' \subseteq strays,
           \/ UNCHANGED task
           \/ task[r].pc # "none" /\ task' = [task EXCEPT ![r] = t] /\ Fits(r, t)'
    PROVE  AggregationInv'
  <1> USE AggregationAssumption DEF AggregationInv
  <1>0. /\ doc \in [version : Nat, status : Status, epoch : Nat]
        /\ doc' \in [version : Nat, status : Status, epoch : Nat]
        /\ doc' = doc \/ doc'.version = doc.version + 1
    BY DEF Forward, Shapes
  <1>1. Shapes'
    BY <1>0 DEF Shapes, Fits
  <1>t. /\ \A q \in Run : q # r => task'[q] = task[q]
        /\ \/ task'[r] = task[r]
           \/ task'[r] = t /\ task[r].pc # "none" /\ Fits(r, t)'
    BY DEF Shapes
  <1>2. TypeOK'
    <2>1. DurableType'
      BY DEF DurableType, Forward, TypeOK
    <2>2. \A q \in Run : task[q].expected <= doc.version /\ task[q].expected \in Nat
      BY DEF TypeOK, Shapes
    <2>3. \A q \in Run : task'[q].expected <= doc'.version
      BY <1>0, <1>t, <2>2 DEF Fits
    <2>. QED
      BY <1>1, <2>1, <2>3 DEF TypeOK, Shapes
  <1>3. CallsFit'
    BY <1>t DEF Fits, CallsFit
  <1>4. GuardPassed'
    BY <1>0, <1>t DEF Fits, GuardPassed, Shapes
  <1>5. VersionPins'
    <2>1. \A q \in Run : task[q].expected \in Nat /\ task[q].expected <= doc.version
      BY DEF Shapes, TypeOK
    <2>2. \A w \in strays : w.expected \in Nat /\ w.expected <= doc.version
      BY DEF Shapes, GuardPassed
    <2>3. CASE doc' = doc
      BY <1>t, <2>3 DEF Fits, VersionPins, Pins
    <2>4. CASE doc'.version = doc.version + 1
      <3>1. \A q \in Run : task[q].expected # doc'.version
        BY <1>0, <2>1, <2>4
      <3>2. \A w \in strays' : w.expected # doc'.version
        BY <1>0, <2>2, <2>4
      <3>. QED
        BY <1>t, <3>1, <3>2 DEF Fits, VersionPins, Pins
    <2>. QED
      BY <1>0, <2>3, <2>4
  <1>6. ContributionLanded'
    BY <1>t DEF Fits, ContributionLanded, Landed, Forward
  <1>7. MarkedMeansFolded'
    BY DEF MarkedMeansFolded, Forward
  <1>8. \A q \in Run : task'[q].pc = "none" <=> task[q].pc = "none"
    BY <1>t DEF Fits, InCall, Ended
  <1>9. OwnerNewest' /\ FenceGranted'
    BY <1>8 DEF OwnerNewest, FenceGranted
  <1>10. SupersededLost' /\ DeadLetterExplained'
    BY <1>t DEF Fits, SupersededLost, DeadLetterExplained, Owns
  <1>. QED
    BY <1>1, <1>2, <1>3, <1>4, <1>5, <1>6, <1>7, <1>9, <1>10

\* A run that the guard turns away in its own session's name has lost the lock.
LEMMA GuardLost ==
    ASSUME AggregationInv, NEW r \in Run,
           EpochOf[r] < fence.epoch, fence.session = SessionOf[r]
    PROVE  ~Owns(r)
  <1> USE AggregationAssumption DEF AggregationInv
  <1>1. fence.epoch \in Nat /\ EpochOf[r] \in Nat
    BY DEF Shapes
  <1>2. PICK q \in Run : /\ SessionOf[q] = SessionOf[r] /\ EpochOf[q] = fence.epoch
                         /\ task[q].pc # "none"
    BY <1>1 DEF FenceGranted
  <1>3. EpochOf[q] <= EpochOf[owner[SessionOf[r]]]
    BY <1>2 DEF OwnerNewest
  <1>. QED
    BY <1>1, <1>2, <1>3 DEF Owns
-----------------------------------------------------------------------------
(* The steps of one run.                                                   *)

\* What End leaves.
EndedAs(r, pc) == [Fresh EXCEPT !.pc = pc, !.error = IF pc = "dead" THEN task[r].error ELSE "none"]

\* Leaving the phase never disturbs the rest.
LEMMA EndStep ==
    ASSUME AggregationInv, NEW r \in Run, NEW pc \in Ended,
           task[r].pc # "none", End(r, pc), pc = "dead" => task[r].error # "superseded",
           UNCHANGED <<doc, members, fence, mark_fence, op, owner, folded>>,
           MarkedMeansFolded', markers' \subseteq Session,
           strays' \subseteq [run : Run, is_final : BOOLEAN, expected : Nat],
           \A w \in strays' \ strays : /\ EpochOf[w.run] <= fence.epoch
                                       /\ w.expected <= doc.version
                                       /\ Pins(EpochOf[w.run], w.is_final, w.expected)
    PROVE  AggregationInv'
  <1> USE AggregationAssumption DEF AggregationInv
  <1>1. PICK t : t = EndedAs(r, pc)
    OBVIOUS
  <1>2. task' = [task EXCEPT ![r] = t]
    BY <1>1 DEF End, EndedAs
  <1>3. /\ t.pc = pc /\ t.expected = 0
        /\ pc = "dead" => t.error # "superseded"
        /\ t \in [pc : Ended, is_final : BOOLEAN, attempt : 0..MaxAttempts, expected : Nat,
                  error : {"none", "superseded", "foreign", "conflict", "fault"}]
    <2>1. PICK e : e = IF pc = "dead" THEN task[r].error ELSE "none"
      OBVIOUS
    <2>2. e \in {"none", "superseded", "foreign", "conflict", "fault"}
      BY <2>1 DEF Shapes
    <2>3. pc = "dead" => e # "superseded"
      BY <2>1
    <2>4. t = [pc |-> pc, is_final |-> FALSE, attempt |-> 0, expected |-> 0, error |-> e]
      BY <1>1, <2>1 DEF EndedAs, Fresh
    <2>. QED
      BY <2>2, <2>3, <2>4
  <1>4. doc'.version \in Nat
    BY DEF Shapes
  <1>5. Fits(r, t)'
    BY <1>3, <1>4 DEF Fits, Ended, InCall
  <1>6. /\ members \subseteq members' /\ members' \subseteq Session
        /\ folded \subseteq folded' /\ folded' \subseteq Session
        /\ mark_fence' \in [Session -> Nat] /\ fence.epoch <= fence'.epoch
        /\ fence' \in [epoch : Nat, session : Session \cup {"nobody"}]
    BY DEF TypeOK, DurableType, Shapes
  <1>7. \A q \in Run : task'[q].pc = "none" <=> task[q].pc = "none"
    BY <1>2, <1>3 DEF Ended, Shapes
  <1>8. FenceGranted'
    BY <1>7 DEF FenceGranted
  <1>. QED
    BY <1>2, <1>5, <1>6, <1>8, TaskStep

\* An attempt ends in an error, or, having contributed, without one.
LEMMA OverStep ==
    ASSUME AggregationInv, NEW r \in Run, task[r].pc # "none",
           NEW error \in {"none", "superseded", "foreign", "conflict", "fault"},
           Over(r, error),
           error = "superseded" => ~Owns(r),
           error = "none" /\ task[r].is_final => Landed(SessionOf[r])',
           UNCHANGED <<doc, fence, markers, mark_fence, op, owner>>,
           members \subseteq members', members' \subseteq Session,
           folded \subseteq folded', folded' \subseteq Session,
           strays' \subseteq [run : Run, is_final : BOOLEAN, expected : Nat],
           \A w \in strays' \ strays : /\ EpochOf[w.run] <= fence.epoch
                                       /\ w.expected <= doc.version
                                       /\ Pins(EpochOf[w.run], w.is_final, w.expected)
    PROVE  AggregationInv'
  <1> USE AggregationAssumption DEF AggregationInv
  <1>1. PICK t : t = [task[r] EXCEPT !.pc = "after", !.error = error, !.expected = 0]
    OBVIOUS
  <1>2. task' = [task EXCEPT ![r] = t]
    BY <1>1 DEF Over
  <1>3. /\ t.pc = "after" /\ t.expected = 0 /\ t.error = error /\ t.is_final = task[r].is_final
        /\ t \in [pc : {"after"}, is_final : BOOLEAN, attempt : 0..MaxAttempts, expected : Nat,
                  error : {"none", "superseded", "foreign", "conflict", "fault"}]
    <2>1. task[r] \in [pc : {"none", "gather", "after", "mark", "insert"} \cup InCall \cup Ended,
                        is_final : BOOLEAN, attempt : 0..MaxAttempts, expected : Nat,
                        error : {"none", "superseded", "foreign", "conflict", "fault"}]
      BY DEF Shapes
    <2>2. t.pc = "after" /\ t.expected = 0 /\ t.error = error /\ t.is_final = task[r].is_final
      BY <1>1, <2>1
    <2>3. t \in [pc : {"after"}, is_final : BOOLEAN, attempt : 0..MaxAttempts, expected : Nat,
                 error : {"none", "superseded", "foreign", "conflict", "fault"}]
      BY <1>1, <2>1
    <2>. QED
      BY <2>2, <2>3
  <1>4. doc'.version \in Nat
    BY DEF Shapes
  <1>5. Fits(r, t)'
    BY <1>3, <1>4 DEF Fits, Ended, InCall, Owns
  <1>6. /\ markers' \subseteq Session
        /\ mark_fence' \in [Session -> Nat] /\ fence.epoch <= fence'.epoch
        /\ fence' \in [epoch : Nat, session : Session \cup {"nobody"}]
    BY DEF TypeOK, DurableType, Shapes
  <1>7. \A q \in Run : task'[q].pc = "none" <=> task[q].pc = "none"
    BY <1>2, <1>3 DEF Shapes
  <1>8. FenceGranted' /\ MarkedMeansFolded'
    BY <1>7 DEF FenceGranted, MarkedMeansFolded
  <1>. QED
    BY <1>2, <1>5, <1>6, <1>8, TaskStep

\* A run moves on, nothing else changes but perhaps the guards.
LEMMA MoveStep ==
    ASSUME AggregationInv, NEW r \in Run, NEW t, task[r].pc # "none",
           task' = [task EXCEPT ![r] = t], Fits(r, t)',
           UNCHANGED <<doc, members, markers, op, owner, strays, folded>>,
           mark_fence' \in [Session -> Nat],
           \/ UNCHANGED fence
           \/ /\ fence' = [epoch |-> EpochOf[r], session |-> SessionOf[r]]
              /\ fence.epoch <= EpochOf[r]
    PROVE  AggregationInv'
  <1> USE AggregationAssumption DEF AggregationInv
  <1>1. /\ members \subseteq members' /\ members' \subseteq Session
        /\ folded \subseteq folded' /\ folded' \subseteq Session /\ markers' \subseteq Session
    BY DEF TypeOK, DurableType
  <1>2. /\ fence.epoch <= fence'.epoch
        /\ fence' \in [epoch : Nat, session : Session \cup {"nobody"}]
    <2>1. /\ fence \in [epoch : Nat, session : Session \cup {"nobody"}]
          /\ fence.epoch \in Nat /\ EpochOf[r] \in Nat /\ SessionOf[r] \in Session
      BY DEF Shapes
    <2>2. CASE UNCHANGED fence
      BY <2>1, <2>2
    <2>3. CASE /\ fence' = [epoch |-> EpochOf[r], session |-> SessionOf[r]]
               /\ fence.epoch <= EpochOf[r]
      <3>1. fence'.epoch = EpochOf[r]
        BY <2>3
      <3>. QED
        BY <2>1, <2>3, <3>1
    <2>. QED
      BY <2>2, <2>3
  <1>3. /\ \A q \in Run : task'[q].pc = "none" <=> task[q].pc = "none"
    BY DEF Fits, Shapes, InCall, Ended
  <1>4. FenceGranted'
    BY <1>3 DEF FenceGranted
  <1>5. MarkedMeansFolded' /\ strays' \subseteq [run : Run, is_final : BOOLEAN, expected : Nat]
    BY DEF MarkedMeansFolded, Shapes
  <1>. QED
    BY <1>1, <1>2, <1>4, <1>5, TaskStep

\* The writes a failing call may leave in flight.
LEMMA StrayStep ==
    ASSUME AggregationInv, NEW r \in Run,
           \/ UNCHANGED strays
           \/ /\ task[r].pc = "write"
              /\ strays' = strays \cup {[run |-> r, is_final |-> task[r].is_final,
                                         expected |-> task[r].expected]}
    PROVE  /\ strays' \subseteq [run : Run, is_final : BOOLEAN, expected : Nat]
           /\ \A w \in strays' \ strays : /\ EpochOf[w.run] <= fence.epoch
                                          /\ w.expected <= doc.version
                                          /\ Pins(EpochOf[w.run], w.is_final, w.expected)
  <1> USE AggregationAssumption DEF AggregationInv
  <1>1. CASE UNCHANGED strays
    BY <1>1 DEF Shapes
  <1>2. CASE /\ task[r].pc = "write"
             /\ strays' = strays \cup {[run |-> r, is_final |-> task[r].is_final,
                                        expected |-> task[r].expected]}
    BY <1>2 DEF Shapes, GuardPassed, VersionPins, TypeOK
  <1>. QED
    BY <1>1, <1>2

LEMMA GrantInv == ASSUME AggregationInv, NEW r \in Run, Grant(r) PROVE AggregationInv'
  <1> USE AggregationAssumption DEF AggregationInv, durableVars
  <1>1. /\ task[r].pc = "none"
        /\ \A q \in Run : SessionOf[q] = SessionOf[r] /\ EpochOf[q] < EpochOf[r] =>
               task[q].pc # "none"
        /\ task' = [task EXCEPT ![r].pc = "gather"]
        /\ owner' = [owner EXCEPT ![SessionOf[r]] = r]
        /\ UNCHANGED <<durableVars, op, interims, strays, faults, folded>>
    BY DEF Grant, Go
  <1>2. TypeOK' /\ Shapes'
    BY SMTT(30), <1>1 DEF TypeOK, Shapes, DurableType
  <1>3. CallsFit' /\ GuardPassed' /\ VersionPins' /\ ContributionLanded' /\ MarkedMeansFolded'
    BY <1>1 DEF Shapes, CallsFit, GuardPassed, VersionPins, Pins, ContributionLanded, Landed,
                MarkedMeansFolded
  <1>4. OwnerNewest'
    BY <1>1 DEF Shapes, OwnerNewest
  <1>5. FenceGranted' /\ SupersededLost' /\ DeadLetterExplained'
    BY <1>1 DEF Shapes, FenceGranted, SupersededLost, DeadLetterExplained, Owns
  <1>. QED
    BY <1>2, <1>3, <1>4, <1>5

\* A run starts the aggregator from nothing.
LEMMA StartFits ==
    ASSUME AggregationInv, NEW r \in Run,
           NEW t \in [pc : {FirstCall(r)}, is_final : BOOLEAN, attempt : 0..MaxAttempts,
                      expected : {0}, error : {"none"}]
    PROVE  Fits(r, t)
  <1> USE AggregationAssumption DEF AggregationInv
  <1>1. /\ op[SessionOf[r]] \in {"upsert", "add"} /\ doc.version \in Nat
        /\ doc.version = 0 => doc.status # "final"
    BY DEF Shapes, TypeOK, DurableType
  <1>2. /\ t.pc \in {"read", "guard"} /\ t.error = "none" /\ t.expected = 0
        /\ t.pc = "read" => op[SessionOf[r]] = "upsert"
        /\ t \in [pc : InCall, is_final : BOOLEAN, attempt : 0..MaxAttempts, expected : Nat,
                  error : {"none", "superseded", "foreign", "conflict", "fault"}]
    BY <1>1 DEF FirstCall, InCall
  <1>. QED
    BY <1>1, <1>2 DEF Fits

\* Each step of a run keeps the invariant.
LEMMA RunStepInv ==
    ASSUME AggregationInv, NEW r \in Run, RunStep(r) \/ RefreshInterim(r) PROVE AggregationInv'
  <1> USE AggregationAssumption DEF durableVars
  <1>0. /\ TypeOK /\ Shapes /\ CallsFit /\ GuardPassed /\ VersionPins /\ ContributionLanded
        /\ MarkedMeansFolded /\ OwnerNewest /\ FenceGranted /\ SupersededLost
        /\ DeadLetterExplained
    BY DEF AggregationInv
  <1>f. /\ fence.epoch \in Nat /\ EpochOf[r] \in Nat /\ SessionOf[r] \in Session
        /\ doc.version \in Nat /\ doc.epoch \in Nat /\ doc.epoch <= fence.epoch
        /\ task[r].expected <= doc.version /\ op[SessionOf[r]] \in {"upsert", "add"}
        /\ markers \subseteq Session /\ mark_fence \in [Session -> Nat]
        /\ members \subseteq Session /\ folded \subseteq Session
        /\ strays \subseteq [run : Run, is_final : BOOLEAN, expected : Nat]
    BY <1>0 DEF Shapes, TypeOK, DurableType
  <1>t. /\ task[r] \in [pc : {"none", "gather", "after", "mark", "insert"} \cup InCall \cup Ended,
                        is_final : BOOLEAN, attempt : 0..MaxAttempts, expected : Nat,
                        error : {"none", "superseded", "foreign", "conflict", "fault"}]
        /\ DOMAIN task = Run
    BY <1>0 DEF Shapes
  <1>fresh. /\ Fresh \in [pc : {"none"}, is_final : BOOLEAN, attempt : 0..MaxAttempts,
                         expected : {0}, error : {"none"}]
            /\ 1 \in 0..MaxAttempts
    BY DEF Fresh
  <1>1. CASE RefreshInterim(r)
    <2>1. PICK t : t = [Fresh EXCEPT !.pc = FirstCall(r)]
      OBVIOUS
    <2>2. /\ task[r].pc # "none" /\ task' = [task EXCEPT ![r] = t]
          /\ UNCHANGED <<doc, members, markers, op, owner, strays, folded, fence, mark_fence>>
      BY <1>1, <2>1 DEF RefreshInterim
    <2>3. Fits(r, t)
      <3>1. t \in [pc : {FirstCall(r)}, is_final : BOOLEAN, attempt : 0..MaxAttempts,
                   expected : {0}, error : {"none"}]
        BY <1>fresh, <2>1
      <3>. QED
        BY <3>1, StartFits
    <2>4. Fits(r, t)'
      BY <2>2, <2>3, <1>0, <1>f DEF Fits, Pins, Landed, Owns
    <2>. QED
      BY <1>f, <2>2, <2>4, MoveStep
  <1>2. CASE Aggregate(r)
    <2>1. /\ task[r].pc # "none"
          /\ UNCHANGED <<doc, members, markers, op, owner, strays, folded, fence, mark_fence>>
      BY <1>2 DEF Aggregate
    <2>2. CASE End(r, "superseded") \/ End(r, "skipped")
      <3>1. MarkedMeansFolded' /\ "superseded" \in Ended /\ "skipped" \in Ended
        BY <1>0, <2>1 DEF MarkedMeansFolded, Ended
      <3>. QED
        BY <1>f, <2>1, <2>2, <3>1, EndStep
    <2>3. CASE task' = [task EXCEPT ![r] = [Fresh EXCEPT !.pc = FirstCall(r),
                                              !.is_final = TRUE, !.attempt = 1]]
      <3>1. PICK t : t = [Fresh EXCEPT !.pc = FirstCall(r), !.is_final = TRUE, !.attempt = 1]
        OBVIOUS
      <3>2. task' = [task EXCEPT ![r] = t]
        BY <2>3, <3>1
      <3>3. Fits(r, t)
        <4>1. t \in [pc : {FirstCall(r)}, is_final : BOOLEAN, attempt : 0..MaxAttempts,
                     expected : {0}, error : {"none"}]
          BY <1>fresh, <3>1
        <4>. QED
          BY <4>1, StartFits
      <3>4. Fits(r, t)'
        BY <2>1, <3>3 DEF Fits, Pins, Landed, Owns
      <3>. QED
        BY <1>f, <2>1, <3>2, <3>4, MoveStep
    <2>. QED
      BY <1>2, <2>2, <2>3 DEF Aggregate
  <1>3. CASE Read(r)
    <2>1. /\ task[r].pc = "read"
          /\ UNCHANGED <<doc, members, markers, op, owner, strays, folded, fence, mark_fence>>
      BY <1>3 DEF Read
    <2>2. CASE finalized(r)
      <3>1. Over(r, "none") /\ ~task[r].is_final
        BY <1>3, <2>2 DEF Read, finalized
      <3>. QED
        BY <1>f, <2>1, <3>1, OverStep
    <2>3. CASE ~finalized(r)
      <3>1. PICK t : t = [pc |-> "guard", is_final |-> task[r].is_final,
                          attempt |-> task[r].attempt, expected |-> doc.version,
                          error |-> task[r].error]
        OBVIOUS
      <3>2. task' = [task EXCEPT ![r] = t]
        BY <1>3, <1>t, <2>3, <3>1 DEF Read
      <3>3. /\ t.pc = "guard" /\ t.expected = doc.version /\ t.is_final = task[r].is_final
            /\ t \in [pc : InCall, is_final : BOOLEAN, attempt : 0..MaxAttempts, expected : Nat,
                      error : {"none", "superseded", "foreign", "conflict", "fault"}]
        BY <1>f, <1>t, <3>1 DEF InCall
      <3>4. Fits(r, t)'
        BY <1>f, <2>1, <2>3, <3>3 DEF Fits, finalized
      <3>. QED
        BY <1>f, <2>1, <3>2, <3>4, MoveStep
    <2>. QED
      BY <2>2, <2>3
  <1>4. CASE Guard(r)
    <2>1. /\ task[r].pc = "guard"
          /\ UNCHANGED <<doc, members, markers, op, owner, strays, folded, mark_fence>>
      BY <1>4 DEF Guard
    <2>2. CASE not_superseded(EpochOf[r], fence.epoch)
      <3>1. PICK t : t = [task[r] EXCEPT !.pc = IF op[SessionOf[r]] = "upsert" THEN "find" ELSE "add"]
        OBVIOUS
      <3>2. /\ task' = [task EXCEPT ![r] = t]
            /\ fence' = [epoch |-> EpochOf[r], session |-> SessionOf[r]]
        BY <1>4, <1>t, <2>2, <3>1 DEF Guard, Go, guard_durable_epoch
      <3>3. fence.epoch <= EpochOf[r] /\ fence'.epoch = EpochOf[r]
        BY <2>2, <3>2 DEF not_superseded
      <3>4. /\ t.pc = IF op[SessionOf[r]] = "upsert" THEN "find" ELSE "add"
            /\ t.expected = task[r].expected /\ t.is_final = task[r].is_final
            /\ t \in [pc : InCall, is_final : BOOLEAN, attempt : 0..MaxAttempts, expected : Nat,
                      error : {"none", "superseded", "foreign", "conflict", "fault"}]
        BY <1>t, <3>1 DEF InCall
      <3>5. t.pc \in {"find", "add"} /\ (t.pc = "find" <=> op[SessionOf[r]] = "upsert")
        BY <3>4
      <3>6. Pins(EpochOf[r], t.is_final, t.expected)'
        BY <1>0, <1>f, <2>1, <3>3, <3>4 DEF Pins, VersionPins
      <3>7. Fits(r, t)'
        BY <1>f, <2>1, <3>3, <3>4, <3>5, <3>6 DEF Fits
      <3>. QED
        BY <1>f, <2>1, <3>2, <3>3, <3>7, MoveStep
    <2>3. CASE ~not_superseded(EpochOf[r], fence.epoch)
      <3>1. PICK error : error = IF fence.session = SessionOf[r] THEN "superseded" ELSE "foreign"
        OBVIOUS
      <3>2. Over(r, error) /\ UNCHANGED fence /\ error \in {"superseded", "foreign"}
        BY <1>4, <2>3, <3>1 DEF Guard
      <3>3. error = "superseded" => ~Owns(r)
        <4>1. EpochOf[r] < fence.epoch
          BY <1>f, <2>3 DEF not_superseded
        <4>. QED
          BY <3>1, <4>1, GuardLost
      <3>. QED
        BY <1>f, <2>1, <3>2, <3>3, OverStep
    <2>. QED
      BY <2>2, <2>3
  <1>5. CASE Find(r)
    <2>1. /\ task[r].pc = "find"
          /\ UNCHANGED <<doc, members, markers, op, owner, strays, folded, fence, mark_fence>>
      BY <1>5 DEF Find
    <2>2. CASE doc.version = task[r].expected
      <3>1. PICK t : t = [task[r] EXCEPT !.pc = "write"]
        OBVIOUS
      <3>2. task' = [task EXCEPT ![r] = t]
        BY <1>5, <1>t, <2>2, <3>1 DEF Find, Go
      <3>3. /\ t.pc = "write" /\ t.expected = task[r].expected /\ t.is_final = task[r].is_final
            /\ t \in [pc : InCall, is_final : BOOLEAN, attempt : 0..MaxAttempts, expected : Nat,
                      error : {"none", "superseded", "foreign", "conflict", "fault"}]
        BY <1>t, <3>1 DEF InCall
      <3>4. Pins(EpochOf[r], t.is_final, t.expected)'
        BY <1>0, <2>1, <3>3 DEF Pins, VersionPins
      <3>5. op[SessionOf[r]] = "upsert" /\ EpochOf[r] <= fence.epoch
        BY <1>0, <2>1 DEF CallsFit, GuardPassed
      <3>6. Fits(r, t)'
        BY <1>f, <2>1, <3>3, <3>4, <3>5 DEF Fits
      <3>. QED
        BY <1>f, <2>1, <3>2, <3>6, MoveStep
    <2>3. CASE doc.version # task[r].expected
      <3>1. Over(r, "conflict")
        BY <1>5, <2>3 DEF Find
      <3>. QED
        BY <1>f, <2>1, <3>1, OverStep
    <2>. QED
      BY <2>2, <2>3
  <1>6. CASE Write(r)
    <2>1. /\ task[r].pc = "write" /\ Land(r, task[r].is_final, task[r].expected)
          /\ UNCHANGED <<members, fence, markers, mark_fence, op, owner, strays>>
      BY <1>6 DEF Write
    <2>2. PICK error : error = IF version_matches(task[r].expected) THEN "none" ELSE "conflict"
      OBVIOUS
    <2>3. PICK t : t = [task[r] EXCEPT !.pc = "after", !.error = error, !.expected = 0]
      OBVIOUS
    <2>4. task' = [task EXCEPT ![r] = t]
      BY <1>6, <2>2, <2>3 DEF Write, Over
    <2>5. /\ t.pc = "after" /\ t.expected = 0 /\ t.error = error
          /\ t.is_final = task[r].is_final
      BY <1>t, <2>3
    <2>6. error \in {"none", "conflict"} /\ (error = "none" => version_matches(task[r].expected))
      BY <2>2
    <2>7. t \in [pc : {"after"}, is_final : BOOLEAN, attempt : 0..MaxAttempts, expected : Nat,
                 error : {"none", "superseded", "foreign", "conflict", "fault"}]
      BY <1>t, <2>3, <2>6
    <2>8. /\ EpochOf[r] <= fence.epoch /\ op[SessionOf[r]] = "upsert"
          /\ Pins(EpochOf[r], task[r].is_final, task[r].expected)
          /\ task[r].is_final \in BOOLEAN /\ task[r].expected \in Nat
      BY <1>0, <1>t, <2>1 DEF GuardPassed, VersionPins, CallsFit
    <2>9. /\ Forward /\ folded \subseteq folded' /\ folded' \subseteq Session
          /\ version_matches(task[r].expected) /\ task[r].is_final =>
                 SessionOf[r] \in folded' /\ doc'.status = "final"
      BY <2>1, <2>8, LandForward
    <2>10. t.is_final /\ t.error = "none" => Landed(SessionOf[r])'
      BY <2>1, <2>5, <2>6, <2>8, <2>9 DEF Landed
    <2>11. Fits(r, t)'
      <3>1. doc'.version \in Nat
        BY <2>9 DEF Forward
      <3>. QED
        BY <2>5, <2>6, <2>7, <2>10, <3>1 DEF Fits
    <2>. QED
      BY <2>1, <2>4, <2>9, <2>11, DocStep
  <1>7. CASE add_to_set(r)
    <2>1. /\ task[r].pc = "add" /\ Over(r, "none")
          /\ UNCHANGED <<doc, fence, markers, mark_fence, op, owner, strays>>
          /\ members' = members \cup {SessionOf[r]}
          /\ folded' = IF task[r].is_final THEN folded \cup {SessionOf[r]} ELSE folded
      BY <1>7 DEF add_to_set
    <2>2. /\ folded \subseteq folded' /\ folded' \subseteq Session
          /\ members \subseteq members' /\ members' \subseteq Session
          /\ task[r].is_final => SessionOf[r] \in folded'
      BY <1>f, <2>1
    <2>3. task[r].is_final => Landed(SessionOf[r])'
      BY <1>0, <2>1, <2>2 DEF Landed, CallsFit
    <2>. QED
      BY <1>f, <2>1, <2>2, <2>3, OverStep
  <1>8. CASE AfterAttempt(r)
    <2>1. /\ task[r].pc = "after"
          /\ UNCHANGED <<doc, members, markers, op, owner, strays, folded, fence, mark_fence>>
      BY <1>8 DEF AfterAttempt
    <2>2. MarkedMeansFolded'
      BY <1>0, <2>1 DEF MarkedMeansFolded
    <2>3. CASE task' = [task EXCEPT ![r] = [Fresh EXCEPT !.pc = "gather"]]
      <3>1. PICK t : t = [Fresh EXCEPT !.pc = "gather"]
        OBVIOUS
      <3>2. task' = [task EXCEPT ![r] = t]
        BY <2>3, <3>1
      <3>3. /\ t.pc = "gather" /\ t.expected = 0
            /\ t \in [pc : {"gather"}, is_final : BOOLEAN, attempt : 0..MaxAttempts,
                      expected : Nat, error : {"none"}]
        BY <1>fresh, <3>1
      <3>4. Fits(r, t)'
        BY <1>f, <2>1, <3>3 DEF Fits
      <3>. QED
        BY <1>f, <2>1, <3>2, <3>4, MoveStep
    <2>4. CASE End(r, "superseded")
      <3>1. "superseded" \in Ended
        BY DEF Ended
      <3>. QED
        BY <1>f, <2>1, <2>2, <2>4, <3>1, EndStep
    <2>5. CASE /\ task[r].is_final /\ Retries(r)
               /\ task' = [task EXCEPT ![r] = [@ EXCEPT !.pc = FirstCall(r), !.error = "none",
                                                 !.attempt = next_attempt(r)]]
      <3>1. PICK t : t = [task[r] EXCEPT !.pc = FirstCall(r), !.error = "none",
                                         !.attempt = next_attempt(r)]
        OBVIOUS
      <3>2. task' = [task EXCEPT ![r] = t]
        BY <1>t, <2>5, <3>1
      <3>3. next_attempt(r) \in 0..MaxAttempts
        BY <1>t, <2>5 DEF Retries, next_attempt
      <3>4. FirstCall(r) \in {"read", "guard"}
            /\ (FirstCall(r) = "read" => op[SessionOf[r]] = "upsert")
        BY DEF FirstCall
      <3>5. /\ t.pc = FirstCall(r) /\ t.expected = task[r].expected
            /\ t.is_final = task[r].is_final /\ t.error = "none"
        BY <1>t, <3>1
      <3>6. t \in [pc : InCall, is_final : BOOLEAN, attempt : 0..MaxAttempts,
                   expected : Nat, error : {"none"}]
        BY <1>t, <3>1, <3>3, <3>4 DEF InCall
      <3>7. Fits(r, t)'
        BY <1>f, <2>1, <2>5, <3>4, <3>5, <3>6 DEF Fits
      <3>. QED
        BY <1>f, <2>1, <3>2, <3>7, MoveStep
    <2>6. CASE /\ task[r].is_final /\ ~fenced(r) /\ ~Retries(r)
               /\ IF contributed(r) THEN Go(r, "mark") ELSE End(r, "dead")
      <3>1. CASE contributed(r)
        <4>1. PICK t : t = [task[r] EXCEPT !.pc = "mark"]
          OBVIOUS
        <4>2. task' = [task EXCEPT ![r] = t]
          BY <1>t, <2>6, <3>1, <4>1 DEF Go
        <4>3. /\ t.pc = "mark" /\ t.expected = task[r].expected
              /\ t \in [pc : {"mark"}, is_final : BOOLEAN, attempt : 0..MaxAttempts,
                        expected : Nat,
                        error : {"none", "superseded", "foreign", "conflict", "fault"}]
          BY <1>t, <4>1
        <4>4. Landed(SessionOf[r])'
          BY <1>0, <2>1, <2>6, <3>1 DEF ContributionLanded, Landed, contributed
        <4>5. Fits(r, t)'
          BY <1>f, <2>1, <4>3, <4>4 DEF Fits
        <4>. QED
          BY <1>f, <2>1, <4>2, <4>5, MoveStep
      <3>2. CASE ~contributed(r)
        <4>1. End(r, "dead") /\ "dead" \in Ended
          BY <2>6, <3>2 DEF Ended
        <4>2. task[r].error # "superseded"
          BY <1>0, <2>1, <2>6 DEF SupersededLost, fenced
        <4>. QED
          BY <1>f, <2>1, <2>2, <4>1, <4>2, EndStep
      <3>. QED
        BY <3>1, <3>2
    <2>. QED
      BY <1>8, <2>3, <2>4, <2>5, <2>6 DEF AfterAttempt
  <1>9. CASE MarkGuard(r)
    <2>1. /\ task[r].pc = "mark"
          /\ UNCHANGED <<doc, members, markers, op, owner, strays, folded, fence>>
      BY <1>9 DEF MarkGuard
    <2>2. CASE not_superseded(EpochOf[r], mark_fence[SessionOf[r]])
      <3>1. PICK t : t = [task[r] EXCEPT !.pc = "insert"]
        OBVIOUS
      <3>2. /\ task' = [task EXCEPT ![r] = t]
            /\ mark_fence' = [mark_fence EXCEPT ![SessionOf[r]] = EpochOf[r]]
        BY <1>9, <1>t, <2>2, <3>1 DEF MarkGuard, Go, guard_contribution_epoch
      <3>3. /\ t.pc = "insert" /\ t.expected = task[r].expected
            /\ t \in [pc : {"insert"}, is_final : BOOLEAN, attempt : 0..MaxAttempts,
                      expected : Nat,
                      error : {"none", "superseded", "foreign", "conflict", "fault"}]
        BY <1>t, <3>1
      <3>4. Landed(SessionOf[r])'
        BY <1>0, <2>1 DEF ContributionLanded, Landed
      <3>5. Fits(r, t)'
        BY <1>f, <2>1, <3>3, <3>4 DEF Fits
      <3>6. mark_fence' \in [Session -> Nat]
        BY <1>f, <3>2
      <3>. QED
        BY <1>f, <2>1, <3>2, <3>5, <3>6, MoveStep
    <2>3. CASE ~not_superseded(EpochOf[r], mark_fence[SessionOf[r]])
      <3>1. End(r, "superseded") /\ UNCHANGED mark_fence
        BY <1>9, <2>3 DEF MarkGuard
      <3>2. MarkedMeansFolded' /\ "superseded" \in Ended
        BY <1>0, <2>1 DEF MarkedMeansFolded, Ended
      <3>. QED
        BY <1>f, <2>1, <3>1, <3>2, EndStep
    <2>. QED
      BY <2>2, <2>3
  <1>10. CASE Mark(r)
    <2>1. /\ task[r].pc = "insert" /\ End(r, "done") /\ markers' = markers \cup {SessionOf[r]}
          /\ UNCHANGED <<doc, members, op, owner, strays, folded, fence, mark_fence>>
      BY <1>10 DEF Mark
    <2>2. Landed(SessionOf[r])
      BY <1>0, <2>1 DEF ContributionLanded
    <2>3. MarkedMeansFolded' /\ markers' \subseteq Session /\ "done" \in Ended
      BY <1>0, <1>f, <2>1, <2>2 DEF MarkedMeansFolded, Landed, Ended
    <2>. QED
      BY <1>f, <2>1, <2>3, EndStep
  <1>. QED
    BY <1>1, <1>2, <1>3, <1>4, <1>5, <1>6, <1>7, <1>8, <1>9, <1>10 DEF RunStep

\* No step breaks the invariant.
LEMMA NextAggregationInv == AggregationInv /\ [Next]_vars => AggregationInv'
  <1> SUFFICES ASSUME AggregationInv, [Next]_vars PROVE AggregationInv'
    OBVIOUS
  <1> USE AggregationAssumption DEF durableVars
  <1>1. ASSUME NEW r \in Run, AttemptFails(r) PROVE AggregationInv'
    <2>1. /\ task[r].pc # "none" /\ Over(r, "fault")
          /\ UNCHANGED <<doc, members, markers, op, owner, folded, fence, mark_fence>>
          /\ \/ UNCHANGED strays
             \/ /\ task[r].pc = "write"
                /\ strays' = strays \cup {[run |-> r, is_final |-> task[r].is_final,
                                           expected |-> task[r].expected]}
      BY <1>1 DEF AttemptFails, InCall
    <2>2. /\ strays' \subseteq [run : Run, is_final : BOOLEAN, expected : Nat]
          /\ \A w \in strays' \ strays : /\ EpochOf[w.run] <= fence.epoch
                                         /\ w.expected <= doc.version
                                         /\ Pins(EpochOf[w.run], w.is_final, w.expected)
      BY <2>1, StrayStep
    <2>3. /\ members \subseteq members' /\ members' \subseteq Session
          /\ folded \subseteq folded' /\ folded' \subseteq Session
      BY <2>1 DEF AggregationInv, TypeOK, DurableType
    <2>. QED
      BY <2>1, <2>2, <2>3, OverStep
  <1>2. ASSUME NEW r \in Run, RunFails(r) PROVE AggregationInv'
    <2>1. /\ task[r].pc # "none" /\ End(r, "failed") /\ "failed" \in Ended
          /\ UNCHANGED <<doc, members, markers, op, owner, folded, fence, mark_fence>>
          /\ \/ UNCHANGED strays
             \/ /\ task[r].pc = "write"
                /\ strays' = strays \cup {[run |-> r, is_final |-> task[r].is_final,
                                           expected |-> task[r].expected]}
      BY <1>2 DEF RunFails, Ended
    <2>2. /\ strays' \subseteq [run : Run, is_final : BOOLEAN, expected : Nat]
          /\ \A w \in strays' \ strays : /\ EpochOf[w.run] <= fence.epoch
                                         /\ w.expected <= doc.version
                                         /\ Pins(EpochOf[w.run], w.is_final, w.expected)
      BY <2>1, StrayStep
    <2>3. MarkedMeansFolded' /\ markers' \subseteq Session
      BY <2>1 DEF AggregationInv, TypeOK, DurableType, MarkedMeansFolded
    <2>. QED
      BY <2>1, <2>2, <2>3, EndStep
  <1>3. ASSUME NEW w \in strays, StrayLands(w) PROVE AggregationInv'
    <2>1. /\ strays' \subseteq strays /\ Land(w.run, w.is_final, w.expected)
          /\ UNCHANGED <<members, fence, markers, mark_fence, op, owner, task>>
      BY <1>3 DEF StrayLands
    <2>2. /\ w.run \in Run /\ w.is_final \in BOOLEAN /\ w.expected \in Nat
          /\ EpochOf[w.run] <= fence.epoch /\ Pins(EpochOf[w.run], w.is_final, w.expected)
      BY DEF AggregationInv, Shapes, GuardPassed, VersionPins
    <2>3. Forward /\ folded \subseteq folded' /\ folded' \subseteq Session
      BY <2>1, <2>2, LandForward
    <2>. QED
      BY <2>1, <2>2, <2>3, DocStep
  <1>4. ASSUME NEW s \in Session, Reopen(s) PROVE AggregationInv'
    <2>1. /\ markers' \subseteq markers
          /\ UNCHANGED <<doc, members, fence, mark_fence, op, task, owner, strays, folded>>
      BY <1>4 DEF Reopen, clear_contribution
    <2>. QED
      BY <2>1 DEF AggregationInv, TypeOK, DurableType, Shapes, CallsFit, GuardPassed,
                  VersionPins, Pins, ContributionLanded, Landed, MarkedMeansFolded,
                  OwnerNewest, FenceGranted, SupersededLost, Owns, DeadLetterExplained
  <1>5. CASE UNCHANGED vars
    BY <1>5 DEF vars, AggregationInv, TypeOK, DurableType, Shapes, CallsFit, GuardPassed,
                VersionPins, Pins, ContributionLanded, Landed, MarkedMeansFolded,
                OwnerNewest, FenceGranted, SupersededLost, Owns, DeadLetterExplained
  <1>. QED
    BY <1>1, <1>2, <1>3, <1>4, <1>5, GrantInv, RunStepInv DEF Next, Finished

\* The invariant holds at every moment of every run.
LEMMA AggregationInvAlways == Spec => []AggregationInv
  BY InitAggregationInv, NextAggregationInv, PTL DEF Spec

-----------------------------------------------------------------------------

\* Type correctness of the durable document, the guards, the markers and every
\* run of the aggregation phase (aggregation/helpers.py, retry.py).
THEOREM AggregationTypeCorrect == Spec => []TypeOK
  <1>1. AggregationInv => TypeOK
    BY DEF AggregationInv
  <1>. QED
    BY <1>1, AggregationInvAlways, PTL

\* A contribution marker stands only where the session's final output has
\* landed, however many runs share the key, fail, retry, take over or leave
\* writes in flight (orchestrator.py _run_aggregator).
THEOREM ContributionIsReal == Spec => []MarkedMeansFolded
  <1>1. AggregationInv => MarkedMeansFolded
    BY DEF AggregationInv
  <1>. QED
    BY <1>1, AggregationInvAlways, PTL

\* A takeover is never reported as a dead letter: the guard speaks in the
\* session's own name only to a run that has lost the lock, and the renew after
\* the attempt finds that out first (orchestrator.py:1265-1271).
THEOREM TakeoverIsNoDeadLetter == Spec => []DeadLetterExplained
  <1>1. AggregationInv => DeadLetterExplained
    BY DEF AggregationInv
  <1>. QED
    BY <1>1, AggregationInvAlways, PTL

\* Final stays final and the epoch of the document only grows, although read,
\* guard, check and write are separate round trips and a write may land after
\* its caller has gone (helpers.py upsert, mongo durable_store.py upsert).
THEOREM RecordForward == Spec => RecordNeverRegresses
  <1>1. ASSUME AggregationInv, [Next]_vars
        PROVE  [/\ doc.status = "final" => doc'.status = "final"
                /\ doc'.epoch >= doc.epoch]_vars
    <2> USE AggregationAssumption DEF durableVars
    <2>0. doc.epoch \in Nat
      BY <1>1 DEF AggregationInv, Shapes
    <2>1. CASE UNCHANGED doc
      BY <2>0, <2>1
    <2>2. ASSUME NEW r \in Run, Write(r)
          PROVE  (doc.status = "final" => doc'.status = "final") /\ doc'.epoch >= doc.epoch
      <3>1. /\ EpochOf[r] <= fence.epoch
            /\ Pins(EpochOf[r], task[r].is_final, task[r].expected)
            /\ task[r].is_final \in BOOLEAN /\ task[r].expected \in Nat
            /\ Land(r, task[r].is_final, task[r].expected)
        BY <1>1, <2>2 DEF AggregationInv, GuardPassed, VersionPins, Shapes, Write
      <3>2. Forward
        BY <1>1, <3>1, LandForward
      <3>. QED
        BY <2>0, <3>2 DEF Forward
    <2>3. ASSUME NEW w \in strays, StrayLands(w)
          PROVE  (doc.status = "final" => doc'.status = "final") /\ doc'.epoch >= doc.epoch
      <3>1. /\ w.run \in Run /\ w.is_final \in BOOLEAN /\ w.expected \in Nat
            /\ EpochOf[w.run] <= fence.epoch /\ Pins(EpochOf[w.run], w.is_final, w.expected)
            /\ Land(w.run, w.is_final, w.expected)
        BY <1>1, <2>3 DEF AggregationInv, Shapes, GuardPassed, VersionPins, StrayLands
      <3>2. Forward
        BY <1>1, <3>1, LandForward
      <3>. QED
        BY <2>0, <3>2 DEF Forward
    <2>4. \/ UNCHANGED doc
          \/ \E r \in Run : Write(r)
          \/ \E w \in strays : StrayLands(w)
      BY <1>1 DEF Next, RunStep, Grant, RefreshInterim, AttemptFails, RunFails, Aggregate, Read,
                  Guard, Find, add_to_set, AfterAttempt, MarkGuard, Mark, Reopen, Finished, vars
    <2>. QED
      BY <2>1, <2>2, <2>3, <2>4
  <1>. QED
    BY <1>1, AggregationInvAlways, PTL DEF Spec, RecordNeverRegresses
=============================================================================
