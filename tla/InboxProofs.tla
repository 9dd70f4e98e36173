----------------------------- MODULE InboxProofs ----------------------------
(***************************************************************************)
(* Theorems about Inbox, for every set of entries, any number of runs and  *)
(* every delivery cap.                                                     *)
(***************************************************************************)
EXTENDS Inbox, FiniteSetTheorems, TLAPS

Stage == {"none", "idle", "consume", "poison", "batch", "acks", "each", "ack", "quarantine",
          "rest", "subscribed", "counted", "waiting", "ended"}
Work == UNION {[S -> Nat] : S \in SUBSET Entry}
RunRec == [pc : Stage, work : Work, cur : SUBSET Entry, total : Nat, heard : BOOLEAN]
Message == [count : Nat, claimed : BOOLEAN]

Appended == {i \in Entry : kind[i] # "none"}

Shapes ==
    /\ run \in [Epoch -> RunRec]
    /\ messages \in UNION {[S -> Message] : S \in SUBSET Entry}
    /\ IsFiniteSet(Appended)

\* Only a granted epoch runs.
Granted == \A e \in Epoch : run[e].pc # "none" => e <= minted

\* An entry is quarantined when it leaves the inbox, and leaves it once.
QuarantineIsFinal == \A i \in Entry : quarantined[i] > 0 => kind[i] # "none" /\ i \notin Pending

\* What a run is about to ack is durable; what it is about to quarantine for
\* its delivery count has failed on its own.
AckedWhenApplied ==
    \A e \in Epoch : /\ run[e].pc = "acks" => DOMAIN run[e].work \subseteq applied
                     /\ run[e].pc = "ack" => run[e].cur \subseteq applied
                     /\ run[e].pc = "quarantine" => run[e].cur \subseteq ownFailures

\* A total that has become short is made good by a wakeup.
CountHonest ==
    \A e \in Epoch : run[e].pc = "counted" =>
        /\ run[e].total <= XLen
        /\ run[e].total = XLen \/ run[e].heard \/ unpublished # {} \/ orphaned

InboxInv ==
    /\ TypeOK /\ Shapes /\ Granted /\ QuarantineIsFinal /\ AckedWhenApplied /\ CountHonest
    /\ NoEntryLost /\ NoLostWakeup /\ HealthySurvivesItsBatch

-----------------------------------------------------------------------------
(* The operators the model is built from.                                  *)

\* A function from a set of entries is work, and its domain is that set.
LEMMA WorkFacts ==
    /\ NoWork \in Work /\ DOMAIN NoWork = {}
    /\ \A w \in Work : /\ DOMAIN w \subseteq Entry
                       /\ \A i \in DOMAIN w : w[i] \in Nat
    /\ \A S \in SUBSET Entry : [S -> Nat] \subseteq Work
  <1>1. \A S \in SUBSET Entry : [S -> Nat] \subseteq Work
    BY DEF Work
  <1>2. NoWork \in Work /\ DOMAIN NoWork = {}
    <2>1. NoWork \in [{} -> Nat]
      BY DEF NoWork
    <2>. QED
      BY <1>1, <2>1 DEF NoWork
  <1>3. \A w \in Work : DOMAIN w \subseteq Entry /\ \A i \in DOMAIN w : w[i] \in Nat
    BY DEF Work
  <1>. QED
    BY <1>1, <1>2, <1>3

LEMMA DropFacts ==
    ASSUME NEW w \in Work, NEW i
    PROVE  Drop(w, i) \in Work /\ DOMAIN Drop(w, i) = DOMAIN w \ {i}
  <1>1. DOMAIN w \subseteq Entry /\ \A j \in DOMAIN w : w[j] \in Nat
    BY WorkFacts
  <1>2. Drop(w, i) \in [DOMAIN w \ {i} -> Nat] /\ DOMAIN Drop(w, i) = DOMAIN w \ {i}
    BY <1>1 DEF Drop
  <1>3. DOMAIN w \ {i} \in SUBSET Entry
    BY <1>1
  <1>. QED
    BY <1>2, <1>3, WorkFacts

LEMMA MessageFacts ==
    ASSUME Shapes
    PROVE  /\ Pending \subseteq Entry
           /\ messages \in [Pending -> Message]
           /\ \A S \in SUBSET Entry : \A m \in [S -> Message] :
                  m \in UNION {[T -> Message] : T \in SUBSET Entry}
  BY DEF Shapes, Pending

LEMMA IdleFacts ==
    /\ Idle \in RunRec /\ Idle.pc = "idle" /\ Idle.cur = {} /\ Idle.work = NoWork
    /\ \A pc \in Stage, work \in Work, cur \in SUBSET Entry :
         /\ With(pc, work, cur) \in RunRec
         /\ With(pc, work, cur).pc = pc
         /\ With(pc, work, cur).work = work
         /\ With(pc, work, cur).cur = cur
  <1>1. NoWork \in Work
    BY WorkFacts
  <1>2. Idle \in RunRec /\ Idle.pc = "idle" /\ Idle.cur = {} /\ Idle.work = NoWork
    BY <1>1 DEF Idle, RunRec, Stage
  <1>3. ASSUME NEW pc \in Stage, NEW work \in Work, NEW cur \in SUBSET Entry
        PROVE  /\ With(pc, work, cur) \in RunRec
               /\ With(pc, work, cur).pc = pc
               /\ With(pc, work, cur).work = work
               /\ With(pc, work, cur).cur = cur
    BY <1>2 DEF With, RunRec
  <1>. QED
    BY <1>2, <1>3

\* Cardinality of a set with at most one element.
LEMMA OneAtMost ==
    /\ Cardinality({}) <= 1
    /\ \A i : Cardinality({i}) <= 1
  BY FS_EmptySet, FS_Singleton

-----------------------------------------------------------------------------

LEMMA InitInboxInv == Init => InboxInv
  <1> SUFFICES ASSUME Init PROVE InboxInv
    OBVIOUS
  <1> USE InboxAssumption
  <1>0. /\ kind = [i \in Entry |-> "none"] /\ messages = NoWork
        /\ quarantined = [i \in Entry |-> 0] /\ inbox_epoch = 0 /\ store_epoch = 0
        /\ applied = {} /\ minted = 0 /\ ownFailures = {} /\ unpublished = {}
        /\ orphaned = FALSE
    BY DEF Init
  <1>1. NoWork \in Work /\ DOMAIN NoWork = {} /\ Pending = {} /\ Appended = {}
    BY <1>0, WorkFacts DEF Pending, Appended
  <1>2. PICK t : t = [Idle EXCEPT !.pc = "none"]
    OBVIOUS
  <1>3. t \in RunRec /\ t.pc = "none" /\ t.work = NoWork /\ t.cur = {}
    BY <1>2, IdleFacts DEF RunRec, Stage
  <1>4. run = [e \in Epoch |-> t]
    BY <1>2 DEF Init
  <1>5. Shapes
    <2>1. messages \in [{} -> Message]
      BY <1>0 DEF NoWork
    <2>2. IsFiniteSet(Appended)
      BY <1>1, FS_EmptySet
    <2>. QED
      BY <1>3, <1>4, <2>1, <2>2 DEF Shapes
  <1>6. TypeOK
    <2>1. \A e \in Epoch : /\ run[e].pc = "none" /\ DOMAIN run[e].work = {}
                           /\ run[e].cur = {}
      BY <1>1, <1>3, <1>4
    <2>2. Cardinality({}) <= 1
      BY OneAtMost
    <2>3. DOMAIN messages = {}
      BY <1>0, <1>1
    <2>4. /\ kind \in [Entry -> Kind \cup {"none"}] /\ quarantined \in [Entry -> 0..1]
          /\ minted \in 0..MaxEpoch /\ inbox_epoch \in 0..minted /\ store_epoch \in 0..minted
      BY <1>0
    <2>5. /\ applied \subseteq Entry /\ ownFailures \subseteq Entry
          /\ unpublished \subseteq {i \in Entry : kind[i] # "none"} /\ orphaned \in BOOLEAN
          /\ DOMAIN messages \subseteq {i \in Entry : kind[i] # "none"}
      BY <1>0, <2>3
    <2>. QED
      BY <2>1, <2>2, <2>3, <2>4, <2>5 DEF TypeOK
  <1>7. Granted /\ QuarantineIsFinal /\ AckedWhenApplied /\ CountHonest
    BY <1>0, <1>3, <1>4 DEF Granted, QuarantineIsFinal, AckedWhenApplied, CountHonest
  <1>8. NoEntryLost /\ NoLostWakeup /\ HealthySurvivesItsBatch
    BY <1>0, <1>3, <1>4 DEF NoEntryLost, NoLostWakeup, HealthySurvivesItsBatch
  <1>. QED
    BY <1>5, <1>6, <1>7, <1>8 DEF InboxInv

\* What a run's new locals must satisfy, the rest of the state being the primed.
Fits(e, t) ==
    /\ t \in RunRec /\ t.pc # "none" /\ Cardinality(t.cur) <= 1
    /\ t.pc = "acks" => DOMAIN t.work \subseteq applied
    /\ t.pc = "ack" => t.cur \subseteq applied
    /\ t.pc = "quarantine" => t.cur \subseteq ownFailures
    /\ t.pc = "counted" =>
         /\ t.total <= XLen
         /\ t.total = XLen \/ t.heard \/ unpublished # {} \/ orphaned
    /\ t.pc = "waiting" /\ Pending # {} => t.heard \/ unpublished # {} \/ orphaned

\* A step of one run: the inbox may shrink, what is durable or has failed may
\* only grow, and nothing is lost on the way.
LEMMA RunStep ==
    ASSUME InboxInv, NEW e \in Epoch, NEW t,
           run[e].pc # "none", run' = [run EXCEPT ![e] = t], Fits(e, t)',
           UNCHANGED <<kind, unpublished, orphaned, minted>>,
           messages' \in UNION {[S -> Message] : S \in SUBSET Entry},
           Pending' \subseteq Pending,
           \A i \in Pending' : messages'[i].claimed <=> messages'[i].count > 0,
           quarantined' \in [Entry -> 0..1],
           applied \subseteq applied', applied' \subseteq Entry,
           ownFailures \subseteq ownFailures', ownFailures' \subseteq Entry,
           inbox_epoch' \in 0..minted, store_epoch' \in 0..minted,
           QuarantineIsFinal', NoEntryLost', HealthySurvivesItsBatch'
    PROVE  InboxInv'
  <1> USE InboxAssumption DEF InboxInv
  <1>1. /\ \A f \in Epoch : f # e => run'[f] = run[f]
        /\ run'[e] = t
    BY DEF Shapes
  <1>2. Shapes'
    BY DEF Shapes, Fits, Appended
  <1>3. TypeOK'
    <2>1. \A f \in Epoch : /\ run'[f] \in RunRec
                           /\ Cardinality(run'[f].cur) <= 1
      BY <1>1 DEF Shapes, Fits, TypeOK
    <2>2. \A f \in Epoch : run'[f].pc \in Stage /\ run'[f].cur \subseteq Entry
      BY <2>1 DEF RunRec
    <2>3. \A f \in Epoch : DOMAIN run'[f].work \subseteq Entry
      BY <2>1, WorkFacts DEF RunRec
    <2>4. \A i \in DOMAIN messages' : messages'[i].claimed \in BOOLEAN
      BY <1>2, MessageFacts DEF Shapes, Message
    <2>5. /\ kind' \in [Entry -> Kind \cup {"none"}]
          /\ minted' \in 0..MaxEpoch /\ orphaned' \in BOOLEAN
          /\ inbox_epoch' \in 0..minted' /\ store_epoch' \in 0..minted'
      BY DEF TypeOK
    <2>6. /\ unpublished' \subseteq {i \in Entry : kind'[i] # "none"}
          /\ DOMAIN messages' \subseteq {i \in Entry : kind'[i] # "none"}
      BY DEF TypeOK, Pending
    <2>. QED
      BY <2>1, <2>2, <2>3, <2>4, <2>5, <2>6 DEF TypeOK, Stage, Pending
  <1>4. Granted'
    BY <1>1 DEF Granted
  <1>5. AckedWhenApplied'
    BY <1>1 DEF AckedWhenApplied, Fits
  <1>6. CountHonest'
    BY <1>1 DEF CountHonest, Fits, XLen
  <1>7. NoLostWakeup'
    BY <1>1 DEF NoLostWakeup, Fits
  <1>. QED
    BY <1>2, <1>3, <1>4, <1>5, <1>6, <1>7

\* The stages that claim nothing about the rest of the state.
Quiet == {"idle", "consume", "poison", "batch", "each", "rest", "subscribed", "ended"}

\* A step that leaves the inbox alone.
LEMMA MoveStep ==
    ASSUME InboxInv, NEW e \in Epoch, NEW t,
           run[e].pc # "none", run' = [run EXCEPT ![e] = t], Fits(e, t)',
           UNCHANGED <<kind, messages, quarantined, inbox_epoch, unpublished, orphaned, minted>>,
           applied \subseteq applied', applied' \subseteq Entry,
           ownFailures \subseteq ownFailures', ownFailures' \subseteq Entry,
           store_epoch' \in 0..minted
    PROVE  InboxInv'
  <1> USE DEF InboxInv
  <1>1. /\ messages' \in UNION {[S -> Message] : S \in SUBSET Entry}
        /\ Pending' \subseteq Pending
        /\ \A i \in Pending' : messages'[i].claimed <=> messages'[i].count > 0
        /\ quarantined' \in [Entry -> 0..1] /\ inbox_epoch' \in 0..minted
    BY DEF Shapes, TypeOK, Pending
  <1>2. QuarantineIsFinal' /\ NoEntryLost' /\ HealthySurvivesItsBatch'
    BY DEF QuarantineIsFinal, NoEntryLost, HealthySurvivesItsBatch, Pending
  <1>. QED
    BY <1>1, <1>2, RunStep

\* A delivery claims entries and spends their counts; it removes nothing.
LEMMA DeliverStep ==
    ASSUME InboxInv, NEW e \in Epoch, NEW t, NEW S,
           run[e].pc # "none", run' = [run EXCEPT ![e] = t], Fits(e, t)',
           messages' = Delivered(S),
           UNCHANGED <<kind, quarantined, inbox_epoch, unpublished, orphaned, minted, applied,
                       store_epoch, ownFailures>>
    PROVE  InboxInv'
  <1> USE DEF InboxInv
  <1>1. /\ Pending \subseteq Entry /\ messages \in [Pending -> Message]
        /\ \A i \in Pending : messages[i].claimed <=> messages[i].count > 0
    BY MessageFacts DEF TypeOK, Pending
  <1>2. messages' \in [Pending -> Message]
    BY <1>1 DEF Delivered, Message
  <1>3. Pending' = Pending /\ messages' \in UNION {[T -> Message] : T \in SUBSET Entry}
    BY <1>1, <1>2 DEF Pending
  <1>4. \A i \in Pending' : messages'[i].claimed <=> messages'[i].count > 0
    <2>1. SUFFICES ASSUME NEW i \in Pending
                   PROVE  messages'[i].claimed <=> messages'[i].count > 0
      BY <1>3
    <2>2. messages[i] \in Message /\ (messages[i].claimed <=> messages[i].count > 0)
      BY <1>1
    <2>3. CASE i \in S
      <3>1. messages'[i] = [count |-> messages[i].count + 1, claimed |-> TRUE]
        BY <2>3 DEF Delivered
      <3>. QED
        BY <2>2, <3>1 DEF Message
    <2>4. CASE i \notin S
      BY <2>2, <2>4 DEF Delivered
    <2>. QED
      BY <2>3, <2>4
  <1>5. /\ quarantined' \in [Entry -> 0..1] /\ inbox_epoch' \in 0..minted
        /\ store_epoch' \in 0..minted /\ applied' \subseteq Entry /\ ownFailures' \subseteq Entry
    BY DEF TypeOK
  <1>6. QuarantineIsFinal' /\ NoEntryLost' /\ HealthySurvivesItsBatch'
    BY <1>3 DEF QuarantineIsFinal, NoEntryLost, HealthySurvivesItsBatch
  <1>. QED
    BY <1>3, <1>4, <1>5, <1>6, RunStep

\* An entry that is durable is acked, or one that is not healthy or has failed
\* on its own is quarantined; either does nothing to one that is not claimed.
LEMMA RemoveStep ==
    ASSUME InboxInv, NEW e \in Epoch, NEW t, NEW i \in Entry,
           run[e].pc # "none", run' = [run EXCEPT ![e] = t], Fits(e, t)',
           messages' = removed(i), inbox_epoch' = e,
           \/ i \in applied /\ UNCHANGED quarantined
           \/ quarantined' = recorded(i) /\ (kind[i] = "good" => i \in ownFailures),
           UNCHANGED <<kind, unpublished, orphaned, minted, applied, store_epoch, ownFailures>>
    PROVE  InboxInv'
  <1> USE DEF InboxInv
  <1>1. /\ Pending \subseteq Entry /\ messages \in [Pending -> Message]
        /\ \A j \in Pending : messages[j].claimed <=> messages[j].count > 0
        /\ quarantined \in [Entry -> 0..1] /\ Pending \subseteq {j \in Entry : kind[j] # "none"}
    BY MessageFacts DEF TypeOK, Pending
  <1>2. inbox_epoch' \in 0..minted
    BY DEF Granted, Epoch, TypeOK
  <1>3. /\ store_epoch' \in 0..minted /\ applied' \subseteq Entry /\ ownFailures' \subseteq Entry
    BY DEF TypeOK
  <1>4. CASE ~(i \in Pending /\ messages[i].claimed)
    <2>1. messages' = messages /\ quarantined' = quarantined /\ Pending' = Pending
      BY <1>4 DEF removed, recorded, Pending
    <2>2. messages' \in UNION {[T -> Message] : T \in SUBSET Entry}
      BY <2>1 DEF Shapes
    <2>3. QuarantineIsFinal' /\ NoEntryLost' /\ HealthySurvivesItsBatch'
      BY <2>1 DEF QuarantineIsFinal, NoEntryLost, HealthySurvivesItsBatch
    <2>. QED
      BY <1>1, <1>2, <1>3, <2>1, <2>2, <2>3, RunStep
  <1>5. CASE i \in Pending /\ messages[i].claimed
    <2>1. messages' = [j \in Pending \ {i} |-> messages[j]]
      BY <1>5 DEF removed, Drop, Pending
    <2>2. /\ messages' \in [Pending \ {i} -> Message] /\ Pending' = Pending \ {i}
          /\ \A j \in Pending' : messages'[j] = messages[j]
      BY <1>1, <2>1 DEF Pending
    <2>3. messages' \in UNION {[T -> Message] : T \in SUBSET Entry}
      BY <1>1, <2>2
    <2>4. quarantined[i] = 0
      BY <1>1, <1>5 DEF QuarantineIsFinal
    <2>5. /\ quarantined' \in [Entry -> 0..1]
          /\ \A j \in Entry : j # i => quarantined'[j] = quarantined[j]
          /\ quarantined'[i] = 0 => i \in applied
          /\ quarantined'[i] > 0 => (kind[i] = "good" => i \in ownFailures)
      <3>1. CASE i \in applied /\ UNCHANGED quarantined
        BY <1>1, <2>4, <3>1
      <3>2. CASE quarantined' = recorded(i) /\ (kind[i] = "good" => i \in ownFailures)
        <4>1. quarantined' = [quarantined EXCEPT ![i] = 1]
          BY <1>1, <1>5, <2>4, <3>2 DEF recorded
        <4>. QED
          BY <1>1, <3>2, <4>1
      <3>. QED
        BY <3>1, <3>2
    <2>6. QuarantineIsFinal'
      BY <1>1, <1>5, <2>2, <2>5 DEF QuarantineIsFinal
    <2>7. NoEntryLost'
      BY <1>1, <2>2, <2>5 DEF NoEntryLost
    <2>8. HealthySurvivesItsBatch'
      BY <2>5 DEF HealthySurvivesItsBatch
    <2>. QED
      BY <1>1, <1>2, <1>3, <2>2, <2>3, <2>5, <2>6, <2>7, <2>8, RunStep
  <1>. QED
    BY <1>4, <1>5

\* Locals in a stage that claims nothing fit whatever else happens.
LEMMA QuietFits ==
    ASSUME NEW e \in Epoch, NEW t \in RunRec, t.pc \in Quiet, t.cur = {}
    PROVE  Fits(e, t) /\ Fits(e, t)'
  BY OneAtMost DEF Fits, Quiet

LEMMA EndFacts ==
    ASSUME NEW e \in Epoch, End(e)
    PROVE  \E t \in RunRec : run' = [run EXCEPT ![e] = t] /\ t.pc = "ended" /\ t.cur = {}
  <1>1. PICK t : t = [Idle EXCEPT !.pc = "ended"]
    OBVIOUS
  <1>2. t \in RunRec /\ t.pc = "ended" /\ t.cur = {}
    BY <1>1, IdleFacts DEF RunRec, Stage
  <1>3. run' = [run EXCEPT ![e] = t]
    BY <1>1 DEF End
  <1>. QED
    BY <1>2, <1>3

LEMMA StageFacts ==
    /\ \A work : NextStage(work) \in {"poison", "batch", "each", "rest"}
    /\ Quiet \subseteq Stage
    /\ {"poison", "batch", "each", "rest"} \subseteq Quiet
  BY DEF NextStage, Quiet, Stage

\* Delivering, to a reclaim or to a consume.
LEMMA DeliveryInv ==
    ASSUME InboxInv, NEW e \in Epoch, Reclaim(e) \/ Consume(e) PROVE InboxInv'
  <1>0. /\ TypeOK /\ Shapes /\ run[e] \in RunRec /\ DOMAIN run[e].work \subseteq Entry
        /\ \A i \in DOMAIN run[e].work : run[e].work[i] \in Nat
    BY WorkFacts DEF InboxInv, Shapes, RunRec
  <1>1. /\ Pending \subseteq Entry /\ \A i \in Pending : messages[i].count \in Nat
    BY <1>0, MessageFacts DEF Message
  <1>3. CASE End(e)
    <2>1. PICK t \in RunRec : run' = [run EXCEPT ![e] = t] /\ t.pc = "ended" /\ t.cur = {}
      BY <1>3, EndFacts
    <2>2. Fits(e, t)'
      BY <2>1, QuietFits DEF Quiet
    <2>3. PICK S : /\ messages' = Delivered(S)
                   /\ run[e].pc # "none"
                   /\ UNCHANGED <<kind, quarantined, inbox_epoch, unpublished, orphaned, minted,
                                  applied, store_epoch, ownFailures>>
      BY DEF Reclaim, Consume, wakeupVars
    <2>. QED
      BY <2>1, <2>2, <2>3, DeliverStep
  <1>4. CASE Reclaim(e) /\ ~End(e)
    <2>1. PICK S : S = Deliverable(TRUE)
      OBVIOUS
    <2>2. PICK work : work = [i \in S |-> messages[i].count + 1]
      OBVIOUS
    <2>3. PICK t : t = With("consume", work, {})
      OBVIOUS
    <2>4. /\ messages' = Delivered(S) /\ run[e].pc # "none"
          /\ run' = [run EXCEPT ![e] = t]
          /\ UNCHANGED <<kind, quarantined, inbox_epoch, unpublished, orphaned, minted,
                         applied, store_epoch, ownFailures>>
      BY <1>4, <2>1, <2>2, <2>3 DEF Reclaim, wakeupVars
    <2>5. work \in Work
      <3>0. S \subseteq Pending
        BY <2>1 DEF Deliverable
      <3>1. S \in SUBSET Entry /\ work \in [S -> Nat]
        BY <1>1, <2>2, <3>0
      <3>. QED
        BY <3>1, WorkFacts
    <2>6. t \in RunRec /\ t.pc = "consume" /\ t.cur = {}
      BY <2>3, <2>5, IdleFacts DEF Stage
    <2>7. Fits(e, t)'
      BY <2>6, QuietFits DEF Quiet
    <2>. QED
      BY <2>4, <2>7, DeliverStep
  <1>5. CASE Consume(e) /\ ~End(e)
    <2>1. PICK S : S = Deliverable(FALSE)
      OBVIOUS
    <2>2. PICK work : work = [i \in DOMAIN run[e].work \cup S |->
                                IF i \in S THEN messages[i].count + 1 ELSE run[e].work[i]]
      OBVIOUS
    <2>3. PICK t : t = With(NextStage(work), work, {})
      OBVIOUS
    <2>4. /\ messages' = Delivered(S) /\ run[e].pc # "none"
          /\ run' = [run EXCEPT ![e] = t]
          /\ UNCHANGED <<kind, quarantined, inbox_epoch, unpublished, orphaned, minted,
                         applied, store_epoch, ownFailures>>
      BY <1>5, <2>1, <2>2, <2>3 DEF Consume, wakeupVars
    <2>5. work \in Work
      <3>0. S \subseteq Pending
        BY <2>1 DEF Deliverable
      <3>1. /\ DOMAIN run[e].work \cup S \in SUBSET Entry
            /\ work \in [DOMAIN run[e].work \cup S -> Nat]
        BY <1>0, <1>1, <2>2, <3>0
      <3>. QED
        BY <3>1, WorkFacts
    <2>6. t \in RunRec /\ t.pc \in Quiet /\ t.cur = {}
      BY <2>3, <2>5, IdleFacts, StageFacts
    <2>7. Fits(e, t)'
      BY <2>6, QuietFits
    <2>. QED
      BY <2>4, <2>7, DeliverStep
  <1>. QED
    BY <1>3, <1>4, <1>5

\* A fenced ack or quarantine ends the run and changes nothing else.
LEMMA EndStep ==
    ASSUME InboxInv, NEW e \in Epoch, run[e].pc # "none", End(e),
           UNCHANGED <<kind, messages, quarantined, inbox_epoch, unpublished, orphaned, minted,
                       applied, ownFailures, store_epoch>>
    PROVE  InboxInv'
  <1>1. PICK t \in RunRec : run' = [run EXCEPT ![e] = t] /\ t.pc = "ended" /\ t.cur = {}
    BY EndFacts
  <1>2. Fits(e, t)'
    BY <1>1, QuietFits DEF Quiet
  <1>3. applied' \subseteq Entry /\ ownFailures' \subseteq Entry /\ store_epoch' \in 0..minted
    BY DEF InboxInv, TypeOK
  <1>. QED
    BY <1>1, <1>2, <1>3, MoveStep

\* ack and quarantine, of an entry of the run's own work.
LEMMA SettleInv ==
    ASSUME InboxInv, NEW e \in Epoch,
           QuarantinePoison(e) \/ QuarantineCapped(e) \/ AckBatch(e) \/ AckEach(e)
    PROVE  InboxInv'
  <1> USE DEF wakeupVars
  <1>0. /\ run[e] \in RunRec /\ run[e].work \in Work /\ DOMAIN run[e].work \subseteq Entry
        /\ run[e].cur \subseteq Entry /\ AckedWhenApplied
    BY WorkFacts DEF InboxInv, Shapes, RunRec
  <1>1. ASSUME NEW i \in Entry, NEW stage \in Quiet, run[e].pc # "none",
               kind[i] = "good" => i \in ownFailures,
               QuarantineEntry(e, i, Drop(run[e].work, i), stage)
        PROVE  InboxInv'
    <2>1. CASE InboxAccepts(e)
      <3>1. PICK t : t = With(stage, Drop(run[e].work, i), {})
        OBVIOUS
      <3>2. t \in RunRec /\ t.pc \in Quiet /\ t.cur = {}
        <4>1. Drop(run[e].work, i) \in Work
          BY <1>0, DropFacts
        <4>. QED
          BY <3>1, <4>1, IdleFacts, StageFacts
      <3>3. Fits(e, t)'
        BY <3>2, QuietFits
      <3>4. /\ run' = [run EXCEPT ![e] = t] /\ messages' = removed(i) /\ inbox_epoch' = e
            /\ quarantined' = recorded(i)
            /\ UNCHANGED <<kind, unpublished, orphaned, minted, applied, store_epoch, ownFailures>>
        BY <1>1, <2>1, <3>1 DEF QuarantineEntry
      <3>. QED
        BY <1>1, <3>3, <3>4, RemoveStep
    <2>2. CASE ~InboxAccepts(e)
      BY <1>1, <2>2, EndStep DEF QuarantineEntry
    <2>. QED
      BY <2>1, <2>2
  <1>2. ASSUME NEW i \in Entry, NEW stage \in Quiet \cup {"acks"}, run[e].pc # "none",
               i \in applied, stage = "acks" => DOMAIN run[e].work \subseteq applied,
               AckEntry(e, i, Drop(run[e].work, i), stage)
        PROVE  InboxInv'
    <2>1. CASE InboxAccepts(e)
      <3>0. PICK pc : pc = IF Drop(run[e].work, i) = NoWork THEN "rest" ELSE stage
        OBVIOUS
      <3>1. PICK t : t = With(pc, Drop(run[e].work, i), {})
        OBVIOUS
      <3>2. pc \in Quiet \cup {"acks"} /\ pc \in Stage /\ (pc = "acks" => stage = "acks")
        BY <3>0 DEF Quiet, Stage
      <3>3. t \in RunRec /\ t.pc = pc /\ t.cur = {} /\ t.work = Drop(run[e].work, i)
        <4>1. Drop(run[e].work, i) \in Work
          BY <1>0, DropFacts
        <4>. QED
          BY <3>1, <3>2, <4>1, IdleFacts
      <3>4. /\ run' = [run EXCEPT ![e] = t] /\ messages' = removed(i) /\ inbox_epoch' = e
            /\ UNCHANGED <<quarantined, kind, unpublished, orphaned, minted, applied, store_epoch,
                           ownFailures>>
        BY <1>2, <2>1, <3>0, <3>1 DEF AckEntry
      <3>5. Fits(e, t)'
        <4>1. CASE pc \in Quiet
          BY <3>3, <4>1, QuietFits
        <4>2. CASE pc = "acks"
          <5>1. DOMAIN t.work \subseteq applied'
            <6>1. DOMAIN t.work = DOMAIN run[e].work \ {i}
              BY <1>0, <3>3, DropFacts
            <6>. QED
              BY <1>2, <3>2, <3>4, <4>2, <6>1
          <5>. QED
            BY <3>3, <4>2, <5>1, OneAtMost DEF Fits
        <4>. QED
          BY <3>2, <4>1, <4>2
      <3>. QED
        BY <1>2, <3>4, <3>5, RemoveStep
    <2>2. CASE ~InboxAccepts(e)
      BY <1>2, <2>2, EndStep DEF AckEntry
    <2>. QED
      BY <2>1, <2>2
  <1>3. CASE QuarantinePoison(e)
    <2>1. PICK i \in DOMAIN run[e].work :
              /\ run[e].pc = "poison" /\ is_poison(i)
              /\ QuarantineEntry(e, i, Drop(run[e].work, i), NextStage(Drop(run[e].work, i)))
      BY <1>3 DEF QuarantinePoison
    <2>2. kind[i] # "good" /\ i \in Entry
      BY <1>0, <2>1 DEF is_poison
    <2>3. NextStage(Drop(run[e].work, i)) \in Quiet
      BY StageFacts
    <2>. QED
      BY <1>1, <2>1, <2>2, <2>3
  <1>4. CASE QuarantineCapped(e)
    <2>1. PICK i \in run[e].cur :
              /\ run[e].pc = "quarantine"
              /\ QuarantineEntry(e, i, Drop(run[e].work, i),
                                 IF Drop(run[e].work, i) = NoWork THEN "rest" ELSE "each")
      BY <1>4 DEF QuarantineCapped
    <2>2. i \in ownFailures /\ i \in Entry
      BY <1>0, <2>1 DEF AckedWhenApplied
    <2>3. (IF Drop(run[e].work, i) = NoWork THEN "rest" ELSE "each") \in Quiet
      BY DEF Quiet
    <2>. QED
      BY <1>1, <2>1, <2>2, <2>3
  <1>5. CASE AckBatch(e)
    <2>1. PICK i \in DOMAIN run[e].work :
              run[e].pc = "acks" /\ AckEntry(e, i, Drop(run[e].work, i), "acks")
      BY <1>5 DEF AckBatch
    <2>2. DOMAIN run[e].work \subseteq applied /\ i \in Entry
      BY <1>0, <2>1 DEF AckedWhenApplied
    <2>. QED
      BY <1>2, <2>1, <2>2
  <1>6. CASE AckEach(e)
    <2>1. PICK i \in run[e].cur :
              run[e].pc = "ack" /\ AckEntry(e, i, Drop(run[e].work, i), "each")
      BY <1>6 DEF AckEach
    <2>2. i \in applied /\ i \in Entry /\ "each" \in Quiet
      BY <1>0, <2>1 DEF AckedWhenApplied, Quiet
    <2>. QED
      BY <1>2, <2>1, <2>2
  <1>. QED
    BY <1>3, <1>4, <1>5, <1>6

\* Applying a batch or a single entry, and failing to.
LEMMA ApplyInv ==
    ASSUME InboxInv, NEW e \in Epoch,
           ApplyBatch(e) \/ BatchFails(e) \/ ApplyEach(e) \/ EachFails(e)
    PROVE  InboxInv'
  <1> USE DEF inboxVars, wakeupVars
  <1>0. /\ run[e] \in RunRec /\ run[e].work \in Work /\ DOMAIN run[e].work \subseteq Entry
        /\ run[e].cur \subseteq Entry /\ Cardinality(run[e].cur) <= 1
        /\ applied \subseteq Entry /\ ownFailures \subseteq Entry /\ store_epoch \in 0..minted
        /\ minted \in Nat /\ e \in Nat
        /\ run[e].pc # "none" => e <= minted
    BY WorkFacts, InboxAssumption DEF InboxInv, Shapes, RunRec, TypeOK, Granted, Epoch
  <1>1. CASE ApplyBatch(e)
    <2>1. /\ run[e].pc = "batch"
          /\ UNCHANGED <<kind, messages, quarantined, inbox_epoch, unpublished, orphaned, minted,
                         ownFailures>>
      BY <1>1 DEF ApplyBatch
    <2>2. CASE StoreAccepts(e)
      <3>1. PICK t : t = [run[e] EXCEPT !.pc = "acks"]
        OBVIOUS
      <3>2. /\ run' = [run EXCEPT ![e] = t]
            /\ store_epoch' = e /\ applied' = applied \cup DOMAIN run[e].work
        BY <1>1, <2>2, <3>1 DEF ApplyBatch, Go
      <3>3. /\ t \in RunRec /\ t.pc = "acks" /\ t.cur = run[e].cur /\ t.work = run[e].work
        BY <1>0, <3>1 DEF RunRec, Stage
      <3>4. Fits(e, t)'
        BY <1>0, <3>2, <3>3 DEF Fits
      <3>5. store_epoch' \in 0..minted
        BY <1>0, <2>1, <3>2
      <3>. QED
        BY <1>0, <2>1, <3>2, <3>4, <3>5, MoveStep
    <2>3. CASE ~StoreAccepts(e)
      BY <1>1, <2>1, <2>3, EndStep DEF ApplyBatch
    <2>. QED
      BY <2>2, <2>3
  <1>2. CASE BatchFails(e)
    <2>1. PICK t : t = [run[e] EXCEPT !.pc = "each"]
      OBVIOUS
    <2>2. /\ run' = [run EXCEPT ![e] = t] /\ run[e].pc = "batch"
          /\ UNCHANGED <<kind, messages, quarantined, inbox_epoch, unpublished, orphaned, minted,
                         ownFailures, applied, store_epoch>>
      BY <1>2, <2>1 DEF BatchFails, Go, after_failed_batch
    <2>3. t \in RunRec /\ t.pc = "each" /\ t.cur = run[e].cur
      BY <1>0, <2>1 DEF RunRec, Stage
    <2>4. Fits(e, t)'
      BY <1>0, <2>3 DEF Fits
    <2>. QED
      BY <1>0, <2>2, <2>4, MoveStep
  <1>3. CASE ApplyEach(e)
    <2>1. PICK i \in DOMAIN run[e].work :
              /\ run[e].pc = "each"
              /\ IF StoreAccepts(e)
                 THEN /\ store_epoch' = e
                      /\ applied' = applied \cup {i}
                      /\ run' = [run EXCEPT ![e].pc = "ack", ![e].cur = {i}]
                 ELSE End(e) /\ UNCHANGED <<store_epoch, applied>>
              /\ UNCHANGED <<kind, messages, quarantined, inbox_epoch, unpublished, orphaned,
                             minted, ownFailures>>
      BY <1>3 DEF ApplyEach
    <2>2. CASE StoreAccepts(e)
      <3>1. PICK t : t = [run[e] EXCEPT !.pc = "ack", !.cur = {i}]
        OBVIOUS
      <3>2. /\ run' = [run EXCEPT ![e] = t]
            /\ store_epoch' = e /\ applied' = applied \cup {i}
        BY <1>0, <2>1, <2>2, <3>1 DEF RunRec
      <3>3. t \in RunRec /\ t.pc = "ack" /\ t.cur = {i}
        BY <1>0, <3>1 DEF RunRec, Stage
      <3>4. Fits(e, t)'
        BY <3>2, <3>3, OneAtMost DEF Fits
      <3>5. store_epoch' \in 0..minted /\ applied' \subseteq Entry
        BY <1>0, <2>1, <3>2
      <3>. QED
        BY <1>0, <2>1, <3>2, <3>4, <3>5, MoveStep
    <2>3. CASE ~StoreAccepts(e)
      BY <2>1, <2>3, EndStep
    <2>. QED
      BY <2>2, <2>3
  <1>4. CASE EachFails(e)
    <2>1. PICK i \in DOMAIN run[e].work :
              /\ run[e].pc = "each"
              /\ ownFailures' = ownFailures \cup {i}
              /\ run' = [run EXCEPT ![e] =
                   IF run[e].work[i] >= max_inbox_deliveries
                   THEN With("quarantine", run[e].work, {i})
                   ELSE With(IF Drop(run[e].work, i) = NoWork THEN "rest" ELSE "each",
                             Drop(run[e].work, i), {})]
              /\ UNCHANGED <<kind, messages, quarantined, inbox_epoch, unpublished, orphaned,
                             minted, applied, store_epoch>>
      BY <1>4 DEF EachFails
    <2>2. PICK t : t = IF run[e].work[i] >= max_inbox_deliveries
                       THEN With("quarantine", run[e].work, {i})
                       ELSE With(IF Drop(run[e].work, i) = NoWork THEN "rest" ELSE "each",
                                 Drop(run[e].work, i), {})
      OBVIOUS
    <2>3. run' = [run EXCEPT ![e] = t]
      BY <2>1, <2>2
    <2>4. Drop(run[e].work, i) \in Work
      BY <1>0, DropFacts
    <2>5. /\ t \in RunRec
          /\ \/ t.pc = "quarantine" /\ t.cur = {i}
             \/ t.pc \in {"rest", "each"} /\ t.cur = {}
      <3>1. CASE run[e].work[i] >= max_inbox_deliveries
        <4>1. t = With("quarantine", run[e].work, {i}) /\ {i} \in SUBSET Entry
          BY <1>0, <2>2, <3>1
        <4>. QED
          BY <1>0, <4>1, IdleFacts DEF Stage
      <3>2. CASE ~(run[e].work[i] >= max_inbox_deliveries)
        <4>0. PICK pc : pc = IF Drop(run[e].work, i) = NoWork THEN "rest" ELSE "each"
          OBVIOUS
        <4>1. t = With(pc, Drop(run[e].work, i), {}) /\ pc \in {"rest", "each"} /\ pc \in Stage
          BY <2>2, <3>2, <4>0 DEF Stage
        <4>. QED
          BY <2>4, <4>1, IdleFacts
      <3>. QED
        BY <3>1, <3>2
    <2>6. Fits(e, t)'
      BY <2>1, <2>5, OneAtMost DEF Fits
    <2>7. ownFailures' \subseteq Entry
      BY <1>0, <2>1
    <2>. QED
      BY <1>0, <2>1, <2>3, <2>6, <2>7, MoveStep
  <1>. QED
    BY <1>1, <1>2, <1>3, <1>4

\* What pending_count subtracts: no entry is pending when the total read covers
\* everything appended and is not above the entries settled.
LEMMA CountFacts ==
    ASSUME InboxInv
    PROVE  /\ XLen \in Nat /\ Cardinality(Pending) \in Nat /\ Cardinality(Pending) <= XLen
           /\ Cardinality(Pending) = 0 => Pending = {}
  <1>1. IsFiniteSet(Appended) /\ Pending \subseteq Appended
    BY DEF InboxInv, Shapes, TypeOK, Pending, Appended
  <1>2. /\ IsFiniteSet(Pending) /\ Cardinality(Pending) <= Cardinality(Appended)
    BY <1>1, FS_Subset
  <1>3. Cardinality(Appended) \in Nat /\ Cardinality(Pending) \in Nat
    BY <1>1, <1>2, FS_CardinalityType
  <1>4. Cardinality(Pending) = 0 => Pending = {}
    BY <1>2, FS_EmptySet
  <1>5. XLen = Cardinality(Appended)
    BY DEF XLen, Appended
  <1>. QED
    BY <1>2, <1>3, <1>4, <1>5

\* Waiting for the next entry, and the end of a run.
LEMMA WaitInv ==
    ASSUME InboxInv, NEW e \in Epoch,
           \/ Subscribe(e) \/ CountTotal(e) \/ CountAcked(e) \/ Woken(e)
           \/ OtherSignal(e) \/ RunEnds(e)
    PROVE  InboxInv'
  <1> USE DEF inboxVars, wakeupVars
  <1>0. /\ run[e] \in RunRec /\ Cardinality(run[e].cur) <= 1
        /\ applied \subseteq Entry /\ ownFailures \subseteq Entry /\ store_epoch \in 0..minted
    BY DEF InboxInv, Shapes, TypeOK
  <1>1. /\ run[e].pc # "none"
        /\ UNCHANGED <<kind, messages, quarantined, inbox_epoch, unpublished, orphaned, minted,
                       ownFailures, applied, store_epoch>>
    BY DEF Subscribe, CountTotal, CountAcked, Woken, OtherSignal, RunEnds
  <1>2. CASE Subscribe(e)
    <2>1. PICK t : t = With("subscribed", NoWork, {})
      OBVIOUS
    <2>2. t \in RunRec /\ t.pc = "subscribed" /\ t.cur = {}
      BY <2>1, WorkFacts, IdleFacts DEF Stage
    <2>3. Fits(e, t)'
      BY <2>2, QuietFits DEF Quiet
    <2>4. run' = [run EXCEPT ![e] = t]
      BY <1>2, <2>1 DEF Subscribe
    <2>. QED
      BY <1>0, <1>1, <2>3, <2>4, MoveStep
  <1>3. CASE CountTotal(e)
    <2>1. PICK t : t = [run[e] EXCEPT !.pc = "counted", !.total = XLen]
      OBVIOUS
    <2>2. XLen \in Nat /\ XLen' = XLen
      BY <1>1, CountFacts DEF XLen
    <2>3. t \in RunRec /\ t.pc = "counted" /\ t.cur = run[e].cur /\ t.total = XLen
      BY <1>0, <2>1, <2>2 DEF RunRec, Stage
    <2>4. Fits(e, t)'
      BY <1>0, <2>2, <2>3 DEF Fits
    <2>5. run' = [run EXCEPT ![e] = t]
      BY <1>0, <1>3, <2>1 DEF CountTotal, RunRec
    <2>. QED
      BY <1>0, <1>1, <2>4, <2>5, MoveStep
  <1>4. CASE CountAcked(e)
    <2>1. CASE run[e].total > Acked
      <3>1. run' = [run EXCEPT ![e] = Idle]
        BY <1>4, <2>1 DEF CountAcked
      <3>2. Fits(e, Idle)'
        BY IdleFacts, QuietFits DEF Quiet
      <3>. QED
        BY <1>0, <1>1, <3>1, <3>2, MoveStep
    <2>2. CASE ~(run[e].total > Acked)
      <3>1. PICK t : t = [run[e] EXCEPT !.pc = "waiting", !.total = 0]
        OBVIOUS
      <3>2. run' = [run EXCEPT ![e] = t]
        BY <1>4, <2>2, <3>1 DEF CountAcked
      <3>3. t \in RunRec /\ t.pc = "waiting" /\ t.cur = run[e].cur /\ t.heard = run[e].heard
        BY <1>0, <3>1 DEF RunRec, Stage
      <3>4. Pending # {} => run[e].heard \/ unpublished # {} \/ orphaned
        <4>1. run[e].total = XLen => Pending = {}
          <5>1. run[e].total \in Nat /\ Acked = XLen - Cardinality(Pending)
            BY <1>0 DEF RunRec, Acked
          <5>. QED
            BY <2>2, <5>1, CountFacts
        <4>. QED
          BY <1>4, <4>1 DEF InboxInv, CountHonest, CountAcked
      <3>5. Pending' = Pending
        BY <1>1 DEF Pending
      <3>6. Fits(e, t)'
        BY <1>0, <1>1, <3>3, <3>4, <3>5 DEF Fits
      <3>. QED
        BY <1>0, <1>1, <3>2, <3>6, MoveStep
    <2>. QED
      BY <2>1, <2>2
  <1>5. CASE Woken(e) \/ OtherSignal(e)
    <2>1. run' = [run EXCEPT ![e] = Idle]
      BY <1>5 DEF Woken, OtherSignal
    <2>2. Fits(e, Idle)'
      BY IdleFacts, QuietFits DEF Quiet
    <2>. QED
      BY <1>0, <1>1, <2>1, <2>2, MoveStep
  <1>6. CASE RunEnds(e)
    BY <1>1, <1>6, EndStep DEF RunEnds
  <1>. QED
    BY <1>2, <1>3, <1>4, <1>5, <1>6

\* An append makes every count short, and itself the wakeup still to come.
LEMMA AppendInv ==
    ASSUME InboxInv, NEW i \in Entry, NEW k \in Kind, Append(i, k) PROVE InboxInv'
  <1> USE InboxAssumption DEF InboxInv
  <1>1. /\ kind[i] = "none" /\ kind' = [kind EXCEPT ![i] = k] /\ unpublished' = unpublished \cup {i}
        /\ messages' = [j \in Pending \cup {i} |->
                          IF j = i THEN [count |-> 0, claimed |-> FALSE] ELSE messages[j]]
        /\ UNCHANGED <<quarantined, inbox_epoch, applied, store_epoch, minted, run,
                       ownFailures, orphaned>>
    BY DEF Append
  <1>2. /\ Pending \subseteq Entry /\ messages \in [Pending -> Message]
        /\ kind \in [Entry -> Kind \cup {"none"}] /\ k # "none"
        /\ i \notin Pending /\ IsFiniteSet(Appended) /\ i \notin Appended
    BY <1>1, MessageFacts DEF TypeOK, Pending, Shapes, Appended, Kind
  <1>3. /\ kind' \in [Entry -> Kind \cup {"none"}]
        /\ Appended' = Appended \cup {i}
    BY <1>1, <1>2 DEF Appended
  <1>4. /\ messages' \in [Pending \cup {i} -> Message] /\ Pending' = Pending \cup {i}
        /\ \A j \in Pending : messages'[j] = messages[j]
        /\ messages'[i] = [count |-> 0, claimed |-> FALSE]
    BY <1>1, <1>2 DEF Pending, Message
  <1>5. /\ IsFiniteSet(Appended') /\ XLen' = XLen + 1 /\ XLen \in Nat
    <2>1. /\ IsFiniteSet(Appended \cup {i})
          /\ Cardinality(Appended \cup {i}) = Cardinality(Appended) + 1
      BY <1>2, FS_AddElement
    <2>2. XLen = Cardinality(Appended) /\ XLen' = Cardinality(Appended')
      BY DEF XLen, Appended
    <2>3. XLen \in Nat
      BY CountFacts
    <2>. QED
      BY <1>3, <2>1, <2>2, <2>3
  <1>6. Shapes'
    <2>1. messages' \in UNION {[T -> Message] : T \in SUBSET Entry}
      BY <1>2, <1>4
    <2>. QED
      BY <1>1, <1>5, <2>1 DEF Shapes
  <1>7. TypeOK'
    <2>1. \A j \in DOMAIN messages' : /\ messages'[j].claimed \in BOOLEAN
                                      /\ messages'[j].claimed <=> messages'[j].count > 0
      <3>1. \A j \in Pending : /\ messages[j].claimed \in BOOLEAN
                               /\ messages[j].claimed <=> messages[j].count > 0
        BY DEF TypeOK, Pending
      <3>2. /\ messages'[i].claimed \in BOOLEAN
            /\ messages'[i].claimed <=> messages'[i].count > 0
        BY <1>4
      <3>3. DOMAIN messages' = Pending \cup {i}
        BY <1>4
      <3>. QED
        BY <1>4, <3>1, <3>2, <3>3
    <2>2. /\ DOMAIN messages' \subseteq {j \in Entry : kind'[j] # "none"}
          /\ unpublished' \subseteq {j \in Entry : kind'[j] # "none"}
      BY <1>1, <1>2, <1>4 DEF TypeOK, Pending
    <2>. QED
      BY <1>1, <1>3, <2>1, <2>2 DEF TypeOK
  <1>8. QuarantineIsFinal'
    BY <1>1, <1>2, <1>4 DEF QuarantineIsFinal
  <1>9. CountHonest'
    <2>1. \A e \in Epoch : run[e].total \in Nat
      BY DEF Shapes, RunRec
    <2>. QED
      BY <1>1, <1>5, <2>1 DEF CountHonest
  <1>10. Granted' /\ AckedWhenApplied'
    BY <1>1 DEF Granted, AckedWhenApplied
  <1>11. NoEntryLost' /\ NoLostWakeup'
    BY <1>1, <1>2, <1>4 DEF NoEntryLost, NoLostWakeup
  <1>12. HealthySurvivesItsBatch'
    BY <1>1, <1>2 DEF HealthySurvivesItsBatch, QuarantineIsFinal
  <1>. QED
    BY <1>6, <1>7, <1>8, <1>9, <1>10, <1>11, <1>12

\* A publish reaches everybody who is subscribed, whatever stage of the count
\* it is in.
LEMMA PublishInv == ASSUME InboxInv, NEW i \in Entry, Publish(i) PROVE InboxInv'
  <1> USE InboxAssumption DEF InboxInv, inboxVars
  <1>1. /\ i \in unpublished /\ unpublished' = unpublished \ {i}
        /\ run' = [e \in Epoch |-> [run[e] EXCEPT !.heard = @ \/ hears(run[e].pc)]]
        /\ UNCHANGED <<kind, messages, quarantined, inbox_epoch, orphaned, applied, store_epoch,
                       minted, ownFailures>>
    BY DEF Publish
  <1>2. \A e \in Epoch :
            /\ run'[e] \in RunRec
            /\ run'[e].pc = run[e].pc /\ run'[e].work = run[e].work
            /\ run'[e].cur = run[e].cur /\ run'[e].total = run[e].total
            /\ run[e].pc \in {"counted", "waiting"} => run'[e].heard
    <2>1. SUFFICES ASSUME NEW e \in Epoch
                   PROVE  /\ run'[e] \in RunRec
                          /\ run'[e].pc = run[e].pc /\ run'[e].work = run[e].work
                          /\ run'[e].cur = run[e].cur /\ run'[e].total = run[e].total
                          /\ run[e].pc \in {"counted", "waiting"} => run'[e].heard
      OBVIOUS
    <2>2. run[e] \in RunRec
      BY DEF Shapes
    <2>3. PICK b \in BOOLEAN : /\ b = (run[e].heard \/ hears(run[e].pc))
                               /\ run'[e] = [run[e] EXCEPT !.heard = b]
      BY <1>1, <2>2
    <2>4. run[e].pc \in {"counted", "waiting"} => b = TRUE
      BY <2>3 DEF hears
    <2>. QED
      BY <2>2, <2>3, <2>4 DEF RunRec
  <1>3. Shapes'
    <2>1. run' \in [Epoch -> RunRec]
      BY <1>1, <1>2
    <2>. QED
      BY <1>1, <2>1 DEF Shapes, Appended
  <1>4. TypeOK'
    <2>1. \A e \in Epoch : run'[e].pc \in Stage
      BY <1>2 DEF RunRec
    <2>2. \A e \in Epoch : /\ DOMAIN run'[e].work \subseteq Entry
                           /\ run'[e].cur \subseteq Entry /\ Cardinality(run'[e].cur) <= 1
      BY <1>2 DEF TypeOK
    <2>. QED
      BY <1>1, <2>1, <2>2 DEF TypeOK, Stage
  <1>5. Granted' /\ AckedWhenApplied'
    <2>1. \A e \in Epoch : /\ run'[e].pc = run[e].pc /\ run'[e].work = run[e].work
                           /\ run'[e].cur = run[e].cur
      BY <1>2
    <2>2. Granted'
      BY <1>1, <2>1 DEF Granted
    <2>3. AckedWhenApplied'
      BY <1>1, <2>1 DEF AckedWhenApplied
    <2>. QED
      BY <2>2, <2>3
  <1>6. CountHonest' /\ NoLostWakeup'
    <2>1. XLen' = XLen /\ Pending' = Pending
      BY <1>1 DEF XLen, Pending
    <2>2. \A e \in Epoch : run'[e].pc = run[e].pc /\ run'[e].total = run[e].total
      BY <1>2
    <2>3. \A e \in Epoch : run'[e].pc \in {"counted", "waiting"} => run'[e].heard
      BY <1>2
    <2>4. CountHonest'
      BY <2>1, <2>2, <2>3 DEF CountHonest
    <2>5. NoLostWakeup'
      BY <2>1, <2>3 DEF NoLostWakeup
    <2>. QED
      BY <2>4, <2>5
  <1>7. QuarantineIsFinal' /\ NoEntryLost' /\ HealthySurvivesItsBatch'
    BY <1>1 DEF QuarantineIsFinal, NoEntryLost, HealthySurvivesItsBatch, Pending
  <1>. QED
    BY <1>3, <1>4, <1>5, <1>6, <1>7

LEMMA GrantInv == ASSUME InboxInv, Grant PROVE InboxInv'
  <1> USE InboxAssumption DEF InboxInv, inboxVars, wakeupVars
  <1>1. /\ minted < MaxEpoch /\ minted' = minted + 1
        /\ run' = [run EXCEPT ![minted + 1] = Idle]
        /\ UNCHANGED <<kind, messages, quarantined, inbox_epoch, unpublished, orphaned, applied,
                       store_epoch, ownFailures>>
    BY DEF Grant
  <1>2. /\ minted \in Nat /\ minted + 1 \in Epoch /\ minted' \in 0..MaxEpoch
        /\ inbox_epoch' \in 0..minted' /\ store_epoch' \in 0..minted'
    BY <1>1 DEF TypeOK, Epoch
  <1>3. /\ \A e \in Epoch : e # minted + 1 => run'[e] = run[e]
        /\ run'[minted + 1] = Idle
    BY <1>1, <1>2 DEF Shapes
  <1>4. Shapes'
    BY <1>1, <1>2, IdleFacts DEF Shapes, Appended
  <1>5. /\ Idle.pc = "idle" /\ Idle.cur = {} /\ DOMAIN Idle.work = {} /\ Cardinality({}) <= 1
    BY IdleFacts, WorkFacts, OneAtMost
  <1>6. TypeOK'
    BY <1>1, <1>2, <1>3, <1>5 DEF TypeOK
  <1>7. Granted'
    <2>1. \A e \in Epoch : e \in Nat
      BY DEF Epoch
    <2>. QED
      BY <1>1, <1>2, <1>3, <2>1 DEF Granted
  <1>8. AckedWhenApplied' /\ CountHonest' /\ NoLostWakeup'
    BY <1>1, <1>3, <1>5 DEF AckedWhenApplied, CountHonest, NoLostWakeup, XLen, Pending
  <1>9. QuarantineIsFinal' /\ NoEntryLost' /\ HealthySurvivesItsBatch'
    BY <1>1 DEF QuarantineIsFinal, NoEntryLost, HealthySurvivesItsBatch, Pending
  <1>. QED
    BY <1>4, <1>6, <1>7, <1>8, <1>9

LEMMA NextInboxInv == InboxInv /\ [Next]_vars => InboxInv'
  <1> SUFFICES ASSUME InboxInv, [Next]_vars PROVE InboxInv'
    OBVIOUS
  <1>1. ASSUME NEW i \in Entry, AppenderDies(i) PROVE InboxInv'
    <2>1. /\ unpublished' = unpublished \ {i} /\ orphaned' = TRUE
          /\ UNCHANGED <<kind, messages, quarantined, inbox_epoch, applied, store_epoch, minted,
                         run, ownFailures>>
      BY <1>1 DEF AppenderDies, inboxVars
    <2>2. TypeOK'
      BY <2>1 DEF InboxInv, TypeOK
    <2>3. Shapes' /\ Granted' /\ AckedWhenApplied'
      BY <2>1 DEF InboxInv, Shapes, Appended, Granted, AckedWhenApplied
    <2>4. CountHonest' /\ NoLostWakeup'
      BY <2>1 DEF InboxInv, CountHonest, NoLostWakeup, XLen, Pending
    <2>5. QuarantineIsFinal' /\ NoEntryLost' /\ HealthySurvivesItsBatch'
      BY <2>1 DEF InboxInv, QuarantineIsFinal, NoEntryLost, HealthySurvivesItsBatch, Pending
    <2>. QED
      BY <2>2, <2>3, <2>4, <2>5 DEF InboxInv
  <1>2. CASE UNCHANGED vars
    <2>1. UNCHANGED <<kind, messages, quarantined, inbox_epoch, applied, store_epoch, minted,
                      run, ownFailures, unpublished, orphaned>>
      BY <1>2 DEF vars, inboxVars, wakeupVars
    <2>2. TypeOK' /\ Shapes' /\ Granted' /\ AckedWhenApplied'
      BY <2>1 DEF InboxInv, TypeOK, Shapes, Appended, Granted, AckedWhenApplied
    <2>3. CountHonest' /\ NoLostWakeup'
      BY <2>1 DEF InboxInv, CountHonest, NoLostWakeup, XLen, Pending
    <2>4. QuarantineIsFinal' /\ NoEntryLost' /\ HealthySurvivesItsBatch'
      BY <2>1 DEF InboxInv, QuarantineIsFinal, NoEntryLost, HealthySurvivesItsBatch, Pending
    <2>. QED
      BY <2>2, <2>3, <2>4 DEF InboxInv
  <1>. QED
    BY <1>1, <1>2, AppendInv, PublishInv, GrantInv, DeliveryInv, SettleInv, ApplyInv, WaitInv
       DEF Next, Drain

\* The invariant holds at every moment of every run.
LEMMA InboxInvAlways == Spec => []InboxInv
  BY InitInboxInv, NextInboxInv, PTL DEF Spec

-----------------------------------------------------------------------------

\* Type correctness of the inbox and of every drain, with the record that an
\* entry is quarantined at most once and both fences stay below the epochs the
\* lock has minted (redis/inbox.py).
THEOREM InboxTypeCorrect == Spec => []TypeOK
  <1>1. InboxInv => TypeOK
    BY DEF InboxInv
  <1>. QED
    BY <1>1, InboxInvAlways, PTL

\* At-least-once delivery, safely: an entry leaves the inbox only once its
\* DataPoint is durable or its quarantine is on record, whichever runs crash,
\* stall or are fenced between the apply and the ack (orchestrator.py
\* _drain_inbox).
THEOREM InboxLosesNothing == Spec => []NoEntryLost
  <1>1. InboxInv => NoEntryLost
    BY DEF InboxInv
  <1>. QED
    BY <1>1, InboxInvAlways, PTL

\* Subscribing before counting closes the wakeup race, for any number of
\* entries and of acks that land between the two halves of the count
\* (redis/inbox.py wait_for_entry).
THEOREM InboxMissesNoWakeup == Spec => []NoLostWakeup
  <1>1. InboxInv => NoLostWakeup
    BY DEF InboxInv
  <1>. QED
    BY <1>1, InboxInvAlways, PTL

\* An appliable entry is set aside only on its own failures, never on those of
\* the batch it was delivered in (orchestrator.py _apply_inbox_entry).
THEOREM HealthyEntrySurvives == Spec => []HealthySurvivesItsBatch
  <1>1. InboxInv => HealthySurvivesItsBatch
    BY DEF InboxInv
  <1>. QED
    BY <1>1, InboxInvAlways, PTL
=============================================================================
