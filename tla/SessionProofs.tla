--------------------------- MODULE SessionProofs ----------------------------
(***************************************************************************)
(* Theorems about Session, for every set of calls, any number of faults    *)
(* and of backstop respawns.                                               *)
(***************************************************************************)
EXTENDS Session, FiniteSetTheorems, TLAPS

-----------------------------------------------------------------------------
(* The inductive invariant.                                                *)

PC == ManagerPC \cup RunPC \cup {"release"}
Status == {"none", "completed", "parked", "superseded", "failed"}

AnyCall == [pc: PC, epoch: Nat, mirror: SUBSET Call, fresh: BOOLEAN,
            status: Status, budget: 0..MAX_BACKSTOP_RESPAWNS]

\* The state the calls meet on is well typed.
SharedOK ==
    /\ LockTypeOK
    /\ pending \subseteq Deliveries
    /\ store \subseteq Call \ Redrives /\ record \subseteq store
    /\ marked \in BOOLEAN
    /\ fence \in [Fence -> 0..epoch_counter]
    /\ faults \in 0..MaxFaults
    /\ finalized \in 0..epoch_counter
    /\ excuses \subseteq {"late", "inherited", "strayed", "dead_lettered"}

\* A call's record agrees with itself and with the shared state.
CallFits(r) ==
    /\ r.epoch <= epoch_counter
    /\ r.epoch = 0 <=> r.pc \in ManagerPC
    /\ r.mirror \subseteq store
    /\ r.status # "none" => r.pc = "release"

\* The stages up to the marking of the contribution, and those at which the
\* aggregator has run.
Before == {"rehydrate", "gather", "gathered", "aggregate", "contributed", "fold",
           "attempted", "mark"}
Folded == {"attempted", "mark", "check", "redrive", "finalize"}

\* The marker a run may still find is never its own.
MarkerForeign(r) == r.pc \in Before => ~(marked /\ fence["marker"] = r.epoch)

\* Unless excused, what the newest run knows of the session is all there is:
\* its mirror is the store, what it folded is the store, and no predecessor's
\* fold can get past the fence it raised.
NewestKnowsAll(r) ==
    excuses = {} /\ r.epoch = epoch_counter =>
        /\ r.pc \in RunPC \ {"rehydrate"} => r.mirror = store
        /\ r.pc \in Folded => record = store /\ fence["record"] = epoch_counter
        /\ r.pc \in RunPC => ~complete

CallOK(r) == CallFits(r) /\ MarkerForeign(r) /\ NewestKnowsAll(r)

EpochsUnique ==
    \A c, d \in Call : c # d /\ calls[c].epoch # 0 => calls[c].epoch # calls[d].epoch

\* The flag was raised by the newest epoch, over a complete record that only
\* a newer epoch could replace.
Finished ==
    excuses = {} /\ complete => record = store /\ fence["record"] = epoch_counter

SessionInv ==
    /\ SharedOK
    /\ calls \in [Call -> AnyCall]
    /\ \A c \in Call : CallOK(calls[c])
    /\ EpochsUnique
    /\ Finished

-----------------------------------------------------------------------------
(* How a step changes the calls: one of them moves, the sleepers may ripen. *)

Moved(c, r) ==
    \/ calls' = [calls EXCEPT ![c] = r]
    \/ r.pc # "sleeping" /\ calls' = Ripened([calls EXCEPT ![c] = r])

SameOrRipe(d) ==
    \/ calls'[d] = calls[d]
    \/ calls[d].pc = "sleeping" /\ calls'[d] = [calls[d] EXCEPT !.pc = "due"]

LEMMA MovedCalls ==
  ASSUME calls \in [Call -> AnyCall], NEW c \in Call, NEW r \in AnyCall, Moved(c, r)
  PROVE  /\ calls' \in [Call -> AnyCall]
         /\ calls'[c] = r
         /\ \A d \in Call \ {c} : SameOrRipe(d)
  <1> DEFINE f == [calls EXCEPT ![c] = r]
  <1>1. f \in [Call -> AnyCall] /\ f[c] = r /\ \A d \in Call \ {c} : f[d] = calls[d]
    OBVIOUS
  <1>2. CASE calls' = f
    BY <1>1, <1>2 DEF SameOrRipe
  <1>3. CASE r.pc # "sleeping" /\ calls' = Ripened(f)
    <2> HIDE DEF f
    <2>1. \A d \in Call : IF f[d].pc = "sleeping"
                          THEN calls'[d] = [f[d] EXCEPT !.pc = "due"]
                          ELSE calls'[d] = f[d]
      BY <1>1, <1>3 DEF Ripened
    <2>2. \A s \in AnyCall : [s EXCEPT !.pc = "due"] \in AnyCall
      BY DEF AnyCall, PC, ManagerPC
    <2>3. calls' \in [Call -> AnyCall]
      BY <1>1, <1>3, <2>2 DEF Ripened
    <2>. QED
      BY <1>1, <1>3, <2>1, <2>3 DEF SameOrRipe
  <1>. QED
    BY <1>2, <1>3 DEF Moved

\* What the other calls rely on is left alone.
Keeps(c) ==
    \A s \in AnyCall :
        CallOK(s) /\ (s.epoch # 0 => s.epoch # calls[c].epoch) => CallOK(s)'

LEMMA StepInv ==
  ASSUME SessionInv, NEW c \in Call, NEW r \in AnyCall, Moved(c, r),
         SharedOK', Finished', CallOK(r)', Keeps(c),
         r.epoch \in {0, calls[c].epoch} \/ r.epoch > epoch_counter
  PROVE  SessionInv'
  <1>1. /\ calls' \in [Call -> AnyCall]
        /\ calls'[c] = r
        /\ \A d \in Call \ {c} : SameOrRipe(d)
    BY MovedCalls DEF SessionInv
  <1>2. \A d \in Call \ {c} : calls'[d].epoch = calls[d].epoch
    BY <1>1 DEF SameOrRipe, SessionInv, AnyCall
  <1>3. EpochsUnique'
    <2>1. \A d \in Call : calls[d].epoch \in Nat /\ calls[d].epoch <= epoch_counter
      BY DEF SessionInv, CallOK, CallFits, AnyCall
    <2>. QED
      BY <1>1, <1>2, <2>1 DEF EpochsUnique, SessionInv, AnyCall, SharedOK, LockTypeOK
  <1>4. ASSUME NEW d \in Call PROVE CallOK(calls[d])'
    <2>1. PICK s \in AnyCall : s = calls'[d]
      BY <1>1
    <2>2. PICK t \in AnyCall : t = calls[d]
      BY DEF SessionInv
    <2>3. CallOK(t)
      BY <2>2 DEF SessionInv
    <2>4. CASE d = c
      BY <1>1, <2>4
    <2>5. CASE d # c
      <3>1. t.epoch # 0 => t.epoch # calls[c].epoch
        BY <2>2, <2>5 DEF SessionInv, EpochsUnique
      <3>2. CallOK(t)'
        BY <2>3, <3>1 DEF Keeps
      <3>3. CASE s = t
        BY <2>1, <3>2, <3>3
      <3>4. CASE t.pc = "sleeping" /\ s = [t EXCEPT !.pc = "due"]
        <4>1. /\ s.pc = "due" /\ s.epoch = t.epoch /\ s.mirror = t.mirror
              /\ s.status = t.status
          BY <3>4 DEF AnyCall
        <4>2. CallOK(s)'
          BY <3>2, <3>4, <4>1 DEF CallOK, CallFits, MarkerForeign, NewestKnowsAll, Before,
             Folded, RunPC, ManagerPC
        <4>. QED
          BY <2>1, <4>2
      <3>. QED
        BY <1>1, <2>1, <2>2, <2>5, <3>3, <3>4 DEF SameOrRipe
    <2>. QED
      BY <2>4, <2>5
  <1>. QED
    BY <1>1, <1>3, <1>4 DEF SessionInv

\* A step that leaves the session's data and the flag alone.
Quiet ==
    /\ UNCHANGED <<epoch_counter, complete, pending, store, record, marked, fence,
                   finalized, excuses>>
    /\ holder' \in 0..MaxEpoch
    /\ faults' \in 0..MaxFaults

LEMMA QuietStep ==
  ASSUME SessionInv, NEW c \in Call, NEW r \in AnyCall, Moved(c, r), Quiet, CallOK(r),
         r.epoch \in {0, calls[c].epoch}
  PROVE  SessionInv'
  <1>1. \A s \in AnyCall : CallOK(s)' <=> CallOK(s)
    BY DEF Quiet, CallOK, CallFits, MarkerForeign, NewestKnowsAll
  <1>2. SharedOK' /\ Finished'
    BY DEF SessionInv, Quiet, SharedOK, Finished, LockTypeOK
  <1>. QED
    BY <1>1, <1>2, StepInv DEF Keeps

\* A call outside a run claims nothing.
LEMMA OutFits ==
  ASSUME NEW p \in ManagerPC, NEW b \in 0..MAX_BACKSTOP_RESPAWNS,
         epoch_counter \in Nat
  PROVE  Out(p, b) \in AnyCall /\ Out(p, b).epoch = 0 /\ Out(p, b).pc = p
         /\ CallOK(Out(p, b))
  <1>1. /\ Out(p, b) \in AnyCall /\ Out(p, b).epoch = 0 /\ Out(p, b).pc = p
        /\ Out(p, b).mirror = {} /\ Out(p, b).status = "none"
    BY DEF Out, AnyCall, PC, Status
  <1>. QED
    BY <1>1 DEF CallOK, CallFits, MarkerForeign, NewestKnowsAll, Before, Folded,
       RunPC, ManagerPC

LEMMA OutStep ==
  ASSUME SessionInv, NEW c \in Call, NEW p \in ManagerPC,
         NEW b \in 0..MAX_BACKSTOP_RESPAWNS, p # "sleeping", Quiet,
         \/ calls' = [calls EXCEPT ![c] = Out(p, b)]
         \/ calls' = Ripened([calls EXCEPT ![c] = Out(p, b)])
  PROVE  SessionInv'
  <1>1. PICK r : r = Out(p, b)
    OBVIOUS
  <1>2. r \in AnyCall /\ r.epoch = 0 /\ r.pc = p /\ CallOK(r)
    BY <1>1, OutFits DEF SessionInv, SharedOK, LockTypeOK
  <1>3. Moved(c, r)
    BY <1>1, <1>2 DEF Moved
  <1>. QED
    BY <1>2, <1>3, QuietStep

\* A manager goes on.
LEMMA ManagerGo ==
  ASSUME SessionInv, NEW c \in Call, NEW p \in ManagerPC, calls[c].pc \in ManagerPC,
         Go(c, p), Quiet
  PROVE  SessionInv'
  <1>1. PICK t \in AnyCall : t = calls[c]
    BY DEF SessionInv
  <1>2. PICK r : r = [t EXCEPT !.pc = p]
    OBVIOUS
  <1>3. /\ r \in AnyCall /\ r.epoch = t.epoch /\ r.pc = p /\ r.mirror = t.mirror
        /\ r.status = t.status
    BY <1>2 DEF AnyCall, PC
  <1>4. CallOK(t)
    BY <1>1 DEF SessionInv
  <1>5. CallOK(r)
    BY <1>1, <1>3, <1>4 DEF CallOK, CallFits, MarkerForeign, NewestKnowsAll, Before,
       Folded, RunPC, ManagerPC
  <1>6. Moved(c, r)
    BY <1>1, <1>2 DEF Moved, Go, SessionInv
  <1>. QED
    BY <1>1, <1>3, <1>5, <1>6, QuietStep

\* A run goes on, to a stage that claims no more than the one it leaves.
LEMMA RunGo ==
  ASSUME SessionInv, NEW c \in Call, NEW p \in RunPC, calls[c].pc \in RunPC, Quiet,
         \/ calls' = [calls EXCEPT ![c].pc = p]
         \/ calls' = Ripened([calls EXCEPT ![c].pc = p]),
         calls[c].pc # "rehydrate",
         p \in Before => calls[c].pc \in Before,
         p \in Folded => calls[c].pc \in Folded
  PROVE  SessionInv'
  <1>1. PICK t \in AnyCall : t = calls[c]
    BY DEF SessionInv
  <1>2. PICK r : r = [t EXCEPT !.pc = p]
    OBVIOUS
  <1>3. /\ r \in AnyCall /\ r.epoch = t.epoch /\ r.pc = p /\ r.mirror = t.mirror
        /\ r.status = t.status
    BY <1>2 DEF AnyCall, PC
  <1>4. CallOK(t)
    BY <1>1 DEF SessionInv
  <1>5. t.pc \in RunPC /\ p # "sleeping" /\ p # "release" /\ p \notin ManagerPC
        /\ t.pc # "release" /\ t.pc \notin ManagerPC
    BY <1>1 DEF RunPC, ManagerPC
  <1>6. CallOK(r)
    BY <1>1, <1>3, <1>4, <1>5 DEF CallOK, CallFits, MarkerForeign, NewestKnowsAll
  <1>7. Moved(c, r)
    BY <1>1, <1>2, <1>3, <1>5 DEF Moved, SessionInv
  <1>. QED
    BY <1>1, <1>3, <1>6, <1>7, QuietStep

\* The record of a run that has ended claims nothing any more.
Ended(r, t) ==
    /\ r \in AnyCall /\ r.pc = "release" /\ r.epoch = t.epoch /\ r.mirror = {}
    /\ r.budget = t.budget

LEMMA EndsMoves ==
  ASSUME SessionInv, NEW c \in Call, NEW s \in Status, Ends(c, s)
  PROVE  \E r \in AnyCall : Ended(r, calls[c]) /\ r.status = s /\ Moved(c, r)
  <1>1. PICK t \in AnyCall : t = calls[c]
    BY DEF SessionInv
  <1>2. PICK r : r = [t EXCEPT !.pc = "release", !.status = s, !.mirror = {}, !.fresh = FALSE]
    OBVIOUS
  <1>3. Ended(r, t) /\ r.status = s
    BY <1>2 DEF AnyCall, PC, Ended
  <1>4. Moved(c, r)
    BY <1>1, <1>2 DEF Moved, Ends, SessionInv
  <1>. QED
    BY <1>1, <1>3, <1>4 DEF Ended

LEMMA EndStep ==
  ASSUME SessionInv, NEW c \in Call, NEW s \in Status, Ends(c, s),
         calls[c].pc \in RunPC, Quiet
  PROVE  SessionInv'
  <1>1. PICK r \in AnyCall : Ended(r, calls[c]) /\ Moved(c, r)
    BY EndsMoves
  <1>2. calls[c].epoch <= epoch_counter /\ calls[c].epoch # 0
    BY DEF SessionInv, CallOK, CallFits, RunPC, ManagerPC
  <1>3. CallOK(r)
    BY <1>1, <1>2 DEF Ended, CallOK, CallFits, MarkerForeign, NewestKnowsAll, Before,
       Folded, RunPC, ManagerPC
  <1>. QED
    BY <1>1, <1>3, QuietStep DEF Ended

LEMMA UnchangedIsQuiet ==
  ASSUME SessionInv, UNCHANGED <<lockVars, data, history>>
  PROVE  Quiet
  BY DEF SessionInv, SharedOK, LockTypeOK, Quiet, lockVars, data, history

-----------------------------------------------------------------------------
(* The manager's steps.                                                    *)

LEMMA ReadSteps ==
  ASSUME SessionInv, NEW c \in Call,
         \/ DeliverReadsComplete(c) \/ DeliverReadsHeld(c) \/ recheck(c)
         \/ resume(c) \/ ResumeReadsEpoch(c) \/ ResumeReadsHeld(c)
         \/ reopen(c) \/ ReopenReadsHeld(c)
         \/ (c = Starter /\ start_session) \/ Redrive(c)
  PROVE  SessionInv'
  <1>1. UNCHANGED <<lockVars, data, history>>
    BY DEF DeliverReadsComplete, DeliverReadsHeld, recheck, resume, ResumeReadsEpoch,
       ResumeReadsHeld, reopen, ReopenReadsHeld, start_session, Redrive
  <1>2. calls[c].pc \in ManagerPC
    BY DEF DeliverReadsComplete, DeliverReadsHeld, recheck, resume, ResumeReadsEpoch,
       ResumeReadsHeld, reopen, ReopenReadsHeld, start_session, Redrive, At, ManagerPC
  <1>3. PICK p \in ManagerPC : Go(c, p)
    BY DEF DeliverReadsComplete, DeliverReadsHeld, recheck, resume, ResumeReadsEpoch,
       ResumeReadsHeld, reopen, ReopenReadsHeld, start_session, Redrive, ManagerPC,
       resume_if_started
  <1>. QED
    BY <1>1, <1>2, <1>3, UnchangedIsQuiet, ManagerGo

\* Nothing the calls claim is about the inbox.
LEMMA DeliverStep ==
  ASSUME SessionInv, NEW c \in Call, deliver(c)
  PROVE  SessionInv'
  <1>1. PICK t \in AnyCall : t = calls[c]
    BY DEF SessionInv
  <1>2. PICK r : r = [t EXCEPT !.pc = "delivered"]
    OBVIOUS
  <1>3. /\ r \in AnyCall /\ r.epoch = t.epoch /\ r.pc = "delivered" /\ r.mirror = t.mirror
        /\ r.status = t.status
    BY <1>2 DEF AnyCall, PC, ManagerPC
  <1>4. CallOK(t) /\ t.pc = "idle"
    BY <1>1 DEF SessionInv, deliver, At
  <1>5. CallOK(r)
    BY <1>3, <1>4 DEF CallOK, CallFits, MarkerForeign, NewestKnowsAll, Before,
       Folded, RunPC, ManagerPC
  <1>6. Moved(c, r)
    BY <1>1, <1>2 DEF Moved, Go, deliver, SessionInv
  <1>7. UNCHANGED <<lockVars, store, record, marked, fence, history>> /\ pending' \subseteq Deliveries
    BY DEF deliver, SessionInv, SharedOK
  <1>8. \A s \in AnyCall : CallOK(s)' <=> CallOK(s)
    BY <1>7 DEF CallOK, CallFits, MarkerForeign, NewestKnowsAll, lockVars, history
  <1>9. SharedOK' /\ Finished'
    BY <1>7 DEF SessionInv, SharedOK, Finished, LockTypeOK, lockVars, history
  <1>. QED
    BY <1>1, <1>3, <1>5, <1>6, <1>8, <1>9, StepInv DEF Keeps

\* The flag goes down, or the marker: every claim is kept.
LEMMA ClearSteps ==
  ASSUME SessionInv, NEW c \in Call, ClearComplete(c) \/ ClearContribution(c)
  PROVE  SessionInv'
  <1>1. PICK t \in AnyCall : t = calls[c]
    BY DEF SessionInv
  <1>2. PICK r \in AnyCall : /\ r.epoch = t.epoch /\ r.pc \in {"unmark", "spawn"}
                             /\ r.mirror = t.mirror /\ r.status = t.status /\ Moved(c, r)
    <2>1. CASE ClearComplete(c)
      <3>1. PICK r : r = [t EXCEPT !.pc = "unmark"]
        OBVIOUS
      <3>2. /\ r \in AnyCall /\ r.epoch = t.epoch /\ r.pc = "unmark"
            /\ r.mirror = t.mirror /\ r.status = t.status
        BY <3>1 DEF AnyCall, PC, ManagerPC
      <3>3. Moved(c, r)
        BY <2>1, <1>1, <3>1 DEF Moved, ClearComplete, Go, SessionInv
      <3>. QED
        BY <3>2, <3>3
    <2>2. CASE ClearContribution(c)
      <3>1. PICK r : r = [t EXCEPT !.pc = "spawn", !.fresh = TRUE]
        OBVIOUS
      <3>2. /\ r \in AnyCall /\ r.epoch = t.epoch /\ r.pc = "spawn"
            /\ r.mirror = t.mirror /\ r.status = t.status
        BY <3>1 DEF AnyCall, PC, ManagerPC
      <3>3. calls' = [calls EXCEPT ![c] = r]
        <4>1. calls' = [calls EXCEPT ![c].pc = "spawn", ![c].fresh = TRUE]
          BY <2>2 DEF ClearContribution
        <4>. QED
          BY <4>1, <1>1, <3>1 DEF SessionInv, AnyCall
      <3>. QED
        BY <3>2, <3>3 DEF Moved
    <2>. QED
      BY <2>1, <2>2
  <1>3. CallOK(t) /\ t.pc \in {"clear", "unmark"}
    BY <1>1 DEF SessionInv, ClearComplete, ClearContribution, At
  <1>4. /\ UNCHANGED <<epoch_counter, holder, pending, store, record, fence, history>>
        /\ marked' \in {marked, FALSE} /\ complete' \in {complete, FALSE}
    BY DEF ClearComplete, ClearContribution, clear_complete, lockVars, data, history
  <1>5. \A s \in AnyCall : CallOK(s) => CallOK(s)'
    BY <1>4 DEF CallOK, CallFits, MarkerForeign, NewestKnowsAll, history
  <1>6. CallOK(r)
    BY <1>2, <1>3 DEF CallOK, CallFits, MarkerForeign, NewestKnowsAll, Before,
       Folded, RunPC, ManagerPC
  <1>7. SharedOK' /\ Finished'
    <2>1. LockTypeOK' /\ marked' \in BOOLEAN
      BY Zenon, <1>4 DEF SessionInv, SharedOK, LockTypeOK
    <2>2. SharedOK'
      BY <1>4, <2>1 DEF SessionInv, SharedOK, history
    <2>3. Finished'
      BY <1>4 DEF SessionInv, Finished, history
    <2>. QED
      BY <2>2, <2>3
  <1>. QED
    BY <1>1, <1>2, <1>5, <1>6, <1>7, StepInv DEF Keeps

LEMMA ProbeSteps ==
  ASSUME SessionInv, NEW c \in Call, LockHeld(c) \/ Backstop(c)
  PROVE  SessionInv'
  <1>1. Quiet
    BY UnchangedIsQuiet DEF LockHeld, Backstop
  <1>2. calls[c].budget \in 0..MAX_BACKSTOP_RESPAWNS
    BY DEF SessionInv, AnyCall
  <1>3. CASE LockHeld(c)
    <2>1. calls' = [calls EXCEPT ![c] = Out("done", calls[c].budget)]
      BY <1>3 DEF LockHeld
    <2>. QED
      BY <1>1, <1>2, <2>1, OutStep DEF ManagerPC
  <1>4. CASE Backstop(c)
    <2>1. CASE stragglers(c) = {}
      <3>1. calls' = [calls EXCEPT ![c] = Out("done", calls[c].budget)]
        BY <1>4, <2>1 DEF Backstop
      <3>. QED
        BY <1>1, <1>2, <3>1, OutStep DEF ManagerPC
    <2>2. CASE stragglers(c) # {}
      <3>1. calls' = [calls EXCEPT ![c] = Out("clear", calls[c].budget - 1)]
        BY <1>4, <2>2 DEF Backstop
      <3>2. calls[c].budget - 1 \in 0..MAX_BACKSTOP_RESPAWNS
        BY <1>2, <2>2, SessionAssumption DEF stragglers
      <3>. QED
        BY <1>1, <3>1, <3>2, OutStep DEF ManagerPC
    <2>. QED
      BY <2>1, <2>2
  <1>. QED
    BY <1>3, <1>4

\* A grant makes every other run a predecessor, and is late on a session that
\* is complete.
LEMMA AcquireStep ==
  ASSUME SessionInv, NEW c \in Call, Acquire(c)
  PROVE  SessionInv'
  <1>1. PICK t \in AnyCall : t = calls[c]
    BY DEF SessionInv
  <1>2. PICK r : r = [t EXCEPT !.pc = "rehydrate", !.epoch = epoch_counter + 1]
    OBVIOUS
  <1>3. epoch_counter \in Nat
    BY DEF SessionInv, SharedOK, LockTypeOK
  <1>4. /\ r \in AnyCall /\ r.epoch = epoch_counter + 1 /\ r.pc = "rehydrate"
        /\ r.mirror = t.mirror /\ r.status = t.status
    <2>1. "rehydrate" \in PC /\ epoch_counter + 1 \in Nat
      BY <1>3 DEF PC, RunPC
    <2>. QED
      BY <1>2, <2>1 DEF AnyCall
  <1>5. CallOK(t) /\ t.pc = "spawn"
    BY <1>1 DEF SessionInv, Acquire, At
  <1>6. /\ UNCHANGED <<complete, pending, store, record, marked, fence, faults, finalized>>
        /\ epoch_counter' = epoch_counter + 1 /\ holder' = epoch_counter + 1
        /\ epoch_counter + 1 <= MaxEpoch
        /\ excuses' = excuses \cup (IF complete THEN {"late"} ELSE {})
    BY <1>3, MaxEpochAssumption DEF Acquire, acquire, data, SessionInv, SharedOK, LockTypeOK
  <1>7. Moved(c, r)
    <2>1. calls' = [calls EXCEPT ![c].pc = "rehydrate", ![c].epoch = epoch_counter + 1]
      BY <1>6 DEF Acquire
    <2>. QED
      BY <2>1, <1>1, <1>2 DEF Moved, SessionInv, AnyCall
  <1>8. excuses' = {} => excuses = {} /\ ~complete
    BY <1>6
  <1>9. CallOK(r)'
    <2>1. fence["marker"] \in 0..epoch_counter
      BY DEF SessionInv, SharedOK, Fence
    <2>. QED
      BY <1>3, <1>4, <1>5, <1>6, <1>8, <2>1 DEF CallOK, CallFits, MarkerForeign,
         NewestKnowsAll, Before, Folded, RunPC, ManagerPC
  <1>10. ASSUME NEW s \in AnyCall, CallOK(s) PROVE CallOK(s)'
    <2>1. s.epoch \in Nat /\ s.epoch <= epoch_counter
      BY <1>10 DEF AnyCall, CallOK, CallFits
    <2>2. CallFits(s)' /\ MarkerForeign(s)'
      BY <1>3, <1>6, <1>10, <2>1 DEF CallOK, CallFits, MarkerForeign
    <2>3. s.epoch # epoch_counter'
      BY <1>3, <1>6, <2>1
    <2>. QED
      BY <2>2, <2>3 DEF CallOK, NewestKnowsAll
  <1>11. SharedOK'
    BY <1>3, <1>6 DEF SessionInv, SharedOK, LockTypeOK
  <1>12. Finished'
    BY <1>6, <1>8 DEF Finished
  <1>. QED
    BY <1>3, <1>4, <1>7, <1>9, <1>10, <1>11, <1>12, StepInv DEF Keeps

-----------------------------------------------------------------------------
(* The run's steps.                                                        *)

\* Merging S into the store: a predecessor's merge strays, and the newest
\* run's mirror has it.
LEMMA StoreStep ==
  ASSUME SessionInv, NEW c \in Call, NEW r \in AnyCall, Moved(c, r),
         calls[c].pc \in {"rehydrate", "gather", "gathered"},
         r.pc \in {"gather", "gathered"}, r.epoch = calls[c].epoch, r.status = "none",
         NEW S \in SUBSET (Call \ Redrives), store' = store \cup S,
         r.mirror \subseteq store \cup S,
         excuses = {} /\ r.epoch = epoch_counter => r.mirror = store \cup S,
         fence' \in [Fence -> 0..epoch_counter],
         fence'["marker"] = fence["marker"], fence'["record"] = fence["record"],
         pending' \subseteq pending,
         UNCHANGED <<lockVars, record, marked, faults, finalized>>,
         excuses' = excuses \cup (IF S # {} /\ Strays(c) THEN {"strayed"} ELSE {})
  PROVE  SessionInv'
  <1>1. PICK t \in AnyCall : t = calls[c]
    BY DEF SessionInv
  <1>2. CallOK(t) /\ t.pc \in RunPC /\ t.pc \in Before /\ t.epoch # 0 /\ t.epoch \in Nat
        /\ t.epoch <= epoch_counter /\ epoch_counter \in Nat
    BY <1>1 DEF SessionInv, CallOK, CallFits, RunPC, Before, ManagerPC, AnyCall, SharedOK,
       LockTypeOK
  <1>3. excuses' = {} => excuses = {} /\ (S = {} \/ t.epoch = epoch_counter)
    BY <1>1, <1>2 DEF Strays
  <1>4. epoch_counter' = epoch_counter /\ complete' = complete /\ holder' = holder
    BY DEF lockVars
  <1>5. CallOK(r)'
    <2>1. CallFits(r)'
      BY <1>1, <1>2, <1>4 DEF CallFits, ManagerPC
    <2>2. MarkerForeign(r)'
      BY <1>1, <1>2 DEF CallOK, MarkerForeign
    <2>3. r.pc \notin Folded
      BY DEF Folded
    <2>4. NewestKnowsAll(r)'
      BY <1>1, <1>2, <1>3, <1>4, <2>3 DEF CallOK, NewestKnowsAll
    <2>. QED
      BY <2>1, <2>2, <2>4 DEF CallOK
  <1>6. ASSUME NEW s \in AnyCall, CallOK(s), s.epoch # 0 => s.epoch # calls[c].epoch
        PROVE  CallOK(s)'
    <2>1. CallFits(s)' /\ MarkerForeign(s)'
      BY <1>4, <1>6 DEF CallOK, CallFits, MarkerForeign
    <2>2. CASE S = {}
      BY <1>3, <1>4, <1>6, <2>1, <2>2 DEF CallOK, NewestKnowsAll
    <2>3. CASE S # {}
      BY <1>1, <1>2, <1>3, <1>4, <1>6, <2>1, <2>3 DEF CallOK, NewestKnowsAll
    <2>. QED
      BY <2>2, <2>3
  <1>7. SharedOK'
    <2>1. excuses' \subseteq {"late", "inherited", "strayed", "dead_lettered"}
      BY DEF SessionInv, SharedOK
    <2>. QED
      BY <1>4, <2>1 DEF SessionInv, SharedOK, LockTypeOK
  <1>8. Finished'
    BY <1>1, <1>2, <1>3, <1>4 DEF SessionInv, Finished, CallOK, NewestKnowsAll
  <1>. QED
    BY <1>5, <1>6, <1>7, <1>8, StepInv DEF Keeps

LEMMA Raised ==
  ASSUME SessionInv, NEW c \in Call, NEW scope \in Fence, Raise(scope, c)
  PROVE  /\ fence' \in [Fence -> 0..epoch_counter]
         /\ fence'[scope] = calls[c].epoch
         /\ \A x \in Fence \ {scope} : fence'[x] = fence[x]
  <1>1. calls[c].epoch \in 0..epoch_counter
    BY DEF SessionInv, CallOK, CallFits, AnyCall, SharedOK, LockTypeOK
  <1>. QED
    BY <1>1 DEF SessionInv, SharedOK, Raise

LEMMA RehydrateStep ==
  ASSUME SessionInv, NEW c \in Call, Rehydrate(c)
  PROVE  SessionInv'
  <1> DEFINE writes == fence["store"] = 0 \/ c = Starter
             seed == IF c = Starter THEN {c} ELSE {}
  <1>1. At(c, "rehydrate") /\ UNCHANGED lockVars
    BY DEF Rehydrate
  <1>2. CASE writes /\ ~Accepts("store", c)
    <2>1. Ends(c, "superseded") /\ UNCHANGED <<lockVars, data, history>>
      BY <1>2 DEF Rehydrate
    <2>. QED
      BY <1>1, <2>1, UnchangedIsQuiet, EndStep DEF Status, At, RunPC
  <1>3. CASE ~(writes /\ ~Accepts("store", c))
    <2>1. /\ IF writes THEN Raise("store", c) ELSE UNCHANGED fence
          /\ store' = store \cup seed
          /\ calls' = [calls EXCEPT ![c].pc = "gather", ![c].mirror = store \cup seed]
          /\ excuses' = excuses \cup (IF seed # {} /\ Strays(c) THEN {"strayed"} ELSE {})
          /\ UNCHANGED <<pending, record, marked, faults, finalized>>
      BY <1>3 DEF Rehydrate, merge
    <2>2. seed \in SUBSET (Call \ Redrives)
      BY SessionAssumption DEF Call
    <2> HIDE DEF seed, writes
    <2>3. PICK t \in AnyCall : t = calls[c]
      BY DEF SessionInv
    <2>4. PICK m : m = store \cup seed
      OBVIOUS
    <2>5. m \in SUBSET Call
      BY <2>2, <2>4 DEF SessionInv, SharedOK
    <2>6. PICK r : r = [t EXCEPT !.pc = "gather", !.mirror = m]
      OBVIOUS
    <2>7. /\ r \in AnyCall /\ r.epoch = t.epoch /\ r.pc = "gather" /\ r.mirror = m
          /\ r.status = t.status
      <3>1. "gather" \in PC
        BY DEF PC, RunPC
      <3>. QED
        BY <2>5, <2>6, <3>1 DEF AnyCall
    <2>8. Moved(c, r)
      BY <2>1, <2>3, <2>4, <2>6 DEF Moved, SessionInv, AnyCall
    <2>9. t.status = "none" /\ t.pc = "rehydrate"
      BY <1>1, <2>3 DEF SessionInv, CallOK, CallFits, At
    <2>10. /\ fence' \in [Fence -> 0..epoch_counter]
           /\ fence'["marker"] = fence["marker"] /\ fence'["record"] = fence["record"]
      BY <2>1, Raised DEF Fence, SessionInv, SharedOK
    <2>. QED
      BY <1>1, <2>1, <2>2, <2>3, <2>4, <2>7, <2>8, <2>9, <2>10, StoreStep
  <1>. QED
    BY <1>2, <1>3

LEMMA GatherPassStep ==
  ASSUME SessionInv, NEW c \in Call, GatherPass(c)
  PROVE  SessionInv'
  <1> DEFINE still == pending = {} /\ ~(calls[c].fresh /\ At(c, "gather"))
  <1>1. UNCHANGED lockVars /\ calls[c].pc \in {"gather", "gathered"}
    BY DEF GatherPass, At
  <1>2. CASE still
    <2>1. /\ calls' = Ripened([calls EXCEPT ![c].pc = "gathered"])
          /\ UNCHANGED <<lockVars, data, history>>
      BY <1>2 DEF GatherPass
    <2>. QED
      BY <1>1, <2>1, UnchangedIsQuiet, RunGo DEF RunPC, Before, Folded
  <1>3. CASE ~still /\ ~Accepts("store", c)
    <2>1. Ends(c, "superseded") /\ UNCHANGED <<lockVars, data, history>>
      BY <1>3 DEF GatherPass
    <2>. QED
      BY <1>1, <2>1, UnchangedIsQuiet, EndStep DEF Status, RunPC
  <1>4. CASE ~still /\ Accepts("store", c)
    <2>1. /\ store' = store \cup pending /\ pending' = {} /\ Raise("store", c)
          /\ calls' = Ripened([calls EXCEPT ![c].pc = "gathered",
                                            ![c].mirror = @ \cup pending])
          /\ excuses' = excuses \cup (IF pending # {} /\ Strays(c) THEN {"strayed"} ELSE {})
          /\ UNCHANGED <<record, marked, faults, finalized>>
      BY <1>4 DEF GatherPass, merge
    <2>2. PICK S : S = pending
      OBVIOUS
    <2>3. S \in SUBSET (Call \ Redrives)
      BY <2>2, SessionAssumption DEF Call, SessionInv, SharedOK
    <2>4. PICK t \in AnyCall : t = calls[c]
      BY DEF SessionInv
    <2>5. PICK r : r = [t EXCEPT !.pc = "gathered", !.mirror = t.mirror \cup S]
      OBVIOUS
    <2>6. /\ r \in AnyCall /\ r.epoch = t.epoch /\ r.pc = "gathered"
          /\ r.mirror = t.mirror \cup S /\ r.status = t.status
      <3>1. "gathered" \in PC /\ t.mirror \cup S \in SUBSET Call
        BY <2>3 DEF PC, RunPC, AnyCall
      <3>. QED
        BY <2>5, <3>1 DEF AnyCall
    <2>7. Moved(c, r)
      <3>1. [calls EXCEPT ![c].pc = "gathered", ![c].mirror = @ \cup pending]
              = [calls EXCEPT ![c] = r]
        BY <2>2, <2>4, <2>5 DEF SessionInv, AnyCall
      <3>. QED
        BY <2>1, <2>6, <3>1 DEF Moved
    <2>8. CallOK(t) /\ t.pc \in RunPC \ {"rehydrate"}
      BY <1>1, <2>4 DEF SessionInv, RunPC
    <2>9. t.status = "none" /\ t.mirror \subseteq store
          /\ (excuses = {} /\ t.epoch = epoch_counter => t.mirror = store)
      BY <2>8 DEF CallOK, CallFits, NewestKnowsAll, RunPC
    <2>10. /\ fence' \in [Fence -> 0..epoch_counter]
           /\ fence'["marker"] = fence["marker"] /\ fence'["record"] = fence["record"]
      BY <2>1, Raised DEF Fence
    <2>11. r.mirror \subseteq store \cup S
           /\ (excuses = {} /\ r.epoch = epoch_counter => r.mirror = store \cup S)
      BY <2>6, <2>9
    <2>. QED
      BY <1>1, <2>1, <2>2, <2>3, <2>4, <2>6, <2>7, <2>9, <2>10, <2>11, StoreStep
  <1>. QED
    BY <1>2, <1>3, <1>4

\* A step that excuses itself and leaves the data alone.
LEMMA ExcusedStep ==
  ASSUME SessionInv, NEW c \in Call, NEW p \in RunPC, calls[c].pc \in RunPC, Go(c, p),
         p \notin Before, UNCHANGED <<lockVars, data, finalized>>, faults' \in 0..MaxFaults,
         excuses' \subseteq {"late", "inherited", "strayed", "dead_lettered"}, excuses' # {}
  PROVE  SessionInv'
  <1>1. PICK t \in AnyCall : t = calls[c]
    BY DEF SessionInv
  <1>2. PICK r : r = [t EXCEPT !.pc = p]
    OBVIOUS
  <1>3. /\ r \in AnyCall /\ r.epoch = t.epoch /\ r.pc = p /\ r.mirror = t.mirror
        /\ r.status = t.status
    BY <1>2 DEF AnyCall, PC
  <1>4. Moved(c, r)
    BY <1>1, <1>2 DEF Moved, Go, SessionInv
  <1>5. CallOK(t) /\ t.pc \in RunPC /\ t.pc \notin ManagerPC /\ p \notin ManagerPC
        /\ t.pc # "release"
    BY <1>1 DEF SessionInv, RunPC, ManagerPC
  <1>6. UNCHANGED <<epoch_counter, holder, complete, pending, store, record, marked, fence, finalized>>
    BY DEF lockVars, data
  <1>7. CallOK(r)'
    BY <1>3, <1>5, <1>6 DEF CallOK, CallFits, MarkerForeign, NewestKnowsAll
  <1>8. \A s \in AnyCall : CallOK(s) => CallOK(s)'
    BY <1>6 DEF CallOK, CallFits, MarkerForeign, NewestKnowsAll
  <1>9. SharedOK' /\ Finished'
    BY <1>6 DEF SessionInv, SharedOK, LockTypeOK, Finished
  <1>. QED
    BY <1>1, <1>3, <1>4, <1>7, <1>8, <1>9, StepInv DEF Keeps

\* A marker that is found is another run's, so the skip is excused.
LEMMA SkipStep ==
  ASSUME SessionInv, NEW c \in Call, SkipContributed(c)
  PROVE  SessionInv'
  <1>1. calls[c].pc = "contributed"
    BY DEF SkipContributed, At
  <1>2. CASE marked
    <2>1. fence["marker"] # calls[c].epoch
      BY <1>1, <1>2 DEF SessionInv, CallOK, MarkerForeign, Before
    <2>2. /\ Go(c, "check") /\ excuses' = excuses \cup {"inherited"}
          /\ UNCHANGED <<lockVars, data, faults, finalized>>
      BY <1>2, <2>1 DEF SkipContributed
    <2>. QED
      BY <1>1, <2>2, ExcusedStep DEF RunPC, Before, SessionInv, SharedOK
  <1>3. CASE ~marked
    <2>1. /\ Go(c, "fold") /\ excuses' = excuses
          /\ UNCHANGED <<lockVars, data, faults, finalized>>
      BY <1>3 DEF SkipContributed
    <2>2. Quiet
      BY <2>1, UnchangedIsQuiet DEF history
    <2>. QED
      BY <1>1, <2>1, <2>2, RunGo DEF RunPC, Before, Folded, Go
  <1>. QED
    BY <1>2, <1>3

\* The newest run's fold is accepted and has everything; a predecessor's is
\* fenced out once the newest has folded.
LEMMA FoldStep ==
  ASSUME SessionInv, NEW c \in Call, Fold(c)
  PROVE  SessionInv'
  <1>1. PICK t \in AnyCall : t = calls[c]
    BY DEF SessionInv
  <1>2. PICK r : r = [t EXCEPT !.pc = "attempted"]
    OBVIOUS
  <1>3. /\ r \in AnyCall /\ r.epoch = t.epoch /\ r.pc = "attempted" /\ r.mirror = t.mirror
        /\ r.status = t.status
    BY <1>2 DEF AnyCall, PC, RunPC
  <1>4. Moved(c, r) /\ UNCHANGED <<lockVars, pending, store, marked, history>>
    BY <1>1, <1>2 DEF Moved, Go, SessionInv, Fold
  <1>5. CallOK(t) /\ t.pc = "fold" /\ t.epoch # 0
    BY <1>1 DEF SessionInv, Fold, At, CallOK, CallFits, ManagerPC
  <1>6. /\ t.epoch \in Nat /\ t.epoch <= epoch_counter /\ epoch_counter \in Nat
        /\ fence["record"] \in 0..epoch_counter
    BY <1>5 DEF SessionInv, CallOK, CallFits, AnyCall, SharedOK, LockTypeOK, Fence
  <1>7. IF t.epoch >= fence["record"]
        THEN record' = t.mirror /\ Raise("record", c) ELSE UNCHANGED <<record, fence>>
    BY <1>1 DEF Fold, Accepts
  <1>8. /\ fence' \in [Fence -> 0..epoch_counter] /\ fence'["marker"] = fence["marker"]
        /\ t.epoch >= fence["record"] => fence'["record"] = t.epoch
        /\ ~(t.epoch >= fence["record"]) => record' = record /\ fence'["record"] = fence["record"]
    <2>1. CASE t.epoch >= fence["record"]
      BY <1>1, <1>7, <2>1, Raised DEF Fence
    <2>2. CASE ~(t.epoch >= fence["record"])
      BY <1>7, <2>2 DEF SessionInv, SharedOK
    <2>. QED
      BY <2>1, <2>2
  <1>9. UNCHANGED <<epoch_counter, holder, complete, faults, finalized, excuses>>
    BY <1>4 DEF lockVars, history
  <1>10. CallOK(r)'
    <2>1. CallFits(r)' /\ MarkerForeign(r)'
      BY <1>3, <1>4, <1>5, <1>8, <1>9 DEF CallOK, CallFits, MarkerForeign, Before, ManagerPC
    <2>2. NewestKnowsAll(r)'
      BY <1>3, <1>4, <1>5, <1>6, <1>7, <1>8, <1>9 DEF CallOK, NewestKnowsAll, RunPC
    <2>. QED
      BY <2>1, <2>2 DEF CallOK
  <1>11. ASSUME NEW s \in AnyCall, CallOK(s), s.epoch # 0 => s.epoch # calls[c].epoch
         PROVE  CallOK(s)'
    <2>1. CallFits(s)' /\ MarkerForeign(s)'
      BY <1>4, <1>8, <1>9, <1>11 DEF CallOK, CallFits, MarkerForeign
    <2>2. s.epoch = epoch_counter => t.epoch < epoch_counter
      BY <1>1, <1>5, <1>6, <1>11
    <2>3. NewestKnowsAll(s)'
      BY <1>4, <1>6, <1>8, <1>9, <1>11, <2>2 DEF CallOK, NewestKnowsAll
    <2>. QED
      BY <2>1, <2>3 DEF CallOK
  <1>12. SharedOK'
    <2>1. record' \subseteq store
      BY <1>5, <1>7 DEF SessionInv, SharedOK, CallOK, CallFits
    <2>. QED
      BY <1>4, <1>8, <1>9, <2>1 DEF SessionInv, SharedOK, LockTypeOK
  <1>13. Finished'
    <2>1. SUFFICES ASSUME excuses = {}, complete PROVE record' = store' /\ fence'["record"] = epoch_counter'
      BY <1>9 DEF Finished
    <2>2. fence["record"] = epoch_counter /\ t.epoch # epoch_counter /\ record = store
      BY <1>5, <2>1 DEF SessionInv, Finished, CallOK, NewestKnowsAll, RunPC
    <2>. QED
      BY <1>4, <1>6, <1>8, <1>9, <2>2
  <1>. QED
    BY <1>1, <1>3, <1>4, <1>10, <1>11, <1>12, <1>13, StepInv DEF Keeps

\* Marking changes nothing that another run of this or a newer epoch claims.
LEMMA MarkStep ==
  ASSUME SessionInv, NEW c \in Call, mark_contribution(c)
  PROVE  SessionInv'
  <1>1. calls[c].pc = "mark" /\ UNCHANGED <<lockVars, pending, store, record, history>>
    BY DEF mark_contribution, At
  <1>2. CASE ~Accepts("marker", c)
    <2>1. Ends(c, "superseded") /\ UNCHANGED <<lockVars, data, history>>
      BY <1>1, <1>2 DEF mark_contribution, data
    <2>. QED
      BY <1>1, <2>1, UnchangedIsQuiet, EndStep DEF Status, RunPC
  <1>3. CASE Accepts("marker", c)
    <2>1. marked' = TRUE /\ Raise("marker", c) /\ Go(c, "check")
      BY <1>3 DEF mark_contribution
    <2>2. PICK t \in AnyCall : t = calls[c]
      BY DEF SessionInv
    <2>3. PICK r : r = [t EXCEPT !.pc = "check"]
      OBVIOUS
    <2>4. /\ r \in AnyCall /\ r.epoch = t.epoch /\ r.pc = "check" /\ r.mirror = t.mirror
          /\ r.status = t.status
      BY <2>3 DEF AnyCall, PC, RunPC
    <2>5. Moved(c, r)
      BY <2>1, <2>2, <2>3 DEF Moved, Go, SessionInv
    <2>6. CallOK(t) /\ t.pc = "mark" /\ t.epoch # 0
      BY <1>1, <2>2 DEF SessionInv, CallOK, CallFits, ManagerPC
    <2>7. /\ fence' \in [Fence -> 0..epoch_counter] /\ fence'["marker"] = t.epoch
          /\ fence'["record"] = fence["record"]
      BY <2>1, <2>2, Raised DEF Fence
    <2>8. UNCHANGED <<epoch_counter, holder, complete, faults, finalized, excuses>>
      BY <1>1 DEF lockVars, history
    <2>9. CallOK(r)'
      BY <1>1, <2>4, <2>6, <2>7, <2>8 DEF CallOK, CallFits, MarkerForeign, NewestKnowsAll,
         Before, Folded, RunPC, ManagerPC
    <2>10. ASSUME NEW s \in AnyCall, CallOK(s), s.epoch # 0 => s.epoch # calls[c].epoch
           PROVE  CallOK(s)'
      <3>1. CallFits(s)' /\ NewestKnowsAll(s)'
        BY <1>1, <2>7, <2>8, <2>10 DEF CallOK, CallFits, NewestKnowsAll
      <3>2. MarkerForeign(s)'
        BY <2>2, <2>6, <2>7, <2>10 DEF MarkerForeign
      <3>. QED
        BY <3>1, <3>2 DEF CallOK
    <2>11. SharedOK' /\ Finished'
      BY <1>1, <2>1, <2>7, <2>8 DEF SessionInv, SharedOK, LockTypeOK, Finished
    <2>. QED
      BY <2>2, <2>4, <2>5, <2>9, <2>10, <2>11, StepInv DEF Keeps
  <1>. QED
    BY <1>2, <1>3

LEMMA RedriveStep ==
  ASSUME SessionInv, NEW c \in Call, prepare_redrive(c)
  PROVE  SessionInv'
  <1>1. /\ calls[c].pc = "redrive" /\ marked' = FALSE
        /\ calls' = [calls EXCEPT ![c].pc = "gather", ![c].fresh = TRUE]
        /\ UNCHANGED <<lockVars, pending, store, record, fence, history>>
    BY DEF prepare_redrive, prepared, At
  <1>2. PICK t \in AnyCall : t = calls[c]
    BY DEF SessionInv
  <1>3. PICK r : r = [t EXCEPT !.pc = "gather", !.fresh = TRUE]
    OBVIOUS
  <1>4. /\ r \in AnyCall /\ r.epoch = t.epoch /\ r.pc = "gather" /\ r.mirror = t.mirror
        /\ r.status = t.status
    BY <1>3 DEF AnyCall, PC, RunPC
  <1>5. Moved(c, r)
    BY <1>1, <1>2, <1>3 DEF Moved, SessionInv, AnyCall
  <1>6. CallOK(t) /\ t.pc = "redrive"
    BY <1>1, <1>2 DEF SessionInv
  <1>7. UNCHANGED <<epoch_counter, holder, complete, store, record, fence, faults, finalized, excuses>>
    BY <1>1 DEF lockVars, history
  <1>8. CallOK(r)'
    BY <1>1, <1>4, <1>6, <1>7 DEF CallOK, CallFits, MarkerForeign, NewestKnowsAll,
       Folded, RunPC, ManagerPC
  <1>9. \A s \in AnyCall : CallOK(s) => CallOK(s)'
    BY <1>1, <1>7 DEF CallOK, CallFits, MarkerForeign, NewestKnowsAll
  <1>10. SharedOK' /\ Finished'
    BY <1>1, <1>7 DEF SessionInv, SharedOK, LockTypeOK, Finished
  <1>. QED
    BY <1>2, <1>4, <1>5, <1>8, <1>9, <1>10, StepInv DEF Keeps

\* The flag is raised by the newest run, over a record that has everything.
LEMMA RaiseFlagStep ==
  ASSUME SessionInv, NEW c \in Call, At(c, "finalize"), mark_complete(calls[c].epoch),
         finalized' = calls[c].epoch, NEW s \in Status, Ends(c, s),
         UNCHANGED <<data, excuses>>, faults' \in 0..MaxFaults
  PROVE  SessionInv'
  <1>1. PICK t \in AnyCall : t = calls[c]
    BY DEF SessionInv
  <1>2. CallOK(t) /\ t.pc = "finalize" /\ t.epoch # 0 /\ t.epoch \in Nat /\ epoch_counter \in Nat
    BY <1>1 DEF SessionInv, At, CallOK, CallFits, ManagerPC, AnyCall, SharedOK, LockTypeOK
  <1>3. t.epoch = epoch_counter
    BY <1>1, <1>2 DEF mark_complete, CanFinalize, CallOK, CallFits
  <1>4. /\ UNCHANGED <<epoch_counter, holder, pending, store, record, marked, fence, excuses>>
        /\ complete' = TRUE
    BY DEF mark_complete, data
  <1>5. PICK r \in AnyCall : Ended(r, calls[c]) /\ Moved(c, r)
    BY EndsMoves
  <1>6. CallOK(r)'
    BY <1>1, <1>2, <1>3, <1>4, <1>5 DEF Ended, CallOK, CallFits, MarkerForeign, NewestKnowsAll,
       Before, Folded, RunPC, ManagerPC
  <1>7. ASSUME NEW u \in AnyCall, CallOK(u), u.epoch # 0 => u.epoch # calls[c].epoch
        PROVE  CallOK(u)'
    BY <1>1, <1>2, <1>3, <1>4, <1>7 DEF CallOK, CallFits, MarkerForeign, NewestKnowsAll
  <1>8. SharedOK'
    BY <1>1, <1>2, <1>3, <1>4 DEF SessionInv, SharedOK, LockTypeOK
  <1>9. Finished'
    BY <1>2, <1>3, <1>4 DEF Finished, CallOK, NewestKnowsAll, Folded
  <1>. QED
    BY <1>5, <1>6, <1>7, <1>8, <1>9, StepInv DEF Keeps, Ended

LEMMA FinalizeStep ==
  ASSUME SessionInv, NEW c \in Call, Finalize(c)
  PROVE  SessionInv'
  <1>1. CASE CanFinalize(calls[c].epoch)
    BY <1>1, RaiseFlagStep DEF Finalize, Status, SessionInv, SharedOK
  <1>2. CASE ~CanFinalize(calls[c].epoch)
    <2>1. Ends(c, "superseded") /\ UNCHANGED <<lockVars, data, history>> /\ calls[c].pc = "finalize"
      BY <1>2 DEF Finalize, history, At
    <2>. QED
      BY <2>1, UnchangedIsQuiet, EndStep DEF Status, RunPC
  <1>. QED
    BY <1>1, <1>2

LEMMA ReleaseStep ==
  ASSUME SessionInv, NEW c \in Call, Release(c)
  PROVE  SessionInv'
  <1>1. PICK p \in {"probe", "done"} :
          calls' = Ripened([calls EXCEPT ![c] = Out(p, calls[c].budget)])
    <2>1. calls' = Ripened([calls EXCEPT ![c] =
            Out(IF calls[c].status = "completed" THEN "probe" ELSE "done", calls[c].budget)])
      BY DEF Release
    <2>2. CASE calls[c].status = "completed"
      BY <2>1, <2>2
    <2>3. CASE calls[c].status # "completed"
      BY <2>1, <2>3
    <2>. QED
      BY <2>2, <2>3
  <1>2. Quiet
    BY MaxEpochAssumption DEF Release, release, Quiet, data, history, SessionInv, SharedOK, LockTypeOK
  <1>3. calls[c].budget \in 0..MAX_BACKSTOP_RESPAWNS
    BY DEF SessionInv, AnyCall
  <1>. QED
    BY <1>1, <1>2, <1>3, OutStep DEF ManagerPC

\* The steps that move the run on and nothing else.
LEMMA PlainRunSteps ==
  ASSUME SessionInv, NEW c \in Call,
         \/ LeaseLost(c) \/ Quiesce(c) \/ Park(c) \/ Aggregate(c) \/ AfterAttempt(c)
         \/ CheckInbox(c)
  PROVE  SessionInv'
  <1>1. Quiet
    BY UnchangedIsQuiet DEF LeaseLost, Quiesce, Park, Aggregate, AfterAttempt, CheckInbox
  <1>2. CASE LeaseLost(c) \/ Park(c)
    <2>1. calls[c].pc \in RunPC
      BY <1>2 DEF LeaseLost, Park, At, RunPC
    <2>2. \E s \in Status : Ends(c, s)
      BY <1>2 DEF LeaseLost, Park, Status
    <2>. QED
      BY <1>1, <2>1, <2>2, EndStep
  <1>3. CASE Quiesce(c)
    <2>1. Go(c, "aggregate") /\ calls[c].pc \in {"gather", "gathered"}
      BY <1>3 DEF Quiesce, At
    <2>. QED
      BY <1>1, <2>1, RunGo DEF Go, RunPC, Before, Folded
  <1>4. CASE Aggregate(c)
    <2>1. calls' = Ripened([calls EXCEPT ![c].pc = "contributed"]) /\ calls[c].pc = "aggregate"
      BY <1>4 DEF Aggregate, At
    <2>. QED
      BY <1>1, <2>1, RunGo DEF RunPC, Before, Folded
  <1>5. CASE AfterAttempt(c)
    <2>1. calls' = Ripened([calls EXCEPT ![c].pc = "mark"]) /\ calls[c].pc = "attempted"
      BY <1>5 DEF AfterAttempt, At
    <2>. QED
      BY <1>1, <2>1, RunGo DEF RunPC, Before, Folded
  <1>6. CASE CheckInbox(c)
    <2>1. calls[c].pc = "check" /\ \E p \in {"finalize", "redrive"} : Go(c, p)
      BY <1>6 DEF CheckInbox, At
    <2>. QED
      BY <1>1, <2>1, RunGo DEF Go, RunPC, Before, Folded
  <1>. QED
    BY <1>2, <1>3, <1>4, <1>5, <1>6

-----------------------------------------------------------------------------
(* Faults.                                                                 *)

LEMMA FaultSteps ==
  ASSUME SessionInv, NEW c \in Call,
         Crash(c) \/ RunFails(c) \/ FinalizeTimesOut(c) \/ DeadLetter(c)
  PROVE  SessionInv'
  <1>1. faults' \in 0..MaxFaults
    BY SessionAssumption DEF SessionInv, SharedOK, Fault, Crash, RunFails, FinalizeTimesOut,
       DeadLetter
  <1>2. CASE Crash(c) \/ RunFails(c)
    <2>1. Quiet
      BY <1>1, <1>2 DEF Crash, RunFails, Quiet, SessionInv, SharedOK, LockTypeOK, lockVars, data
    <2>2. calls[c].budget \in 0..MAX_BACKSTOP_RESPAWNS
      BY DEF SessionInv, AnyCall
    <2>3. CASE Crash(c)
      BY <2>1, <2>2, <2>3, OutStep DEF Crash, ManagerPC
    <2>4. CASE RunFails(c)
      BY <2>1, <2>4, EndStep DEF RunFails, Status
    <2>. QED
      BY <1>2, <2>3, <2>4
  <1>3. CASE FinalizeTimesOut(c)
    BY <1>1, <1>3, RaiseFlagStep DEF FinalizeTimesOut, Status
  <1>4. CASE DeadLetter(c)
    <2>1. /\ calls[c].pc = "fold" /\ Go(c, "check") /\ excuses' = excuses \cup {"dead_lettered"}
          /\ UNCHANGED <<lockVars, data, finalized>>
      BY <1>4 DEF DeadLetter, At
    <2>. QED
      BY <1>1, <2>1, ExcusedStep DEF RunPC, Before, SessionInv, SharedOK
  <1>. QED
    BY <1>2, <1>3, <1>4

LEMMA LapseStep ==
  ASSUME SessionInv, Lapse
  PROVE  SessionInv'
  <1>1. Quiet
    <2>1. faults' \in 0..MaxFaults
      BY SessionAssumption DEF Lapse, Fault, SessionInv, SharedOK
    <2>. QED
      BY <2>1, MaxEpochAssumption DEF Lapse, expire, Quiet, data
  <1>2. PICK t \in AnyCall : t = calls[Starter]
    BY DEF SessionInv, Call
  <1>3. PICK r : r = IF t.pc = "sleeping" THEN [t EXCEPT !.pc = "due"] ELSE t
    OBVIOUS
  <1>4. /\ r \in AnyCall /\ r.epoch = t.epoch /\ r.mirror = t.mirror /\ r.status = t.status
        /\ r.pc = IF t.pc = "sleeping" THEN "due" ELSE t.pc
    BY <1>3 DEF AnyCall, PC, ManagerPC
  <1>5. CallOK(t)
    BY <1>2 DEF SessionInv, Call
  <1>6. CallOK(r)
    BY <1>4, <1>5 DEF CallOK, CallFits, MarkerForeign, NewestKnowsAll, Before,
       Folded, RunPC, ManagerPC
  <1>7. Moved(Starter, r)
    <2>1. Ripened(calls) = Ripened([calls EXCEPT ![Starter] = r])
      BY <1>2, <1>3, <1>4 DEF Ripened, SessionInv
    <2>. QED
      BY <1>4, <2>1 DEF Moved, Lapse
  <1>. QED
    BY <1>1, <1>2, <1>4, <1>6, <1>7, QuietStep DEF Call

-----------------------------------------------------------------------------
LEMMA ZeroBounded == 0 \in 0..MaxEpoch
  BY MaxEpochAssumption

LEMMA InitSessionInv == Init => SessionInv
  <1> SUFFICES ASSUME Init PROVE SessionInv
    OBVIOUS
  <1>1. /\ epoch_counter = 0 /\ holder = 0 /\ complete = FALSE
        /\ pending = {} /\ store = {} /\ record = {} /\ marked = FALSE
        /\ fence = [s \in Fence |-> 0] /\ faults = 0 /\ finalized = 0 /\ excuses = {}
        /\ calls = [c \in Call |-> Out("idle", MAX_BACKSTOP_RESPAWNS)]
    BY DEF Init, LockInit
  <1>2. SharedOK
    <2>1. LockTypeOK /\ marked \in BOOLEAN
      BY Zenon, <1>1, ZeroBounded DEF LockTypeOK
    <2>2. fence \in [Fence -> 0..epoch_counter]
      BY <1>1
    <2>3. faults \in 0..MaxFaults /\ finalized \in 0..epoch_counter
      BY <1>1, SessionAssumption
    <2>. QED
      BY <1>1, <2>1, <2>2, <2>3 DEF SharedOK
  <1>3. PICK r : r = Out("idle", MAX_BACKSTOP_RESPAWNS)
    OBVIOUS
  <1>4. r \in AnyCall /\ r.epoch = 0 /\ CallOK(r)
    BY <1>1, <1>3, OutFits, SessionAssumption DEF ManagerPC
  <1>5. /\ calls \in [Call -> AnyCall]
        /\ \A c \in Call : calls[c] = r
    BY <1>1, <1>3, <1>4
  <1>. QED
    BY <1>1, <1>2, <1>4, <1>5 DEF SessionInv, EpochsUnique, Finished

LEMMA NextSessionInv == SessionInv /\ [Next]_vars => SessionInv'
  <1> SUFFICES ASSUME SessionInv, [Next]_vars PROVE SessionInv'
    OBVIOUS
  <1>1. CASE start_session
    BY <1>1, ReadSteps DEF Call
  <1>2. ASSUME NEW c \in Call, deliver(c) \/ Redrive(c) PROVE SessionInv'
    BY <1>2, ReadSteps, DeliverStep
  <1>3. ASSUME NEW c \in Call, ManagerStep(c) PROVE SessionInv'
    BY <1>3, ReadSteps, ClearSteps, ProbeSteps, AcquireStep DEF ManagerStep
  <1>4. ASSUME NEW c \in Call, RunStep(c) PROVE SessionInv'
    BY <1>4, RehydrateStep, GatherPassStep, PlainRunSteps, SkipStep, FoldStep, MarkStep,
       RedriveStep, FinalizeStep, ReleaseStep DEF RunStep
  <1>5. CASE FaultStep
    BY <1>5, LapseStep, FaultSteps DEF FaultStep
  <1>6. CASE UNCHANGED vars
    BY <1>6 DEF vars, lockVars, SessionInv, SharedOK, LockTypeOK, EpochsUnique, Finished,
       CallOK, CallFits, MarkerForeign, NewestKnowsAll
  <1>. QED
    BY <1>1, <1>2, <1>3, <1>4, <1>5, <1>6 DEF Next

LEMMA SessionInvAlways == Spec => []SessionInv
  BY InitSessionInv, NextSessionInv, PTL DEF Spec

\* The lock, the inbox, the store, the record, the marker, the fences and every
\* call on the session are well typed in every reachable state: a call has an
\* epoch exactly while it runs, and no mirror has what the store has not.
THEOREM SessionTypeCorrect == Spec => []TypeOK
  <1>1. SessionInv => TypeOK
    BY DEF SessionInv, SharedOK, AnyCall, PC, Status, CallOK, CallFits, TypeOK, LockTypeOK
  <1>. QED
    BY <1>1, SessionInvAlways, PTL

\* Whenever the completion flag is up the durable record has every stored
\* DataPoint, for any number of calls, of pods and of faults, unless one of
\* the four known escapes happened (manager.py, orchestrator.py _run).
THEOREM CompleteMeansFolded == Spec => []FoldedUnlessExcused
  <1>1. SessionInv => FoldedUnlessExcused
    BY DEF SessionInv, Finished, FoldedUnlessExcused
  <1>. QED
    BY <1>1, SessionInvAlways, PTL

-----------------------------------------------------------------------------
(* No straggler is left.  A second invariant, on top of the first: what    *)
(* holds of an orderly session, with no fault so far and no run that came  *)
(* late, and how far a call's backstop budget can be spent.                *)

Delivered == {d \in Deliveries : calls[d].pc # "idle"}
PastCheck(r) ==
    \/ r.pc \in {"finalize", "probe"}
    \/ r.pc = "release" /\ r.status = "completed"

\* A respawn is spent on a delivery that landed in the gap, and the run that
\* follows has drained it by its check of the inbox.
Spending ==
    /\ pending \subseteq Delivered
    /\ \A c \in Call :
         /\ MAX_BACKSTOP_RESPAWNS - calls[c].budget <= Cardinality(Delivered)
         /\ PastCheck(calls[c]) =>
              MAX_BACKSTOP_RESPAWNS - calls[c].budget <= Cardinality(Delivered \ pending)

\* The hypothesis: a respawn for every delivery.
WideBackstop ==
    IsFiniteSet(Deliveries) /\ Cardinality(Deliveries) <= MAX_BACKSTOP_RESPAWNS

Orderly == faults = 0 /\ "late" \notin excuses
Parked(r) == r.pc = "release" /\ r.status # "completed"

\* The one run there is holds the lease, and nobody else does.
LeaseLive ==
    /\ \A c \in Call : calls[c].epoch # 0 => calls[c].epoch = holder /\ holder = epoch_counter
    /\ holder # 0 => \E c \in Call : calls[c].epoch = holder

\* Only a run that has finalized leaves the flag up.
FlagDown == \A c \in Call : calls[c].pc \in RunPC \/ Parked(calls[c]) => ~complete

StarterFirst == epoch_counter = 0 => calls[Starter].pc \in {"idle", "spawn"}

\* While a parked run still holds the lease, what is in the inbox came after
\* its last pass, and the delivery has yet to see the lease go.
ParkedBefore ==
    \A c \in Call : Parked(calls[c]) =>
        \A d \in pending : calls[d].pc \in {"delivered", "deliver_held", "sleeping"}

\* A call that will look into the inbox before it is done.
Guards(c) ==
    \/ calls[c].pc \in RunPC \cup {"probe", "clear", "unmark", "spawn"}
    \/ calls[c].pc = "release" /\ calls[c].status = "completed"
    \/ c = Starter /\ calls[c].pc = "idle"
SomeGuard == \E c \in Call : Guards(c)

\* A delivery that will itself see to a run.
OnItsWay(d) ==
    \/ calls[d].pc \in {"delivered", "sleeping", "due", "reopen_held", "resume_epoch",
                        "resume_held"}
    \/ calls[d].pc \in {"deliver_held", "resume"} /\ ~complete
    \/ calls[d].pc = "reopen" /\ complete

Awaited == \A d \in pending \cap Reopening : OnItsWay(d) \/ SomeGuard

OrderlyInv == LeaseLive /\ FlagDown /\ StarterFirst /\ ParkedBefore /\ Awaited

GapInv == Spending /\ (Orderly => OrderlyInv)

-----------------------------------------------------------------------------
(* Where each step takes its call.                                         *)

Step(c, p, e, st, b) ==
    /\ calls' \in [Call -> AnyCall]
    /\ calls'[c].pc = p /\ calls'[c].epoch = e /\ calls'[c].status = st
    /\ calls'[c].budget = b
    /\ \A d \in Call \ {c} : SameOrRipe(d)

\* Its own progress apart, the call stays what it was.
Goes(c, p) == Step(c, p, calls[c].epoch, calls[c].status, calls[c].budget)

LEMMA MovedStep ==
  ASSUME SessionInv, NEW c \in Call, NEW r \in AnyCall, Moved(c, r)
  PROVE  Step(c, r.pc, r.epoch, r.status, r.budget)
  BY MovedCalls DEF SessionInv, Step

LEMMA GoGoes ==
  ASSUME SessionInv, NEW c \in Call, NEW p \in PC,
         \/ calls' = [calls EXCEPT ![c].pc = p]
         \/ p # "sleeping" /\ calls' = Ripened([calls EXCEPT ![c].pc = p])
  PROVE  Goes(c, p)
  <1>1. PICK t \in AnyCall : t = calls[c]
    BY DEF SessionInv
  <1>2. PICK r : r = [t EXCEPT !.pc = p]
    OBVIOUS
  <1>3. /\ r \in AnyCall /\ r.epoch = t.epoch /\ r.pc = p /\ r.status = t.status
        /\ r.budget = t.budget
    BY <1>2 DEF AnyCall
  <1>4. [calls EXCEPT ![c].pc = p] = [calls EXCEPT ![c] = r]
    BY <1>1, <1>2 DEF SessionInv
  <1>5. Moved(c, r)
    BY <1>3, <1>4 DEF Moved
  <1>. QED
    BY <1>1, <1>3, <1>5, MovedStep DEF Goes

LEMMA OutGoes ==
  ASSUME SessionInv, NEW c \in Call, NEW p \in ManagerPC, p # "sleeping",
         NEW b \in 0..MAX_BACKSTOP_RESPAWNS,
         \/ calls' = [calls EXCEPT ![c] = Out(p, b)]
         \/ calls' = Ripened([calls EXCEPT ![c] = Out(p, b)])
  PROVE  Step(c, p, 0, "none", b)
  <1>1. PICK r : r = Out(p, b)
    OBVIOUS
  <1>2. r \in AnyCall /\ r.epoch = 0 /\ r.pc = p /\ r.status = "none" /\ r.budget = b
    BY <1>1 DEF Out, AnyCall, PC, Status
  <1>3. Moved(c, r)
    BY <1>1, <1>2 DEF Moved
  <1>. QED
    BY <1>2, <1>3, MovedStep

LEMMA EndsGoes ==
  ASSUME SessionInv, NEW c \in Call, NEW s \in Status, Ends(c, s)
  PROVE  Step(c, "release", calls[c].epoch, s, calls[c].budget)
  BY EndsMoves, MovedStep DEF Ended

\* The steps with which a run stays a run.
Stays(c) ==
    /\ calls[c].pc \in RunPC
    /\ \E p \in RunPC : Goes(c, p) /\ (p = "finalize" => pending = {})
    /\ pending' \in {pending, {}}
    /\ UNCHANGED <<lockVars, faults>>
    /\ excuses \subseteq excuses'

\* Those with which it finds that it has lost the session.
Cut(c) ==
    /\ calls[c].pc \in RunPC
    /\ ~CanRenew(calls[c].epoch) \/ \E scope \in Fence : ~Accepts(scope, c)
    /\ Ends(c, "superseded")
    /\ UNCHANGED <<lockVars, data, history>>

LEMMA RunMoves ==
  ASSUME SessionInv, NEW c \in Call,
         \/ Rehydrate(c) \/ GatherPass(c) \/ LeaseLost(c) \/ Quiesce(c) \/ Aggregate(c)
         \/ SkipContributed(c) \/ Fold(c) \/ AfterAttempt(c) \/ mark_contribution(c)
         \/ CheckInbox(c) \/ prepare_redrive(c)
  PROVE  Stays(c) \/ Cut(c)
  <1>0. RunPC \subseteq PC /\ "sleeping" \notin RunPC
    BY DEF PC, RunPC
  <1>1. CASE Rehydrate(c)
    <2> DEFINE writes == fence["store"] = 0 \/ c = Starter
               seed == IF c = Starter THEN {c} ELSE {}
    <2>1. calls[c].pc = "rehydrate" /\ UNCHANGED lockVars
      BY <1>1 DEF Rehydrate, At
    <2>2. CASE writes /\ ~Accepts("store", c)
      <3>1. Ends(c, "superseded") /\ UNCHANGED <<data, history>>
        BY <1>1, <2>2 DEF Rehydrate
      <3>. QED
        BY <2>1, <2>2, <3>1 DEF Cut, RunPC, Fence
    <2>3. CASE ~(writes /\ ~Accepts("store", c))
      <3>1. /\ calls' = [calls EXCEPT ![c].pc = "gather", ![c].mirror = store \cup seed]
            /\ excuses \subseteq excuses' /\ pending' = pending /\ faults' = faults
        BY <1>1, <2>3 DEF Rehydrate
      <3>2. PICK t \in AnyCall : t = calls[c]
        BY DEF SessionInv
      <3>3. PICK m : m = store \cup seed
        OBVIOUS
      <3>4. m \in SUBSET Call
        BY <3>3 DEF SessionInv, SharedOK
      <3>5. PICK r : r = [t EXCEPT !.pc = "gather", !.mirror = m]
        OBVIOUS
      <3>6. /\ r \in AnyCall /\ r.epoch = t.epoch /\ r.pc = "gather" /\ r.status = t.status
            /\ r.budget = t.budget
        BY <1>0, <3>4, <3>5 DEF AnyCall, RunPC
      <3>7. Moved(c, r)
        BY <3>1, <3>2, <3>3, <3>5 DEF Moved, SessionInv, AnyCall
      <3>8. Goes(c, "gather")
        BY <3>2, <3>6, <3>7, MovedStep DEF Goes
      <3>. QED
        BY <2>1, <3>1, <3>8 DEF Stays, RunPC
    <2>. QED
      BY <2>2, <2>3
  <1>2. CASE GatherPass(c)
    <2> DEFINE still == pending = {} /\ ~(calls[c].fresh /\ At(c, "gather"))
    <2>1. UNCHANGED lockVars /\ calls[c].pc \in {"gather", "gathered"}
      BY <1>2 DEF GatherPass, At
    <2>2. CASE still
      <3>1. /\ calls' = Ripened([calls EXCEPT ![c].pc = "gathered"])
            /\ UNCHANGED <<data, history>>
        BY <1>2, <2>2 DEF GatherPass
      <3>2. Goes(c, "gathered")
        BY <1>0, <3>1, GoGoes DEF RunPC
      <3>. QED
        BY <2>1, <3>1, <3>2 DEF Stays, RunPC, data, history
    <2>3. CASE ~still /\ ~Accepts("store", c)
      <3>1. Ends(c, "superseded") /\ UNCHANGED <<data, history>>
        BY <1>2, <2>3 DEF GatherPass
      <3>. QED
        BY <2>1, <2>3, <3>1 DEF Cut, RunPC, Fence
    <2>4. CASE ~still /\ Accepts("store", c)
      <3>1. /\ calls' = Ripened([calls EXCEPT ![c].pc = "gathered",
                                              ![c].mirror = @ \cup pending])
            /\ excuses \subseteq excuses' /\ pending' = {} /\ faults' = faults
        BY <1>2, <2>4 DEF GatherPass
      <3>2. PICK t \in AnyCall : t = calls[c]
        BY DEF SessionInv
      <3>3. PICK m : m = t.mirror \cup pending
        OBVIOUS
      <3>4. m \in SUBSET Call
        BY <3>3 DEF SessionInv, SharedOK, AnyCall, Call
      <3>5. PICK r : r = [t EXCEPT !.pc = "gathered", !.mirror = m]
        OBVIOUS
      <3>6. /\ r \in AnyCall /\ r.epoch = t.epoch /\ r.pc = "gathered" /\ r.status = t.status
            /\ r.budget = t.budget
        BY <1>0, <3>4, <3>5 DEF AnyCall, RunPC
      <3>7. Moved(c, r)
        <4>1. [calls EXCEPT ![c].pc = "gathered", ![c].mirror = @ \cup pending]
                = [calls EXCEPT ![c] = r]
          BY <3>2, <3>3, <3>5 DEF SessionInv, AnyCall
        <4>. QED
          BY <3>1, <3>6, <4>1 DEF Moved
      <3>8. Goes(c, "gathered")
        BY <3>2, <3>6, <3>7, MovedStep DEF Goes
      <3>. QED
        BY <2>1, <3>1, <3>8 DEF Stays, RunPC
    <2>. QED
      BY <2>2, <2>3, <2>4
  <1>3. CASE LeaseLost(c)
    BY <1>3 DEF LeaseLost, Cut, RunPC
  <1>4. CASE Quiesce(c) \/ Aggregate(c) \/ AfterAttempt(c) \/ CheckInbox(c)
    <2>1. PICK p \in {"aggregate", "contributed", "mark", "redrive", "finalize"} :
             /\ \/ calls' = [calls EXCEPT ![c].pc = p]
                \/ calls' = Ripened([calls EXCEPT ![c].pc = p])
             /\ p = "finalize" => pending = {}
      BY <1>4 DEF Quiesce, Aggregate, AfterAttempt, CheckInbox, Go
    <2>2. p \in RunPC
      BY DEF RunPC
    <2>3. Goes(c, p)
      BY <1>0, <2>1, <2>2, GoGoes
    <2>4. UNCHANGED <<lockVars, data, history>> /\ calls[c].pc \in RunPC
      BY <1>4 DEF Quiesce, Aggregate, AfterAttempt, CheckInbox, At, RunPC
    <2>. QED
      BY <2>1, <2>2, <2>3, <2>4 DEF Stays, data, history
  <1>5. CASE SkipContributed(c) \/ Fold(c)
    <2>1. PICK p \in {"check", "fold", "attempted"} : Go(c, p)
      BY <1>5 DEF SkipContributed, Fold
    <2>2. p \in RunPC /\ p # "finalize"
      BY DEF RunPC
    <2>3. Goes(c, p)
      BY <1>0, <2>1, <2>2, GoGoes DEF Go
    <2>4. /\ UNCHANGED <<lockVars, pending, faults>> /\ calls[c].pc \in RunPC
          /\ excuses \subseteq excuses'
      BY <1>5 DEF SkipContributed, Fold, At, RunPC, data, history
    <2>. QED
      BY <2>2, <2>3, <2>4 DEF Stays
  <1>6. CASE mark_contribution(c)
    <2>1. calls[c].pc = "mark" /\ UNCHANGED <<lockVars, pending, store, record, history>>
      BY <1>6 DEF mark_contribution, At
    <2>2. CASE Accepts("marker", c)
      <3>1. Goes(c, "check")
        BY <1>0, <1>6, <2>2, GoGoes DEF mark_contribution, Go, RunPC
      <3>. QED
        BY <2>1, <3>1 DEF Stays, RunPC, history
    <2>3. CASE ~Accepts("marker", c)
      BY <1>6, <2>1, <2>3 DEF mark_contribution, Cut, RunPC, data, Fence
    <2>. QED
      BY <2>2, <2>3
  <1>7. CASE prepare_redrive(c)
    <2>1. /\ calls[c].pc = "redrive"
          /\ calls' = [calls EXCEPT ![c].pc = "gather", ![c].fresh = TRUE]
          /\ UNCHANGED <<lockVars, pending, store, record, fence, history>>
      BY <1>7 DEF prepare_redrive, prepared, At
    <2>2. PICK t \in AnyCall : t = calls[c]
      BY DEF SessionInv
    <2>3. PICK r : r = [t EXCEPT !.pc = "gather", !.fresh = TRUE]
      OBVIOUS
    <2>4. /\ r \in AnyCall /\ r.epoch = t.epoch /\ r.pc = "gather" /\ r.status = t.status
          /\ r.budget = t.budget
      BY <1>0, <2>3 DEF AnyCall, RunPC
    <2>5. Moved(c, r)
      BY <2>1, <2>2, <2>3 DEF Moved, SessionInv, AnyCall
    <2>6. Goes(c, "gather")
      BY <2>2, <2>4, <2>5, MovedStep DEF Goes
    <2>. QED
      BY <2>1, <2>6 DEF Stays, RunPC, history
  <1>. QED
    BY <1>1, <1>2, <1>3, <1>4, <1>5, <1>6, <1>7

-----------------------------------------------------------------------------
(* The budget.                                                             *)

LEMMA DeliveredFinite ==
  ASSUME WideBackstop
  PROVE  /\ IsFiniteSet(Delivered) /\ IsFiniteSet(Delivered \ pending)
         /\ Cardinality(Delivered) \in Nat /\ Cardinality(Delivered \ pending) \in Nat
         /\ Cardinality(Delivered) <= MAX_BACKSTOP_RESPAWNS
         /\ \A S \in SUBSET Delivered : IsFiniteSet(S) /\ Cardinality(S) \in Nat
                                        /\ Cardinality(S) <= Cardinality(Delivered)
  <1>1. Delivered \subseteq Deliveries
    BY DEF Delivered
  <1>2. IsFiniteSet(Delivered) /\ Cardinality(Delivered) <= Cardinality(Deliveries)
    BY <1>1, FS_Subset DEF WideBackstop
  <1>3. \A S \in SUBSET Delivered : IsFiniteSet(S) /\ Cardinality(S) <= Cardinality(Delivered)
    BY <1>2, FS_Subset
  <1>4. Cardinality(Deliveries) \in Nat /\ Cardinality(Delivered) \in Nat
    BY <1>2, FS_CardinalityType DEF WideBackstop
  <1>5. \A S \in SUBSET Delivered : Cardinality(S) \in Nat
    BY <1>3, FS_CardinalityType
  <1>6. Delivered \ pending \in SUBSET Delivered
    OBVIOUS
  <1>. QED
    BY <1>2, <1>3, <1>4, <1>5, <1>6, SessionAssumption DEF WideBackstop

\* What a step does to a delivery's first stage.
LEMMA DeliveredStep ==
  ASSUME SessionInv, NEW c \in Call, NEW p, NEW e, NEW st, NEW b, Step(c, p, e, st, b),
         p # "idle"
  PROVE  Delivered' = Delivered \cup ({c} \cap Deliveries)
  <1>1. \A d \in Call \ {c} : calls'[d].pc = "idle" <=> calls[d].pc = "idle"
    BY DEF Step, SameOrRipe, SessionInv, AnyCall
  <1>2. Deliveries \subseteq Call
    BY DEF Call
  <1>. QED
    BY <1>1, <1>2 DEF Delivered, Step

LEMMA SpendingStep ==
  ASSUME SessionInv, Spending, WideBackstop, NEW c \in Call, NEW p, NEW e, NEW st,
         NEW b \in Nat, Step(c, p, e, st, b), p # "idle",
         calls[c].pc # "idle" \/ c \notin Deliveries,
         pending' \in {pending, {}},
         b >= calls[c].budget,
         (p \in {"finalize", "probe"} \/ (p = "release" /\ st = "completed"))
            => PastCheck(calls[c]) \/ pending = {}
  PROVE  Spending'
  <1>1. Delivered' = Delivered
    BY DeliveredStep DEF Delivered
  <1>2. /\ Cardinality(Delivered) \in Nat
        /\ \A S \in SUBSET Delivered : IsFiniteSet(S) /\ Cardinality(S) \in Nat
    BY DeliveredFinite
  <1>3. Cardinality(Delivered \ pending) \in Nat /\ Cardinality(Delivered' \ pending') \in Nat
        /\ Cardinality(Delivered \ pending) <= Cardinality(Delivered' \ pending')
    <2>1. Delivered \ pending \subseteq Delivered' \ pending' /\ Delivered' \ pending' \subseteq Delivered
      BY <1>1
    <2>2. IsFiniteSet(Delivered' \ pending')
      BY <1>2, <2>1
    <2>. QED
      BY <1>2, <2>1, <2>2, FS_Subset
  <1>4. pending = {} => Delivered' \ pending' = Delivered
    BY <1>1
  <1>5. ASSUME NEW d \in Call \ {c}
        PROVE  /\ calls'[d].budget = calls[d].budget /\ calls[d].budget \in Nat
               /\ PastCheck(calls[d])' => PastCheck(calls[d])
    BY DEF Step, SameOrRipe, SessionInv, AnyCall, PastCheck
  <1>6. calls'[c].budget = b /\ calls[c].budget \in Nat
        /\ (PastCheck(calls[c])' => PastCheck(calls[c]) \/ pending = {})
    BY DEF Step, SessionInv, AnyCall, PastCheck
  <1>7. pending' \subseteq Delivered'
    BY <1>1 DEF Spending
  <1>8. ASSUME NEW d \in Call
        PROVE  /\ MAX_BACKSTOP_RESPAWNS - calls'[d].budget <= Cardinality(Delivered')
               /\ PastCheck(calls[d])' =>
                    MAX_BACKSTOP_RESPAWNS - calls'[d].budget <= Cardinality(Delivered' \ pending')
    <2>1. /\ MAX_BACKSTOP_RESPAWNS - calls[d].budget <= Cardinality(Delivered)
          /\ PastCheck(calls[d]) =>
               MAX_BACKSTOP_RESPAWNS - calls[d].budget <= Cardinality(Delivered \ pending)
      BY DEF Spending
    <2>2. CASE d = c
      <3>1. PastCheck(calls[d])' => PastCheck(calls[c]) \/ pending = {}
        BY <1>6, <2>2 DEF PastCheck
      <3>2. calls'[d].budget \in Nat /\ calls[d].budget \in Nat
            /\ calls'[d].budget >= calls[d].budget
        BY <1>6, <2>2
      <3>3. MAX_BACKSTOP_RESPAWNS - calls'[d].budget <= MAX_BACKSTOP_RESPAWNS - calls[d].budget
        BY <3>2, SessionAssumption
      <3>4. MAX_BACKSTOP_RESPAWNS - calls'[d].budget <= Cardinality(Delivered')
        BY <1>1, <1>2, <2>1, <3>2, <3>3, SessionAssumption
      <3>5. ASSUME PastCheck(calls[c])
            PROVE  MAX_BACKSTOP_RESPAWNS - calls'[d].budget <= Cardinality(Delivered' \ pending')
        <4>1. MAX_BACKSTOP_RESPAWNS - calls[d].budget <= Cardinality(Delivered \ pending)
          BY <2>1, <2>2, <3>5
        <4>. QED
          BY <1>3, <3>2, <3>3, <4>1, SessionAssumption
      <3>6. ASSUME pending = {}
            PROVE  MAX_BACKSTOP_RESPAWNS - calls'[d].budget <= Cardinality(Delivered' \ pending')
        BY <1>1, <1>4, <3>4, <3>6
      <3>. QED
        BY <3>1, <3>4, <3>5, <3>6
    <2>3. CASE d # c
      BY <1>1, <1>2, <1>3, <1>5, <2>1, <2>3, SessionAssumption
    <2>. QED
      BY <2>2, <2>3
  <1>. QED
    BY <1>7, <1>8 DEF Spending

LEMMA ClearContributionGoes ==
  ASSUME SessionInv, NEW c \in Call, ClearContribution(c)
  PROVE  Goes(c, "spawn")
  <1>1. PICK t \in AnyCall : t = calls[c]
    BY DEF SessionInv
  <1>2. PICK r : r = [t EXCEPT !.pc = "spawn", !.fresh = TRUE]
    OBVIOUS
  <1>3. /\ r \in AnyCall /\ r.epoch = t.epoch /\ r.pc = "spawn" /\ r.status = t.status
        /\ r.budget = t.budget
    BY <1>2 DEF AnyCall, PC, ManagerPC
  <1>4. calls' = [calls EXCEPT ![c] = r]
    <2>1. calls' = [calls EXCEPT ![c].pc = "spawn", ![c].fresh = TRUE]
      BY DEF ClearContribution
    <2>. QED
      BY <2>1, <1>1, <1>2 DEF SessionInv, AnyCall
  <1>. QED
    BY <1>1, <1>3, <1>4, MovedStep DEF Goes, Moved

LEMMA AcquireGoes ==
  ASSUME SessionInv, NEW c \in Call, Acquire(c)
  PROVE  Step(c, "rehydrate", epoch_counter + 1, calls[c].status, calls[c].budget)
  <1>1. PICK t \in AnyCall : t = calls[c]
    BY DEF SessionInv
  <1>2. PICK r : r = [t EXCEPT !.pc = "rehydrate", !.epoch = epoch_counter + 1]
    OBVIOUS
  <1>3. /\ r \in AnyCall /\ r.epoch = epoch_counter + 1 /\ r.pc = "rehydrate"
        /\ r.status = t.status /\ r.budget = t.budget
    <2>1. "rehydrate" \in PC /\ epoch_counter + 1 \in Nat
      BY DEF PC, RunPC, SessionInv, SharedOK, LockTypeOK
    <2>. QED
      BY <1>2, <2>1 DEF AnyCall
  <1>4. calls' = [calls EXCEPT ![c] = r]
    <2>1. calls' = [calls EXCEPT ![c].pc = "rehydrate", ![c].epoch = epoch_counter + 1]
      BY DEF Acquire, acquire
    <2>. QED
      BY <2>1, <1>1, <1>2 DEF SessionInv, AnyCall
  <1>. QED
    BY <1>1, <1>3, <1>4, MovedStep DEF Moved

LEMMA ReleaseGoes ==
  ASSUME SessionInv, NEW c \in Call, Release(c)
  PROVE  Step(c, IF calls[c].status = "completed" THEN "probe" ELSE "done", 0, "none",
              calls[c].budget)
  <1>1. calls[c].budget \in 0..MAX_BACKSTOP_RESPAWNS
    BY DEF SessionInv, AnyCall
  <1>2. CASE calls[c].status = "completed"
    <2>1. calls' = Ripened([calls EXCEPT ![c] = Out("probe", calls[c].budget)])
      BY <1>2 DEF Release
    <2>. QED
      BY <1>1, <1>2, <2>1, OutGoes DEF ManagerPC
  <1>3. CASE calls[c].status # "completed"
    <2>1. calls' = Ripened([calls EXCEPT ![c] = Out("done", calls[c].budget)])
      BY <1>3 DEF Release
    <2>. QED
      BY <1>1, <1>3, <2>1, OutGoes DEF ManagerPC
  <1>. QED
    BY <1>2, <1>3

\* The backstop stands down only over an empty inbox.
LEMMA BackstopGoes ==
  ASSUME SessionInv, Spending, WideBackstop, NEW c \in Call, Backstop(c)
  PROVE  \/ pending = {} /\ Step(c, "done", 0, "none", calls[c].budget)
         \/ /\ pending # {} /\ calls[c].budget > 0
            /\ Step(c, "clear", 0, "none", calls[c].budget - 1)
  <1>1. calls[c].pc = "probe" /\ calls[c].budget \in 0..MAX_BACKSTOP_RESPAWNS
    BY DEF Backstop, At, SessionInv, AnyCall
  <1>2. CASE pending = {}
    <2>1. calls' = [calls EXCEPT ![c] = Out("done", calls[c].budget)]
      BY <1>2 DEF Backstop, stragglers
    <2>. QED
      BY <1>1, <1>2, <2>1, OutGoes DEF ManagerPC
  <1>3. CASE pending # {}
    <2>1. calls[c].budget > 0
      <3>1. MAX_BACKSTOP_RESPAWNS - calls[c].budget <= Cardinality(Delivered \ pending)
        BY <1>1 DEF Spending, PastCheck
      <3>2. PICK d \in pending : d \in Delivered
        BY <1>3 DEF Spending
      <3>3. /\ IsFiniteSet(Delivered) /\ Cardinality(Delivered) \in Nat
            /\ Cardinality(Delivered) <= MAX_BACKSTOP_RESPAWNS
            /\ Cardinality(Delivered \ pending) \in Nat
        BY DeliveredFinite
      <3>4. Cardinality(Delivered \ pending) < Cardinality(Delivered)
        <4>1. Delivered \ pending \subseteq Delivered /\ Delivered \ pending # Delivered
          BY <3>2
        <4>. QED
          BY <3>3, <4>1, FS_Subset
      <3>. QED
        BY <1>1, <3>1, <3>3, <3>4, SessionAssumption
    <2>2. calls' = [calls EXCEPT ![c] = Out("clear", calls[c].budget - 1)]
      BY <1>3, <2>1 DEF Backstop, stragglers
    <2>3. calls[c].budget - 1 \in 0..MAX_BACKSTOP_RESPAWNS
      BY <1>1, <2>1, SessionAssumption
    <2>. QED
      BY <1>3, <2>1, <2>2, <2>3, OutGoes DEF ManagerPC
  <1>. QED
    BY <1>2, <1>3

LEMMA BackstopSpending ==
  ASSUME SessionInv, Spending, WideBackstop, NEW c \in Call, Backstop(c)
  PROVE  Spending'
  <1>1. calls[c].pc = "probe" /\ pending' = pending /\ calls[c].budget \in Nat
    BY DEF Backstop, At, data, SessionInv, AnyCall
  <1>2. CASE pending = {} /\ Step(c, "done", 0, "none", calls[c].budget)
    BY <1>1, <1>2, SpendingStep
  <1>3. CASE /\ pending # {} /\ calls[c].budget > 0
             /\ Step(c, "clear", 0, "none", calls[c].budget - 1)
    <2>1. Delivered' = Delivered
      BY <1>1, <1>3, DeliveredStep DEF Delivered
    <2>2. /\ Cardinality(Delivered) \in Nat /\ Cardinality(Delivered \ pending) \in Nat
          /\ IsFiniteSet(Delivered)
      BY DeliveredFinite
    <2>3. Cardinality(Delivered \ pending) < Cardinality(Delivered)
      <3>1. Delivered \ pending \subseteq Delivered /\ Delivered \ pending # Delivered
        BY <1>3 DEF Spending
      <3>. QED
        BY <2>2, <3>1, FS_Subset
    <2>4. MAX_BACKSTOP_RESPAWNS - calls[c].budget <= Cardinality(Delivered \ pending)
      BY <1>1 DEF Spending, PastCheck
    <2>5. MAX_BACKSTOP_RESPAWNS - (calls[c].budget - 1) <= Cardinality(Delivered)
      BY <1>1, <2>2, <2>3, <2>4, SessionAssumption
    <2>6. calls'[c].pc = "clear" /\ calls'[c].budget = calls[c].budget - 1
      BY <1>3 DEF Step
    <2>7. ASSUME NEW d \in Call \ {c}
          PROVE  /\ calls'[d].budget = calls[d].budget
                 /\ PastCheck(calls[d])' => PastCheck(calls[d])
      BY <1>3 DEF Step, SameOrRipe, SessionInv, AnyCall, PastCheck
    <2>8. ASSUME NEW d \in Call
          PROVE  /\ MAX_BACKSTOP_RESPAWNS - calls'[d].budget <= Cardinality(Delivered')
                 /\ PastCheck(calls[d])' =>
                      MAX_BACKSTOP_RESPAWNS - calls'[d].budget <= Cardinality(Delivered' \ pending')
      <3>1. CASE d = c
        BY <2>1, <2>5, <2>6, <3>1 DEF PastCheck
      <3>2. CASE d # c
        BY <1>1, <2>1, <2>7, <3>2 DEF Spending
      <3>. QED
        BY <3>1, <3>2
    <2>9. pending' \subseteq Delivered'
      BY <1>1, <2>1 DEF Spending
    <2>. QED
      BY <2>8, <2>9 DEF Spending
  <1>. QED
    BY <1>2, <1>3, BackstopGoes

LEMMA DeliverSpending ==
  ASSUME SessionInv, Spending, WideBackstop, NEW c \in Call, deliver(c)
  PROVE  Spending'
  <1>1. c \in Deliveries /\ calls[c].pc = "idle" /\ pending' = pending \cup {c}
    BY DEF deliver, At
  <1>2. Goes(c, "delivered")
    BY GoGoes DEF deliver, Go, PC, ManagerPC
  <1>3. Delivered' = Delivered \cup {c}
    BY <1>1, <1>2, DeliveredStep DEF Goes
  <1>4. c \notin Delivered
    BY <1>1 DEF Delivered
  <1>5. Delivered' \ pending' = Delivered \ pending
    BY <1>1, <1>3, <1>4
  <1>6. /\ IsFiniteSet(Delivered) /\ Cardinality(Delivered) \in Nat
    BY DeliveredFinite
  <1>7. Cardinality(Delivered') = Cardinality(Delivered) + 1
    BY <1>3, <1>4, <1>6, FS_AddElement
  <1>8. ASSUME NEW d \in Call
        PROVE  /\ calls'[d].budget = calls[d].budget /\ calls[d].budget \in Nat
               /\ PastCheck(calls[d])' => PastCheck(calls[d])
    <2>1. CASE d = c
      BY <1>2, <2>1 DEF Goes, Step, SessionInv, AnyCall, PastCheck
    <2>2. CASE d # c
      BY <1>2, <2>2 DEF Goes, Step, SameOrRipe, SessionInv, AnyCall, PastCheck
    <2>. QED
      BY <2>1, <2>2
  <1>9. pending' \subseteq Delivered'
    BY <1>1, <1>3 DEF Spending
  <1>10. ASSUME NEW d \in Call
         PROVE  /\ MAX_BACKSTOP_RESPAWNS - calls'[d].budget <= Cardinality(Delivered')
                /\ PastCheck(calls[d])' =>
                     MAX_BACKSTOP_RESPAWNS - calls'[d].budget <= Cardinality(Delivered' \ pending')
    <2>1. MAX_BACKSTOP_RESPAWNS - calls[d].budget <= Cardinality(Delivered)
      BY DEF Spending
    <2>2. MAX_BACKSTOP_RESPAWNS - calls'[d].budget <= Cardinality(Delivered')
      BY <1>6, <1>7, <1>8, <2>1, SessionAssumption
    <2>3. PastCheck(calls[d])' =>
            MAX_BACKSTOP_RESPAWNS - calls'[d].budget <= Cardinality(Delivered' \ pending')
      BY <1>5, <1>8 DEF Spending
    <2>. QED
      BY <2>2, <2>3
  <1>. QED
    BY <1>9, <1>10 DEF Spending

\* The manager's reads: where they go.
LEMMA ReadGoes ==
  ASSUME SessionInv, NEW c \in Call,
         \/ DeliverReadsComplete(c) \/ DeliverReadsHeld(c) \/ recheck(c)
         \/ resume(c) \/ ResumeReadsEpoch(c) \/ ResumeReadsHeld(c)
         \/ reopen(c) \/ ReopenReadsHeld(c)
         \/ (c = Starter /\ start_session) \/ Redrive(c)
  PROVE  /\ \E p \in ManagerPC \ {"idle", "probe"} : Goes(c, p)
         /\ calls[c].pc \in ManagerPC /\ (calls[c].pc # "idle" \/ c \notin Deliveries)
         /\ UNCHANGED <<lockVars, data, history>>
  <1>1. \E p \in ManagerPC \ {"idle", "probe"} : Go(c, p)
    BY DEF DeliverReadsComplete, DeliverReadsHeld, recheck, resume, ResumeReadsEpoch,
       ResumeReadsHeld, reopen, ReopenReadsHeld, start_session, Redrive, ManagerPC,
       resume_if_started
  <1>2. calls[c].pc \in ManagerPC /\ (calls[c].pc # "idle" \/ c \notin Deliveries)
    BY SessionAssumption DEF DeliverReadsComplete, DeliverReadsHeld, recheck, resume,
       ResumeReadsEpoch, ResumeReadsHeld, reopen, ReopenReadsHeld, start_session, Redrive,
       At, ManagerPC
  <1>3. UNCHANGED <<lockVars, data, history>>
    BY DEF DeliverReadsComplete, DeliverReadsHeld, recheck, resume, ResumeReadsEpoch,
       ResumeReadsHeld, reopen, ReopenReadsHeld, start_session, Redrive
  <1>. QED
    BY <1>1, <1>2, <1>3, GoGoes DEF Go, PC

LEMMA SpendingNext ==
  ASSUME SessionInv, Spending, WideBackstop, [Next]_vars
  PROVE  Spending'
  <1>0. /\ \A c \in Call : calls[c].budget \in Nat /\ calls[c].budget >= calls[c].budget
        /\ \A c \in Call : calls[c].budget \in 0..MAX_BACKSTOP_RESPAWNS
    BY DEF SessionInv, AnyCall
  <1>1. ASSUME NEW c \in Call,
               \/ DeliverReadsComplete(c) \/ DeliverReadsHeld(c) \/ recheck(c)
               \/ resume(c) \/ ResumeReadsEpoch(c) \/ ResumeReadsHeld(c)
               \/ reopen(c) \/ ReopenReadsHeld(c)
               \/ (c = Starter /\ start_session) \/ Redrive(c)
        PROVE  Spending'
    <2>1. PICK p \in ManagerPC \ {"idle", "probe"} : Goes(c, p)
      BY <1>1, ReadGoes
    <2>2. /\ calls[c].pc # "idle" \/ c \notin Deliveries
          /\ pending' = pending
      BY <1>1, ReadGoes DEF data
    <2>3. p \notin {"finalize", "release"}
      BY DEF ManagerPC
    <2>. QED
      BY <1>0, <2>1, <2>2, <2>3, SpendingStep DEF Goes
  <1>2. ASSUME NEW c \in Call, ClearComplete(c) \/ ClearContribution(c) \/ LockHeld(c) \/ Acquire(c)
        PROVE  Spending'
    <2>1. pending' = pending /\ calls[c].pc # "idle"
      BY <1>2 DEF ClearComplete, ClearContribution, LockHeld, Acquire, data, At
    <2>2. CASE ClearComplete(c)
      <3>1. Goes(c, "unmark")
        BY <2>2, GoGoes DEF ClearComplete, Go, PC, ManagerPC
      <3>. QED
        BY <1>0, <2>1, <3>1, SpendingStep DEF Goes
    <2>3. CASE ClearContribution(c)
      BY <1>0, <2>1, <2>3, ClearContributionGoes, SpendingStep DEF Goes
    <2>4. CASE LockHeld(c)
      <3>1. Step(c, "done", 0, "none", calls[c].budget)
        BY <1>0, <2>4, OutGoes DEF LockHeld, ManagerPC
      <3>. QED
        BY <1>0, <2>1, <3>1, SpendingStep
    <2>5. CASE Acquire(c)
      BY <1>0, <2>1, <2>5, AcquireGoes, SpendingStep
    <2>. QED
      BY <1>2, <2>2, <2>3, <2>4, <2>5
  <1>3. ASSUME NEW c \in Call, Stays(c) PROVE Spending'
    <2>1. PICK p \in RunPC : Goes(c, p) /\ (p = "finalize" => pending = {})
      BY <1>3 DEF Stays
    <2>2. p \notin {"idle", "probe", "release"} /\ calls[c].pc # "idle"
      BY <1>3 DEF RunPC, Stays
    <2>. QED
      BY <1>0, <1>3, <2>1, <2>2, SpendingStep DEF Goes, Stays
  <1>4. ASSUME NEW c \in Call, NEW s \in Status, Ends(c, s), calls[c].pc \in RunPC,
               pending' = pending, s = "completed" => calls[c].pc = "finalize"
        PROVE  Spending'
    <2>1. Step(c, "release", calls[c].epoch, s, calls[c].budget) /\ calls[c].pc # "idle"
      BY <1>4, EndsGoes DEF RunPC
    <2>. QED
      BY <1>0, <1>4, <2>1, SpendingStep DEF PastCheck
  <1>5. ASSUME NEW c \in Call, RunStep(c) PROVE Spending'
    <2>1. CASE Cut(c)
      BY <2>1, <1>4 DEF Cut, Status, data
    <2>2. CASE Park(c)
      BY <2>2, <1>4 DEF Park, Status, data, At, RunPC
    <2>3. CASE Finalize(c)
      BY <2>3, <1>4 DEF Finalize, Status, data, At, RunPC
    <2>4. CASE Release(c)
      <3>1. pending' = pending /\ calls[c].pc = "release"
        BY <2>4 DEF Release, data, At
      <3>. QED
        BY <1>0, <2>4, <3>1, ReleaseGoes, SpendingStep DEF PastCheck
    <2>. QED
      BY <1>3, <1>5, <2>1, <2>2, <2>3, <2>4, RunMoves DEF RunStep
  <1>6. ASSUME NEW c \in Call,
               Crash(c) \/ RunFails(c) \/ FinalizeTimesOut(c) \/ DeadLetter(c)
        PROVE  Spending'
    <2>1. pending' = pending /\ calls[c].pc # "idle"
      BY <1>6 DEF Crash, RunFails, FinalizeTimesOut, DeadLetter, data, At, RunPC
    <2>2. CASE Crash(c)
      <3>1. Step(c, "crashed", 0, "none", calls[c].budget)
        BY <1>0, <2>2, OutGoes DEF Crash, ManagerPC
      <3>. QED
        BY <1>0, <2>1, <3>1, SpendingStep
    <2>3. CASE RunFails(c) \/ FinalizeTimesOut(c)
      BY <1>4, <2>1, <2>3 DEF RunFails, FinalizeTimesOut, Status, At, RunPC
    <2>4. CASE DeadLetter(c)
      <3>1. Goes(c, "check")
        BY <2>4, GoGoes DEF DeadLetter, Go, PC, RunPC
      <3>. QED
        BY <1>0, <2>1, <3>1, SpendingStep DEF Goes
    <2>. QED
      BY <1>6, <2>2, <2>3, <2>4
  <1>7. ASSUME pending' = pending, calls' = calls \/ calls' = Ripened(calls) PROVE Spending'
    <2>1. \A d \in Call : SameOrRipe(d)
      BY <1>7 DEF SameOrRipe, Ripened
    <2>2. ASSUME NEW d \in Call
          PROVE  /\ calls'[d].budget = calls[d].budget
                 /\ PastCheck(calls[d])' => PastCheck(calls[d])
                 /\ calls'[d].pc = "idle" <=> calls[d].pc = "idle"
      <3>1. PICK t \in AnyCall : t = calls[d]
        BY DEF SessionInv
      <3>2. CASE calls'[d] = t
        BY <3>1, <3>2 DEF PastCheck
      <3>3. CASE t.pc = "sleeping" /\ calls'[d] = [t EXCEPT !.pc = "due"]
        <4>1. calls'[d].pc = "due" /\ calls'[d].budget = t.budget
          BY <3>3 DEF AnyCall
        <4>. QED
          BY <3>1, <3>3, <4>1 DEF PastCheck
      <3>. QED
        BY <2>1, <3>1, <3>2, <3>3 DEF SameOrRipe
    <2>3. Delivered' = Delivered
      BY <2>2 DEF Delivered, Call
    <2>. QED
      BY <1>7, <2>2, <2>3 DEF Spending
  <1>8. CASE UNCHANGED vars
    BY <1>7, <1>8 DEF vars
  <1>9. CASE FaultStep
    BY <1>6, <1>7, <1>9 DEF FaultStep, Lapse, data
  <1>. QED
    BY <1>1, <1>2, <1>5, <1>8, <1>9, BackstopSpending, DeliverSpending
       DEF Next, ManagerStep, Call

-----------------------------------------------------------------------------
(* An orderly session.                                                     *)

\* The facts of the first invariant that are needed of each call.
LEMMA CallFacts ==
  ASSUME SessionInv, NEW c \in Call
  PROVE  /\ calls[c].epoch \in Nat /\ calls[c].epoch <= epoch_counter
         /\ calls[c].epoch = 0 <=> calls[c].pc \in ManagerPC
         /\ calls[c].pc \in PC
         /\ calls[c].status # "none" => calls[c].pc = "release"
         /\ epoch_counter \in Nat /\ holder \in Nat
  BY DEF SessionInv, CallOK, CallFits, AnyCall, SharedOK, LockTypeOK

\* Whoever holds the lease will look into the inbox, unless it has parked.
LEMMA HeldIsGuarded ==
  ASSUME SessionInv, LeaseLive, is_held
  PROVE  \E c \in Call : calls[c].epoch = holder /\ calls[c].pc \notin ManagerPC
                         /\ (Guards(c) \/ Parked(calls[c]))
  <1>1. PICK c \in Call : calls[c].epoch = holder
    BY DEF LeaseLive, is_held
  <1>2. calls[c].pc \in RunPC \cup {"release"} /\ calls[c].pc \notin ManagerPC
    BY <1>1, CallFacts DEF is_held, PC
  <1>. QED
    BY <1>1, <1>2 DEF Guards, Parked

\* What a step of c means to the others.
LEMMA OthersSame ==
  ASSUME SessionInv, NEW c \in Call, NEW p, NEW e, NEW st, NEW b, Step(c, p, e, st, b),
         NEW d \in Call \ {c}
  PROVE  /\ calls'[d].epoch = calls[d].epoch /\ calls'[d].status = calls[d].status
         /\ \/ calls'[d].pc = calls[d].pc
            \/ calls[d].pc = "sleeping" /\ calls'[d].pc = "due"
         /\ Parked(calls[d])' <=> Parked(calls[d])
         /\ calls'[d].pc \in RunPC <=> calls[d].pc \in RunPC
         /\ Guards(d)' <=> Guards(d)
         /\ complete' = complete => (OnItsWay(d) => OnItsWay(d)')
  <1>1. /\ calls'[d].epoch = calls[d].epoch /\ calls'[d].status = calls[d].status
        /\ \/ calls'[d].pc = calls[d].pc
           \/ calls[d].pc = "sleeping" /\ calls'[d].pc = "due"
    BY DEF Step, SameOrRipe, SessionInv, AnyCall
  <1>. QED
    BY <1>1 DEF Parked, RunPC, Guards, OnItsWay

\* A manager's step that leaves the lock alone.
LEMMA ManagerOrderly ==
  ASSUME SessionInv, OrderlyInv, NEW c \in Call, calls[c].pc \in ManagerPC,
         NEW p \in ManagerPC, p # "crashed", NEW b, Step(c, p, 0, "none", b),
         UNCHANGED <<epoch_counter, holder, pending>>, complete' \in {complete, FALSE},
         c = Starter /\ epoch_counter = 0 => p \in {"idle", "spawn"},
         \A d \in Call : Parked(calls[d]) /\ c \in pending
                          => p \in {"delivered", "deliver_held", "sleeping"},
         calls' = [calls EXCEPT ![c] = calls'[c]],
         Awaited'
  PROVE  OrderlyInv'
  <1>1. calls[c].epoch = 0 /\ calls'[c].epoch = 0 /\ calls'[c].pc = p
    BY CallFacts DEF Step
  <1>2. \A d \in Call \ {c} : calls'[d] = calls[d]
    BY DEF SessionInv
  <1>3. ~Parked(calls[c])' /\ p \notin RunPC
    BY <1>1 DEF Parked, ManagerPC, RunPC
  <1>4. LeaseLive'
    BY <1>1, <1>2, CallFacts DEF OrderlyInv, LeaseLive
  <1>5. FlagDown'
    BY <1>1, <1>2, <1>3 DEF OrderlyInv, FlagDown, Parked
  <1>6. StarterFirst'
    BY <1>1, <1>2 DEF OrderlyInv, StarterFirst, Call
  <1>7. ParkedBefore'
    <2>1. SUFFICES ASSUME NEW e \in Call, Parked(calls[e])', NEW d \in pending
                   PROVE  calls'[d].pc \in {"delivered", "deliver_held", "sleeping"}
      BY DEF ParkedBefore
    <2>2. e # c /\ Parked(calls[e]) /\ d \in Call
      BY <1>2, <1>3, <2>1 DEF Parked, SessionInv, SharedOK, Call
    <2>3. calls[d].pc \in {"delivered", "deliver_held", "sleeping"}
      BY <2>1, <2>2 DEF OrderlyInv, ParkedBefore
    <2>. QED
      BY <1>1, <1>2, <2>1, <2>2, <2>3
  <1>. QED
    BY <1>4, <1>5, <1>6, <1>7 DEF OrderlyInv

\* The manager's reads.  A read that gives up leaves the inbox to a guard.
LEMMA GoOrderly ==
  ASSUME SessionInv, OrderlyInv, NEW c \in Call, calls[c].pc \in ManagerPC,
         NEW p \in ManagerPC, p # "crashed", Go(c, p), UNCHANGED <<lockVars, pending>>,
         c = Starter /\ epoch_counter = 0 => p \in {"idle", "spawn"},
         \A d \in Call : Parked(calls[d]) /\ c \in pending
                          => p \in {"delivered", "deliver_held", "sleeping"},
         Guards(c) => p = "spawn",
         c \in pending \cap Reopening =>
           \/ p \in {"delivered", "sleeping", "due", "reopen_held", "resume_epoch",
                     "resume_held", "spawn", "clear"}
           \/ p \in {"deliver_held", "resume"} /\ ~complete
           \/ p = "reopen" /\ complete
           \/ \E g \in Call \ {c} : Guards(g)
  PROVE  OrderlyInv'
  <1>1. calls[c].epoch = 0 /\ calls[c].status = "none"
    BY CallFacts DEF ManagerPC
  <1>2. Step(c, p, 0, "none", calls[c].budget)
    BY <1>1, GoGoes DEF Go, Goes, PC
  <1>3. calls' = [calls EXCEPT ![c] = calls'[c]]
    BY DEF Go, SessionInv
  <1>4. /\ calls'[c].pc = p
        /\ \A d \in Call \ {c} : calls'[d] = calls[d]
    BY <1>2, <1>3 DEF Step, SessionInv
  <1>5. UNCHANGED <<epoch_counter, holder, complete>>
    BY DEF lockVars
  <1>6. \A g \in Call \ {c} : Guards(g) => Guards(g)'
    BY <1>4 DEF Guards
  <1>7. p \in {"spawn", "clear"} => Guards(c)'
    BY <1>4 DEF Guards
  <1>8. SomeGuard => SomeGuard'
    BY <1>6, <1>7 DEF SomeGuard
  <1>9. Awaited'
    <2>1. SUFFICES ASSUME NEW d \in pending \cap Reopening PROVE OnItsWay(d)' \/ SomeGuard'
      BY DEF Awaited
    <2>2. d \in Call /\ (OnItsWay(d) \/ SomeGuard)
      BY <2>1 DEF OrderlyInv, Awaited, SessionInv, SharedOK, Call
    <2>3. CASE d # c
      BY <1>4, <1>5, <1>8, <2>2, <2>3 DEF OnItsWay
    <2>4. CASE d = c
      <3>1. CASE \E g \in Call \ {c} : Guards(g)
        BY <1>6, <3>1 DEF SomeGuard
      <3>2. CASE ~\E g \in Call \ {c} : Guards(g)
        BY <1>4, <1>5, <1>7, <2>1, <2>4, <3>2 DEF OnItsWay, SomeGuard
      <3>. QED
        BY <3>1, <3>2
    <2>. QED
      BY <2>3, <2>4
  <1>. QED
    BY <1>2, <1>3, <1>5, <1>9, ManagerOrderly

LEMMA ReadsOrderly ==
  ASSUME SessionInv, OrderlyInv, NEW c \in Call,
         \/ DeliverReadsComplete(c) \/ DeliverReadsHeld(c) \/ recheck(c)
         \/ resume(c) \/ ResumeReadsEpoch(c) \/ ResumeReadsHeld(c)
         \/ reopen(c) \/ ReopenReadsHeld(c)
         \/ (c = Starter /\ start_session) \/ Redrive(c)
  PROVE  OrderlyInv'
  <1>1. /\ UNCHANGED <<lockVars, pending>> /\ calls[c].pc \in ManagerPC
    BY ReadGoes DEF data
  <1>2. /\ pending \subseteq Deliveries /\ Starter \notin Deliveries /\ Starter \notin Redrives
        /\ Deliveries \cap Redrives = {}
    BY SessionAssumption DEF SessionInv, SharedOK
  <1>3. c = Starter /\ epoch_counter = 0 => calls[c].pc \in {"idle", "spawn"}
    BY DEF OrderlyInv, StarterFirst
  <1>4. \A d \in Call : Parked(calls[d]) /\ c \in pending =>
          calls[c].pc \in {"delivered", "deliver_held", "sleeping"}
    BY DEF OrderlyInv, ParkedBefore
  <1>5. \A d \in Call : Parked(calls[d]) => ~complete /\ is_held
    BY CallFacts DEF OrderlyInv, FlagDown, LeaseLive, Parked, ManagerPC, is_held
  <1>6. c \in pending \cap Reopening => OnItsWay(c) \/ SomeGuard
    BY DEF OrderlyInv, Awaited
  <1>7. CASE (c = Starter /\ start_session) \/ Redrive(c)
    <2>1. CASE c = Starter /\ start_session
      <3>1. Go(c, "spawn") /\ c \notin pending
        BY <1>2, <2>1 DEF start_session
      <3>. QED
        BY <1>1, <3>1, GoOrderly DEF ManagerPC
    <2>2. CASE Redrive(c)
      <3>1. Go(c, "resume") /\ c \notin pending /\ c # Starter /\ ~Guards(c)
        BY <1>2, <2>2 DEF Redrive, Guards, At, RunPC
      <3>. QED
        BY <1>1, <3>1, GoOrderly DEF ManagerPC
    <2>. QED
      BY <1>7, <2>1, <2>2
  <1>8. CASE ~((c = Starter /\ start_session) \/ Redrive(c))
    <2>1. calls[c].pc \in {"delivered", "deliver_held", "due", "resume", "resume_epoch",
                          "resume_held", "reopen", "reopen_held"}
      BY <1>8 DEF DeliverReadsComplete, DeliverReadsHeld, recheck, resume, ResumeReadsEpoch,
         ResumeReadsHeld, reopen, ReopenReadsHeld, At
    <2>2. ~Guards(c) /\ (c = Starter => epoch_counter # 0)
      BY <1>3, <2>1 DEF Guards, RunPC
    <2>3. SomeGuard => \E g \in Call \ {c} : Guards(g)
      BY <2>2 DEF SomeGuard
    <2>4. is_held /\ c \in pending /\ calls[c].pc \notin {"delivered", "deliver_held", "sleeping"}
            => SomeGuard
      BY <1>4, HeldIsGuarded DEF SomeGuard, OrderlyInv
    <2>5. CASE DeliverReadsComplete(c)
      <3>1. calls[c].pc = "delivered" /\ Go(c, IF ~complete THEN "deliver_held"
                                        ELSE IF c \in Reopening THEN "reopen" ELSE "done")
        BY <2>5 DEF DeliverReadsComplete, At
      <3>. QED
        BY <1>1, <1>5, <2>2, <3>1, GoOrderly DEF ManagerPC
    <2>6. CASE DeliverReadsHeld(c)
      <3>1. calls[c].pc = "deliver_held" /\ Go(c, IF is_held THEN "sleeping" ELSE "resume")
        BY <2>6 DEF DeliverReadsHeld, At
      <3>2. c \in pending \cap Reopening => ~complete \/ SomeGuard
        BY <1>6, <3>1 DEF OnItsWay
      <3>3. CASE is_held
        BY <1>1, <1>5, <2>2, <3>1, <3>3, GoOrderly DEF ManagerPC
      <3>4. CASE ~is_held
        BY <1>1, <1>5, <2>2, <2>3, <3>1, <3>2, <3>4, GoOrderly DEF ManagerPC
      <3>. QED
        BY <3>3, <3>4
    <2>7. CASE recheck(c)
      <3>1. calls[c].pc = "due" /\ Go(c, IF c \in Reopening /\ complete THEN "reopen" ELSE "resume")
        BY <2>7 DEF recheck, At
      <3>. QED
        BY <1>1, <1>4, <2>2, <3>1, GoOrderly DEF ManagerPC
    <2>8. CASE resume(c)
      <3>1. calls[c].pc = "resume" /\ Go(c, IF complete THEN "done" ELSE "resume_epoch")
        BY <2>8 DEF resume, At
      <3>2. c \in pending \cap Reopening => ~complete \/ SomeGuard
        BY <1>6, <3>1 DEF OnItsWay
      <3>. QED
        BY <1>1, <1>4, <2>2, <2>3, <3>1, <3>2, GoOrderly DEF ManagerPC
    <2>9. CASE ResumeReadsEpoch(c)
      <3>1. /\ calls[c].pc = "resume_epoch"
            /\ Go(c, IF epoch_counter = 0 THEN "done" ELSE "resume_held")
        BY <2>9 DEF ResumeReadsEpoch, resume_if_started, At
      <3>2. epoch_counter = 0 => Guards(Starter) /\ Starter # c
        BY <3>1 DEF OrderlyInv, StarterFirst, Guards
      <3>3. epoch_counter = 0 => \E g \in Call \ {c} : Guards(g)
        BY <3>2 DEF Call
      <3>. QED
        BY <1>1, <1>4, <2>2, <3>1, <3>3, GoOrderly DEF ManagerPC
    <2>10. CASE ResumeReadsHeld(c)
      <3>1. calls[c].pc = "resume_held" /\ Go(c, IF is_held THEN "done" ELSE "spawn")
        BY <2>10 DEF ResumeReadsHeld, At
      <3>. QED
        BY <1>1, <1>4, <2>2, <2>3, <2>4, <3>1, GoOrderly DEF ManagerPC
    <2>11. CASE reopen(c)
      <3>1. calls[c].pc = "reopen" /\ Go(c, IF complete THEN "reopen_held" ELSE "done")
        BY <2>11 DEF reopen, At
      <3>2. c \in pending \cap Reopening => complete \/ SomeGuard
        BY <1>6, <3>1 DEF OnItsWay
      <3>. QED
        BY <1>1, <1>4, <2>2, <2>3, <3>1, <3>2, GoOrderly DEF ManagerPC
    <2>12. CASE ReopenReadsHeld(c)
      <3>1. calls[c].pc = "reopen_held" /\ Go(c, IF is_held THEN "done" ELSE "clear")
        BY <2>12 DEF ReopenReadsHeld, At
      <3>. QED
        BY <1>1, <1>4, <2>2, <2>3, <2>4, <3>1, GoOrderly DEF ManagerPC
    <2>. QED
      BY <1>8, <2>5, <2>6, <2>7, <2>8, <2>9, <2>10, <2>11, <2>12
  <1>. QED
    BY <1>7, <1>8

LEMMA DeliverOrderly ==
  ASSUME SessionInv, OrderlyInv, NEW c \in Call, deliver(c)
  PROVE  OrderlyInv'
  <1>1. /\ calls[c].pc = "idle" /\ pending' = pending \cup {c} /\ UNCHANGED lockVars
        /\ c # Starter
    BY SessionAssumption DEF deliver, At
  <1>2. Goes(c, "delivered")
    BY GoGoes DEF deliver, Go, PC, ManagerPC
  <1>3. /\ calls'[c].pc = "delivered" /\ calls'[c].epoch = calls[c].epoch
        /\ calls'[c].status = calls[c].status
        /\ \A d \in Call \ {c} : calls'[d] = calls[d]
    BY <1>2 DEF Goes, Step, deliver, Go, SessionInv
  <1>4. UNCHANGED <<epoch_counter, holder, complete>>
    BY <1>1 DEF lockVars
  <1>5. ~Parked(calls[c]) /\ ~Parked(calls[c])' /\ ~Guards(c) /\ calls'[c].pc \notin RunPC
    BY <1>1, <1>3 DEF Parked, Guards, RunPC
  <1>6. LeaseLive' /\ StarterFirst'
    BY <1>1, <1>3, <1>4 DEF OrderlyInv, LeaseLive, StarterFirst, Call
  <1>7. FlagDown'
    BY <1>3, <1>4, <1>5 DEF OrderlyInv, FlagDown, Parked
  <1>8. ParkedBefore'
    <2>1. SUFFICES ASSUME NEW e \in Call, Parked(calls[e])', NEW d \in pending \cup {c}
                   PROVE  calls'[d].pc \in {"delivered", "deliver_held", "sleeping"}
      BY <1>1 DEF ParkedBefore
    <2>2. e # c /\ Parked(calls[e]) /\ d \in Call
      BY <1>3, <1>5, <2>1 DEF Parked, SessionInv, SharedOK, Call
    <2>. QED
      BY <1>3, <2>1, <2>2 DEF OrderlyInv, ParkedBefore
  <1>9. Awaited'
    <2>1. SomeGuard => SomeGuard'
      BY <1>3, <1>5 DEF SomeGuard, Guards
    <2>2. \A d \in Call \ {c} : OnItsWay(d) => OnItsWay(d)'
      BY <1>3, <1>4 DEF OnItsWay
    <2>3. OnItsWay(c)'
      BY <1>3 DEF OnItsWay
    <2>4. pending \subseteq Call
      BY DEF SessionInv, SharedOK, Call
    <2>. QED
      BY <1>1, <2>1, <2>2, <2>3, <2>4 DEF OrderlyInv, Awaited
  <1>. QED
    BY <1>6, <1>7, <1>8, <1>9 DEF OrderlyInv

\* The backstop's and the reopen's steps: the call is a guard all along.
LEMMA ClearsOrderly ==
  ASSUME SessionInv, OrderlyInv, NEW c \in Call, ClearComplete(c) \/ ClearContribution(c)
  PROVE  OrderlyInv'
  <1>1. /\ calls[c].pc \in {"clear", "unmark"} /\ calls[c].pc \in ManagerPC
        /\ UNCHANGED <<epoch_counter, holder, pending>> /\ complete' \in {complete, FALSE}
    BY DEF ClearComplete, ClearContribution, clear_complete, lockVars, data, At, ManagerPC
  <1>2. calls[c].epoch = 0 /\ calls[c].status = "none"
    BY <1>1, CallFacts
  <1>3. PICK p \in {"unmark", "spawn"} : Step(c, p, 0, "none", calls[c].budget)
    <2>1. CASE ClearComplete(c)
      BY <1>2, <2>1, GoGoes DEF ClearComplete, Go, PC, ManagerPC, Goes
    <2>2. CASE ClearContribution(c)
      BY <1>2, <2>2, ClearContributionGoes DEF Goes
    <2>. QED
      BY <2>1, <2>2
  <1>4. calls' = [calls EXCEPT ![c] = calls'[c]]
    BY DEF ClearComplete, ClearContribution, Go, SessionInv
  <1>5. Awaited'
    BY <1>3 DEF Awaited, SomeGuard, Guards, Step
  <1>6. c = Starter => epoch_counter # 0
    BY <1>1 DEF OrderlyInv, StarterFirst
  <1>7. \A d \in Call : ~(Parked(calls[d]) /\ c \in pending)
    BY <1>1 DEF OrderlyInv, ParkedBefore
  <1>. QED
    BY <1>1, <1>3, <1>4, <1>5, <1>6, <1>7, ManagerOrderly DEF ManagerPC

\* A call that finds the lock held stands down, and the holder takes over.
LEMMA LockHeldOrderly ==
  ASSUME SessionInv, OrderlyInv, NEW c \in Call, LockHeld(c)
  PROVE  OrderlyInv'
  <1>1. /\ calls[c].pc = "spawn" /\ is_held /\ UNCHANGED <<lockVars, pending>>
        /\ calls' = [calls EXCEPT ![c] = Out("done", calls[c].budget)]
    BY DEF LockHeld, At, data
  <1>2. Step(c, "done", 0, "none", calls[c].budget)
    BY <1>1, OutGoes DEF SessionInv, AnyCall, ManagerPC
  <1>3. calls' = [calls EXCEPT ![c] = calls'[c]] /\ \A d \in Call \ {c} : calls'[d] = calls[d]
    BY <1>1 DEF SessionInv
  <1>4. UNCHANGED <<epoch_counter, holder, complete>>
    BY <1>1 DEF lockVars
  <1>5. PICK h \in Call : /\ calls[h].epoch = holder /\ calls[h].pc \notin ManagerPC
                          /\ (Guards(h) \/ Parked(calls[h]))
    BY <1>1, HeldIsGuarded DEF OrderlyInv
  <1>6. h # c
    BY <1>1, <1>5 DEF ManagerPC
  <1>7. Awaited'
    <2>1. CASE Guards(h)
      BY <1>3, <1>6, <2>1 DEF Awaited, SomeGuard, Guards
    <2>2. CASE Parked(calls[h])
      <3>1. /\ ~complete
            /\ \A d \in pending : calls[d].pc \in {"delivered", "deliver_held", "sleeping"}
        BY <2>2 DEF OrderlyInv, FlagDown, ParkedBefore
      <3>2. \A d \in pending : d # c /\ d \in Call
        BY <1>1, <3>1 DEF SessionInv, SharedOK, Call
      <3>. QED
        BY <1>1, <1>3, <1>4, <3>1, <3>2 DEF Awaited, OnItsWay
    <2>. QED
      BY <1>5, <2>1, <2>2
  <1>8. epoch_counter # 0
    BY <1>1 DEF is_held, OrderlyInv, LeaseLive
  <1>9. \A d \in Call : ~(Parked(calls[d]) /\ c \in pending)
    BY <1>1 DEF OrderlyInv, ParkedBefore
  <1>. QED
    BY <1>1, <1>2, <1>3, <1>4, <1>7, <1>8, <1>9, ManagerOrderly DEF ManagerPC

LEMMA BackstopOrderly ==
  ASSUME SessionInv, Spending, WideBackstop, OrderlyInv, NEW c \in Call, Backstop(c)
  PROVE  OrderlyInv'
  <1>1. /\ calls[c].pc = "probe" /\ UNCHANGED <<lockVars, pending>>
    BY DEF Backstop, At, data
  <1>2. calls' = [calls EXCEPT ![c] = calls'[c]]
    BY DEF Backstop, SessionInv
  <1>3. PICK p \in {"done", "clear"}, b \in {calls[c].budget, calls[c].budget - 1} :
          Step(c, p, 0, "none", b) /\ (p = "done" => pending = {})
    BY BackstopGoes
  <1>4. Awaited'
    <2>1. CASE p = "done"
      BY <1>1, <1>3, <2>1 DEF Awaited
    <2>2. CASE p = "clear"
      BY <1>3, <2>2 DEF Awaited, SomeGuard, Guards, Step
    <2>. QED
      BY <2>1, <2>2
  <1>5. c = Starter => epoch_counter # 0
    BY <1>1 DEF OrderlyInv, StarterFirst
  <1>6. \A d \in Call : ~(Parked(calls[d]) /\ c \in pending)
    BY <1>1 DEF OrderlyInv, ParkedBefore
  <1>. QED
    BY <1>1, <1>2, <1>3, <1>4, <1>5, <1>6, ManagerOrderly DEF ManagerPC, lockVars

\* The grant of an orderly session is its only run.
LEMMA AcquireOrderly ==
  ASSUME SessionInv, OrderlyInv, NEW c \in Call, Acquire(c), ~complete
  PROVE  OrderlyInv'
  <1>1. /\ ~is_held /\ epoch_counter' = epoch_counter + 1 /\ holder' = epoch_counter'
        /\ complete' = complete /\ epoch_counter \in Nat
    BY DEF Acquire, acquire, SessionInv, SharedOK, LockTypeOK
  <1>2. Step(c, "rehydrate", epoch_counter + 1, calls[c].status, calls[c].budget)
    BY AcquireGoes
  <1>3. \A d \in Call : calls[d].epoch = 0 /\ calls[d].pc \in ManagerPC
    BY <1>1, CallFacts DEF OrderlyInv, LeaseLive, is_held
  <1>4. \A d \in Call \ {c} : /\ calls'[d].epoch = 0 /\ ~Parked(calls[d])'
                              /\ calls'[d].pc \notin RunPC
    <2>1. \A d \in Call : ~Parked(calls[d]) /\ calls[d].pc \notin RunPC
      BY <1>3 DEF Parked, ManagerPC, RunPC
    <2>. QED
      BY <1>2, <1>3, <2>1, OthersSame
  <1>5. calls'[c].pc = "rehydrate" /\ calls'[c].epoch = epoch_counter + 1
    BY <1>2 DEF Step
  <1>6. ~Parked(calls[c])' /\ Guards(c)'
    BY <1>5 DEF Parked, Guards, RunPC
  <1>7. LeaseLive'
    BY <1>1, <1>4, <1>5 DEF LeaseLive
  <1>8. FlagDown'
    BY <1>1 DEF FlagDown
  <1>9. StarterFirst'
    BY <1>1 DEF StarterFirst
  <1>10. ParkedBefore'
    <2>1. \A d \in Call : ~Parked(calls[d])'
      BY <1>4, <1>6 DEF Parked
    <2>. QED
      BY <2>1 DEF ParkedBefore
  <1>11. Awaited'
    BY <1>6 DEF Awaited, SomeGuard
  <1>. QED
    BY <1>7, <1>8, <1>9, <1>10, <1>11 DEF OrderlyInv

\* The run of an orderly session is alone with it.
LEMMA RunAlone ==
  ASSUME SessionInv, OrderlyInv, NEW c \in Call, calls[c].pc \notin ManagerPC
  PROVE  /\ calls[c].epoch = holder /\ holder = epoch_counter /\ epoch_counter # 0
         /\ \A d \in Call \ {c} : /\ calls[d].epoch = 0 /\ calls[d].pc \in ManagerPC
                                  /\ ~Parked(calls[d]) /\ calls[d].pc \notin RunPC
  <1>1. calls[c].epoch # 0 /\ calls[c].epoch = holder /\ holder = epoch_counter
    BY CallFacts DEF OrderlyInv, LeaseLive
  <1>2. ASSUME NEW d \in Call \ {c} PROVE calls[d].epoch = 0 /\ calls[d].pc \in ManagerPC
    BY <1>1, <1>2, CallFacts DEF SessionInv, EpochsUnique, OrderlyInv, LeaseLive
  <1>3. \A d \in Call \ {c} : ~Parked(calls[d]) /\ calls[d].pc \notin RunPC
    BY <1>2 DEF Parked, ManagerPC, RunPC
  <1>. QED
    BY <1>1, <1>2, <1>3

\* It is not cut: its lease is live and every fence is at or below its epoch.
LEMMA NeverCut ==
  ASSUME SessionInv, OrderlyInv, NEW c \in Call, Cut(c)
  PROVE  FALSE
  <1>1. calls[c].pc \notin ManagerPC
    BY DEF Cut, RunPC, ManagerPC
  <1>2. calls[c].epoch = holder /\ holder = epoch_counter /\ epoch_counter \in Nat
    BY <1>1, RunAlone, CallFacts
  <1>3. \A scope \in Fence : fence[scope] \in 0..epoch_counter
    BY DEF SessionInv, SharedOK
  <1>. QED
    BY <1>2, <1>3 DEF Cut, CanRenew, Accepts

\* A step of the run that leaves it holding the lease.
LEMMA RunOrderly ==
  ASSUME SessionInv, OrderlyInv, NEW c \in Call, calls[c].pc \in RunPC,
         NEW p \in RunPC \cup {"release"}, NEW st, Step(c, p, calls[c].epoch, st, calls[c].budget),
         UNCHANGED <<epoch_counter, holder>>,
         p \in RunPC \/ st # "completed" => complete' = complete,
         p = "release" /\ st # "completed" => pending' = {}
  PROVE  OrderlyInv'
  <1>1. calls[c].pc \notin ManagerPC
    BY DEF RunPC, ManagerPC
  <1>2. /\ calls[c].epoch = holder /\ holder = epoch_counter /\ epoch_counter # 0
        /\ \A d \in Call \ {c} : /\ calls[d].epoch = 0 /\ ~Parked(calls[d])
                                 /\ calls[d].pc \notin RunPC
    BY <1>1, RunAlone
  <1>3. \A d \in Call \ {c} : /\ calls'[d].epoch = 0 /\ ~Parked(calls[d])'
                              /\ calls'[d].pc \notin RunPC
    BY <1>2, OthersSame
  <1>4. calls'[c].pc = p /\ calls'[c].epoch = calls[c].epoch /\ calls'[c].status = st
    BY DEF Step
  <1>5. ~complete
    BY DEF OrderlyInv, FlagDown
  <1>6. LeaseLive'
    BY <1>2, <1>3, <1>4 DEF LeaseLive
  <1>7. FlagDown'
    <2>1. calls'[c].pc \in RunPC \/ Parked(calls[c])' => ~complete'
      BY <1>4, <1>5 DEF Parked
    <2>2. ASSUME NEW d \in Call, calls'[d].pc \in RunPC \/ Parked(calls[d])' PROVE ~complete'
      <3>1. d = c
        BY <1>3, <2>2
      <3>. QED
        BY <2>1, <2>2, <3>1 DEF Parked
    <2>. QED
      BY <2>2 DEF FlagDown
  <1>8. StarterFirst'
    BY <1>2 DEF StarterFirst
  <1>9. ParkedBefore'
    <2>1. SUFFICES ASSUME NEW e \in Call, Parked(calls[e])', NEW d \in pending' PROVE FALSE
      BY DEF ParkedBefore
    <2>2. e = c
      BY <1>3, <2>1
    <2>. QED
      BY <1>4, <2>1, <2>2 DEF Parked, RunPC
  <1>10. Awaited'
    <2>1. CASE p = "release" /\ st # "completed"
      BY <2>1 DEF Awaited
    <2>2. CASE ~(p = "release" /\ st # "completed")
      <3>1. Guards(c)'
        BY <1>4, <2>2 DEF Guards
      <3>. QED
        BY <3>1 DEF Awaited, SomeGuard
    <2>. QED
      BY <2>1, <2>2
  <1>. QED
    BY <1>6, <1>7, <1>8, <1>9, <1>10 DEF OrderlyInv

\* With the lease go the sleepers' reason to sleep and the run itself: a
\* completed one leaves its probe, a parked one leaves what arrived since to
\* the deliveries, which are all still on their way.
LEMMA ReleaseOrderly ==
  ASSUME SessionInv, OrderlyInv, NEW c \in Call, Release(c)
  PROVE  OrderlyInv'
  <1>1. /\ calls[c].pc = "release" /\ calls[c].pc \notin ManagerPC
        /\ release(calls[c].epoch) /\ pending' = pending
    BY DEF Release, At, data, ManagerPC
  <1>2. /\ calls[c].epoch = holder /\ epoch_counter # 0
        /\ \A d \in Call \ {c} : /\ calls[d].epoch = 0 /\ ~Parked(calls[d])
                                 /\ calls[d].pc \notin RunPC
    BY <1>1, RunAlone
  <1>3. holder' = 0 /\ UNCHANGED <<epoch_counter, complete>>
    BY <1>1, <1>2 DEF release
  <1>4. PICK p \in {"probe", "done"} : /\ Step(c, p, 0, "none", calls[c].budget)
                                       /\ p = "done" => Parked(calls[c])
    BY <1>1, ReleaseGoes DEF Parked
  <1>5. calls'[c].pc = p /\ calls'[c].epoch = 0
    BY <1>4 DEF Step
  <1>6. \A d \in Call \ {c} : /\ calls'[d].epoch = 0 /\ ~Parked(calls[d])'
                              /\ calls'[d].pc \notin RunPC
    BY <1>2, <1>4, OthersSame
  <1>7. \A d \in Call : /\ calls'[d].epoch = 0 /\ ~Parked(calls[d])'
                        /\ calls'[d].pc \notin RunPC
    <2>1. ~Parked(calls[c])' /\ calls'[c].pc \notin RunPC
      BY <1>5 DEF Parked, RunPC
    <2>2. ASSUME NEW d \in Call
          PROVE  calls'[d].epoch = 0 /\ ~Parked(calls[d])' /\ calls'[d].pc \notin RunPC
      <3>1. CASE d = c
        BY <1>5, <2>1, <3>1 DEF Parked
      <3>2. CASE d # c
        BY <1>6, <3>2
      <3>. QED
        BY <3>1, <3>2
    <2>. QED
      BY <2>2
  <1>8. LeaseLive' /\ FlagDown' /\ StarterFirst' /\ ParkedBefore'
    BY <1>2, <1>3, <1>7 DEF LeaseLive, FlagDown, StarterFirst, ParkedBefore
  <1>9. Awaited'
    <2>1. CASE p = "probe"
      BY <1>5, <2>1 DEF Awaited, SomeGuard, Guards
    <2>2. CASE p = "done"
      <3>1. ~complete
        BY <1>4, <2>2 DEF OrderlyInv, FlagDown
      <3>2. \A d \in pending : calls[d].pc \in {"delivered", "deliver_held", "sleeping"}
        BY <1>4, <2>2 DEF OrderlyInv, ParkedBefore
      <3>3. \A d \in pending : d \in Call \ {c}
        BY <1>1, <3>2 DEF SessionInv, SharedOK, Call
      <3>4. \A d \in pending : OnItsWay(d)
        BY <3>1, <3>2 DEF OnItsWay
      <3>5. \A d \in pending : OnItsWay(d)'
        BY <1>3, <1>4, <3>3, <3>4, OthersSame
      <3>. QED
        BY <1>1, <3>5 DEF Awaited
    <2>. QED
      BY <2>1, <2>2
  <1>. QED
    BY <1>8, <1>9 DEF OrderlyInv

LEMMA OrderlyNext ==
  ASSUME SessionInv, Spending, WideBackstop, Orderly => OrderlyInv, [Next]_vars, Orderly'
  PROVE  OrderlyInv'
  <1>1. faults \in Nat
    BY DEF SessionInv, SharedOK
  <1>2. ASSUME Fault PROVE FALSE
    BY <1>1, <1>2 DEF Fault, Orderly
  <1>3. ASSUME faults' = faults, excuses \subseteq excuses' PROVE OrderlyInv
    BY <1>3 DEF Orderly
  <1>4. ASSUME UNCHANGED history PROVE OrderlyInv
    BY <1>3, <1>4 DEF history
  <1>5. ASSUME NEW c \in Call, deliver(c) \/ Redrive(c) PROVE OrderlyInv'
    BY <1>4, <1>5, DeliverOrderly, ReadsOrderly DEF deliver, Redrive
  <1>6. CASE start_session
    BY <1>4, <1>6, ReadsOrderly DEF start_session, Call
  <1>7. ASSUME NEW c \in Call, ManagerStep(c) PROVE OrderlyInv'
    <2>1. CASE Acquire(c)
      <3>1. ~complete /\ OrderlyInv
        BY <1>3, <2>1 DEF Acquire, Orderly
      <3>. QED
        BY <2>1, <3>1, AcquireOrderly
    <2>2. CASE ~Acquire(c)
      <3>1. OrderlyInv
        BY <1>4, <1>7, <2>2 DEF ManagerStep, DeliverReadsComplete, DeliverReadsHeld, recheck,
           resume, ResumeReadsEpoch, ResumeReadsHeld, reopen, ReopenReadsHeld, ClearComplete,
           ClearContribution, LockHeld, Backstop
      <3>. QED
        BY <1>7, <2>2, <3>1, ReadsOrderly, ClearsOrderly, LockHeldOrderly, BackstopOrderly
           DEF ManagerStep
    <2>. QED
      BY <2>1, <2>2
  <1>8. ASSUME NEW c \in Call, RunStep(c) PROVE OrderlyInv'
    <2>1. CASE Stays(c)
      <3>1. OrderlyInv
        BY <1>3, <2>1 DEF Stays
      <3>2. PICK p \in RunPC : Goes(c, p)
        BY <2>1 DEF Stays
      <3>3. p # "release"
        BY DEF RunPC
      <3>. QED
        BY <2>1, <3>1, <3>2, <3>3, RunOrderly DEF Stays, Goes, lockVars
    <2>2. CASE Cut(c)
      BY <1>4, <2>2, NeverCut DEF Cut
    <2>3. CASE Park(c)
      <3>1. OrderlyInv
        BY <1>4, <2>3 DEF Park
      <3>2. /\ calls[c].pc \in RunPC /\ pending = {} /\ UNCHANGED <<lockVars, pending>>
            /\ Step(c, "release", calls[c].epoch, "parked", calls[c].budget)
        BY <2>3, EndsGoes DEF Park, At, RunPC, Status, data
      <3>3. "release" \notin RunPC /\ "parked" # "completed"
        BY DEF RunPC
      <3>. QED
        BY <3>1, <3>2, <3>3, RunOrderly DEF lockVars
    <2>4. CASE Finalize(c)
      <3>1. OrderlyInv
        BY <1>3, <2>4 DEF Finalize
      <3>2. calls[c].pc = "finalize" /\ calls[c].pc \in RunPC /\ calls[c].pc \notin ManagerPC
        BY <2>4 DEF Finalize, At, RunPC, ManagerPC
      <3>3. CanFinalize(calls[c].epoch)
        BY <3>1, <3>2, RunAlone, CallFacts DEF CanFinalize
      <3>4. /\ Step(c, "release", calls[c].epoch, "completed", calls[c].budget)
            /\ UNCHANGED <<epoch_counter, holder>>
        BY <2>4, <3>3, EndsGoes DEF Finalize, mark_complete, Status
      <3>5. "release" \notin RunPC
        BY DEF RunPC
      <3>. QED
        BY <3>1, <3>2, <3>4, <3>5, RunOrderly
    <2>5. CASE Release(c)
      BY <1>4, <2>5, ReleaseOrderly DEF Release
    <2>. QED
      BY <1>8, <2>1, <2>2, <2>3, <2>4, <2>5, RunMoves DEF RunStep
  <1>9. CASE FaultStep
    <2>1. Lapse
      BY <1>2, <1>9 DEF FaultStep, Crash, RunFails, FinalizeTimesOut, DeadLetter
    <2>2. OrderlyInv
      BY <1>2, <1>3, <2>1 DEF Lapse
    <2>3. \E c \in Call : calls[c].epoch = holder
      BY <2>1, <2>2 DEF Lapse, expire, is_held, OrderlyInv, LeaseLive
    <2>. QED
      BY <1>2, <2>1, <2>3 DEF Lapse
  <1>10. CASE UNCHANGED vars
    <2>1. OrderlyInv
      BY <1>4, <1>10 DEF vars, history
    <2>2. UNCHANGED <<epoch_counter, holder, complete, calls, pending>>
      BY <1>10 DEF vars, lockVars
    <2>. QED
      BY <2>1, <2>2 DEF OrderlyInv, LeaseLive, FlagDown, StarterFirst, ParkedBefore, Awaited,
         SomeGuard, Guards, OnItsWay, Parked
  <1>. QED
    BY <1>5, <1>6, <1>7, <1>8, <1>9, <1>10 DEF Next

LEMMA InitGapInv ==
  ASSUME WideBackstop, Init
  PROVE  GapInv
  <1>1. SessionInv
    BY InitSessionInv
  <1>2. /\ epoch_counter = 0 /\ holder = 0 /\ complete = FALSE /\ pending = {}
        /\ calls = [c \in Call |-> Out("idle", MAX_BACKSTOP_RESPAWNS)]
    BY DEF Init, LockInit
  <1>3. \A c \in Call : /\ calls[c].pc = "idle" /\ calls[c].epoch = 0
                        /\ calls[c].budget = MAX_BACKSTOP_RESPAWNS
    BY <1>2 DEF Out
  <1>4. Spending
    <2>1. Cardinality(Delivered) \in Nat
      BY DeliveredFinite
    <2>2. \A c \in Call : ~PastCheck(calls[c])
      BY <1>3 DEF PastCheck
    <2>. QED
      BY <1>2, <1>3, <2>1, <2>2, SessionAssumption DEF Spending
  <1>5. OrderlyInv
    <2>1. \A c \in Call : ~Parked(calls[c]) /\ calls[c].pc \notin RunPC
      BY <1>3 DEF Parked, RunPC
    <2>. QED
      BY <1>2, <1>3, <2>1 DEF OrderlyInv, LeaseLive, FlagDown, StarterFirst, ParkedBefore,
         Awaited, Call
  <1>. QED
    BY <1>4, <1>5 DEF GapInv

\* With a respawn for every delivery, no fault and no run that came late, no
\* interleaving of the drains, the deferred rechecks, the re-opens and the
\* probes leaves an entry that asked for a re-open in the inbox of a session
\* all of whose calls have returned (manager.py deliver, _spawn_and_drain).
THEOREM BackstopLeavesNoStraggler ==
  ASSUME WideBackstop
  PROVE  Spec => []NoStragglerLeft
  <1>1. Init => SessionInv /\ GapInv
    BY InitSessionInv, InitGapInv
  <1>2. SessionInv /\ GapInv /\ [Next]_vars => (SessionInv /\ GapInv)'
    BY NextSessionInv, SpendingNext, OrderlyNext DEF GapInv
  <1>3. SessionInv /\ GapInv => NoStragglerLeft
    <2>1. SUFFICES ASSUME SessionInv, GapInv, Settled, Orderly,
                          NEW d \in pending \cap Reopening
                   PROVE  FALSE
      BY DEF NoStragglerLeft, Orderly
    <2>2. d \in Call
      BY <2>1 DEF SessionInv, SharedOK, Call
    <2>3. OnItsWay(d) \/ SomeGuard
      BY <2>1 DEF GapInv, OrderlyInv, Awaited
    <2>4. \A c \in Call : calls[c].pc \in {"idle", "done"} /\ (c = Starter => calls[c].pc = "done")
      BY <2>1 DEF Settled, Returned, At
    <2>. QED
      BY <2>2, <2>3, <2>4 DEF OnItsWay, SomeGuard, Guards, RunPC
  <1>. QED
    BY <1>1, <1>2, <1>3, PTL DEF Spec
=============================================================================
