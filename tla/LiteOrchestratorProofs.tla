----------------------- MODULE LiteOrchestratorProofs -----------------------
(***************************************************************************)
(* What holds of an orcastork_lite session for every flow, deadline, run,  *)
(* activation and publish timeout and retry delay: its invariants.         *)
(***************************************************************************)
EXTENDS LiteOrchestrator, FiniteSetTheorems, TLAPS

WF == INSTANCE WellFoundedInduction

-----------------------------------------------------------------------------
(* The inductive invariant.                                                *)

Recording == {"record", "drain", "sweep"}
Planning == {"activate", "announce", "plan"}

PC == Recording \cup Planning \cup
      {"top", "wait", "sleep", "cancel", "report", "closing",
       "quiescent", "deadline", "raised"}

TaskType == [stage: {"run", "done", "cancelled"}, emitted: 0..MaxEmissions,
             observed: Nat, until: Nat, clipped: BOOLEAN]

Error == {"none", "error", "timeout", "bound"}

Completion == [op: Operator, error: Error, cut: BOOLEAN]

\* What a task puts on the queue.
Message == [op: Operator, emitted: Identity] \cup Completion

IsCompletion(m) == "error" \in DOMAIN m

\* A due time.
Time == Nat \cup {None}

PassType == [remaining: Time, able: SUBSET Capability, pending: SUBSET Capability,
             wake: Time, news: Nat, planned: Nat]

FixedOK ==
    /\ flow \in FlowType
    /\ deadline \in Time
    /\ ops \subseteq Operator /\ IsFiniteSet(ops)
    /\ caps \in [Operator -> Nat \cup {NoCap}]

StoreOK ==
    /\ revision \in Nat
    /\ entries \in [Identity -> [added: 0..revision, updated: 0..revision]]
    /\ watermark \in [Operator -> (0..revision) \cup {None}]
    /\ covered \in [Operator -> Nat]

TasksOK ==
    /\ running \in [Operator -> TaskType \cup {Idle}]
    /\ \A o \in Operator : running[o] # Idle =>
          o \in ops /\ running[o].observed <= revision
    /\ queue \in Seq(Message)
    /\ batch \in SUBSET Completion

WindowsOK ==
    /\ retries \in [Operator -> Time] /\ debounce \in [Operator -> Time]
    /\ armed_retries \in [Operator -> (0..revision) \cup {None}]
    /\ \A o \in Operator : (retries[o] = None) <=> (armed_retries[o] = None)

ResultsOK ==
    /\ runs \in [Operator -> Nat] /\ failed_attempts \in [Operator -> Nat]
    /\ failures \in [Operator -> {"none", "error", "cancelled"}]
    /\ last \in [Operator -> {"none", "ok", "error", "cancelled"}]

PassOK ==
    /\ now \in Nat /\ until \in Nat /\ stall \in Nat /\ lag \in Nat
    /\ pc \in PC /\ pass \in PassType /\ leaving \in {"deadline", "raised"}
    /\ activated \cap failed = {}

\* A task is done exactly when its completion is on the queue or taken off it
\* and not yet recorded, and there is one completion.
InFlight ==
    /\ \A k \in 1..Len(queue) : IsCompletion(queue[k]) =>
          /\ running[queue[k].op].stage = "done"
          /\ \A s \in batch : s.op # queue[k].op
          /\ \A j \in 1..Len(queue) :
                IsCompletion(queue[j]) /\ queue[j].op = queue[k].op => j = k
    /\ \A s \in batch :
          /\ running[s.op].stage = "done"
          /\ \A r \in batch : r.op = s.op => r = s
    /\ \A o \in Operator : running[o].stage = "done" =>
          \/ \E k \in 1..Len(queue) : IsCompletion(queue[k]) /\ queue[k].op = o
          \/ \E s \in batch : s.op = o

\* The budget of a pass, read at its top: with it a run launched now, or once
\* the await the loop is in is over, ends by the deadline or as much later as
\* the awaits of the pass may take, and a clipped one not before the deadline.
Budget ==
    pc \in Planning =>
        /\ pass.able = compute_available(flow, permitted, present_types(entries))
        /\ pc = "activate" => pass.pending \cap (activated \cup failed) = {}
        /\ deadline = None => pass.remaining = None
        /\ deadline # None =>
             /\ pass.remaining # None
             /\ now + pass.remaining >= deadline
             /\ now + pass.remaining <= deadline + stall
             /\ until + pass.remaining <= deadline + stall

\* The launches find no armed retry that cannot be made.
GivenUp == pc = "plan" => RetryOwned \subseteq Ready

\* The clock never runs past what the tasks and the awaits allow.
OnTime ==
    deadline # None =>
        /\ now <= deadline + lag + stall
        /\ until <= deadline + lag + stall
        /\ \A o \in Operator : running[o].stage = "run" =>
              now <= running[o].until /\ running[o].until <= deadline + lag
        /\ pass.wake # None => pass.wake <= deadline

\* The loop waits with a task in flight, or sleeps to a time.
Waiting ==
    /\ pc = "wait" => \E o \in Operator : running[o] # Idle
    /\ pc = "sleep" => pass.wake # None

\* What _drain_remaining leaves behind.
Swept ==
    /\ batch # {} => pc \in Recording
    /\ pc \in {"sweep", "report", "closing", "deadline", "raised"} =>
          queue = <<>> /\ \A o \in Operator : running[o].stage # "run"
    /\ \A o \in Operator : running[o].stage = "cancelled" => pc \in {"sweep", "report"}
    /\ pc \in {"closing", "deadline", "raised", "quiescent"} =>
          \A o \in Operator : running[o] = Idle

\* A clipped run is not stopped before the deadline, and only a run that was
\* stopped or raised a TimeoutError counts as cut by it.
Late == past_deadline \/ ownTimeout

Clipped ==
    /\ \A o \in Operator : running[o] # Idle /\ running[o].clipped =>
          deadline # None /\ running[o].until >= deadline
    /\ \A k \in 1..Len(queue) : IsCompletion(queue[k]) /\ queue[k].cut => Late
    /\ \A s \in batch : s.cut => Late
    /\ deadline_hit => Late

\* An armed retry is that of an operator the loop will consider.
RetryOwners ==
    \A o \in Operator : retries[o] # None =>
        o \in ops /\ running[o] = Idle /\ ~is_tripped(o, runs[o])

\* A failure whose retry is not to come is in the results.
Reported ==
    \A o \in Operator :
        last[o] \in {"error", "cancelled"} /\ retries[o] = None /\ running[o] = Idle
            => failures[o] # "none"

Honest == \A o \in Operator : watermark[o] # None => watermark[o] <= covered[o]

\* At quiescence every retry has been made or given up.
Settled == pc = "quiescent" => \A o \in Operator : retries[o] = None

\* What the loop's bookkeeping keeps, whatever the time.
Books == /\ StoreOK /\ TasksOK /\ WindowsOK /\ ResultsOK
         /\ InFlight /\ RetryOwners /\ Reported /\ Honest

LiteInv ==
    /\ FixedOK /\ PassOK /\ Books /\ Budget /\ GivenUp /\ OnTime /\ Waiting
    /\ Swept /\ Clipped /\ Settled /\ QuiescentUpToDate

-----------------------------------------------------------------------------
(* Constants, and how much the loop awaits.                                *)

LEMMA LeastNatural ==
    ASSUME NEW S \in SUBSET Nat, S # {}
    PROVE  \E m \in S : \A n \in S : m <= n
<1> DEFINE R == {p \in Nat \X Nat : p[1] < p[2]}
<1>1. WF!OpToRel(<, Nat) = R
  BY DEF WF!OpToRel
<1>2. WF!IsWellFoundedOn(R, Nat)
  BY <1>1, WF!NatLessThanWellFounded
<1>3. \A x, y \in Nat : <<y, x>> \in R <=> y < x
  OBVIOUS
<1> HIDE DEF R
<1>4. PICK m \in S : \A y \in S : ~(<<y, m>> \in R)
  BY <1>2, WF!WFMin
<1>5. ASSUME NEW y \in S
      PROVE  m <= y
  <2>1. m \in Nat /\ y \in Nat
    OBVIOUS
  <2>2. ~(<<y, m>> \in R)
    BY <1>4
  <2>3. <<y, m>> \in R <=> y < m
    BY <1>3, <2>1
  <2>4. ~(y < m)
    BY <2>2, <2>3, Zenon
  <2> QED BY <2>1, <2>4
<1> QED BY <1>5

LEMMA Consts ==
    /\ OperationTimeout \in Nat /\ PublishTimeout \in Nat /\ RetryDelay \in Nat
    /\ None \notin Int /\ MaxEmissions \in Nat
    /\ \A s \in Sessions : /\ s.flow \in FlowType /\ IsFiniteSet(s.flow.operators)
                           /\ s.deadline \in Time
BY LiteAssumption DEF Time

LEMMA IdleIsNoTask ==
    /\ Idle \notin TaskType
    /\ Idle.stage = "idle"
<1>1. Idle.stage = "idle"
  BY DEF Idle
<1>2. \A t \in TaskType : t.stage \in {"run", "done", "cancelled"}
  BY DEF TaskType
<1> HIDE DEF Idle
<1> QED BY <1>1, <1>2

LEMMA NoPassType ==
    /\ NoPass \in PassType /\ NoPass.wake = None
BY DEF NoPass, PassType, Time

\* An await that is over in n ticks keeps the clock within its bounds.
LEMMA AwaitFits ==
    ASSUME FixedOK, PassOK, OnTime, NEW n \in Nat, Await(n),
           UNCHANGED <<fixed, now, lag>>
    PROVE  /\ until' \in Nat /\ stall' \in Nat /\ stall' = stall + n /\ until' = now + n
           /\ deadline # None => /\ now <= deadline + lag + stall'
                                 /\ until' <= deadline + lag + stall'
<1>1. until' = now + n /\ stall' = stall + n
  BY DEF Await
<1>2. now \in Nat /\ stall \in Nat /\ lag \in Nat /\ (deadline # None => deadline \in Nat)
  BY DEF PassOK, FixedOK, Time
<1>3. deadline # None => now <= deadline + lag + stall
  BY DEF OnTime
<1> QED BY <1>1, <1>2, <1>3

\* Publishing n events is such an await.
LEMMA PublishAwaits ==
    ASSUME NEW n \in Nat, publish(n)
    PROVE  \E k \in Nat : Await(k)
<1>1. PublishTimeout * n \in Nat
  BY Consts
<1> QED BY <1>1 DEF publish

\* The emissions on the queue are finitely many.
LEMMA EmittedFinite ==
    ASSUME queue \in Seq(Message)
    PROVE  IsFiniteSet(EmittedIn(queue))
<1> DEFINE K == {k \in 1..Len(queue) : "emitted" \in DOMAIN queue[k]}
           f == [k \in K |-> queue[k].emitted]
<1>1. IsFiniteSet(1..Len(queue))
  BY FS_Interval
<1>2. IsFiniteSet(K)
  BY <1>1, FS_Subset
<1>3. EmittedIn(queue) = {queue[k].emitted : k \in K}
  BY DEF EmittedIn, ToSet
<1>4. f \in Surjection(K, EmittedIn(queue))
  BY <1>3 DEF Surjection
<1>5. PICK g : g \in Surjection(K, EmittedIn(queue))
  BY <1>4
<1> HIDE DEF K
<1> QED BY <1>2, <1>5, FS_Surjection

\* SessionState.merge only ever adds entries and revisions.
LEMMA MergeGrows ==
    ASSUME StoreOK, NEW ids, Merge(ids)
    PROVE  /\ revision' \in Nat /\ revision <= revision'
           /\ entries' \in [Identity -> [added: 0..revision', updated: 0..revision']]
           /\ \A i \in Identity : entries'[i] # entries[i] => i \in ids
<1>1. PICK newer \in SUBSET {i \in ids : entries[i] # Absent} :
                   LET m == merge(entries, revision, ids, newer)
                   IN  entries' = m.entries /\ revision' = m.revision
  BY Zenon DEF Merge
<1> DEFINE added == {i \in ids : entries[i] = Absent}
<1>2. /\ entries' = [i \in Identity |->
            IF i \in added THEN [added |-> revision + 1, updated |-> revision + 1]
            ELSE IF i \in newer THEN [entries[i] EXCEPT !.updated = revision + 1]
            ELSE entries[i]]
      /\ revision' = IF added \cup newer = {} THEN revision ELSE revision + 1
  BY <1>1 DEF merge
<1>a. added \subseteq ids /\ newer \subseteq ids
  OBVIOUS
<1> HIDE DEF added
<1>b. \A i \in Identity : entries'[i] # entries[i] => i \in ids
  BY <1>2, <1>a
<1>3. CASE added \cup newer = {}
  <2>1. revision' = revision
    BY <1>2, <1>3
  <2>2. \A i \in Identity : i \notin added /\ i \notin newer
    BY <1>3
  <2>3. entries' = [i \in Identity |-> entries[i]]
    BY <1>2, <2>2
  <2> QED BY <1>b, <2>1, <2>3 DEF StoreOK
<1>4. CASE added \cup newer # {}
  <2>1. revision' = revision + 1
    BY <1>2, <1>4
  <2>2. revision \in Nat /\ revision + 1 \in 0..(revision + 1)
    BY DEF StoreOK
  <2>3. \A i \in Identity : entries[i] \in [added: 0..(revision + 1), updated: 0..(revision + 1)]
    BY DEF StoreOK
  <2> QED BY <1>b, <1>2, <2>1, <2>2, <2>3
<1> QED BY <1>3, <1>4
-----------------------------------------------------------------------------
(* Steps that leave the tasks and the books alone.                         *)

LEMMA BooksKept ==
    ASSUME Books,
           UNCHANGED <<fixed, stateVars, tasks, runs, failures, failed_attempts,
                       windows, covered, last>>
    PROVE  Books'
<1> USE DEF fixed, stateVars, windows, tasks
<1>1. StoreOK' /\ TasksOK'
  BY DEF Books, StoreOK, TasksOK
<1>2. WindowsOK' /\ ResultsOK'
  BY DEF Books, WindowsOK, ResultsOK
<1>3. InFlight' /\ Honest'
  BY DEF Books, InFlight, Honest
<1>4. RetryOwners' /\ Reported'
  BY DEF Books, RetryOwners, Reported, is_tripped
<1> QED BY <1>1, <1>2, <1>3, <1>4 DEF Books

LEMMA AvailableKept ==
    ASSUME UNCHANGED <<fixed, entries, permitted>>
    PROVE  compute_available(flow, permitted, present_types(entries))' =
           compute_available(flow, permitted, present_types(entries))
BY DEF fixed, present_types

LEMMA GivenUpKept ==
    ASSUME GivenUp, pc' = pc, ops \subseteq Operator,
           UNCHANGED <<fixed, entries, pass, activated, runs, retries>>,
           \A o \in Operator : running'[o] = Idle <=> running[o] = Idle
    PROVE  GivenUp'
<1> USE DEF fixed
<1>1. present_types(entries)' = present_types(entries) /\ Available' = Available
  BY DEF present_types, Available
<1>2. Considered' = Considered
  BY DEF Considered, is_tripped
<1>3. Ready' = Ready /\ RetryOwned' = RetryOwned
  BY <1>1, <1>2 DEF Ready, RetryOwned
<1> QED BY <1>3 DEF GivenUp

LEMMA QuiescentKept ==
    ASSUME QuiescentUpToDate,
           UNCHANGED <<fixed, stateVars, running, runs, permitted, activated, covered, pc>>
    PROVE  QuiescentUpToDate'
<1> USE DEF fixed, stateVars
<1>1. present_types(entries)' = present_types(entries)
  BY DEF present_types
<1>2. compute_available(flow, permitted, present_types(entries))' =
      compute_available(flow, permitted, present_types(entries))
  BY <1>1
<1>3. \A o : Relevant(o, covered[o])' = Relevant(o, covered[o])
  BY DEF Relevant
<1>4. \A o : is_tripped(o, runs[o])' = is_tripped(o, runs[o])
  BY DEF is_tripped
<1>5. \A o : is_ready(flow, o, present_types(entries),
               compute_available(flow, permitted, present_types(entries)) \cap activated)' =
             is_ready(flow, o, present_types(entries),
               compute_available(flow, permitted, present_types(entries)) \cap activated)
  BY <1>1, <1>2
<1> QED BY <1>3, <1>4, <1>5 DEF QuiescentUpToDate

\* A step of the loop or of time in which no task and no result changes.
LEMMA QuietStep ==
    ASSUME LiteInv, PassOK', Budget', GivenUp', OnTime', Waiting', Swept', now' >= now,
           UNCHANGED <<fixed, stateVars, tasks, results, windows, history>>,
           pc' # "quiescent" \/ UNCHANGED <<pc, permitted, activated>>
    PROVE  LiteInv'
<1> USE DEF fixed, stateVars, results, windows, history, tasks
<1>1. FixedOK' /\ Books'
  BY BooksKept DEF LiteInv, FixedOK
<1>2. Late => Late'
  <2>1. deadline # None => deadline \in Nat
    BY DEF LiteInv, FixedOK, Time
  <2> QED BY <2>1 DEF Late, past_deadline, LiteInv, PassOK
<1>3. Clipped'
  BY <1>2 DEF LiteInv, Clipped
<1>4. Settled' /\ QuiescentUpToDate'
  <2>1. CASE pc' # "quiescent" BY <2>1 DEF Settled, QuiescentUpToDate
  <2>2. CASE UNCHANGED <<pc, permitted, activated>>
    BY <2>2, QuiescentKept DEF LiteInv, Settled
  <2> QED BY <2>1, <2>2
<1> QED BY <1>1, <1>3, <1>4 DEF LiteInv

LEMMA OverStep ==
    ASSUME LiteInv, Over \/ UNCHANGED vars
    PROVE  LiteInv'
<1> USE DEF fixed, stateVars, results, windows, history, capVars, catalog, tasks, loop
<1>1. /\ UNCHANGED <<fixed, stateVars, tasks, results, windows, history>>
      /\ UNCHANGED <<now, loop, activated, failed, permitted, lag>>
  BY DEF Over, vars
<1>2. PassOK' /\ Waiting' /\ Swept' /\ OnTime'
  BY <1>1 DEF LiteInv, PassOK, Waiting, Swept, OnTime
<1>3. now' >= now
  BY <1>1 DEF LiteInv, PassOK
<1>4. Budget'
  BY <1>1, AvailableKept DEF LiteInv, Budget
<1>5. GivenUp'
  BY <1>1, GivenUpKept DEF LiteInv, FixedOK
<1> QED BY <1>1, <1>2, <1>3, <1>4, <1>5, QuietStep

LEMMA BeginPassStep ==
    ASSUME LiteInv, BeginPass
    PROVE  LiteInv'
<1> USE DEF fixed, stateVars, results, windows, history, capVars, catalog, tasks
<1> DEFINE able == compute_available(flow, permitted, present_types(entries))
           pending == able \ (activated \cup failed)
           left == IF deadline = None THEN None ELSE deadline - now
           time == activation_time(pending, activated)
<1>a. /\ now \in Nat /\ activated \cap failed = {} /\ lag \in Nat
      /\ leaving \in {"deadline", "raised"}
      /\ deadline # None => deadline \in Nat /\ now < deadline
      /\ None \notin Nat
  BY Consts DEF LiteInv, PassOK, FixedOK, Time, BeginPass, past_deadline
<1>1. /\ pc = "top" /\ pc' = "activate"
      /\ pass' = [NoPass EXCEPT !.remaining = left, !.able = able, !.pending = pending]
      /\ stall' = time /\ until' = now + time
      /\ UNCHANGED <<fixed, now, stateVars, leaving, tasks, results, windows,
                     prev_caps, capVars, catalog, history, lag>>
  BY DEF BeginPass
<1>2. /\ pass'.remaining = left /\ pass'.able = able
      /\ pass'.pending = pending /\ pass'.wake = None
  BY <1>1 DEF NoPass
<1>3. able \subseteq Capability /\ pending \subseteq Capability
  BY DEF compute_available, Least, LiteInv, FixedOK, FlowType
<1>4. left \in Time
  BY <1>a DEF Time
<1>5. time \in Nat
  BY Consts DEF activation_time
<1>6. pass' \in PassType
  <2>1. None \in Time
    BY DEF Time
  <2> HIDE DEF able, left, pending
  <2> QED BY <1>1, <1>3, <1>4, <2>1 DEF PassType, NoPass
<1> HIDE DEF time
<1>7. PassOK'
  BY <1>1, <1>5, <1>6, <1>a DEF PassOK, PC, Planning
<1>8. able' = able
  BY <1>1, AvailableKept
<1>9. Budget'
  <2>1. deadline # None =>
          /\ left # None
          /\ now + left >= deadline
          /\ now + left <= deadline + time
          /\ now + time + left <= deadline + time
    BY <1>5, <1>a
  <2>2. deadline = None => left = None
    OBVIOUS
  <2>3. pending \cap (activated \cup failed) = {}
    OBVIOUS
  <2> HIDE DEF left, pending
  <2> QED BY <1>1, <1>2, <1>8, <2>1, <2>2, <2>3 DEF Budget
<1>10. OnTime'
  <2>1. deadline # None => now <= deadline + lag + time /\ now + time <= deadline + lag + time
    BY <1>5, <1>a
  <2> QED BY <1>1, <1>2, <2>1 DEF LiteInv, OnTime
<1>11. Waiting' /\ GivenUp' /\ Swept'
  BY <1>1 DEF LiteInv, Waiting, GivenUp, Swept, Recording
<1>12. now' >= now
  BY <1>1, <1>a
<1> QED BY <1>1, <1>7, <1>9, <1>10, <1>11, <1>12, QuietStep

\* An activation or the announcements: the pass goes on after an await.
LEMMA PassStep ==
    ASSUME LiteInv, pc = "activate", pc' \in {"activate", "announce"},
           NEW n \in Nat, Await(n),
           pass' \in PassType, pass'.remaining = pass.remaining, pass'.able = pass.able,
           pass'.wake = pass.wake,
           activated' \cap failed' = {},
           pc' = "activate" => pass'.pending \cap (activated' \cup failed') = {},
           UNCHANGED <<fixed, now, stateVars, leaving, tasks, results, windows,
                       catalog, history, lag>>
    PROVE  LiteInv'
<1> USE DEF fixed, stateVars, results, windows, history, catalog, tasks
<1>a. /\ FixedOK /\ PassOK /\ Budget /\ OnTime /\ Swept /\ None \notin Nat
  BY Consts DEF LiteInv
<1>1. /\ until' \in Nat /\ stall' \in Nat /\ stall' = stall + n /\ until' = now + n
      /\ deadline # None => /\ now <= deadline + lag + stall'
                            /\ until' <= deadline + lag + stall'
  BY <1>a, AwaitFits
<1>2. PassOK'
  BY <1>1, <1>a DEF PassOK, PC, Planning
<1>3. Budget'
  <2>1. ASSUME deadline # None
        PROVE  /\ pass'.remaining # None
               /\ now + pass'.remaining >= deadline
               /\ now + pass'.remaining <= deadline + stall'
               /\ until' + pass'.remaining <= deadline + stall'
    <3>1. /\ pass.remaining # None
          /\ now + pass.remaining >= deadline
          /\ now + pass.remaining <= deadline + stall
      BY <2>1, <1>a DEF Budget, Planning
    <3>2. pass.remaining \in Nat /\ deadline \in Nat /\ now \in Nat /\ stall \in Nat
      BY <3>1, <2>1, <1>a DEF PassOK, PassType, FixedOK, Time
    <3> QED BY <3>1, <3>2, <1>1
  <2> QED BY <2>1, <1>a, AvailableKept DEF Budget, Planning
<1>4. OnTime'
  BY <1>1, <1>a DEF OnTime
<1>5. Waiting' /\ GivenUp' /\ Swept'
  BY <1>a DEF Waiting, GivenUp, Swept, Recording
<1>6. now' >= now
  BY <1>a DEF PassOK
<1> QED BY <1>2, <1>3, <1>4, <1>5, <1>6, QuietStep

LEMMA ActivateStep ==
    ASSUME LiteInv, NEW c \in Capability, Activate(c)
    PROVE  LiteInv'
<1>a. pass \in PassType /\ activated \cap failed = {} /\ Budget
  BY DEF LiteInv, PassOK
<1>1. /\ pc = "activate" /\ c \in pass.pending /\ pc' = "activate"
      /\ pass' = [pass EXCEPT !.pending = @ \ {c}, !.news = @ + 1]
      /\ \/ activated' = activated \cup {c} /\ failed' = failed
         \/ failed' = failed \cup {c} /\ activated' = activated
      /\ Await(activation_time(pass.pending \ {c}, activated'))
      /\ UNCHANGED <<fixed, now, stateVars, leaving, tasks, results, windows,
                     catalog, history, lag>>
  BY DEF Activate, Activatable, ready_of
<1>2. activation_time(pass.pending \ {c}, activated') \in Nat
  BY Consts DEF activation_time
<1>3. /\ pass' \in PassType /\ pass'.pending = pass.pending \ {c}
      /\ pass'.remaining = pass.remaining /\ pass'.able = pass.able /\ pass'.wake = pass.wake
  <2>1. pass.news + 1 \in Nat /\ pass.pending \ {c} \in SUBSET Capability
    BY <1>a DEF PassType
  <2> QED BY <2>1, <1>1, <1>a DEF PassType
<1>4. pass.pending \cap (activated \cup failed) = {}
  BY <1>1, <1>a DEF Budget, Planning
<1>5. activated' \cap failed' = {} /\ pass'.pending \cap (activated' \cup failed') = {}
  BY <1>1, <1>3, <1>4, <1>a
<1> QED BY <1>1, <1>2, <1>3, <1>5, PassStep

LEMMA AnnounceStep ==
    ASSUME LiteInv, Announce
    PROVE  LiteInv'
<1>1. pass \in PassType /\ activated \cap failed = {} /\ pass.news \in Nat
  BY DEF LiteInv, PassOK, PassType
<1>2. PICK n \in Nat : Await(n)
  BY <1>1, PublishAwaits DEF Announce
<1> QED BY <1>1, <1>2, PassStep DEF Announce, capVars

LEMMA WakeStep ==
    ASSUME LiteInv, Wake \/ CatalogChange
    PROVE  LiteInv'
<1> USE DEF fixed, stateVars, results, windows, history, catalog, capVars, tasks, loop
<1>1. /\ pc' = "top" /\ pc \in {"wait", "sleep", "top"}
      /\ pass' = NoPass \/ pass' = pass
      /\ UNCHANGED <<fixed, now, stateVars, until, stall, leaving, tasks, results,
                     windows, capVars, history, lag>>
  BY DEF Wake, CatalogChange
<1>2. PassOK'
  BY <1>1, NoPassType DEF LiteInv, PassOK, PC
<1>3. Budget' /\ Waiting' /\ GivenUp' /\ Swept'
  BY <1>1 DEF LiteInv, Budget, Planning, Waiting, GivenUp, Swept, Recording
<1>4. OnTime'
  BY <1>1, NoPassType DEF LiteInv, OnTime
<1>5. now' >= now
  BY <1>1 DEF LiteInv, PassOK
<1> QED BY <1>1, <1>2, <1>3, <1>4, <1>5, QuietStep

LEMMA CloseStep ==
    ASSUME LiteInv, Close
    PROVE  LiteInv'
<1> USE DEF fixed, stateVars, results, windows, history, catalog, capVars, tasks
<1>1. /\ pc = "closing" /\ pc' = leaving /\ leaving \in {"deadline", "raised"}
      /\ UNCHANGED <<fixed, now, stateVars, pass, until, stall, leaving, tasks, results,
                     windows, capVars, history, lag>>
  BY DEF Close, LiteInv, PassOK
<1>2. PassOK'
  BY <1>1 DEF LiteInv, PassOK, PC
<1>3. Budget' /\ Waiting' /\ GivenUp' /\ Swept'
  BY <1>1 DEF LiteInv, Budget, Planning, Waiting, GivenUp, Swept, Recording
<1>4. OnTime'
  BY <1>1 DEF LiteInv, OnTime
<1>5. now' >= now
  BY <1>1 DEF LiteInv, PassOK
<1> QED BY <1>1, <1>2, <1>3, <1>4, <1>5, QuietStep

LEMMA TickStep ==
    ASSUME LiteInv, Tick
    PROVE  LiteInv'
<1> USE DEF fixed, stateVars, results, windows, history, catalog, capVars, tasks, loop
<1>a. /\ now \in Nat /\ until \in Nat /\ stall \in Nat /\ lag \in Nat /\ pass \in PassType
      /\ pass.remaining \in Time /\ pass.wake \in Time
      /\ deadline \in Time /\ FixedOK /\ None \notin Int /\ Budget /\ OnTime /\ Waiting
      /\ InFlight /\ TasksOK /\ Swept /\ GivenUp
  BY Consts DEF LiteInv, PassOK, PassType, FixedOK, Books
<1>1. /\ now' = now + 1
      /\ \A o \in Operator : running[o].stage = "run" => now < running[o].until
      /\ pc \notin {"wait", "sleep"} => now < until
      /\ UNCHANGED <<fixed, stateVars, loop, tasks, results, windows,
                     prev_caps, capVars, catalog, history, lag>>
  BY DEF Tick
<1>2. PassOK'
  BY <1>1, <1>a DEF LiteInv, PassOK
<1>3. Waiting' /\ Swept'
  BY <1>1, <1>a DEF Waiting, Swept
<1>4. GivenUp'
  BY <1>1, <1>a, GivenUpKept DEF FixedOK
<1>5. Budget'
  <2>1. ASSUME deadline # None, pc \in Planning
        PROVE  /\ now + 1 + pass.remaining >= deadline
               /\ now + 1 + pass.remaining <= deadline + stall
    <3>1. /\ pass.remaining # None /\ now < until
          /\ now + pass.remaining >= deadline
          /\ until + pass.remaining <= deadline + stall
      BY <2>1, <1>1, <1>a DEF Budget, Planning
    <3>2. pass.remaining \in Nat /\ deadline \in Nat
      BY <3>1, <2>1, <1>a DEF Time
    <3> QED BY <3>1, <3>2, <1>a
  <2> QED BY <1>1, <1>a, <2>1, AvailableKept DEF Budget
<1>6. deadline # None => now + 1 <= deadline + lag + stall
  <2>1. SUFFICES ASSUME deadline # None PROVE now + 1 <= deadline + lag + stall
    OBVIOUS
  <2>2. deadline \in Nat
    BY <2>1, <1>a DEF Time
  <2>3. CASE pc = "wait"
    <3>1. queue = <<>> /\ batch = {}
      BY <2>3, <1>a DEF Tick, Swept, Ended, Recording
    <3>2. PICK o \in Operator : running[o] # Idle
      BY <2>3, <1>a DEF Waiting
    <3>3. running[o] \in TaskType
      BY <3>2, <1>a DEF TasksOK
    <3>4. running[o].stage # "done" /\ running[o].stage # "cancelled"
      BY <2>3, <3>1, <1>a DEF InFlight, Swept
    <3>5. running[o].stage = "run" /\ running[o].until \in Nat
      BY <3>3, <3>4 DEF TaskType
    <3>6. now < running[o].until /\ running[o].until <= deadline + lag
      BY <3>5, <1>1, <1>a, <2>1 DEF OnTime
    <3> QED BY <3>5, <3>6, <2>2, <1>a
  <2>4. CASE pc = "sleep"
    <3>1. now < pass.wake
      BY <2>4 DEF Tick
    <3>2. pass.wake \in Nat /\ pass.wake <= deadline
      BY <2>1, <2>4, <1>a DEF Waiting, OnTime, Time
    <3> QED BY <3>1, <3>2, <2>2, <1>a
  <2>5. CASE pc \notin {"wait", "sleep"}
    <3>1. now < until /\ until <= deadline + lag + stall
      BY <2>1, <2>5, <1>1, <1>a DEF OnTime
    <3> QED BY <3>1, <2>2, <1>a
  <2> QED BY <2>3, <2>4, <2>5
<1>7. OnTime'
  <2>1. ASSUME deadline # None, NEW o \in Operator, running[o].stage = "run"
        PROVE  now + 1 <= running[o].until
    <3>1. running[o] \in TaskType
      BY <2>1, <1>a, IdleIsNoTask DEF TasksOK
    <3> QED BY <3>1, <2>1, <1>1, <1>a DEF TaskType
  <2> QED BY <2>1, <1>1, <1>6, <1>a DEF OnTime
<1>8. now' >= now
  BY <1>1, <1>a
<1> QED BY <1>1, <1>2, <1>3, <1>4, <1>5, <1>7, <1>8, QuietStep
-----------------------------------------------------------------------------
(* The tasks.                                                              *)

\* An emission or an end: one more message on the queue.
LEMMA TaskStep ==
    ASSUME LiteInv, NEW o \in Operator, running[o].stage = "run",
           NEW m \in Message, queue' = Append(queue, m),
           NEW t \in TaskType, running' = [running EXCEPT ![o] = t],
           t.observed = running[o].observed, t.until = running[o].until,
           t.clipped = running[o].clipped,
           t.stage \in {"run", "done"},
           IsCompletion(m) <=> t.stage = "done",
           IsCompletion(m) => m.op = o,
           ownTimeout => ownTimeout',
           IsCompletion(m) /\ m.cut => Late',
           UNCHANGED <<fixed, now, stateVars, loop, batch, results, windows,
                       prev_caps, capVars, catalog, covered, last, lag>>
    PROVE  LiteInv'
<1> USE DEF fixed, stateVars, loop, results, windows, capVars, catalog
<1>a. /\ FixedOK /\ PassOK /\ StoreOK /\ TasksOK /\ WindowsOK /\ ResultsOK
      /\ InFlight /\ RetryOwners /\ Reported /\ Honest
      /\ Budget /\ GivenUp /\ OnTime /\ Waiting /\ Swept /\ Clipped
  BY DEF LiteInv, Books
<1>1. running[o] # Idle /\ running[o].stage # "done" /\ t # Idle
  BY IdleIsNoTask
<1>2. pc \notin {"sweep", "report", "closing", "quiescent", "deadline", "raised"}
  BY <1>1, <1>a DEF Swept
<1>3. /\ running' \in [Operator -> TaskType \cup {Idle}]
      /\ running'[o] = t
      /\ \A p \in Operator \ {o} : running'[p] = running[p]
  BY <1>a DEF TasksOK
<1>4. /\ queue' \in Seq(Message) /\ Len(queue') = Len(queue) + 1 /\ Len(queue) \in Nat
      /\ \A k \in 1..Len(queue) : queue'[k] = queue[k]
      /\ queue'[Len(queue) + 1] = m
  BY <1>a DEF TasksOK
<1>5. TasksOK'
  BY <1>a, <1>1, <1>3, <1>4 DEF TasksOK
<1>b. \A k \in 1..Len(queue) : queue[k].op \in Operator
  BY <1>a DEF TasksOK, Message, Completion
<1>c. \A s \in batch : s.op \in Operator
  BY <1>a DEF TasksOK, Completion
<1>d. /\ \A k \in 1..Len(queue) : IsCompletion(queue[k]) => queue[k].op # o
      /\ \A s \in batch : s.op # o
  BY <1>1, <1>a DEF InFlight
<1>6. InFlight'
  <2>1. ASSUME NEW k \in 1..Len(queue'), IsCompletion(queue'[k])
        PROVE  /\ running'[queue'[k].op].stage = "done"
               /\ \A s \in batch : s.op # queue'[k].op
               /\ \A j \in 1..Len(queue') :
                     IsCompletion(queue'[j]) /\ queue'[j].op = queue'[k].op => j = k
    <3>1. CASE k = Len(queue) + 1
      <4>1. queue'[k] = m /\ m.op = o /\ t.stage = "done"
        BY <3>1, <2>1, <1>4
      <4>2. ASSUME NEW j \in 1..Len(queue'), IsCompletion(queue'[j]), queue'[j].op = o
            PROVE  j = k
        <5>1. j \notin 1..Len(queue)
          BY <4>2, <1>4, <1>d
        <5> QED BY <5>1, <3>1, <1>4
      <4> QED BY <4>1, <4>2, <1>3, <1>d
    <3>2. CASE k \in 1..Len(queue)
      <4>1. queue'[k] = queue[k] /\ queue[k].op \in Operator \ {o}
        BY <3>2, <2>1, <1>4, <1>b, <1>d
      <4>2. ASSUME NEW j \in 1..Len(queue'), IsCompletion(queue'[j]),
                   queue'[j].op = queue[k].op
            PROVE  j = k
        <5>1. j # Len(queue) + 1
          BY <4>1, <4>2, <1>4
        <5>2. j \in 1..Len(queue)
          BY <5>1, <1>4
        <5> QED BY <5>2, <4>1, <4>2, <3>2, <2>1, <1>4, <1>a DEF InFlight
      <4>3. IsCompletion(queue[k])
        BY <4>1, <2>1
      <4>4. running[queue[k].op].stage = "done" /\ \A s \in batch : s.op # queue[k].op
        BY <4>3, <3>2, <1>a DEF InFlight
      <4>5. running'[queue[k].op] = running[queue[k].op]
        BY <4>1, <1>3
      <4>6. /\ running'[queue'[k].op].stage = "done"
            /\ \A s \in batch : s.op # queue'[k].op
        BY <4>1, <4>4, <4>5
      <4> QED BY <4>1, <4>2, <4>6, Zenon
    <3> QED BY <3>1, <3>2, <1>4
  <2>2. ASSUME NEW p \in Operator, running'[p].stage = "done"
        PROVE  \/ \E k \in 1..Len(queue') : IsCompletion(queue'[k]) /\ queue'[k].op = p
               \/ \E s \in batch : s.op = p
    <3>1. CASE p = o
      <4>1. Len(queue) + 1 \in 1..Len(queue')
        BY <1>4
      <4> QED BY <3>1, <4>1, <2>2, <1>3, <1>4
    <3>2. CASE p # o
      <4>1. \/ \E k \in 1..Len(queue) : IsCompletion(queue[k]) /\ queue[k].op = p
            \/ \E s \in batch : s.op = p
        BY <3>2, <2>2, <1>3, <1>a DEF InFlight
      <4>2. 1..Len(queue) \subseteq 1..Len(queue')
        BY <1>4
      <4> QED BY <4>1, <4>2, <1>4
    <3> QED BY <3>1, <3>2
  <2>3. ASSUME NEW s \in batch
        PROVE  running'[s.op].stage = "done" /\ \A r \in batch : r.op = s.op => r = s
    BY <1>3, <1>c, <1>d, <1>a DEF InFlight
  <2>4. batch' = batch
    OBVIOUS
  <2> QED BY <2>1, <2>2, <2>3, <2>4 DEF InFlight
<1>7. \A p \in Operator : running'[p] = Idle <=> running[p] = Idle
  BY <1>1, <1>3
<1>8. RetryOwners' /\ Reported'
  BY <1>7, <1>a DEF RetryOwners, Reported, is_tripped
<1>9. GivenUp'
  BY <1>7, <1>a, GivenUpKept DEF FixedOK
<1>10. StoreOK' /\ WindowsOK' /\ ResultsOK' /\ Honest' /\ FixedOK' /\ PassOK'
  BY <1>a DEF StoreOK, WindowsOK, ResultsOK, Honest, FixedOK, PassOK
<1>11. Budget'
  BY <1>a, AvailableKept DEF Budget
<1>12. OnTime'
  BY <1>a, <1>1, <1>3 DEF OnTime
<1>13. Waiting' /\ Settled' /\ QuiescentUpToDate'
  BY <1>2, <1>7, <1>a DEF Waiting, Settled, QuiescentUpToDate
<1>14. Swept'
  <2>1. \A p \in Operator : running'[p].stage = "cancelled" => running[p].stage = "cancelled"
    BY <1>3
  <2> QED BY <2>1, <1>2, <1>a DEF Swept
<1>15. Clipped'
  <2>1. Late => Late'
    BY DEF Late, past_deadline
  <2>2. \A p \in Operator : running'[p] # Idle /\ running'[p].clipped =>
          deadline # None /\ running'[p].until >= deadline
    BY <1>1, <1>3, <1>a DEF Clipped
  <2>3. ASSUME NEW k \in 1..Len(queue'), IsCompletion(queue'[k]), queue'[k].cut
        PROVE  Late'
    <3>1. CASE k = Len(queue) + 1
      BY <3>1, <2>3, <1>4
    <3>2. CASE k \in 1..Len(queue)
      BY <3>2, <2>1, <2>3, <1>4, <1>a DEF Clipped
    <3> QED BY <3>1, <3>2, <1>4
  <2> QED BY <2>1, <2>2, <2>3, <1>a DEF Clipped
<1> QED BY <1>5, <1>6, <1>8, <1>9, <1>10, <1>11, <1>12, <1>13, <1>14, <1>15
        DEF LiteInv, Books

LEMMA EmitStep ==
    ASSUME LiteInv, NEW o \in Operator, Emit(o)
    PROVE  LiteInv'
<1> USE DEF history
<1>1. PICK i \in Identity : queue' = Append(queue, [op |-> o, emitted |-> i])
  BY DEF Emit
<1>2. running[o] \in TaskType
  BY IdleIsNoTask DEF Emit, LiteInv, Books, TasksOK
<1>3. PICK t : t = [running[o] EXCEPT !.emitted = @ + 1]
  OBVIOUS
<1>4. /\ t \in TaskType /\ t.observed = running[o].observed /\ t.until = running[o].until
      /\ t.clipped = running[o].clipped /\ t.stage = running[o].stage
  <2>1. running[o].emitted \in 0..MaxEmissions /\ running[o].emitted < MaxEmissions
    BY <1>2 DEF TaskType, Emit
  <2>2. running[o].emitted + 1 \in 0..MaxEmissions
    BY <2>1, Consts
  <2> QED BY <1>2, <1>3, <2>2 DEF TaskType
<1>5. running' = [running EXCEPT ![o] = t]
  BY <1>3 DEF Emit
<1>6. PICK m : m = [op |-> o, emitted |-> i]
  OBVIOUS
<1>7. m \in Message /\ ~IsCompletion(m)
  BY <1>6 DEF Message, IsCompletion
<1>8. running[o].stage = "run" /\ queue' = Append(queue, m)
  BY <1>1, <1>6 DEF Emit
<1> QED BY <1>4, <1>5, <1>7, <1>8, TaskStep DEF Emit

LEMMA FinishStep ==
    ASSUME LiteInv, NEW o \in Operator, Finish(o)
    PROVE  LiteInv'
<1>1. PICK error \in Error :
          /\ error = "bound" => now >= running[o].until
          /\ error = "timeout" => running[o].clipped
          /\ queue' = Append(queue, [op |-> o, error |-> error,
                                     cut |-> cut_by_deadline(o, error)])
          /\ ownTimeout' = (ownTimeout \/ error = "timeout")
  BY DEF Finish, Error
<1>2. running[o] \in TaskType /\ running[o] # Idle
  BY IdleIsNoTask DEF Finish, LiteInv, Books, TasksOK
<1>3. PICK t : t = [running[o] EXCEPT !.stage = "done"]
  OBVIOUS
<1>4. /\ t \in TaskType /\ t.observed = running[o].observed /\ t.until = running[o].until
      /\ t.clipped = running[o].clipped /\ t.stage = "done"
  BY <1>2, <1>3 DEF TaskType
<1>5. running' = [running EXCEPT ![o] = t]
  BY <1>3 DEF Finish
<1>6. PICK cut \in BOOLEAN : cut = cut_by_deadline(o, error)
  BY Zenon DEF cut_by_deadline
<1>7. PICK m : m = [op |-> o, error |-> error, cut |-> cut]
  OBVIOUS
<1>8. m \in Message /\ IsCompletion(m) /\ m.op = o /\ m.cut = cut
  BY <1>7 DEF Message, Completion, IsCompletion
<1>9. ASSUME cut PROVE Late'
  <2>1. running[o].clipped /\ error \in {"timeout", "bound"}
    BY <1>6, <1>9 DEF cut_by_deadline
  <2>2. CASE error = "timeout"
    BY <2>2, <1>1 DEF Late
  <2>3. CASE error = "bound"
    <3>1. deadline # None /\ running[o].until >= deadline /\ now >= running[o].until
      BY <2>1, <2>3, <1>1, <1>2 DEF LiteInv, Clipped
    <3>2. deadline \in Nat /\ running[o].until \in Nat /\ now \in Nat
      BY <3>1, <1>2 DEF LiteInv, FixedOK, PassOK, Time, TaskType
    <3>3. now' = now /\ deadline' = deadline
      BY DEF Finish, fixed
    <3> QED BY <3>1, <3>2, <3>3 DEF Late, past_deadline
  <2> QED BY <2>1, <2>2, <2>3
<1>10. queue' = Append(queue, m)
  BY <1>1, <1>6, <1>7
<1>11. ownTimeout => ownTimeout'
  BY <1>1
<1> QED BY <1>4, <1>5, <1>8, <1>9, <1>10, <1>11, TaskStep DEF Finish
-----------------------------------------------------------------------------
(* The batches.                                                            *)

\* CancelRunning's tasks.
Cancelled ==
    [o \in Operator |-> IF running[o].stage = "run"
                        THEN [running[o] EXCEPT !.stage = "cancelled"] ELSE running[o]]

\* What becomes of a task that is cancelled.
LEMMA CancelledTask ==
    ASSUME TasksOK, NEW o \in Operator
    PROVE  /\ Cancelled[o] \in TaskType \cup {Idle}
           /\ Cancelled[o] = Idle <=> running[o] = Idle
           /\ Cancelled[o].stage # "run"
           /\ running[o].stage # "run" => Cancelled[o] = running[o]
           /\ running[o] # Idle =>
                /\ Cancelled[o].observed = running[o].observed
                /\ Cancelled[o].until = running[o].until
                /\ Cancelled[o].clipped = running[o].clipped
           /\ Cancelled[o].stage = "done" <=> running[o].stage = "done"
<1>1. running[o] \in TaskType \cup {Idle}
  BY DEF TasksOK
<1>2. CASE running[o].stage # "run"
  BY <1>1, <1>2 DEF Cancelled
<1>3. CASE running[o].stage = "run"
  <2>1. running[o] \in TaskType /\ running[o] # Idle
    BY <1>1, <1>3, IdleIsNoTask
  <2>2. PICK t : t = [running[o] EXCEPT !.stage = "cancelled"]
    OBVIOUS
  <2>3. /\ t \in TaskType /\ t.stage = "cancelled" /\ t.observed = running[o].observed
        /\ t.until = running[o].until /\ t.clipped = running[o].clipped
    BY <2>1, <2>2 DEF TaskType
  <2>4. t # Idle
    BY <2>3, IdleIsNoTask
  <2>5. Cancelled[o] = t
    BY <1>3, <2>2 DEF Cancelled
  <2> QED BY <1>3, <2>1, <2>3, <2>4, <2>5
<1> QED BY <1>2, <1>3

\* A batch is taken off the queue and merged, by the loop or as it leaves.
LEMMA TakeStep ==
    ASSUME LiteInv, NEW next \in Recording, NEW otherwise \in {"top", "cancel", "report"},
           TakeQueued(next, otherwise),
           pc \in {"wait", "top", "activate", "cancel"},
           \/ running' = running /\ next # "sweep" /\ otherwise # "report"
           \/ running' = Cancelled /\ next = "sweep" /\ otherwise = "report",
           leaving' \in {"deadline", "raised"},
           deadline_hit' => Late,
           UNCHANGED <<fixed, now, watermark, runs, failures, failed_attempts, windows,
                       capVars, history, lag>>
    PROVE  LiteInv'
<1> USE DEF fixed, windows, capVars, history
<1>a. /\ FixedOK /\ PassOK /\ StoreOK /\ TasksOK /\ WindowsOK /\ ResultsOK
      /\ InFlight /\ RetryOwners /\ Reported /\ Honest /\ OnTime /\ Swept /\ Clipped
  BY DEF LiteInv, Books
<1>b. batch = {}
  BY <1>a DEF Swept, Recording
<1>1. /\ Merge(EmittedIn(queue)) /\ batch' = CompletedIn(queue) /\ queue' = <<>>
      /\ publish(Cardinality({i \in Identity : entries'[i] # entries[i]}))
      /\ pc' = IF CompletedIn(queue) = {} THEN otherwise ELSE next
      /\ pass' = NoPass
  BY DEF TakeQueued
<1>2. /\ revision' \in Nat /\ revision <= revision' /\ revision \in Nat
      /\ entries' \in [Identity -> [added: 0..revision', updated: 0..revision']]
      /\ \A i \in Identity : entries'[i] # entries[i] => i \in EmittedIn(queue)
  BY <1>1, <1>a, MergeGrows DEF StoreOK
<1>3. 0..revision \subseteq 0..revision'
  BY <1>2
<1>4. PICK n \in Nat : Await(n)
  <2> DEFINE changed == {i \in Identity : entries'[i] # entries[i]}
  <2>1. IsFiniteSet(EmittedIn(queue))
    BY <1>a, EmittedFinite DEF TasksOK
  <2>2. changed \subseteq EmittedIn(queue)
    BY <1>2
  <2>3. IsFiniteSet(changed)
    BY <2>1, <2>2, FS_Subset
  <2>4. Cardinality(changed) \in Nat
    BY <2>3, FS_CardinalityType
  <2> QED BY <2>4, <1>1, PublishAwaits
<1>5. /\ until' \in Nat /\ stall' \in Nat
      /\ deadline # None => /\ now <= deadline + lag + stall'
                            /\ until' <= deadline + lag + stall'
  BY <1>4, <1>a, AwaitFits
<1>6. ASSUME NEW o \in Operator
      PROVE  /\ running'[o] \in TaskType \cup {Idle}
             /\ running'[o] = Idle <=> running[o] = Idle
             /\ running'[o].stage = "run" => running'[o] = running[o]
             /\ running[o].stage # "run" => running'[o] = running[o]
             /\ running[o] # Idle => /\ running'[o].observed = running[o].observed
                                     /\ running'[o].until = running[o].until
                                     /\ running'[o].clipped = running[o].clipped
             /\ running'[o].stage = "done" <=> running[o].stage = "done"
  <2>1. CASE running' = running
    BY <2>1, <1>a DEF TasksOK
  <2>2. CASE running' = Cancelled
    <3>1. running'[o] = Cancelled[o]
      BY <2>2
    <3> QED BY <3>1, <1>a, CancelledTask
  <2> QED BY <2>1, <2>2
<1>7. running' \in [Operator -> TaskType \cup {Idle}]
  <2>1. CASE running' = running
    BY <2>1, <1>a DEF TasksOK
  <2>2. CASE running' = Cancelled
    BY <2>2, <1>6 DEF Cancelled
  <2> QED BY <2>1, <2>2
<1>8. \A s \in batch' : \E k \in 1..Len(queue) : s = queue[k] /\ IsCompletion(queue[k])
  BY <1>1, <1>a DEF CompletedIn, ToSet, TasksOK, IsCompletion
<1>9. \A k \in 1..Len(queue) : IsCompletion(queue[k]) => queue[k] \in batch'
  BY <1>1, <1>a DEF CompletedIn, ToSet, TasksOK, IsCompletion
<1>10. \A k \in 1..Len(queue) : IsCompletion(queue[k]) => queue[k] \in Completion
  BY <1>a DEF TasksOK, Message, Completion, IsCompletion
<1>11. batch' \in SUBSET Completion
  BY <1>8, <1>10
<1>12. TasksOK'
  <2>1. queue' \in Seq(Message)
    BY <1>1
  <2>2. ASSUME NEW o \in Operator, running'[o] # Idle
        PROVE  o \in ops /\ running'[o].observed <= revision'
    <3>1. running[o] # Idle /\ running'[o].observed = running[o].observed
      BY <2>2, <1>6
    <3>2. o \in ops /\ running[o].observed <= revision
      BY <3>1, <1>a DEF TasksOK
    <3>3. running[o].observed \in Nat
      BY <3>1, <1>a DEF TasksOK, TaskType
    <3> QED BY <3>1, <3>2, <3>3, <1>2
  <2> QED BY <1>7, <1>11, <2>1, <2>2 DEF TasksOK
<1>13. InFlight'
  <2>1. ASSUME NEW s \in batch'
        PROVE  /\ running'[s.op].stage = "done"
               /\ \A r \in batch' : r.op = s.op => r = s
    <3>1. PICK k \in 1..Len(queue) : s = queue[k] /\ IsCompletion(queue[k])
      BY <1>8
    <3>2. running[s.op].stage = "done" /\ s.op \in Operator
      BY <3>1, <1>10, <1>a DEF InFlight, Completion
    <3>3. ASSUME NEW r \in batch', r.op = s.op PROVE r = s
      <4>1. PICK j \in 1..Len(queue) : r = queue[j] /\ IsCompletion(queue[j])
        BY <1>8
      <4> QED BY <4>1, <3>1, <3>3, <1>a DEF InFlight
    <3> QED BY <3>2, <3>3, <1>6
  <2>2. ASSUME NEW o \in Operator, running'[o].stage = "done"
        PROVE  \E s \in batch' : s.op = o
    <3>1. PICK k \in 1..Len(queue) : IsCompletion(queue[k]) /\ queue[k].op = o
      BY <2>2, <1>6, <1>a, <1>b DEF InFlight
    <3> QED BY <3>1, <1>9
  <2>3. Len(queue') = 0
    BY <1>1
  <2> QED BY <2>1, <2>2, <2>3 DEF InFlight
<1>14. StoreOK' /\ Honest'
  BY <1>2, <1>3, <1>a DEF StoreOK, Honest
<1>15. WindowsOK'
  BY <1>3, <1>a DEF WindowsOK
<1>16. ResultsOK' /\ FixedOK'
  BY <1>a DEF ResultsOK, FixedOK
<1>17. RetryOwners' /\ Reported'
  BY <1>6, <1>a DEF RetryOwners, Reported, is_tripped
<1>18. pc' \in {"record", "drain", "sweep", "top", "cancel", "report"}
  BY <1>1 DEF Recording
<1>19. PassOK'
  BY <1>1, <1>5, <1>18, <1>a, NoPassType DEF PassOK, PC, Recording
<1>20. Budget' /\ GivenUp' /\ Waiting' /\ Settled' /\ QuiescentUpToDate'
  BY <1>18 DEF Budget, Planning, GivenUp, Waiting, Settled, QuiescentUpToDate
<1>21. OnTime'
  BY <1>1, <1>5, <1>6, <1>a, NoPassType DEF OnTime
<1>22. Swept'
  <2>1. batch' # {} => pc' \in Recording
    BY <1>1
  <2>2. \A o \in Operator : running[o].stage # "cancelled"
    BY <1>a DEF Swept
  <2>3. CASE running' = running /\ next # "sweep" /\ otherwise # "report"
    <3>1. pc' \in {"record", "drain", "top", "cancel"}
      BY <2>3, <1>1 DEF Recording
    <3> QED BY <2>1, <2>2, <2>3, <3>1 DEF Swept
  <2>4. CASE running' = Cancelled /\ next = "sweep" /\ otherwise = "report"
    <3>1. \A o \in Operator : running'[o].stage # "run"
      BY <2>4, <1>a, CancelledTask
    <3>2. pc' \in {"sweep", "report"}
      BY <2>4, <1>1
    <3> QED BY <2>1, <3>1, <3>2, <1>1 DEF Swept
  <2> QED BY <2>3, <2>4
<1>23. Clipped'
  <2>1. Late' <=> Late
    BY DEF Late, past_deadline
  <2>2. \A o \in Operator : running'[o] # Idle /\ running'[o].clipped =>
          deadline # None /\ running'[o].until >= deadline
    BY <1>6, <1>a DEF Clipped
  <2>3. \A s \in batch' : s.cut => Late
    BY <1>8, <1>a DEF Clipped
  <2>4. Len(queue') = 0
    BY <1>1
  <2> QED BY <2>1, <2>2, <2>3, <2>4 DEF Clipped
<1> QED BY <1>12, <1>13, <1>14, <1>15, <1>16, <1>17, <1>19, <1>20, <1>21, <1>22, <1>23
        DEF LiteInv, Books

LEMMA ConsumeStep ==
    ASSUME LiteInv, Consume
    PROVE  LiteInv'
<1>1. leaving \in {"deadline", "raised"} /\ (deadline_hit => Late)
  BY DEF LiteInv, PassOK, Clipped
<1>2. "record" \in Recording
  BY DEF Recording
<1> QED BY <1>1, <1>2, TakeStep DEF Consume, results

LEMMA LeaveStep ==
    ASSUME LiteInv, DrainQueued \/ ActivationRaises
    PROVE  LiteInv'
<1>1. deadline_hit => Late
  BY DEF LiteInv, Clipped
<1>2. deadline_hit' => Late
  BY <1>1 DEF DrainQueued, ActivationRaises, results, Late
<1>3. "drain" \in Recording
  BY DEF Recording
<1> QED BY <1>2, <1>3, TakeStep DEF DrainQueued, ActivationRaises, results

LEMMA CancelStep ==
    ASSUME LiteInv, CancelRunning
    PROVE  LiteInv'
<1>1. leaving \in {"deadline", "raised"} /\ (deadline_hit => Late)
  BY DEF LiteInv, PassOK, Clipped
<1>2. "sweep" \in Recording
  BY DEF Recording
<1>3. running' = Cancelled
  BY DEF CancelRunning, Cancelled
<1> QED BY <1>1, <1>2, <1>3, TakeStep DEF CancelRunning, results

\* One completion of the batch is recorded, and its task gone.
LEMMA RecordStep ==
    ASSUME LiteInv, NEW s \in batch, RecordCompletion(s)
    PROVE  LiteInv'
<1> USE DEF fixed, capVars, catalog
<1>a. /\ FixedOK /\ PassOK /\ StoreOK /\ TasksOK /\ WindowsOK /\ ResultsOK
      /\ InFlight /\ RetryOwners /\ Reported /\ Honest /\ OnTime /\ Swept /\ Clipped
  BY DEF LiteInv, Books
<1>1. PICK o, again, concluded :
        /\ o = s.op
        /\ again = (~s.cut /\ s.error # "none" /\ schedule_retry(o))
        /\ concluded = (~s.cut /\ ~again)
  BY Zenon
<1>2. /\ pc \in DOMAIN recorded
      /\ runs' = [runs EXCEPT ![o] = IF s.cut THEN @ ELSE count_run(o)]
      /\ failures' = [failures EXCEPT ![o] =
                        IF s.cut THEN "cancelled"
                        ELSE IF concluded /\ s.error # "none" THEN "error" ELSE @]
      /\ failed_attempts' = [failed_attempts EXCEPT ![o] =
                               IF again THEN @ + 1 ELSE IF concluded THEN 0 ELSE @]
      /\ retries' = [retries EXCEPT ![o] = IF again THEN now + RetryDelay ELSE @]
      /\ armed_retries' = [armed_retries EXCEPT ![o] =
                             IF again THEN running[o].observed ELSE @]
      /\ watermark' = [watermark EXCEPT ![o] = IF concluded THEN running[o].observed ELSE @]
      /\ covered' = [covered EXCEPT ![o] =
                       IF concluded THEN Advance(o, running[o].observed) ELSE @]
      /\ last' = [last EXCEPT ![o] = IF s.cut THEN "cancelled"
                                     ELSE IF s.error = "none" THEN "ok" ELSE "error"]
      /\ running' = [running EXCEPT ![o] = Idle]
      /\ batch' = batch \ {s}
      /\ pc' = IF batch = {s} THEN recorded[pc] ELSE pc
      /\ publish(1)
      /\ UNCHANGED <<fixed, now, entries, revision, pass, leaving, queue, debounce,
                     prev_caps, capVars, catalog, ownTimeout, lag>>
  BY <1>1, Zenon DEF RecordCompletion, observed_by
<1>3. deadline_hit' => deadline_hit \/ s.cut
  BY DEF RecordCompletion
<1>4. s \in Completion /\ o \in Operator /\ running[o].stage = "done"
  BY <1>1, <1>a DEF TasksOK, Completion, InFlight
<1>5. running[o] \in TaskType /\ running[o] # Idle
  BY <1>4, <1>a, IdleIsNoTask DEF TasksOK
<1>6. /\ o \in ops /\ running[o].observed \in 0..revision
      /\ retries[o] = None /\ armed_retries[o] = None
  <2>1. running[o].observed \in Nat
    BY <1>5 DEF TaskType
  <2>2. revision \in Nat
    BY <1>a DEF StoreOK
  <2>3. o \in ops /\ running[o].observed <= revision
    BY <1>4, <1>5, <1>a DEF TasksOK
  <2>4. retries[o] = None
    BY <1>4, <1>5, <1>a DEF RetryOwners
  <2> QED BY <1>4, <2>1, <2>2, <2>3, <2>4, <1>a DEF WindowsOK
<1>7. \A p \in Operator \ {o} :
         /\ runs'[p] = runs[p] /\ failures'[p] = failures[p] /\ retries'[p] = retries[p]
         /\ armed_retries'[p] = armed_retries[p] /\ watermark'[p] = watermark[p]
         /\ covered'[p] = covered[p] /\ last'[p] = last[p] /\ running'[p] = running[p]
  BY <1>2, <1>a DEF StoreOK, TasksOK, WindowsOK, ResultsOK
<1>8. /\ running'[o] = Idle /\ running' \in [Operator -> TaskType \cup {Idle}]
      /\ Idle.stage = "idle"
  BY <1>2, <1>4, <1>a, IdleIsNoTask DEF TasksOK
<1>9. TasksOK'
  BY <1>2, <1>7, <1>8, <1>a DEF TasksOK
<1>10. InFlight'
  <2>1. ASSUME NEW k \in 1..Len(queue), IsCompletion(queue[k])
        PROVE  running'[queue[k].op].stage = "done"
    <3>1. queue[k].op \in Operator
      BY <1>a DEF TasksOK, Message, Completion
    <3>2. queue[k].op # o
      BY <2>1, <1>1, <1>a DEF InFlight
    <3> QED BY <3>1, <3>2, <2>1, <1>7, <1>a DEF InFlight
  <2>2. ASSUME NEW r \in batch' PROVE running'[r.op].stage = "done"
    <3>1. r \in batch /\ r # s
      BY <1>2
    <3>2. r.op # o
      BY <3>1, <1>1, <1>a DEF InFlight
    <3>3. r.op \in Operator
      BY <3>1, <1>a DEF TasksOK, Completion
    <3> QED BY <3>1, <3>2, <3>3, <1>7, <1>a DEF InFlight
  <2>3. ASSUME NEW p \in Operator, running'[p].stage = "done"
        PROVE  \/ \E k \in 1..Len(queue) : IsCompletion(queue[k]) /\ queue[k].op = p
               \/ \E r \in batch' : r.op = p
    <3>1. p # o
      BY <2>3, <1>8
    <3>2. running[p].stage = "done"
      BY <2>3, <3>1, <1>7
    <3>3. \/ \E k \in 1..Len(queue) : IsCompletion(queue[k]) /\ queue[k].op = p
          \/ \E r \in batch : r.op = p
      BY <3>2, <1>a DEF InFlight
    <3> QED BY <3>1, <3>3, <1>1, <1>2
  <2>4. queue' = queue /\ batch' \subseteq batch
    BY <1>2
  <2> QED BY <2>1, <2>2, <2>3, <2>4, <1>a DEF InFlight
<1>11. again => retries'[o] = now + RetryDelay /\ now + RetryDelay \in Nat
                /\ armed_retries'[o] \in Nat
  <2>1. now + RetryDelay \in Nat
    BY <1>a, Consts DEF PassOK
  <2>2. running[o].observed \in Nat
    BY <1>6
  <2> QED BY <2>1, <2>2, <1>2, <1>4, <1>a DEF WindowsOK
<1>12. ~again => retries'[o] = None /\ armed_retries'[o] = None
  BY <1>2, <1>4, <1>6, <1>a DEF WindowsOK
<1>13. WindowsOK'
  <2>1. now + RetryDelay \in Time /\ None \in Time
    BY <1>a, Consts DEF Time, PassOK
  <2>2. retries' \in [Operator -> Time]
    BY <1>2, <2>1, <1>4, <1>a DEF WindowsOK
  <2>3. armed_retries' \in [Operator -> (0..revision) \cup {None}]
    BY <1>2, <1>4, <1>6, <1>a DEF WindowsOK
  <2>4. (retries'[o] = None) <=> (armed_retries'[o] = None)
    BY <1>11, <1>12, Consts
  <2>5. \A p \in Operator : (retries'[p] = None) <=> (armed_retries'[p] = None)
    BY <2>4, <1>7, <1>a DEF WindowsOK
  <2> QED BY <2>2, <2>3, <2>5, <1>2, <1>a DEF WindowsOK
<1>14. ResultsOK'
  <2>1. count_run(o) \in Nat
    BY <1>4, <1>a DEF count_run, ResultsOK, FixedOK
  <2>2. runs' \in [Operator -> Nat]
    BY <1>2, <2>1, <1>a DEF ResultsOK
  <2>3. failed_attempts' \in [Operator -> Nat]
    BY <1>2, <1>4, <1>a DEF ResultsOK
  <2>4. failures' \in [Operator -> {"none", "error", "cancelled"}]
    BY <1>2, <1>4, <1>a DEF ResultsOK
  <2>5. last' \in [Operator -> {"none", "ok", "error", "cancelled"}]
    BY <1>2, <1>a DEF ResultsOK
  <2> QED BY <2>2, <2>3, <2>4, <2>5 DEF ResultsOK
<1>15. RetryOwners'
  <2>1. ASSUME retries'[o] # None
        PROVE  ~is_tripped(o, runs[o])'
    <3>1. again
      BY <2>1, <1>12
    <3>2. ~s.cut /\ schedule_retry(o)
      BY <3>1, <1>1, Zenon
    <3>3. runs'[o] = count_run(o)
      BY <3>2, <1>2, <1>4, <1>a DEF ResultsOK
    <3> QED BY <3>2, <3>3, <1>2 DEF schedule_retry, is_tripped
  <2> QED BY <2>1, <1>2, <1>6, <1>7, <1>8, <1>a DEF RetryOwners, is_tripped
<1>16. Reported'
  <2>1. ASSUME last'[o] \in {"error", "cancelled"}, retries'[o] = None
        PROVE  failures'[o] # "none"
    <3>1. ~again
      BY <2>1, <1>11, Consts
    <3>2. CASE s.cut
      BY <3>2, <1>2, <1>4, <1>a DEF ResultsOK
    <3>3. CASE ~s.cut
      <4>1. s.error # "none"
        BY <2>1, <3>3, <1>2, <1>4, <1>a DEF ResultsOK
      <4>2. concluded
        BY <3>1, <3>3, <1>1, Zenon
      <4> QED BY <3>3, <4>1, <4>2, <1>2, <1>4, <1>a DEF ResultsOK
    <3> QED BY <3>2, <3>3
  <2> QED BY <2>1, <1>7, <1>a DEF Reported
<1>17. StoreOK' /\ Honest'
  <2>1. /\ Advance(o, running[o].observed) \in Nat
        /\ running[o].observed <= Advance(o, running[o].observed)
    BY <1>4, <1>6, <1>a DEF Advance, StoreOK, Honest
  <2>2. covered' \in [Operator -> Nat]
    BY <1>2, <2>1, <1>a DEF StoreOK
  <2>3. watermark' \in [Operator -> (0..revision) \cup {None}]
    BY <1>2, <1>6, <1>a DEF StoreOK
  <2>4. watermark'[o] # None => watermark'[o] <= covered'[o]
    BY <1>2, <2>1, <1>4, <1>a DEF StoreOK, Honest
  <2>5. Honest'
    BY <2>4, <1>7, <1>a DEF Honest
  <2> QED BY <2>2, <2>3, <2>5, <1>2, <1>a DEF StoreOK
<1>18. /\ until' \in Nat /\ stall' \in Nat
       /\ deadline # None => /\ now <= deadline + lag + stall'
                             /\ until' <= deadline + lag + stall'
  <2>1. PICK n \in Nat : Await(n)
    BY <1>2, PublishAwaits
  <2> QED BY <2>1, <1>2, <1>a, AwaitFits
<1>19. /\ pc \in {"record", "drain", "sweep"}
       /\ pc' \in {"record", "drain", "sweep", "top", "cancel", "report"}
       /\ batch # {s} => pc' = pc
       /\ pc' \in {"sweep", "report"} <=> pc = "sweep"
  BY <1>2 DEF recorded
<1>20. FixedOK' /\ PassOK'
  BY <1>2, <1>18, <1>19, <1>a DEF FixedOK, PassOK, PC, Recording
<1>21. Budget' /\ GivenUp' /\ Waiting' /\ Settled' /\ QuiescentUpToDate'
  BY <1>19 DEF Budget, Planning, GivenUp, Waiting, Settled, QuiescentUpToDate
<1>22. OnTime'
  BY <1>2, <1>7, <1>8, <1>18, <1>a DEF OnTime
<1>23. Swept'
  <2>1. batch' # {} => pc' \in Recording
    BY <1>2, <1>19 DEF Recording
  <2>2. pc' \in {"sweep", "report"} =>
          queue = <<>> /\ \A p \in Operator : running'[p].stage # "run"
    BY <1>7, <1>8, <1>19, <1>a DEF Swept
  <2>3. \A p \in Operator : running'[p].stage = "cancelled" => pc' \in {"sweep", "report"}
    BY <1>7, <1>8, <1>19, <1>a DEF Swept
  <2> QED BY <2>1, <2>2, <2>3, <1>2, <1>19 DEF Swept
<1>24. Clipped'
  <2>1. Late' <=> Late
    BY <1>2 DEF Late, past_deadline
  <2>2. deadline_hit' => Late
    BY <1>3, <1>a DEF Clipped
  <2>3. \A p \in Operator : running'[p] # Idle /\ running'[p].clipped =>
          deadline # None /\ running'[p].until >= deadline
    BY <1>7, <1>8, <1>a DEF Clipped
  <2> QED BY <2>1, <2>2, <2>3, <1>2, <1>a DEF Clipped
<1> QED BY <1>9, <1>10, <1>13, <1>14, <1>15, <1>16, <1>17, <1>20, <1>21, <1>22, <1>23,
           <1>24 DEF LiteInv, Books

\* The operators that did not complete are reported, and their tasks gone.
LEMMA ReportStep ==
    ASSUME LiteInv, Report
    PROVE  LiteInv'
<1> USE DEF fixed, stateVars, windows, capVars, catalog
<1> DEFINE cancelled == {o \in ops : running[o] # Idle}
<1>a. /\ FixedOK /\ PassOK /\ StoreOK /\ TasksOK /\ WindowsOK /\ ResultsOK
      /\ InFlight /\ RetryOwners /\ Reported /\ Honest /\ OnTime /\ Swept /\ Clipped
  BY DEF LiteInv, Books
<1>1. /\ pc = "report" /\ pc' = "closing"
      /\ failures' = [o \in Operator |-> IF o \in cancelled THEN "cancelled" ELSE failures[o]]
      /\ last' = [o \in Operator |-> IF o \in cancelled THEN "cancelled" ELSE last[o]]
      /\ running' = all(Idle)
      /\ publish(Cardinality(cancelled))
      /\ UNCHANGED <<fixed, now, stateVars, pass, leaving, queue, batch, runs,
                     failed_attempts, deadline_hit, windows, prev_caps, capVars,
                     catalog, covered, ownTimeout, lag>>
  BY DEF Report
<1>2. batch = {} /\ queue = <<>>
  BY <1>1, <1>a DEF Swept, Recording
<1>3. \A o \in Operator : running'[o] = Idle /\ running'[o].stage = "idle"
  BY <1>1, IdleIsNoTask DEF all
<1>4. /\ until' \in Nat /\ stall' \in Nat
      /\ deadline # None => /\ now <= deadline + lag + stall'
                            /\ until' <= deadline + lag + stall'
  <2>1. IsFiniteSet(cancelled)
    BY <1>a, FS_Subset DEF FixedOK
  <2>2. Cardinality(cancelled) \in Nat
    BY <2>1, FS_CardinalityType
  <2>3. PICK n \in Nat : Await(n)
    BY <2>2, <1>1, PublishAwaits
  <2> QED BY <2>3, <1>1, <1>a, AwaitFits
<1>5. TasksOK' /\ InFlight'
  BY <1>1, <1>2, <1>3 DEF TasksOK, InFlight, all
<1>6. StoreOK' /\ WindowsOK' /\ Honest' /\ FixedOK'
  BY <1>1, <1>a DEF StoreOK, WindowsOK, Honest, FixedOK
<1>7. ResultsOK'
  BY <1>1, <1>a DEF ResultsOK
<1>8. RetryOwners'
  BY <1>1, <1>3, <1>a DEF RetryOwners, is_tripped
<1>9. Reported'
  <2>1. \A o \in Operator : o \notin cancelled => running[o] = Idle
    BY <1>a DEF TasksOK
  <2> QED BY <2>1, <1>1, <1>a DEF Reported
<1>10. PassOK'
  BY <1>1, <1>4, <1>a DEF PassOK, PC
<1>11. Budget' /\ GivenUp' /\ Waiting' /\ Settled' /\ QuiescentUpToDate'
  BY <1>1 DEF Budget, Planning, GivenUp, Waiting, Settled, QuiescentUpToDate
<1>12. OnTime'
  BY <1>1, <1>3, <1>4, <1>a DEF OnTime
<1>13. Swept'
  BY <1>1, <1>2, <1>3 DEF Swept
<1>14. Clipped'
  BY <1>1, <1>2, <1>3, <1>a DEF Clipped, Late, past_deadline
<1> QED BY <1>5, <1>6, <1>7, <1>8, <1>9, <1>10, <1>11, <1>12, <1>13, <1>14
        DEF LiteInv, Books
-----------------------------------------------------------------------------
(* Planning.                                                               *)

\* The retries that cannot be made are dropped, and with that reported.
LEMMA GiveUpStep ==
    ASSUME LiteInv, GiveUp
    PROVE  LiteInv'
<1> USE DEF fixed, tasks, capVars, catalog
<1> DEFINE dropped == RetryOwned \ Ready
<1>a. /\ FixedOK /\ PassOK /\ StoreOK /\ TasksOK /\ WindowsOK /\ ResultsOK
      /\ InFlight /\ RetryOwners /\ Reported /\ Honest /\ Budget /\ OnTime /\ Swept
      /\ Clipped /\ None \notin Nat
  BY Consts DEF LiteInv, Books
<1>b. {o \in dropped : stranded(o)} = dropped
  BY DEF stranded
<1>1. /\ pc = "announce" /\ pc' = "plan"
      /\ retries' = [o \in Operator |-> IF o \in dropped THEN None ELSE retries[o]]
      /\ armed_retries' = [o \in Operator |->
                             IF o \in dropped THEN None ELSE armed_retries[o]]
      /\ failures' = [o \in Operator |-> IF o \in dropped THEN "error" ELSE failures[o]]
      /\ failed_attempts' = [o \in Operator |->
                               IF o \in dropped THEN 0 ELSE failed_attempts[o]]
      /\ watermark' = [o \in Operator |->
                         IF o \in dropped THEN armed_retries[o] ELSE watermark[o]]
      /\ covered' = [o \in Operator |->
                       IF o \in dropped THEN Advance(o, armed_retries[o]) ELSE covered[o]]
      /\ publish(Cardinality(dropped))
      /\ pass' = [pass EXCEPT !.planned = now]
      /\ UNCHANGED <<fixed, now, entries, revision, leaving, tasks, runs, deadline_hit,
                     debounce, prev_caps, capVars, catalog, last, ownTimeout, lag>>
  BY <1>b DEF GiveUp
<1>2. dropped \subseteq ops /\ dropped \subseteq Operator /\ dropped \subseteq RetryOwned
  BY <1>a DEF RetryOwned, Considered, FixedOK
<1>3. ASSUME NEW o \in dropped
      PROVE  o \in Operator /\ armed_retries[o] \in 0..revision
  BY <1>2, <1>a DEF RetryOwned, WindowsOK
<1>4. PICK n \in Nat : Await(n)
  <2>1. IsFiniteSet(dropped)
    BY <1>2, <1>a, FS_Subset DEF FixedOK
  <2>2. Cardinality(dropped) \in Nat
    BY <2>1, FS_CardinalityType
  <2> QED BY <2>2, <1>1, PublishAwaits
<1> HIDE DEF dropped
<1>5. /\ until' \in Nat /\ stall' \in Nat /\ stall' = stall + n /\ until' = now + n
      /\ deadline # None => /\ now <= deadline + lag + stall'
                            /\ until' <= deadline + lag + stall'
  BY <1>1, <1>4, <1>a, AwaitFits
<1>6. /\ pass' \in PassType /\ pass'.remaining = pass.remaining
      /\ pass'.able = pass.able /\ pass'.wake = pass.wake
  BY <1>1, <1>a DEF PassOK, PassType
<1>7. FixedOK' /\ PassOK'
  BY <1>1, <1>5, <1>6, <1>a DEF FixedOK, PassOK, PC, Planning
<1>8. StoreOK' /\ Honest'
  <2>1. ASSUME NEW o \in dropped
        PROVE  /\ Advance(o, armed_retries[o]) \in Nat
               /\ armed_retries[o] <= Advance(o, armed_retries[o])
    <3>1. o \in Operator /\ armed_retries[o] \in Nat
      BY <1>3, <1>a DEF StoreOK
    <3> QED BY <3>1, <1>a DEF Advance, StoreOK, Honest
  <2>2. covered' \in [Operator -> Nat]
    BY <2>1, <1>1, <1>a DEF StoreOK
  <2>3. watermark' \in [Operator -> (0..revision) \cup {None}]
    BY <1>3, <1>1, <1>a DEF StoreOK
  <2>4. Honest'
    BY <2>1, <1>1, <1>a DEF Honest
  <2> QED BY <2>2, <2>3, <2>4, <1>1, <1>a DEF StoreOK
<1>9. TasksOK' /\ InFlight'
  BY <1>1, <1>a DEF TasksOK, InFlight
<1>10. WindowsOK'
  BY <1>1, <1>a DEF WindowsOK, Time
<1>11. ResultsOK' /\ RetryOwners' /\ Reported'
  <2>1. ResultsOK'
    BY <1>1, <1>a DEF ResultsOK
  <2>2. RetryOwners'
    BY <1>1, <1>a DEF RetryOwners, is_tripped
  <2>3. Reported'
    BY <1>1, <1>a DEF Reported
  <2> QED BY <2>1, <2>2, <2>3
<1>12. GivenUp'
  <2>1. Available' = Available /\ present_types(entries)' = present_types(entries)
    BY <1>1, <1>6 DEF Available, present_types
  <2>2. Considered' = Considered
    BY <1>1 DEF Considered, is_tripped
  <2>3. Ready' = Ready
    BY <2>1, <2>2, <1>1 DEF Ready
  <2>4. RetryOwned' \subseteq RetryOwned \ dropped
    <3>1. \A o \in Considered : o \in Operator
      BY <1>a DEF Considered, FixedOK
    <3>2. \A o \in Considered : retries'[o] # None => o \notin dropped /\ retries[o] # None
      BY <3>1, <1>1
    <3> QED BY <3>2, <2>2 DEF RetryOwned
  <2> QED BY <2>3, <2>4 DEF GivenUp, dropped
<1>13. Budget'
  <2>1. ASSUME deadline # None
        PROVE  /\ pass'.remaining # None
               /\ now + pass'.remaining >= deadline
               /\ now + pass'.remaining <= deadline + stall'
               /\ until' + pass'.remaining <= deadline + stall'
    <3>1. /\ pass.remaining # None
          /\ now + pass.remaining >= deadline
          /\ now + pass.remaining <= deadline + stall
      BY <2>1, <1>1, <1>a DEF Budget, Planning
    <3>2. pass.remaining \in Nat /\ deadline \in Nat /\ now \in Nat /\ stall \in Nat
      BY <3>1, <2>1, <1>a DEF PassOK, PassType, FixedOK, Time
    <3> QED BY <3>1, <3>2, <1>5, <1>6
  <2> QED BY <2>1, <1>1, <1>6, <1>a, AvailableKept DEF Budget, Planning
<1>14. OnTime'
  BY <1>1, <1>5, <1>6, <1>a DEF OnTime
<1>15. Waiting' /\ Swept' /\ Settled' /\ QuiescentUpToDate'
  BY <1>1, <1>a DEF Waiting, Swept, Recording, Settled, QuiescentUpToDate
<1>16. Clipped'
  BY <1>1, <1>a DEF Clipped, Late, past_deadline
<1> QED BY <1>7, <1>8, <1>9, <1>10, <1>11, <1>12, <1>13, <1>14, <1>15, <1>16
        DEF LiteInv, Books

Launched(at) == Retried(at) \cup First \cup Rerun(at)

LEMMA LaunchedIdle ==
    ASSUME NEW at
    PROVE  /\ Launched(at) \subseteq Ready /\ Ready \subseteq Considered
           /\ First \cap RetryOwned = {} /\ Rerun(at) \cap RetryOwned = {}
           /\ \A o \in Considered : o \in ops /\ running[o] = Idle
BY DEF Launched, Retried, First, Rerun, rerun_eligible, Ready, Considered

\* The run a pass launches ends by the deadline or as much later as the pass
\* may have spent, and a clipped one not before the deadline.
LEMMA TaskFits ==
    ASSUME LiteInv, pc = "plan", NEW o \in Operator
    PROVE  /\ task(o) \in TaskType /\ task(o) # Idle
           /\ task(o).stage = "run" /\ task(o).observed = revision
           /\ now <= task(o).until
           /\ deadline # None => task(o).until <= deadline + stall
           /\ task(o).clipped => deadline # None /\ task(o).until >= deadline
<1>a. /\ now \in Nat /\ stall \in Nat /\ deadline \in Time /\ pass.remaining \in Time
      /\ revision \in Nat /\ None \notin Nat /\ flow.timeout[o] \in Nat /\ Budget
  BY Consts DEF LiteInv, PassOK, PassType, FixedOK, FlowType, Books, StoreOK
<1>b. deadline # None =>
        /\ pass.remaining \in Nat /\ deadline \in Nat
        /\ now + pass.remaining >= deadline
        /\ now + pass.remaining <= deadline + stall
  BY <1>a DEF Budget, Planning, Time
<1>c. pass.remaining # None => deadline # None
  BY <1>a DEF Budget, Planning
<1>1. PICK clipped \in BOOLEAN :
        clipped = (pass.remaining # None /\ pass.remaining < flow.timeout[o])
  OBVIOUS
<1>2. PICK end : end = now + (IF clipped THEN pass.remaining ELSE flow.timeout[o])
  OBVIOUS
<1>3. task(o) = [stage |-> "run", emitted |-> 0, observed |-> revision,
                 until |-> end, clipped |-> clipped]
  BY <1>1, <1>2, Zenon DEF task
<1>4. clipped => pass.remaining # None /\ pass.remaining < flow.timeout[o]
  BY <1>1
<1>5. ~clipped /\ pass.remaining # None => flow.timeout[o] <= pass.remaining
  <2>1. ~clipped /\ pass.remaining # None => ~(pass.remaining < flow.timeout[o])
    BY <1>1, Zenon
  <2>2. pass.remaining # None => pass.remaining \in Nat
    BY <1>a DEF Time
  <2> QED BY <2>1, <2>2, <1>a
<1>6. end \in Nat /\ now <= end
  BY <1>2, <1>4, <1>a DEF Time
<1>7. /\ task(o).stage = "run" /\ task(o).observed = revision /\ task(o).until = end
      /\ task(o).clipped = clipped
  BY <1>3
<1>8. task(o) \in TaskType
  BY <1>3, <1>6, <1>a, Consts DEF TaskType
<1>9. deadline # None => end <= deadline + stall
  <2>1. SUFFICES ASSUME deadline # None PROVE end <= deadline + stall
    OBVIOUS
  <2>2. end <= now + pass.remaining
    <3>1. pass.remaining # None
      BY <2>1, <1>a, <1>b
    <3> QED BY <2>1, <3>1, <1>2, <1>5, <1>a, <1>b
  <2> QED BY <2>1, <2>2, <1>6, <1>a, <1>b
<1>10. clipped => deadline # None /\ end >= deadline
  BY <1>2, <1>4, <1>b, <1>c
<1> QED BY <1>6, <1>7, <1>8, <1>9, <1>10, IdleIsNoTask

\* The windows that hold the loop open are times, and it wakes for the
\* soonest, never past the deadline.
LEMMA WakeFits ==
    ASSUME LiteInv, NEW at \in [ops -> pass.planned..now]
    PROVE  /\ Armed(at) \in [Operator -> Time]
           /\ Tracked(at) \subseteq Nat
           /\ next_wake(at) \in Time
           /\ Tracked(at) # {} => next_wake(at) # None
           /\ deadline # None /\ next_wake(at) # None => next_wake(at) <= deadline
<1>a. /\ now \in Nat /\ deadline \in Time /\ None \notin Nat /\ WindowsOK /\ FixedOK
      /\ pass.planned \in Nat
  BY Consts DEF LiteInv, PassOK, PassType, FixedOK, Books
<1>b. \A o \in ops : at[o] \in Nat
  BY <1>a
<1>c. rerun_eligible \subseteq ops /\ RetryOwned \subseteq ops /\ ops \subseteq Operator
  BY <1>a DEF rerun_eligible, Ready, RetryOwned, Considered, FixedOK
<1>1. Armed(at) \in [Operator -> Time]
  <2>1. ASSUME NEW o \in rerun_eligible PROVE at[o] + flow.debounce[o] \in Time
    BY <1>a, <1>b, <1>c DEF FixedOK, FlowType, Time
  <2> QED BY <2>1, <1>a DEF Armed, WindowsOK
<1>2. Tracked(at) \subseteq Nat
  <2>1. ASSUME NEW o \in RetryOwned PROVE retries[o] \in Nat
    BY <1>a, <1>c DEF RetryOwned, WindowsOK, Time
  <2>2. ASSUME NEW o \in rerun_eligible PROVE Armed(at)[o] \in Nat
    <3>1. o \in Operator /\ at[o] + flow.debounce[o] \in Nat
      BY <1>a, <1>b, <1>c DEF FixedOK, FlowType
    <3> QED BY <3>1, <1>a DEF Armed, WindowsOK, Time
  <2> QED BY <2>1, <2>2 DEF Tracked
<1>3. CASE Tracked(at) = {}
  BY <1>1, <1>2, <1>3 DEF next_wake, Time
<1>4. CASE Tracked(at) # {}
  <2>1. PICK soonest : soonest = CHOOSE t \in Tracked(at) : \A u \in Tracked(at) : t <= u
    OBVIOUS
  <2>2. soonest \in Tracked(at)
    <3>1. \E t \in Tracked(at) : \A u \in Tracked(at) : t <= u
      BY <1>2, <1>4, LeastNatural
    <3> QED BY <2>1, <3>1
  <2>3. soonest \in Nat
    BY <1>2, <2>2
  <2>4. next_wake(at) = IF deadline # None /\ deadline < soonest THEN deadline ELSE soonest
    BY <1>4, <2>1 DEF next_wake, Earlier
  <2> QED BY <1>1, <1>2, <1>a, <2>3, <2>4 DEF Time
<1> QED BY <1>3, <1>4

\* A pass that launches nothing and holds nothing open leaves every ready
\* operator up to date and no retry behind.
LEMMA NothingLeft ==
    ASSUME LiteInv, NEW at, Launched(at) = {}, Tracked(at) = {}
    PROVE  /\ \A o \in Ready :
                /\ watermark[o] # None
                /\ o \in flow.rerun => Relevant(o, covered[o]) = {}
           /\ RetryOwned \cap Ready = {}
<1>a. /\ FixedOK /\ StoreOK /\ WindowsOK /\ Honest /\ None \notin Int
  BY Consts DEF LiteInv, PassOK, Books
<1>b. Ready \subseteq Operator
  BY <1>a DEF Ready, Considered, FixedOK
<1>1. RetryOwned \cap Ready = {}
  <2>1. Retried(at) = {}
    BY DEF Launched
  <2> QED BY <2>1 DEF Tracked
<1>2. ASSUME NEW o \in Ready PROVE watermark[o] # None
  BY <1>1 DEF Launched, First
<1>3. ASSUME NEW o \in Ready, o \in flow.rerun PROVE ~has_relevant_new_data(o)
  <2>1. SUFFICES ASSUME has_relevant_new_data(o) PROVE FALSE
    OBVIOUS
  <2>2. o \in rerun_eligible
    BY <1>1, <1>2, <1>3, <2>1 DEF rerun_eligible
  <2>3. o \notin Rerun(at)
    BY DEF Launched
  <2> QED BY <2>2, <2>3 DEF Tracked
<1>4. ASSUME NEW o \in Ready, o \in flow.rerun PROVE Relevant(o, covered[o]) = {}
  <2>1. watermark[o] \in Nat /\ covered[o] \in Nat /\ watermark[o] <= covered[o]
    BY <1>2, <1>a, <1>b DEF StoreOK, Honest
  <2>2. Relevant(o, watermark[o]) = {}
    BY <1>3, <1>4 DEF has_relevant_new_data
  <2>3. \A i \in Identity : entries[i].added \in Nat /\ entries[i].updated \in Nat
    BY <1>a DEF StoreOK
  <2> QED BY <2>1, <2>2, <2>3 DEF Relevant
<1> QED BY <1>1, <1>2, <1>4

LEMMA PlanStep ==
    ASSUME LiteInv, Plan
    PROVE  LiteInv'
<1> USE DEF fixed, stateVars, results, capVars, catalog, history
<1>a. /\ FixedOK /\ PassOK /\ StoreOK /\ TasksOK /\ WindowsOK /\ ResultsOK
      /\ InFlight /\ RetryOwners /\ Reported /\ Honest /\ OnTime /\ Swept /\ Clipped
      /\ Budget /\ GivenUp
  BY DEF LiteInv, Books
<1>b. PICK at \in [ops -> pass.planned..now] :
      /\ running' = [o \in Operator |-> IF o \in Launched(at) THEN task(o) ELSE running[o]]
      /\ retries' = [o \in Operator |-> IF o \in Retried(at) THEN None ELSE retries[o]]
      /\ armed_retries' = [o \in Operator |->
                             IF o \in Retried(at) THEN None ELSE armed_retries[o]]
      /\ debounce' = [o \in Operator |->
                        IF o \in First \cup Rerun(at) THEN None ELSE Armed(at)[o]]
      /\ lag' = IF Launched(at) # {} /\ stall > lag THEN stall ELSE lag
      /\ pass' = [NoPass EXCEPT !.wake = next_wake(at)]
      /\ pc' = IF \E o \in Operator : running'[o] # Idle THEN "wait"
               ELSE IF Tracked(at) # {} THEN "sleep" ELSE "quiescent"
  BY Zenon DEF Plan, Launched
<1>c. /\ pc = "plan" /\ until' = 0
      /\ UNCHANGED <<fixed, now, stateVars, leaving, stall, queue, batch, results,
                     capVars, catalog, history>>
  BY DEF Plan
<1>d. /\ Launched(at) \subseteq Ready /\ Ready \subseteq Considered
      /\ Considered \subseteq Operator
      /\ Retried(at) \subseteq Launched(at)
      /\ First \cap RetryOwned = {} /\ Rerun(at) \cap RetryOwned = {}
      /\ \A o \in Considered : o \in ops /\ running[o] = Idle
      /\ Launched(at) = Retried(at) \cup First \cup Rerun(at)
  BY LaunchedIdle, <1>a DEF Considered, FixedOK, Launched
<1>1. PICK t : t = [o \in Operator |-> task(o)]
  OBVIOUS
<1>2. ASSUME NEW o \in Operator
      PROVE  /\ t[o] = task(o)
             /\ t[o] \in TaskType /\ t[o] # Idle /\ t[o].stage = "run"
             /\ t[o].observed = revision /\ now <= t[o].until
             /\ deadline # None => t[o].until <= deadline + stall
             /\ t[o].clipped => deadline # None /\ t[o].until >= deadline
  <2>1. t[o] = task(o)
    BY <1>1
  <2> QED BY <2>1, <1>c, TaskFits
<1>3. /\ \A o \in Operator : running'[o] = IF o \in Launched(at) THEN t[o] ELSE running[o]
      /\ running' \in [Operator -> TaskType \cup {Idle}]
  <2>1. running' = [o \in Operator |-> IF o \in Launched(at) THEN t[o] ELSE running[o]]
    BY <1>1, <1>b
  <2> QED BY <2>1, <1>2, <1>a DEF TasksOK
<1>4. TasksOK'
  <2>1. \A o \in Operator : running'[o] # Idle => o \in ops /\ running'[o].observed <= revision
    <3>1. SUFFICES ASSUME NEW o \in Operator, running'[o] # Idle
                   PROVE  o \in ops /\ running'[o].observed <= revision
      OBVIOUS
    <3>2. CASE o \in Launched(at)
      <4>1. running'[o] = t[o] /\ t[o].observed = revision /\ o \in ops
        BY <3>2, <1>2, <1>3, <1>d
      <4> QED BY <4>1, <1>a DEF StoreOK
    <3>3. CASE o \notin Launched(at)
      BY <3>1, <3>3, <1>3, <1>a DEF TasksOK
    <3> QED BY <3>2, <3>3
  <2> QED BY <1>3, <2>1, <1>c, <1>a DEF TasksOK
<1>5. InFlight'
  <2>1. \A o \in Operator : running'[o].stage = "done" <=> running[o].stage = "done"
    BY <1>2, <1>3, <1>d, IdleIsNoTask
  <2>2. \A k \in 1..Len(queue) : queue[k].op \in Operator
    BY <1>a DEF TasksOK, Message, Completion
  <2>3. \A s \in batch : s.op \in Operator
    BY <1>a DEF TasksOK, Completion
  <2> QED BY <2>1, <2>2, <2>3, <1>c, <1>a DEF InFlight
<1>6. WindowsOK'
  <2>1. None \in Time /\ Armed(at) \in [Operator -> Time]
    BY WakeFits DEF Time
  <2>2. retries' \in [Operator -> Time] /\ debounce' \in [Operator -> Time]
    BY <2>1, <1>b, <1>a DEF WindowsOK
  <2>3. armed_retries' \in [Operator -> (0..revision') \cup {None}]
    BY <1>b, <1>c, <1>a DEF WindowsOK
  <2> QED BY <2>2, <2>3, <1>b, <1>a DEF WindowsOK
<1>7. StoreOK' /\ Honest' /\ ResultsOK' /\ FixedOK'
  BY <1>c, <1>a DEF StoreOK, Honest, ResultsOK, FixedOK
<1>8. RetryOwners'
  <2>1. SUFFICES ASSUME NEW o \in Operator, retries'[o] # None
                 PROVE  o \in ops /\ running'[o] = Idle /\ ~is_tripped(o, runs[o])
    BY <1>c DEF RetryOwners, is_tripped
  <2>2. retries[o] # None /\ o \notin Retried(at)
    BY <2>1, <1>b
  <2>3. o \in ops /\ running[o] = Idle /\ ~is_tripped(o, runs[o])
    BY <2>2, <1>a DEF RetryOwners
  <2>4. o \in RetryOwned
    BY <2>2, <2>3 DEF RetryOwned, Considered
  <2> QED BY <2>2, <2>3, <2>4, <1>3, <1>d
<1>9. Reported'
  <2>1. SUFFICES ASSUME NEW o \in Operator, last[o] \in {"error", "cancelled"},
                        retries'[o] = None, running'[o] = Idle
                 PROVE  failures[o] # "none"
    BY <1>c DEF Reported
  <2>2. o \notin Launched(at)
    BY <2>1, <1>2, <1>3
  <2>3. retries[o] = None /\ running[o] = Idle
    BY <2>1, <2>2, <1>3, <1>b, <1>d
  <2> QED BY <2>1, <2>3, <1>a DEF Reported
<1>10. Books'
  BY <1>4, <1>5, <1>6, <1>7, <1>8, <1>9 DEF Books
<1>11. /\ pass' \in PassType /\ pass'.wake = next_wake(at)
  <2>1. next_wake(at) \in Time
    BY WakeFits
  <2> QED BY <2>1, <1>b, NoPassType DEF PassType
<1>12. /\ lag' \in Nat /\ lag <= lag' /\ (Launched(at) # {} => stall <= lag')
       /\ lag \in Nat /\ stall \in Nat /\ now \in Nat
       /\ deadline # None => deadline \in Nat
  BY <1>b, <1>a DEF PassOK, FixedOK, Time
<1>13. pc' \in {"wait", "sleep", "quiescent"}
  BY <1>b
<1>14. PassOK' /\ Budget' /\ GivenUp'
  BY <1>11, <1>12, <1>13, <1>c, <1>a DEF PassOK, PC, Budget, Planning, GivenUp
<1>15. OnTime'
  <2>1. SUFFICES ASSUME deadline # None
                 PROVE  /\ now <= deadline + lag' + stall
                        /\ 0 <= deadline + lag' + stall
                        /\ \A o \in Operator : running'[o].stage = "run" =>
                              now <= running'[o].until /\ running'[o].until <= deadline + lag'
                        /\ pass'.wake # None => pass'.wake <= deadline
    BY <1>c DEF OnTime
  <2>2. now <= deadline + lag + stall
    BY <2>1, <1>a DEF OnTime
  <2>3. ASSUME NEW o \in Operator, running'[o].stage = "run"
        PROVE  now <= running'[o].until /\ running'[o].until <= deadline + lag'
    <3>1. CASE o \in Launched(at)
      <4>1. running'[o] = t[o] /\ stall <= lag'
        BY <3>1, <1>3, <1>12
      <4>2. t[o].until \in Nat
        BY <1>2 DEF TaskType
      <4> QED BY <4>1, <4>2, <2>1, <1>2, <1>12
    <3>2. CASE o \notin Launched(at)
      <4>1. running'[o] = running[o]
        BY <3>2, <1>3
      <4>2. now <= running[o].until /\ running[o].until <= deadline + lag
        BY <4>1, <2>1, <2>3, <1>a DEF OnTime
      <4>3. running[o].until \in Nat
        BY <4>1, <2>3, <1>a, IdleIsNoTask DEF TasksOK, TaskType
      <4> QED BY <4>1, <4>2, <4>3, <2>1, <1>12
    <3> QED BY <3>1, <3>2
  <2>4. pass'.wake # None => pass'.wake <= deadline
    BY <2>1, <1>11, WakeFits
  <2> QED BY <2>1, <2>2, <2>3, <2>4, <1>12
<1>16. Waiting'
  BY <1>11, <1>b, WakeFits DEF Waiting
<1>17. Swept'
  <2>1. batch = {} /\ \A o \in Operator : running[o].stage # "cancelled"
    BY <1>c, <1>a DEF Swept, Recording
  <2>2. \A o \in Operator : running'[o].stage # "cancelled"
    BY <2>1, <1>2, <1>3
  <2>3. pc' = "quiescent" => \A o \in Operator : running'[o] = Idle
    BY <1>b
  <2> QED BY <2>1, <2>2, <2>3, <1>13, <1>c DEF Swept
<1>18. Clipped'
  <2>1. Late' <=> Late
    BY <1>c DEF Late, past_deadline
  <2>2. \A o \in Operator : running'[o] # Idle /\ running'[o].clipped =>
          deadline # None /\ running'[o].until >= deadline
    BY <1>2, <1>3, <1>a DEF Clipped
  <2> QED BY <2>1, <2>2, <1>c, <1>a DEF Clipped
<1>19. ASSUME pc' = "quiescent"
       PROVE  Launched(at) = {} /\ Tracked(at) = {} /\ \A o \in Operator : running[o] = Idle
  <2>1. \A o \in Operator : running'[o] = Idle
    BY <1>19, <1>b
  <2>2. Launched(at) = {}
    BY <2>1, <1>2, <1>3, <1>d
  <2> QED BY <2>1, <2>2, <1>19, <1>3, <1>b
<1>20. Settled'
  <2>1. SUFFICES ASSUME pc' = "quiescent", NEW o \in Operator, retries[o] # None
                 PROVE  FALSE
    BY <1>b DEF Settled
  <2>2. o \in RetryOwned
    BY <2>1, <1>a DEF RetryOwners, RetryOwned, Considered
  <2>3. o \in Ready
    BY <2>2, <1>c, <1>a DEF GivenUp
  <2> QED BY <2>1, <2>2, <2>3, <1>19, NothingLeft
<1>21. QuiescentUpToDate'
  <2>1. SUFFICES ASSUME pc' = "quiescent" PROVE QuiescentUpToDate'
    BY DEF QuiescentUpToDate
  <2>2. present_types(entries)' = present_types(entries)
    BY <1>c DEF present_types
  <2>3. compute_available(flow, permitted, present_types(entries))' = pass.able
    BY <2>2, <1>c, <1>a DEF Budget, Planning
  <2>4. \A o \in ops :
          /\ running[o] = Idle /\ ~is_tripped(o, runs[o])
          /\ is_ready(flow, o, present_types(entries), pass.able \cap activated)
          => o \in Ready
    BY DEF Ready, Considered, Available
  <2>5. ASSUME NEW o \in Ready
        PROVE  /\ watermark'[o] # None
               /\ o \in flow.rerun => Relevant(o, covered[o])' = {}
    <3>1. Relevant(o, covered[o])' = Relevant(o, covered[o])
      BY <1>c DEF Relevant
    <3> QED BY <3>1, <2>1, <1>19, <1>c, NothingLeft
  <2>6. ASSUME NEW o \in ops, running'[o] = Idle, ~is_tripped(o, runs[o])',
               is_ready(flow, o, present_types(entries),
                        compute_available(flow, permitted, present_types(entries))
                          \cap activated)'
        PROVE  o \in Ready
    <3>1. running[o] = Idle /\ ~is_tripped(o, runs[o])
      BY <2>1, <2>6, <1>19, <1>c, <1>a DEF is_tripped, FixedOK
    <3>2. is_ready(flow, o, present_types(entries), pass.able \cap activated)
      BY <2>2, <2>3, <2>6, <1>c
    <3> QED BY <3>1, <3>2, <2>4
  <2> QED BY <2>5, <2>6, <1>c DEF QuiescentUpToDate
<1> QED BY <1>7, <1>10, <1>14, <1>15, <1>16, <1>17, <1>18, <1>20, <1>21 DEF LiteInv
-----------------------------------------------------------------------------
(* The invariant holds.                                                    *)

\* Pruning drops operators and nothing else (prune_to_consumed_closure).
LEMMA PruningKeepsFlow ==
    ASSUME NEW s \in Sessions
    PROVE  /\ prune_to_consumed_closure(s.flow) \in FlowType
           /\ IsFiniteSet(prune_to_consumed_closure(s.flow).operators)
<1>a. PICK f : f = s.flow
  OBVIOUS
<1>b. f \in FlowType /\ IsFiniteSet(f.operators)
  BY <1>a, Consts
<1> DEFINE kept == prune_to_consumed_closure(f)
<1>1. PICK os \in SUBSET f.operators : kept = f \/ kept = [f EXCEPT !.operators = os]
  <2> DEFINE sinks == {o \in f.operators : f.consumes[o] # {}}
             types == UNION {f.consumes[o] \cup f.depends_on[o] : o \in sinks}
             os == sinks \cup backward_reachable(f, types)
  <2>1. kept = f \/ kept = [f EXCEPT !.operators = os]
    BY Zenon DEF prune_to_consumed_closure
  <2>2. backward_reachable(f, types) \subseteq f.operators
    BY Zenon DEF backward_reachable, Least
  <2>3. os \in SUBSET f.operators
    BY <2>2
  <2> QED BY <2>1, <2>3
<1> HIDE DEF kept
<1>2. CASE kept = f
  BY <1>2, <1>a, <1>b DEF kept
<1>3. CASE kept = [f EXCEPT !.operators = os]
  <2>1. os \in SUBSET Operator
    BY <1>b DEF FlowType
  <2>2. kept \in FlowType /\ kept.operators = os
    BY <1>3, <1>b, <2>1 DEF FlowType
  <2>3. IsFiniteSet(os)
    BY <1>b, FS_Subset
  <2> QED BY <2>2, <2>3, <1>a DEF kept
<1> QED BY <1>1, <1>2, <1>3

LEMMA LiteInit ==
    ASSUME Init
    PROVE  LiteInv
<1>1. FixedOK
  <2>1. PICK s \in Sessions : flow = prune_to_consumed_closure(s.flow) /\ deadline = s.deadline
    BY DEF Init
  <2>2. flow \in FlowType /\ IsFiniteSet(flow.operators)
    BY <2>1, PruningKeepsFlow
  <2>3. caps \in [Operator -> Nat \cup {NoCap}]
    <3>1. flow.max_cycles \in [Operator -> Nat \cup {NoCap}]
      BY <2>2 DEF FlowType
    <3>2. caps = cycle_caps(flow)
      BY DEF Init
    <3> QED BY <3>1, <3>2 DEF cycle_caps
  <2>4. ops \subseteq Operator /\ IsFiniteSet(ops)
    <3>1. flow.operators \subseteq Operator
      BY <2>2 DEF FlowType
    <3>2. ops \subseteq flow.operators
      BY DEF Init
    <3> QED BY <3>1, <3>2, <2>2, FS_Subset
  <2>5. deadline \in Time
    BY <2>1, Consts
  <2> QED BY <2>2, <2>3, <2>4, <2>5 DEF FixedOK
<1>2. StoreOK
  <2>1. PICK none : none = [i \in Identity |-> Absent]
    OBVIOUS
  <2>2. PICK added : added = {i \in Seed : none[i] = Absent}
    OBVIOUS
  <2>3. /\ entries = [i \in Identity |->
               IF i \in added THEN [added |-> 0 + 1, updated |-> 0 + 1]
               ELSE IF i \in {} THEN [none[i] EXCEPT !.updated = 0 + 1]
               ELSE none[i]]
        /\ revision = IF added \cup {} = {} THEN 0 ELSE 0 + 1
    BY <2>1, <2>2 DEF Init, merge
  <2>4. revision \in Nat /\ (revision = 1 \/ added = {})
    BY <2>3
  <2>5. \A i \in Identity : entries[i] \in [added: 0..revision, updated: 0..revision]
    BY <2>1, <2>3, <2>4 DEF Absent
  <2>6. entries \in [Identity -> [added: 0..revision, updated: 0..revision]]
    BY <2>3, <2>5
  <2>7. watermark \in [Operator -> (0..revision) \cup {None}] /\ covered \in [Operator -> Nat]
    BY DEF Init, all
  <2> QED BY <2>4, <2>6, <2>7 DEF StoreOK
<1>3. /\ \A o \in Operator : /\ running[o] = Idle /\ running[o].stage = "idle"
                             /\ retries[o] = None /\ armed_retries[o] = None
                             /\ watermark[o] = None /\ last[o] = "none"
      /\ queue = <<>> /\ batch = {} /\ pc = "top" /\ deadline_hit = FALSE
  BY IdleIsNoTask DEF Init, all
<1>4. TasksOK /\ WindowsOK /\ ResultsOK
  <2>1. TasksOK
    BY <1>3 DEF Init, all, TasksOK
  <2>2. WindowsOK
    BY <1>3 DEF Init, all, WindowsOK, Time
  <2>3. ResultsOK
    BY DEF Init, all, ResultsOK
  <2> QED BY <2>1, <2>2, <2>3
<1>5. InFlight /\ RetryOwners /\ Reported /\ Honest
  BY <1>3 DEF InFlight, RetryOwners, Reported, Honest
<1>6. pass \in PassType /\ pass.wake = None
  BY NoPassType DEF Init
<1>7. PassOK
  BY <1>6 DEF Init, PassOK, PC
<1>8. Budget /\ GivenUp /\ Waiting /\ Settled /\ QuiescentUpToDate /\ Clipped
  BY <1>3 DEF Budget, Planning, GivenUp, Waiting, Settled, QuiescentUpToDate, Clipped
<1>9. Swept
  BY <1>3 DEF Swept
<1>10. OnTime
  <2>1. now = 0 /\ until = 0 /\ lag = 0 /\ stall = 0
    BY DEF Init
  <2>2. deadline # None => 0 <= deadline + 0 + 0
    BY <1>1 DEF FixedOK, Time
  <2> QED BY <2>1, <2>2, <1>3, <1>6 DEF OnTime
<1> QED BY <1>1, <1>2, <1>4, <1>5, <1>7, <1>8, <1>9, <1>10 DEF LiteInv, Books

LEMMA LiteNext ==
    ASSUME LiteInv, [Next]_vars
    PROVE  LiteInv'
BY OverStep, BeginPassStep, ActivateStep, AnnounceStep, GiveUpStep, PlanStep, WakeStep,
   TickStep, EmitStep, FinishStep, ConsumeStep, RecordStep, LeaveStep, CancelStep,
   ReportStep, CloseStep DEF Next, LoopStep

LEMMA LiteInvariant == Spec => []LiteInv
<1>1. Init => LiteInv
  BY LiteInit
<1>2. LiteInv /\ [Next]_vars => LiteInv'
  BY LiteNext
<1> QED BY <1>1, <1>2, PTL DEF Spec

-----------------------------------------------------------------------------
(* The theorems.                                                           *)

\* The variables of a session keep their types: no stamp or watermark is ahead
\* of the revision, an armed retry remembers the revision its failed run
\* observed, and no capability is both built and given up.
THEOREM LiteTypeCorrect == Spec => []TypeOK
<1>1. LiteInv => TypeOK
  <2>1. SUFFICES ASSUME LiteInv PROVE TypeOK
    OBVIOUS
  <2>2. watermark \in [Operator -> 0..revision \cup {None}]
    BY <2>1 DEF LiteInv, Books, StoreOK
  <2> QED BY <2>1, <2>2 DEF LiteInv, Books, FixedOK, StoreOK, TasksOK, WindowsOK,
                            ResultsOK, PassOK, PC, Recording, Planning, TypeOK
<1> QED BY <1>1, LiteInvariant, PTL

\* A session that went quiescent left no ready operator without a concluded
\* run, and none that reruns without what triggers it (_plan,
\* _record_completion, _record_terminal_failure).
THEOREM LiteQuiescenceIsComplete == Spec => []QuiescentUpToDate
<1>1. LiteInv => QuiescentUpToDate
  BY DEF LiteInv
<1> QED BY <1>1, LiteInvariant, PTL

\* No failure is dropped but that of a retry a deadline cut off, revoked
\* capabilities included (_plan, _drain_remaining).
THEOREM NoFailureDropped == Spec => []FailuresReported
<1>1. LiteInv => FailuresReported
  BY DEF LiteInv, Books, Swept, Settled, Reported, FailuresReported
<1> QED BY <1>1, LiteInvariant, PTL

-----------------------------------------------------------------------------
(* A session without capabilities: its passes spend no time before their   *)
(* launches, since an operator that was ready once stays so.               *)

Entered(o) == Provided(present_types(entries), flow.depends_on[o])
              /\ Provided({}, flow.requires[o])

\* What runs or is to be retried stays ready, and no pass spends time before
\* its launches.
Unstalled ==
    flow.capabilities = {} =>
        /\ lag = 0
        /\ pc \in Planning => stall = 0 /\ pass.pending = {} /\ pass.news = 0
        /\ \A o \in Operator : running[o] # Idle \/ retries[o] # None => Entered(o)

\* A merge removes no class from those present.
LEMMA MergeKeepsPresent ==
    ASSUME StoreOK, NEW ids, Merge(ids)
    PROVE  present_types(entries) \subseteq present_types(entries)'
<1>1. PICK newer \in SUBSET {i \in ids : entries[i] # Absent} :
                   LET m == merge(entries, revision, ids, newer)
                   IN  entries' = m.entries /\ revision' = m.revision
  BY Zenon DEF Merge
<1> DEFINE added == {i \in ids : entries[i] = Absent}
<1>2. entries' = [i \in Identity |->
            IF i \in added THEN [added |-> revision + 1, updated |-> revision + 1]
            ELSE IF i \in newer THEN [entries[i] EXCEPT !.updated = revision + 1]
            ELSE entries[i]]
  BY <1>1 DEF merge
<1>3. ASSUME NEW i \in Identity, entries[i] # Absent PROVE entries'[i] # Absent
  <2>1. revision + 1 # 0 /\ entries[i] \in [added: 0..revision, updated: 0..revision]
    BY DEF StoreOK
  <2>2. i \notin added
    BY <1>3
  <2>3. CASE i \in newer
    <3>1. entries'[i] = [entries[i] EXCEPT !.updated = revision + 1]
      BY <2>2, <2>3, <1>2
    <3>2. entries'[i].updated = revision + 1
      BY <3>1, <2>1
    <3> QED BY <3>2, <2>1 DEF Absent
  <2>4. CASE i \notin newer
    BY <2>2, <2>4, <1>2, <1>3
  <2> QED BY <2>3, <2>4
<1> QED BY <1>3 DEF present_types

LEMMA EnteredKept ==
    ASSUME flow' = flow, present_types(entries) \subseteq present_types(entries)',
           NEW o, Entered(o)
    PROVE  Entered(o)'
BY DEF Entered, Provided

\* Without capabilities none is available, and none to be activated.
LEMMA NothingToActivate ==
    ASSUME flow.capabilities = {}
    PROVE  /\ compute_available(flow, permitted, present_types(entries)) = {}
           /\ \A built : activation_time({}, built) = 0
BY DEF compute_available, Least, activation_time, ready_of

\* The steps that leave the passes of a session alone, or leave the loop.
LEMMA UnstalledKept ==
    ASSUME LiteInv, Unstalled, UNCHANGED <<fixed, lag>>,
           pc' \notin Planning \/ UNCHANGED <<pc, stall, pass>>,
           present_types(entries) \subseteq present_types(entries)',
           \A o \in Operator : running'[o] # Idle \/ retries'[o] # None =>
              running[o] # Idle \/ retries[o] # None
    PROVE  Unstalled'
<1> USE DEF fixed
<1>1. \A o \in Operator : Entered(o) => Entered(o)'
  BY EnteredKept
<1> QED BY <1>1 DEF Unstalled

LEMMA UnstalledNext ==
    ASSUME LiteInv, Unstalled, [Next]_vars
    PROVE  Unstalled'
<1> USE DEF fixed, stateVars, windows, capVars, catalog, history, results, tasks, loop
<1>a. /\ StoreOK /\ TasksOK /\ WindowsOK /\ FixedOK /\ PassOK /\ Budget /\ GivenUp
      /\ InFlight /\ None \notin Int
  BY Consts DEF LiteInv, Books
<1>1. ASSUME UNCHANGED entries
      PROVE  present_types(entries) \subseteq present_types(entries)'
  BY <1>1 DEF present_types
<1>2. CASE BeginPass
  <2>1. SUFFICES ASSUME flow.capabilities = {} PROVE Unstalled'
    BY <1>2 DEF BeginPass, Unstalled
  <2>2. pass' = [NoPass EXCEPT
                  !.remaining = IF deadline = None THEN None ELSE deadline - now,
                  !.able = {}, !.pending = {} \ (activated \cup failed)]
    BY <1>2, <2>1, NothingToActivate DEF BeginPass
  <2>3. pass'.pending = {} /\ pass'.news = 0
    BY <2>2 DEF NoPass
  <2>4. {} \ (activated \cup failed) = {}
    OBVIOUS
  <2>5. stall' = 0
    BY <1>2, <2>1, <2>4, NothingToActivate DEF BeginPass
  <2>6. \A o \in Operator : Entered(o) => Entered(o)'
    BY <1>2, <1>1, EnteredKept DEF BeginPass
  <2> QED BY <1>2, <2>1, <2>3, <2>5, <2>6 DEF BeginPass, Unstalled
<1>3. ASSUME NEW c \in Capability, Activate(c) PROVE Unstalled'
  <2>1. flow.capabilities # {}
    <3>1. c \in pass.pending /\ pc = "activate"
      BY <1>3 DEF Activate, Activatable, ready_of
    <3> QED BY <3>1 DEF Unstalled, Planning
  <2> QED BY <1>3, <2>1 DEF Activate, Unstalled
<1>4. CASE Announce
  <2>1. SUFFICES ASSUME flow.capabilities = {} PROVE Unstalled'
    BY <1>4 DEF Announce, Unstalled
  <2>2. /\ stall = 0 /\ pass.news = 0 /\ stall' = stall + PublishTimeout * pass.news
        /\ pass' = pass
    BY <1>4, <2>1 DEF Announce, Unstalled, Planning, publish, Await
  <2>3. stall' = 0
    BY <2>2, Consts
  <2>4. \A o \in Operator : Entered(o) => Entered(o)'
    BY <1>4, <1>1, EnteredKept DEF Announce
  <2> QED BY <1>4, <2>1, <2>2, <2>3, <2>4 DEF Announce, Unstalled, Planning
<1>5. CASE GiveUp
  <2>1. SUFFICES ASSUME flow.capabilities = {} PROVE Unstalled'
    BY <1>5 DEF GiveUp, Unstalled
  <2>2. RetryOwned \subseteq Ready
    <3>1. ASSUME NEW o \in RetryOwned PROVE o \in Ready
      <4>1. o \in Considered /\ o \in Operator /\ retries[o] # None
        BY <1>a DEF RetryOwned, Considered, FixedOK
      <4>2. Entered(o)
        BY <2>1, <4>1 DEF Unstalled
      <4> QED BY <4>1, <4>2 DEF Ready, Entered, is_ready, Provided
    <3> QED BY <3>1
  <2>3. {o \in RetryOwned \ Ready : stranded(o)} = {}
    BY <2>2
  <2>4. stall' = stall + PublishTimeout * 0
    BY <1>5, <2>3, FS_EmptySet DEF GiveUp, publish, Await
  <2>5. stall = 0 /\ pass.pending = {} /\ pass.news = 0 /\ pc' = "plan"
    BY <1>5, <2>1 DEF GiveUp, Unstalled, Planning
  <2>6. stall' = 0
    BY <2>4, <2>5, Consts
  <2>7. pass'.pending = {} /\ pass'.news = 0
    BY <1>5, <2>5, <1>a DEF GiveUp, PassOK, PassType
  <2>8. \A o \in Operator : Entered(o) => Entered(o)'
    BY <1>5, <1>1, EnteredKept DEF GiveUp
  <2>9. \A o \in Operator : retries'[o] # None => retries[o] # None
    BY <1>5 DEF GiveUp
  <2> QED BY <1>5, <2>1, <2>5, <2>6, <2>7, <2>8, <2>9 DEF GiveUp, Unstalled
<1>6. CASE Plan
  <2>1. SUFFICES ASSUME flow.capabilities = {} PROVE Unstalled'
    BY <1>6 DEF Plan, Unstalled
  <2>2. PICK at :
        /\ running' = [o \in Operator |-> IF o \in Launched(at) THEN task(o) ELSE running[o]]
        /\ retries' = [o \in Operator |-> IF o \in Retried(at) THEN None ELSE retries[o]]
        /\ lag' = IF Launched(at) # {} /\ stall > lag THEN stall ELSE lag
        /\ pc' = IF \E o \in Operator : running'[o] # Idle THEN "wait"
                 ELSE IF Tracked(at) # {} THEN "sleep" ELSE "quiescent"
    BY <1>6, Zenon DEF Plan, Launched
  <2>3. stall = 0 /\ lag = 0 /\ pc' \notin Planning
    BY <1>6, <2>1, <2>2 DEF Plan, Unstalled, Planning
  <2>4. lag' = 0
    BY <2>2, <2>3
  <2>5. pass.able = {}
    BY <1>6, <2>1, <1>a, NothingToActivate DEF Plan, Budget, Planning
  <2>6. \A o \in Launched(at) : Entered(o)
    <3>1. Launched(at) \subseteq Ready
      BY LaunchedIdle
    <3> QED BY <2>5, <3>1 DEF Ready, is_ready, Available, Entered, Provided
  <2>7. ASSUME NEW o \in Operator, running'[o] # Idle \/ retries'[o] # None
        PROVE  Entered(o)
    BY <2>1, <2>2, <2>6, <2>7 DEF Unstalled
  <2>8. \A o \in Operator : Entered(o) => Entered(o)'
    BY <1>6, <1>1, EnteredKept DEF Plan
  <2> QED BY <2>1, <2>3, <2>4, <2>7, <2>8 DEF Unstalled
<1>7. CASE Wake \/ Close \/ Tick \/ CatalogChange \/ Over \/ UNCHANGED vars
  <2>1. pc' \notin Planning \/ UNCHANGED <<pc, stall, pass>>
    BY <1>7, <1>a DEF Wake, Close, Tick, CatalogChange, Over, vars, Planning, PassOK
  <2>2. UNCHANGED <<fixed, lag, entries, running, retries>>
    BY <1>7 DEF Wake, Close, Tick, CatalogChange, Over, vars
  <2> QED BY <2>1, <2>2, <1>1, UnstalledKept
<1>8. ASSUME NEW o \in Operator, Emit(o) \/ Finish(o) PROVE Unstalled'
  <2>1. running[o] # Idle
    BY <1>8, IdleIsNoTask DEF Emit, Finish
  <2>2. \A p \in Operator \ {o} : running'[p] = running[p]
    BY <1>8, <1>a DEF Emit, Finish, TasksOK
  <2>3. UNCHANGED <<fixed, lag, entries, retries, pc, stall, pass>>
    BY <1>8 DEF Emit, Finish
  <2> QED BY <2>1, <2>2, <2>3, <1>1, UnstalledKept
<1>9. CASE Consume \/ DrainQueued \/ ActivationRaises \/ CancelRunning
  <2>1. Merge(EmittedIn(queue)) /\ UNCHANGED <<fixed, lag, retries>>
    BY <1>9 DEF Consume, DrainQueued, ActivationRaises, CancelRunning, TakeQueued
  <2>2. pc' \notin Planning
    BY <1>9 DEF Consume, DrainQueued, ActivationRaises, CancelRunning, TakeQueued, Planning
  <2>3. \A o \in Operator : running'[o] # Idle => running[o] # Idle
    <3>1. CASE running' = running
      BY <3>1
    <3>2. CASE running' = Cancelled
      BY <3>2, <1>a, CancelledTask
    <3> QED BY <1>9, <3>1, <3>2 DEF Consume, DrainQueued, ActivationRaises, CancelRunning,
                                    Cancelled
  <2> QED BY <2>1, <2>2, <2>3, <1>a, MergeKeepsPresent, UnstalledKept
<1>10. ASSUME NEW s \in batch, RecordCompletion(s) PROVE Unstalled'
  <2>1. s.op \in Operator /\ running[s.op] # Idle
    BY <1>a, IdleIsNoTask DEF TasksOK, Completion, InFlight
  <2>2. \A o \in Operator \ {s.op} : running'[o] = running[o] /\ retries'[o] = retries[o]
    BY <1>10, <1>a DEF RecordCompletion, TasksOK, WindowsOK
  <2>3. pc' \notin Planning /\ UNCHANGED <<fixed, lag, entries>>
    BY <1>10 DEF RecordCompletion, recorded, Planning
  <2> QED BY <2>1, <2>2, <2>3, <1>1, UnstalledKept
<1>11. CASE Report
  <2>1. pc' \notin Planning /\ UNCHANGED <<fixed, lag, entries, retries>>
    BY <1>11 DEF Report, Planning
  <2>2. \A o \in Operator : running'[o] = Idle
    BY <1>11 DEF Report, all
  <2> QED BY <2>1, <2>2, <1>1, UnstalledKept
<1> QED BY <1>2, <1>3, <1>4, <1>5, <1>6, <1>7, <1>8, <1>9, <1>10, <1>11 DEF Next, LoopStep

\* Where a session has no capabilities, no run is at work after the deadline,
\* whatever the timeouts and however long the events take to publish: a pass
\* publishes none between reading the budget and its launches (_gather,
\* _run_one, _plan).
THEOREM RunsEndAtTheDeadline == Spec => []ClippedToDeadline
<1>1. Init => Unstalled
  <2>1. SUFFICES ASSUME Init PROVE Unstalled
    OBVIOUS
  <2>2. lag = 0 /\ pc = "top" /\ \A o \in Operator : running[o] = Idle /\ retries[o] = None
    BY <2>1 DEF Init, all
  <2> QED BY <2>2 DEF Unstalled, Planning
<1>2. LiteInv /\ Unstalled /\ [Next]_vars => Unstalled'
  BY UnstalledNext
<1>3. LiteInv /\ Unstalled => ClippedToDeadline
  <2>1. SUFFICES ASSUME LiteInv, Unstalled, flow.capabilities = {}, deadline # None,
                        NEW o \in Operator, running[o].stage = "run"
                 PROVE  now <= deadline
    BY DEF ClippedToDeadline
  <2>2. now <= running[o].until /\ running[o].until <= deadline + lag /\ lag = 0
    BY <2>1 DEF LiteInv, OnTime, Unstalled
  <2>3. running[o].until \in Nat
    BY <2>1, IdleIsNoTask DEF LiteInv, Books, TasksOK, TaskType
  <2>4. now \in Nat /\ deadline \in Nat
    BY <2>1 DEF LiteInv, PassOK, FixedOK, Time
  <2> QED BY <2>2, <2>3, <2>4
<1> QED BY <1>1, <1>2, <1>3, LiteInvariant, PTL DEF Spec

\* Whatever the deadline, the timeouts and the flow: a run is never at work
\* later after the deadline than the pass that launched it may have spent in
\* activations and publishes before it did, nor the session later than that and
\* those of its last pass together; without capabilities no run is at work after
\* the deadline at all; and it reports a hit deadline only if it
\* is past, or an operator raised a TimeoutError of its own (_gather, _run_one,
\* _publish).
THEOREM DeadlineIsHonoured == Spec => []DeadlineHonoured
<1>1. LiteInv /\ ClippedToDeadline => DeadlineHonoured
  <2>1. SUFFICES ASSUME LiteInv, ClippedToDeadline PROVE DeadlineHonoured
    OBVIOUS
  <2>2. ASSUME deadline # None, NEW o \in Operator, running[o].stage = "run"
        PROVE  now <= deadline + lag
    <3>1. now <= running[o].until /\ running[o].until <= deadline + lag
      BY <2>1, <2>2 DEF LiteInv, OnTime
    <3>2. running[o].until \in Nat
      BY <2>1, <2>2, IdleIsNoTask DEF LiteInv, Books, TasksOK, TaskType
    <3>3. now \in Nat /\ deadline \in Nat /\ lag \in Nat
      BY <2>1, <2>2 DEF LiteInv, PassOK, FixedOK, Time
    <3> QED BY <3>1, <3>2, <3>3
  <2> QED BY <2>1, <2>2 DEF LiteInv, OnTime, Clipped, Late, DeadlineHonoured
<1> QED BY <1>1, LiteInvariant, RunsEndAtTheDeadline, PTL
=============================================================================
