-------------------------- MODULE GatherLoopProofs --------------------------
(***************************************************************************)
(* What holds of the gathering loop for every flow, queue size, seed and   *)
(* delivery, and every number of crashes: its five invariants.             *)
(***************************************************************************)
EXTENDS GatherLoop, TLAPS

-----------------------------------------------------------------------------
(* The inductive invariant.                                                *)

\* Where the loop can be.
PC == {"top", "plan", "wait", "record", "sleep", "inbox", "parked", "down"}
        \cup Ended

\* What a task puts on the queue.
Message == [op: Operator, emitted: Identity] \cup [op: Operator, ok: BOOLEAN]

\* A task that has put its completion.
Done == {t \in TaskType : t.stage = "done"}

StoreOK ==
    /\ entries \in [Identity -> [added: Nat, updated: Nat]]
    /\ revision \in Nat
    /\ watermark \in [Operator -> Nat \cup {Never}]
    /\ covered \in [Operator -> Nat]

TasksOK ==
    /\ running \in [Operator -> TaskType \cup {Idle}]
    /\ queue \in Seq(Message) /\ Len(queue) <= QueueSize
    /\ DOMAIN batch \subseteq Operator

WindowsOK ==
    /\ runs \in [Operator -> Nat] /\ failed_attempts \in [Operator -> Nat]
    /\ retries \in [Operator -> Window] /\ debounce \in [Operator -> Window]
    /\ abandoned \subseteq Operator

CapsOK ==
    /\ prev_caps \in [Operator -> SUBSET Capability]
    /\ available \subseteq activated /\ activated \subseteq Capability
    /\ activation_failures \in [Capability -> 0..ActivationAttempts]

FixedOK ==
    /\ flow \in Flows
    /\ ops \subseteq Operator /\ ops \subseteq gathering(flow)
    /\ caps \in [Operator -> Nat \cup {NoCap}]

EnvOK == inbox \subseteq Identity /\ permitted \subseteq Capability

Shapes == /\ FixedOK /\ StoreOK /\ pc \in PC /\ TasksOK /\ WindowsOK
          /\ CapsOK /\ EnvOK

\* A completion, queued or in the batch being recorded, is that of a task
\* that is done; what is in the batch is not in the queue.
InFlight ==
    /\ \A k \in 1..Len(queue) : "ok" \in DOMAIN queue[k] =>
          /\ running[queue[k].op] \in Done
          /\ queue[k].op \notin DOMAIN batch
    /\ \A o \in DOMAIN batch : running[o] \in Done

\* There is a batch only while it is recorded.
BatchOpen == pc # "record" => DOMAIN batch = {}

\* A process that is gone has left no task and no count behind.
Gone == pc \in {"down", "parked"} =>
          \A o \in Operator : running[o] = Idle /\ runs[o] = 0

\* An operator that ran and has no watermark is in the middle of its retries.
Unconcluded ==
    \A o \in Operator :
        runs[o] > 0 /\ watermark[o] = Never => failed_attempts[o] > 0

\* No task outlives quiescence.
NoTask == pc = "quiescent" => \A o \in Operator : running[o] = Idle

GatherInv ==
    /\ Shapes /\ InFlight /\ BatchOpen /\ Gone /\ Unconcluded /\ NoTask
    /\ WatermarkHonest /\ CyclesBounded /\ QuiescentUpToDate

-----------------------------------------------------------------------------
(* Pruning, from the declarations alone.                                   *)

\* The sinks pruning starts from: what the aggregators consume or depend on,
\* and the types of the completion condition (orchestrator.py,
\* _prune_to_consumed_closure).
Sinks(f) == (UNION {f.consumes[o] : o \in f.aggregators})
              \cup (UNION f.completes_when)
              \cup UNION {f.depends_on[o] : o \in f.aggregators}

\* backward_reachable (reachability.py) is closed: it keeps every operator
\* that produces what a sink or a kept operator needs.
LEMMA KeptFeedsKept ==
    ASSUME NEW f, NEW all, NEW sinks, NEW p \in all, NEW t,
           effective_produces(f, p) \cap SubtypesOf[t] # {},
           \/ t \in sinks
           \/ \E o \in backward_reachable(f, all, sinks) : t \in f.depends_on[o]
    PROVE  p \in backward_reachable(f, all, sinks)
<1> DEFINE Needed(kept) == sinks \cup UNION {f.depends_on[o] : o \in kept}
           Feeding(kept) == {o \in all : \E u \in Needed(kept) :
                               effective_produces(f, o) \cap SubtypesOf[u] # {}}
<1>1. backward_reachable(f, all, sinks) =
        {x \in all : \A S \in SUBSET all : Feeding(S) \subseteq S => x \in S}
  BY Zenon DEF backward_reachable, LeastFixpoint
<1>2. SUFFICES ASSUME NEW S \in SUBSET all, Feeding(S) \subseteq S
               PROVE  p \in S
  BY <1>1, Zenon
<1>3. t \in Needed(S)
  BY <1>1, <1>2
<1>4. p \in Feeding(S)
  BY <1>3
<1> QED BY <1>2, <1>4

\* With capabilities that wait for no data, what is available does not depend
\* on the data (compute_available).
LEMMA AvailableWithoutData ==
    ASSUME NEW f, NEW allowed, NEW some, NEW other,
           \A c \in f.capabilities : f.depends_on[c] = {}
    PROVE  compute_available(f, allowed, some) = compute_available(f, allowed, other)
<1> DEFINE Enabled(types, S) ==
             {c \in f.capabilities \cap allowed :
                 /\ Satisfied(types, f.depends_on[c])
                 /\ f.requires[c] \subseteq S}
<1>1. \A S : Enabled(some, S) = Enabled(other, S)
  BY DEF Satisfied
<1>2. \A types : compute_available(f, allowed, types) =
        {x \in f.capabilities : \A S \in SUBSET f.capabilities :
            Enabled(types, S) \subseteq S => x \in S}
  BY Zenon DEF compute_available, LeastFixpoint
<1> HIDE DEF Enabled
<1> QED BY <1>1, <1>2

\* What is pruned feeds no operator that is kept (reachability.py).
LEMMA PrunedFeedsNoneKept ==
    ASSUME NEW f, f.interim \subseteq f.aggregators,
           NEW p \in Unpruned(f) \ gathering(f),
           NEW o \in gathering(f), NEW t \in f.depends_on[o]
    PROVE  effective_produces(f, p) \cap SubtypesOf[t] = {}
<1> DEFINE all == f.operators \ f.aggregators
           kept == backward_reachable(f, all, Sinks(f))
<1>1. gathering(f) = f.interim \cup kept
  <2>1. gathering(f) = Unpruned(f) \/ gathering(f) = f.interim \cup kept
    <3> DEFINE declared == UNION {f.consumes[k] : k \in f.aggregators}
    <3>1. gathering(f) = IF declared = {} THEN Unpruned(f) ELSE f.interim \cup kept
      BY Zenon DEF gathering, Sinks
    <3> HIDE DEF declared, kept
    <3> QED BY <3>1
  <2> QED BY <2>1
<1>2. p \in all /\ p \notin kept
  BY <1>1 DEF Unpruned
<1>3. t \in Sinks(f) \/ \E k \in kept : t \in f.depends_on[k]
  <2>1. CASE o \in kept BY <2>1
  <2>2. CASE o \in f.interim
    <3>1. t \in UNION {f.depends_on[k] : k \in f.aggregators}
      BY <2>2
    <3>2. t \in Sinks(f)
      BY <3>1, Zenon DEF Sinks
    <3> QED BY <3>2
  <2> QED BY <1>1, <2>1, <2>2
<1> HIDE DEF all
<1> QED BY <1>2, <1>3, KeptFeedsKept

\* An operator that is kept and can come to run among all operators can come
\* to run among those kept, if no capability waits for data.
LEMMA PruningLosesNoRun ==
    ASSUME NEW f, f.interim \subseteq f.aggregators,
           \A c \in f.capabilities : f.depends_on[c] = {}, NEW seeded,
           NEW x \in gathering(f),
           x \in Runnable(f, Unpruned(f), seeded, f.capabilities)
    PROVE  x \in Runnable(f, gathering(f), seeded, f.capabilities)
<1> DEFINE Types(S) == seeded \cup Produced(f, S)
           Can(o, S) == /\ Satisfied(Types(S), f.depends_on[o])
                        /\ f.requires[o] \subseteq
                             compute_available(f, f.capabilities, Types(S))
           Admitted(all, S) == {o \in all : Can(o, S)}
<1>1. \A all : Runnable(f, all, seeded, f.capabilities) =
        {y \in all : \A S \in SUBSET all : Admitted(all, S) \subseteq S => y \in S}
  BY Zenon DEF Runnable, LeastFixpoint
<1> HIDE DEF Admitted
<1>2. SUFFICES ASSUME NEW S \in SUBSET gathering(f),
                      Admitted(gathering(f), S) \subseteq S
               PROVE  x \in S
  BY <1>1
<1> DEFINE T == (S \cap Unpruned(f)) \cup (Unpruned(f) \ gathering(f))
<1>3. ASSUME NEW o \in gathering(f), Can(o, T)
      PROVE  Can(o, S)
  <2>1. ASSUME NEW t \in f.depends_on[o]
        PROVE  Types(S) \cap SubtypesOf[t] # {}
    <3>1. PICK leaf : leaf \in Types(T) /\ leaf \in SubtypesOf[t]
      BY <1>3 DEF Satisfied
    <3>2. CASE leaf \in seeded
      BY <3>1, <3>2
    <3>3. CASE leaf \in Produced(f, T)
      <4>1. PICK p \in T : leaf \in effective_produces(f, p)
        BY <3>3 DEF Produced
      <4>2. p \in S
        BY <4>1, <3>1, PrunedFeedsNoneKept
      <4>3. leaf \in Produced(f, S)
        BY <4>1, <4>2 DEF Produced
      <4> QED BY <3>1, <4>3
    <3> QED BY <3>1, <3>2, <3>3
  <2>2. compute_available(f, f.capabilities, Types(S)) =
          compute_available(f, f.capabilities, Types(T))
    BY AvailableWithoutData
  <2> QED BY <1>3, <2>1, <2>2 DEF Satisfied
<1>4. Admitted(Unpruned(f), T) \subseteq T
  <2>1. SUFFICES ASSUME NEW o \in Unpruned(f), Can(o, T), o \in gathering(f)
                 PROVE  o \in S
    BY DEF Admitted
  <2>2. o \in Admitted(gathering(f), S)
    BY <2>1, <1>3 DEF Admitted
  <2> QED BY <2>2, <1>2
<1>5. x \in T
  BY <1>1, <1>4
<1> QED BY <1>5

-----------------------------------------------------------------------------
(* Steps that leave parts of the state alone.                              *)

LEMMA IdleIsNoTask ==
    /\ Idle \notin TaskType
    /\ Idle.stage = "idle"
    /\ Done \subseteq TaskType /\ Idle \notin Done
<1>1. Idle.stage = "idle"
  BY DEF Idle
<1>2. \A t \in TaskType : t.stage \in {"run", "done"}
  BY DEF TaskType
<1> HIDE DEF Idle
<1> QED BY <1>1, <1>2 DEF Done

\* _merge_emissions only ever adds entries and revisions.
LEMMA MergeKeepsTypes ==
    ASSUME StoreOK, NEW ids, Merge(ids)
    PROVE  /\ entries' \in [Identity -> [added: Nat, updated: Nat]]
           /\ revision' \in Nat
<1>1. PICK newer : LET m == merge(entries, revision, ids, newer)
                   IN  entries' = m.entries /\ revision' = m.revision
  BY Zenon DEF Merge
<1> DEFINE added == {i \in ids : entries[i] = Absent}
<1>2. /\ entries' = [i \in Identity |->
            IF i \in added THEN [added |-> revision + 1, updated |-> revision + 1]
            ELSE IF i \in newer THEN [entries[i] EXCEPT !.updated = revision + 1]
            ELSE entries[i]]
      /\ revision' = IF added \cup newer = {} THEN revision ELSE revision + 1
  BY <1>1 DEF merge
<1> HIDE DEF added
<1>3. revision + 1 \in Nat
  BY DEF StoreOK
<1> QED BY <1>2, <1>3 DEF StoreOK

\* What quiescence promises depends on these variables only.
LEMMA QuiescentKept ==
    ASSUME QuiescentUpToDate,
           UNCHANGED <<fixed, entries, watermark, running, runs, available,
                       covered, abandoned, pc>>
    PROVE  QuiescentUpToDate'
<1>1. /\ flow' = flow /\ ops' = ops /\ caps' = caps /\ entries' = entries
      /\ watermark' = watermark /\ running' = running /\ runs' = runs
      /\ available' = available /\ covered' = covered /\ abandoned' = abandoned
      /\ pc' = pc
  BY DEF fixed
<1>2. Present(entries)' = Present(entries)
  BY <1>1 DEF Present
<1>3. Considered' = Considered
  BY <1>1 DEF Considered, is_tripped
<1>4. Ready' = Ready
  BY <1>1, <1>2, <1>3 DEF Ready, is_ready, Satisfied
<1>5. not_yet_run' = not_yet_run
  BY <1>1, <1>3 DEF not_yet_run, Ran
<1>6. \A o : Relevant(o, covered[o])' = Relevant(o, covered[o])
  BY <1>1 DEF Relevant
<1>7. reachable_pending(flow, not_yet_run, Present(entries), available)' =
      reachable_pending(flow, not_yet_run, Present(entries), available)
  BY <1>1, <1>2, <1>5
<1> QED BY <1>1, <1>4, <1>6, <1>7 DEF QuiescentUpToDate

\* A step of the surroundings, or one in which a task takes no part.
LEMMA QuietStep ==
    ASSUME GatherInv, EnvOK', CapsOK', pc' \in PC,
           retries' \in [Operator -> Window], debounce' \in [Operator -> Window],
           UNCHANGED <<fixed, storeVars, taskVars, batch, runVars, history>>,
           pc' = "record" <=> pc = "record",
           pc' \in {"down", "parked"} => pc \in {"down", "parked"},
           pc' # "quiescent" \/ (pc' = pc /\ available' = available)
    PROVE  GatherInv'
<1> USE DEF fixed, storeVars, taskVars, runVars, history
<1>1. Shapes'
  BY DEF GatherInv, Shapes, FixedOK, StoreOK, TasksOK, WindowsOK
<1>2. InFlight'
  BY DEF GatherInv, InFlight
<1>3. BatchOpen' /\ Gone' /\ Unconcluded' /\ NoTask'
  BY DEF GatherInv, BatchOpen, Gone, Unconcluded, NoTask
<1>4. WatermarkHonest' /\ CyclesBounded'
  BY DEF GatherInv, WatermarkHonest, CyclesBounded
<1>5. QuiescentUpToDate'
  <2>1. CASE pc' # "quiescent" BY <2>1 DEF QuiescentUpToDate
  <2>2. CASE pc' = pc /\ available' = available
    BY <2>2, QuiescentKept DEF GatherInv
  <2> QED BY <2>1, <2>2
<1> QED BY <1>1, <1>2, <1>3, <1>4, <1>5 DEF GatherInv
-----------------------------------------------------------------------------
(* The surroundings and the quiet steps of the loop.                       *)

LEMMA Consts ==
    /\ \A f \in Flows : f \in FlowType
    /\ \A f \in Flows : f.interim \subseteq f.aggregators
    /\ \A f \in Flows : Deliverable[f] \subseteq Identity
    /\ \A f \in Flows : f.capabilities \subseteq Capability
    /\ QueueSize \in Nat \ {0} /\ ActivationAttempts \in Nat \ {0}
    /\ MaxEmissions \in Nat /\ Never \notin Nat
BY GatherAssumption DEF FlowType

LEMMA WaitsAndWindows ==
    ASSUME GatherInv,
           \/ Wake \/ InboxWakeup \/ Redrive \/ Over
           \/ \E o \in Operator : Elapse(o)
           \/ UNCHANGED vars
    PROVE  GatherInv'
<1> USE DEF fixed, storeVars, taskVars, runVars, capVars, envVars, history, PC, Ended
<1>a. EnvOK /\ CapsOK /\ WindowsOK /\ pc \in PC
  BY DEF GatherInv, Shapes
<1>1. CASE Wake
  BY <1>1, <1>a, QuietStep DEF Wake, EnvOK, CapsOK, WindowsOK
<1>2. CASE InboxWakeup
  BY <1>2, <1>a, QuietStep DEF InboxWakeup, EnvOK, CapsOK, WindowsOK
<1>3. CASE Redrive
  <2>1. /\ retries' \in [Operator -> Window] /\ debounce' \in [Operator -> Window]
    BY <1>3 DEF Redrive, Window
  <2> QED BY <1>3, <1>a, <2>1, QuietStep DEF Redrive, EnvOK, CapsOK
<1>4. CASE Over \/ UNCHANGED vars
  BY <1>4, <1>a, QuietStep DEF Over, vars, EnvOK, CapsOK, WindowsOK
<1>5. ASSUME NEW o \in Operator, Elapse(o) PROVE GatherInv'
  <2>1. /\ retries' \in [Operator -> Window] /\ debounce' \in [Operator -> Window]
    BY <1>5, <1>a DEF Elapse, WindowsOK, Window
  <2> QED BY <1>5, <1>a, <2>1, QuietStep DEF Elapse, EnvOK, CapsOK
<1> QED BY <1>1, <1>2, <1>3, <1>4, <1>5

LEMMA Surroundings ==
    ASSUME GatherInv, Deliver \/ CatalogChange \/ Expire \/ CoolOff
    PROVE  GatherInv'
<1> USE DEF fixed, storeVars, taskVars, runVars, capVars, envVars, history, PC, Ended
<1>a. EnvOK /\ CapsOK /\ WindowsOK /\ pc \in PC /\ flow \in Flows
  BY DEF GatherInv, Shapes, FixedOK
<1>1. CASE Deliver
  BY <1>1, <1>a, Consts, QuietStep DEF Deliver, EnvOK, CapsOK, WindowsOK
<1>2. CASE CatalogChange
  BY <1>2, <1>a, Consts, QuietStep DEF CatalogChange, EnvOK, CapsOK, WindowsOK
<1>3. CASE Expire
  BY <1>3, <1>a, QuietStep DEF Expire, EnvOK, CapsOK, WindowsOK
<1>4. CASE CoolOff
  BY <1>4, <1>a, QuietStep DEF CoolOff, EnvOK, CapsOK, WindowsOK
<1> QED BY <1>1, <1>2, <1>3, <1>4

-----------------------------------------------------------------------------
(* The top of a pass.                                                      *)

\* A refresh counts a failed activation below the limit and activates what
\* is available only.
LEMMA RefreshKeepsCaps ==
    ASSUME GatherInv, NEW present, refresh(present), UNCHANGED prev_caps
    PROVE  CapsOK'
<1>1. PICK able, pending, tried, failed, ok :
        /\ able \subseteq flow.capabilities
        /\ pending = {c \in able : may_attempt(c)}
        /\ tried \subseteq pending /\ failed \subseteq tried
        /\ activated' = activated \cup (tried \cap ok)
        /\ activation_failures' =
             [c \in Capability |->
                IF c \in failed THEN activation_failures[c] + 1
                ELSE IF c \in tried THEN 0
                ELSE activation_failures[c]]
        /\ available' = able \cap activated'
  <2> DEFINE able == compute_available(flow, permitted, present)
             pending == {c \in able : may_attempt(c)}
  <2>1. PICK ok : LET tried == attempted(pending, ok)
                      failed == tried \ ok
            IN  /\ activated' = activated \cup (tried \cap ok)
                /\ activation_failures' =
                     [c \in Capability |->
                        IF c \in failed THEN activation_failures[c] + 1
                        ELSE IF c \in tried THEN 0
                        ELSE activation_failures[c]]
                /\ available' = able \cap activated'
    BY Zenon DEF refresh
  <2>2. able \subseteq flow.capabilities
    BY DEF compute_available, LeastFixpoint
  <2>3. attempted(pending, ok) \subseteq pending
    BY DEF attempted, LeastFixpoint
  <2>4. attempted(pending, ok) \ ok \subseteq attempted(pending, ok)
    OBVIOUS
  <2> HIDE DEF able
  <2> QED BY ZenonT(60), <2>1, <2>2, <2>3, <2>4
<1>2. flow.capabilities \subseteq Capability
  BY Consts DEF GatherInv, Shapes, FixedOK
<1>3. /\ activation_failures \in [Capability -> 0..ActivationAttempts]
      /\ activated \subseteq Capability
      /\ prev_caps' \in [Operator -> SUBSET Capability]
  BY DEF GatherInv, Shapes, CapsOK
<1>4. activation_failures' \in [Capability -> 0..ActivationAttempts]
  <2>1. ASSUME NEW c \in Capability
        PROVE  activation_failures'[c] \in 0..ActivationAttempts
    <3>1. CASE c \in failed
      <4>1. activation_failures[c] < ActivationAttempts
        BY <1>1, <3>1 DEF may_attempt
      <4>2. activation_failures'[c] = activation_failures[c] + 1
        BY <1>1, <3>1
      <4> QED BY <4>1, <4>2, <1>3, Consts
    <3>2. CASE c \notin failed
      BY <1>1, <3>2, <1>3, Consts
    <3> QED BY <3>1, <3>2
  <2> QED BY <1>1, <2>1
<1> QED BY <1>1, <1>2, <1>3, <1>4 DEF CapsOK

LEMMA RefreshStep ==
    ASSUME GatherInv, Refresh
    PROVE  GatherInv'
<1> USE DEF fixed, taskVars, runVars, history
<1>1. CapsOK'
  BY RefreshKeepsCaps DEF Refresh
<1>2. StoreOK'
  BY MergeKeepsTypes DEF Refresh, GatherInv, Shapes, StoreOK
<1>3. Shapes'
  BY <1>1, <1>2 DEF Refresh, GatherInv, Shapes, FixedOK, TasksOK, WindowsOK, EnvOK, PC
<1>4. InFlight'
  BY DEF Refresh, GatherInv, InFlight
<1>5. BatchOpen' /\ Gone' /\ Unconcluded' /\ NoTask'
  BY DEF Refresh, GatherInv, BatchOpen, Gone, Unconcluded, NoTask
<1>6. WatermarkHonest' /\ CyclesBounded' /\ QuiescentUpToDate'
  BY DEF Refresh, GatherInv, WatermarkHonest, CyclesBounded, QuiescentUpToDate
<1> QED BY <1>3, <1>4, <1>5, <1>6 DEF GatherInv
-----------------------------------------------------------------------------
(* Planning.                                                               *)

Launched == Retried \cup First \cup Rerun

LEMMA LaunchedIdle ==
    /\ Launched \subseteq Considered
    /\ \A o \in Launched : o \in ops /\ running[o] = Idle /\ ~is_tripped(o)
BY DEF Launched, Retried, First, Rerun, rerun_eligible, Ready, Considered

\* With nothing to launch and nothing held open, every ready operator is up
\* to date: what quiescence promises, before the state in which it holds.
LEMMA NothingLeft ==
    ASSUME GatherInv, Launched = {}, Held = {}
    PROVE  /\ \A o \in Ready : failed_attempts[o] = 0 =>
                /\ watermark[o] # Never
                /\ o \in flow.rerun \ flow.interim => Relevant(o, covered[o]) = {}
           /\ reachable_pending(flow, not_yet_run, Present(entries), available) = {}
<1>a. /\ WindowsOK /\ StoreOK /\ ops \subseteq Operator
      /\ Unconcluded /\ WatermarkHonest
  BY DEF GatherInv, Shapes, FixedOK
<1>b. Ready \subseteq Operator
  BY <1>a DEF Ready, Considered
<1>1. ASSUME NEW o \in Ready
      PROVE  retries[o] = "none" /\ Ran(o)
  <2>1. retries[o] \in Window
    BY <1>a, <1>b DEF WindowsOK
  <2>2. retries[o] # "due"
    BY DEF Launched, Retried
  <2>3. retries[o] # "armed"
    BY DEF Held
  <2>4. retries[o] = "none"
    BY <2>1, <2>2, <2>3 DEF Window
  <2> QED BY <2>4 DEF Launched, First
<1>2. ASSUME NEW o \in Ready, o \in flow.rerun \ flow.interim
      PROVE  ~has_relevant_new_data(o)
  <2>1. SUFFICES ASSUME has_relevant_new_data(o) PROVE FALSE
    OBVIOUS
  <2>2. o \in rerun_eligible
    BY <1>1, <1>2, <2>1 DEF rerun_eligible
  <2>3. Armed[o] \in {"armed", "due"}
    BY <2>2, <1>a, <1>b DEF Armed, WindowsOK, Window
  <2>4. CASE Armed[o] = "due"
    BY <2>2, <2>4 DEF Launched, Rerun
  <2>5. CASE Armed[o] = "armed"
    <3>1. ~window_defers_to_finalize(o)
      BY <1>2 DEF window_defers_to_finalize
    <3> QED BY <2>2, <2>5, <3>1 DEF Held
  <2> QED BY <2>3, <2>4, <2>5
<1>3. ASSUME NEW o \in Ready, failed_attempts[o] = 0
      PROVE  watermark[o] # Never
  BY <1>1, <1>3, <1>a, <1>b DEF Ran, Unconcluded, WindowsOK
<1>4. ASSUME NEW o \in Ready, failed_attempts[o] = 0, o \in flow.rerun \ flow.interim
      PROVE  Relevant(o, covered[o]) = {}
  <2>1. watermark[o] \in Nat /\ covered[o] \in Nat /\ watermark[o] <= covered[o]
    BY <1>3, <1>4, <1>a, <1>b DEF StoreOK, WatermarkHonest
  <2>2. Relevant(o, watermark[o]) = {}
    BY <1>2, <1>3, <1>4 DEF has_relevant_new_data, Since
  <2>3. \A i \in Identity : entries[i].added \in Nat /\ entries[i].updated \in Nat
    BY <1>a DEF StoreOK
  <2> QED BY <2>1, <2>2, <2>3 DEF Relevant
<1>5. reachable_pending(flow, not_yet_run, Present(entries), available) = {}
  <2> DEFINE Admitted(reachable) ==
          {o \in not_yet_run :
              /\ Satisfied(Present(entries) \cup Produced(flow, reachable), flow.depends_on[o])
              /\ flow.requires[o] \subseteq available}
  <2>1. reachable_pending(flow, not_yet_run, Present(entries), available) =
          {x \in not_yet_run : \A S \in SUBSET not_yet_run :
              Admitted(S) \subseteq S => x \in S}
    BY Zenon DEF reachable_pending, LeastFixpoint
  <2>2. Admitted({}) = {}
    <3>1. SUFFICES ASSUME NEW o \in Admitted({}) PROVE FALSE
      BY Zenon
    <3>2. Produced(flow, {}) = {}
      BY DEF Produced
    <3>3. o \in Ready
      BY <3>1, <3>2 DEF not_yet_run, Ready, is_ready
    <3> QED BY <3>1, <3>3, <1>1 DEF not_yet_run
  <2> HIDE DEF Admitted
  <2> QED BY <2>1, <2>2
<1> QED BY <1>3, <1>4, <1>5

LEMMA PlanStep ==
    ASSUME GatherInv, Plan
    PROVE  GatherInv'
<1> USE DEF fixed, storeVars, runVars, capVars, envVars
<1>a. /\ FixedOK /\ StoreOK /\ TasksOK /\ WindowsOK /\ CapsOK /\ EnvOK
      /\ InFlight /\ WatermarkHonest /\ CyclesBounded /\ Unconcluded /\ BatchOpen
  BY DEF GatherInv, Shapes
<1>b. /\ pc = "plan"
      /\ running' = [o \in Operator |-> IF o \in Launched THEN Task ELSE running[o]]
      /\ prev_caps' = [o \in Operator |-> IF o \in Launched THEN available ELSE prev_caps[o]]
      /\ retries' = [o \in Operator |-> IF o \in Retried THEN "none" ELSE retries[o]]
      /\ debounce' = [o \in Operator |-> IF o \in Rerun THEN "none" ELSE Armed[o]]
      /\ pc' = IF \E o \in Operator : running'[o] # Idle THEN "wait"
               ELSE IF Held # {} THEN "sleep"
               ELSE IF Satisfying THEN "quiescent"
               ELSE "inbox"
      /\ abandoned' = IF pc' = "quiescent"
                      THEN abandoned \cup {o \in Operator : failed_attempts[o] > 0}
                      ELSE abandoned
      /\ UNCHANGED <<fixed, storeVars, queue, batch, runVars, capVars, envVars, covered>>
  BY Zenon DEF Plan, Launched
<1>1. Task \in TaskType /\ Task # Idle
  <2>1. Task \in TaskType
    BY <1>a, Consts DEF Task, TaskType, StoreOK
  <2> QED BY <2>1, IdleIsNoTask
<1>2. TasksOK'
  BY <1>a, <1>b, <1>1 DEF TasksOK
<1>3. WindowsOK'
  <2>1. Armed \in [Operator -> Window]
    BY <1>a DEF Armed, WindowsOK, Window
  <2>2. retries' \in [Operator -> Window] /\ debounce' \in [Operator -> Window]
    BY <1>a, <1>b, <2>1 DEF WindowsOK, Window
  <2>3. abandoned' \subseteq Operator
    BY <1>a, <1>b DEF WindowsOK
  <2> QED BY <1>a, <1>b, <2>2, <2>3 DEF WindowsOK
<1>4. Shapes'
  <2>1. CapsOK'
    BY <1>a, <1>b DEF CapsOK
  <2>2. FixedOK' /\ StoreOK' /\ EnvOK'
    BY <1>a, <1>b DEF FixedOK, StoreOK, EnvOK
  <2>3. pc' \in PC
    BY <1>b DEF PC, Ended
  <2> QED BY <2>1, <2>2, <2>3, <1>2, <1>3 DEF Shapes
<1>5. \A o \in Operator : running[o] \in Done => running'[o] = running[o]
  BY <1>b, LaunchedIdle, IdleIsNoTask
<1>6. InFlight'
  <2>1. \A o \in DOMAIN batch : o \in Operator
    BY <1>a DEF TasksOK
  <2>2. ASSUME NEW k \in 1..Len(queue), "ok" \in DOMAIN queue[k]
        PROVE  queue[k].op \in Operator
    BY <1>a, <2>2 DEF TasksOK, Message
  <2> QED BY <1>a, <1>b, <1>5, <2>1, <2>2 DEF InFlight
<1>7. BatchOpen' /\ Gone' /\ Unconcluded' /\ NoTask' /\ WatermarkHonest'
  BY <1>a, <1>b DEF BatchOpen, Gone, Unconcluded, NoTask, WatermarkHonest
<1>8. CyclesBounded'
  <2>1. SUFFICES ASSUME NEW o \in ops, caps[o] # NoCap
                 PROVE  runs[o] + (IF running'[o] = Idle THEN 0 ELSE 1) <= caps[o]
    BY <1>b DEF CyclesBounded
  <2>2. o \in Operator /\ caps[o] \in Nat /\ runs[o] \in Nat
    BY <2>1, <1>a DEF FixedOK, WindowsOK
  <2>3. CASE o \in Launched
    BY <2>1, <2>2, <2>3, LaunchedIdle DEF is_tripped
  <2>4. CASE o \notin Launched
    BY <2>1, <2>2, <2>4, <1>a, <1>b DEF CyclesBounded
  <2> QED BY <2>3, <2>4
<1>9. QuiescentUpToDate'
  <2>1. SUFFICES ASSUME pc' = "quiescent" PROVE QuiescentUpToDate'
    BY DEF QuiescentUpToDate
  <2>2. /\ \A o \in Operator : running'[o] = Idle
        /\ Held = {}
    BY <2>1, <1>b
  <2>3. Launched = {}
    <3>1. Launched \subseteq Operator
      BY <1>a, LaunchedIdle DEF FixedOK
    <3> QED BY <2>2, <1>b, <1>1, <3>1
  <2>4. running' = running
    BY <2>3, <1>a, <1>b DEF TasksOK
  <2>5. abandoned' = abandoned \cup {o \in Operator : failed_attempts[o] > 0}
    BY <1>b, <2>1
  <2>6. Present(entries)' = Present(entries)
    BY <1>b DEF Present
  <2>7. Considered' = Considered
    BY <1>b, <2>4 DEF Considered, is_tripped
  <2>8. Ready' = Ready
    BY <1>b, <2>6, <2>7 DEF Ready, is_ready, Satisfied
  <2>9. not_yet_run' = not_yet_run
    BY <1>b, <2>7 DEF not_yet_run, Ran
  <2>10. \A o : Relevant(o, covered[o])' = Relevant(o, covered[o])
    BY <1>b DEF Relevant
  <2>11. reachable_pending(flow, not_yet_run, Present(entries), available)' =
         reachable_pending(flow, not_yet_run, Present(entries), available)
    BY <1>b, <2>6, <2>9
  <2>12. \A o \in Ready \ abandoned' : failed_attempts[o] = 0
    BY <2>5, <1>a DEF Ready, Considered, FixedOK, WindowsOK
  <2>13. flow' = flow /\ watermark' = watermark
    BY <1>b
  <2> QED BY <2>2, <2>3, <2>8, <2>10, <2>11, <2>12, <2>13, NothingLeft
             DEF QuiescentUpToDate
<1> QED BY <1>4, <1>6, <1>7, <1>8, <1>9 DEF GatherInv
-----------------------------------------------------------------------------
(* The operator tasks.                                                     *)

\* A task that is running puts a message: a completion only as it is done.
LEMMA TaskStep ==
    ASSUME GatherInv, NEW o \in Operator, running[o].stage = "run",
           NEW m \in Message, Len(queue) < QueueSize, queue' = Append(queue, m),
           NEW t \in TaskType, running' = [running EXCEPT ![o] = t],
           "ok" \in DOMAIN m => m.op = o /\ t \in Done,
           UNCHANGED <<fixed, storeVars, pc, batch, runVars, retries, debounce,
                       prev_caps, capVars, envVars, history>>
    PROVE  GatherInv'
<1> USE DEF fixed, storeVars, runVars, capVars, envVars, history
<1>a. /\ FixedOK /\ StoreOK /\ TasksOK /\ WindowsOK /\ CapsOK /\ EnvOK /\ pc \in PC
      /\ InFlight /\ WatermarkHonest /\ CyclesBounded /\ Unconcluded /\ BatchOpen
      /\ Gone /\ NoTask
  BY DEF GatherInv, Shapes
<1>1. running[o] # Idle /\ running[o] \notin Done
  BY IdleIsNoTask DEF Done
<1>2. pc \notin {"down", "parked", "quiescent"}
  BY <1>1, <1>a DEF Gone, NoTask
<1>3. /\ running' \in [Operator -> TaskType \cup {Idle}]
      /\ running'[o] = t
      /\ \A p \in Operator \ {o} : running'[p] = running[p]
  BY <1>a DEF TasksOK
<1>4. /\ queue' \in Seq(Message) /\ Len(queue') = Len(queue) + 1
      /\ \A k \in 1..Len(queue) : queue'[k] = queue[k]
      /\ queue'[Len(queue) + 1] = m
  BY <1>a DEF TasksOK
<1>5. TasksOK'
  BY <1>a, <1>3, <1>4, Consts DEF TasksOK
<1>6. Shapes'
  BY <1>a, <1>5 DEF Shapes, FixedOK, StoreOK, WindowsOK, CapsOK, EnvOK, PC
<1>7. InFlight'
  <2>1. o \notin DOMAIN batch
    BY <1>1, <1>a DEF InFlight
  <2>2. \A p \in DOMAIN batch : running'[p] \in Done
    BY <2>1, <1>3, <1>a DEF InFlight, TasksOK
  <2>3. ASSUME NEW k \in 1..Len(queue'), "ok" \in DOMAIN queue'[k]
        PROVE  running'[queue'[k].op] \in Done /\ queue'[k].op \notin DOMAIN batch
    <3>0. Len(queue) \in Nat
      BY <1>a DEF TasksOK
    <3>1. CASE k = Len(queue) + 1
      BY <3>1, <1>3, <1>4, <2>1, <2>3
    <3>2. CASE k \in 1..Len(queue)
      <4>1. queue[k].op \in Operator
        BY <3>2, <1>4, <2>3, <1>a DEF TasksOK, Message
      <4>2. running[queue[k].op] \in Done /\ queue[k].op \notin DOMAIN batch
        BY <3>2, <1>4, <2>3, <1>a DEF InFlight
      <4>3. queue[k].op # o
        BY <4>2, <1>1
      <4> QED BY <4>1, <4>2, <4>3, <3>2, <1>3, <1>4
    <3> QED BY <3>0, <3>1, <3>2, <1>4, <2>3
  <2> QED BY <2>2, <2>3 DEF InFlight
<1>8. BatchOpen' /\ Gone' /\ Unconcluded' /\ NoTask' /\ WatermarkHonest'
      /\ QuiescentUpToDate'
  BY <1>a, <1>2 DEF BatchOpen, Gone, Unconcluded, NoTask, WatermarkHonest,
                    QuiescentUpToDate
<1>9. CyclesBounded'
  <2>1. \A p \in Operator : running'[p] = Idle <=> running[p] = Idle
    BY <1>1, <1>3, IdleIsNoTask
  <2> QED BY <2>1, <1>a DEF CyclesBounded, FixedOK
<1> QED BY <1>6, <1>7, <1>8, <1>9 DEF GatherInv

LEMMA EmitStep ==
    ASSUME GatherInv, NEW o \in Operator, Emit(o)
    PROVE  GatherInv'
<1>1. PICK i \in Identity : queue' = Append(queue, Signal(o, i))
  BY DEF Emit
<1>2. running[o] \in TaskType
  BY IdleIsNoTask DEF Emit, GatherInv, Shapes, TasksOK
<1>3. PICK t : t = [running[o] EXCEPT !.emitted = @ + 1]
  OBVIOUS
<1>4. t \in TaskType
  BY SMTT(30), <1>2, <1>3, Consts DEF TaskType, Emit
<1>5. running' = [running EXCEPT ![o] = t]
  BY <1>3 DEF Emit
<1>6. Signal(o, i) \in Message /\ "ok" \notin DOMAIN Signal(o, i)
  BY DEF Signal, Message
<1> QED BY <1>1, <1>4, <1>5, <1>6, TaskStep DEF Emit

LEMMA FinishStep ==
    ASSUME GatherInv, NEW o \in Operator, Finish(o)
    PROVE  GatherInv'
<1>1. PICK ok \in BOOLEAN : Len(queue) < QueueSize /\ queue' = Append(queue, Completed(o, ok))
  BY DEF Finish, put_completed
<1>2. running[o] \in TaskType
  BY IdleIsNoTask DEF Finish, GatherInv, Shapes, TasksOK
<1>3. PICK t : t = [running[o] EXCEPT !.stage = "done"]
  OBVIOUS
<1>4. t \in TaskType /\ t \in Done
  BY <1>2, <1>3 DEF TaskType, Done
<1>5. running' = [running EXCEPT ![o] = t]
  BY <1>3 DEF Finish
<1>6. Completed(o, ok) \in Message /\ Completed(o, ok).op = o
  BY DEF Completed, Message
<1> QED BY <1>1, <1>4, <1>5, <1>6, TaskStep DEF Finish

-----------------------------------------------------------------------------
(* The batch.                                                              *)

LEMMA ConsumeStep ==
    ASSUME GatherInv, ConsumeBatch
    PROVE  GatherInv'
<1> USE DEF fixed, runVars, capVars, envVars, history
<1>a. /\ FixedOK /\ StoreOK /\ TasksOK /\ WindowsOK /\ CapsOK /\ EnvOK
      /\ InFlight /\ WatermarkHonest /\ CyclesBounded /\ Unconcluded
  BY DEF GatherInv, Shapes
<1>1. StoreOK'
  BY <1>a, MergeKeepsTypes DEF ConsumeBatch, StoreOK
<1>2. ASSUME NEW s \in CompletedIn(queue)
      PROVE  s.op \in Operator /\ running[s.op] \in Done
  <2>1. PICK k \in 1..Len(queue) : s = queue[k] /\ "ok" \in DOMAIN queue[k]
    BY <1>a DEF CompletedIn, ToSet, TasksOK
  <2> QED BY <2>1, <1>a DEF InFlight, TasksOK, Message
<1>3. DOMAIN batch' = {s.op : s \in CompletedIn(queue)}
  BY DEF ConsumeBatch
<1>4. TasksOK'
  BY <1>a, <1>2, <1>3, Consts DEF ConsumeBatch, TasksOK
<1>5. Shapes'
  BY <1>a, <1>1, <1>4 DEF ConsumeBatch, Shapes, FixedOK, WindowsOK, CapsOK, EnvOK, PC
<1>6. InFlight'
  BY <1>2, <1>3 DEF ConsumeBatch, InFlight
<1>7. BatchOpen'
  BY <1>3 DEF ConsumeBatch, BatchOpen
<1>8. Gone' /\ Unconcluded' /\ NoTask' /\ WatermarkHonest' /\ CyclesBounded'
      /\ QuiescentUpToDate'
  BY <1>a DEF ConsumeBatch, Gone, Unconcluded, NoTask, WatermarkHonest,
              CyclesBounded, QuiescentUpToDate
<1> QED BY <1>5, <1>6, <1>7, <1>8 DEF GatherInv

LEMMA RecordStep ==
    ASSUME GatherInv, NEW o \in Operator, RecordCompletion(o)
    PROVE  GatherInv'
<1> USE DEF fixed, capVars, envVars
<1>a. /\ FixedOK /\ StoreOK /\ TasksOK /\ WindowsOK /\ CapsOK /\ EnvOK
      /\ InFlight /\ WatermarkHonest /\ CyclesBounded /\ Unconcluded
  BY DEF GatherInv, Shapes
<1> DEFINE count == count_run(o)
<1>b. PICK retrying \in BOOLEAN :
           /\ runs' = [runs EXCEPT ![o] = count]
           /\ failed_attempts' =
                [failed_attempts EXCEPT ![o] = IF retrying THEN @ + 1 ELSE 0]
           /\ retries' = [retries EXCEPT ![o] = IF retrying THEN "armed" ELSE @]
           /\ watermark' = [watermark EXCEPT ![o] = new_watermark(o, retrying)]
           /\ covered' = [covered EXCEPT ![o] =
                            IF ~retrying /\ Since(o) <= @ /\ @ < running[o].observed
                            THEN running[o].observed ELSE @]
           /\ abandoned' = IF retrying THEN abandoned ELSE abandoned \ {o}
  <2> DEFINE r == ~batch[o] /\ maybe_schedule_retry(o, count)
  <2>1. r \in BOOLEAN
    OBVIOUS
  <2> QED BY <2>1, Zenon DEF RecordCompletion
<1>c. /\ pc = "record" /\ o \in DOMAIN batch
      /\ running' = [running EXCEPT ![o] = Idle]
      /\ DOMAIN batch' = DOMAIN batch \ {o}
      /\ pc' = IF DOMAIN batch = {o} THEN "top" ELSE "record"
      /\ UNCHANGED <<fixed, entries, revision, queue, debounce, prev_caps, capVars, envVars>>
  BY DEF RecordCompletion
<1>1. running[o] \in Done /\ running[o].observed \in Nat
  BY <1>a, <1>c DEF InFlight, Done, TaskType
<1>2. count \in Nat /\ count > 0
  <2>1. runs[o] \in Nat
    BY <1>a DEF WindowsOK
  <2>2. caps[o] # NoCap => caps[o] \in Nat
    BY <1>a DEF FixedOK
  <2> QED BY <2>1, <2>2, <1>b DEF count_run
<1>3. Since(o) \in Nat /\ Since(o) <= covered[o] /\ covered[o] \in Nat
  BY <1>a, Consts DEF Since, StoreOK, WatermarkHonest
<1>4. StoreOK' /\ WatermarkHonest'
  <2>1. new_watermark(o, retrying) \in Nat \cup {Never}
    BY <1>1, <1>a DEF new_watermark, StoreOK
  <2>2. /\ watermark' \in [Operator -> Nat \cup {Never}]
        /\ covered' \in [Operator -> Nat]
    BY <2>1, <1>1, <1>a, <1>b DEF StoreOK
  <2>3. \A p \in Operator \ {o} : watermark'[p] = watermark[p] /\ covered'[p] = covered[p]
    BY <1>a, <1>b DEF StoreOK
  <2>4. watermark'[o] # Never => watermark'[o] <= covered'[o]
    <3>1. CASE retrying
      BY <3>1, <1>a, <1>b DEF new_watermark, StoreOK, WatermarkHonest
    <3>2. CASE ~retrying
      <4>1. watermark'[o] = running[o].observed
        BY <3>2, <1>a, <1>b DEF new_watermark, StoreOK
      <4>2. covered'[o] = IF covered[o] < running[o].observed
                          THEN running[o].observed ELSE covered[o]
        BY <3>2, <1>3, <1>a, <1>b DEF StoreOK
      <4> QED BY <4>1, <4>2, <1>1, <1>3
    <3> QED BY <3>1, <3>2
  <2>5. WatermarkHonest'
    BY <2>3, <2>4, <1>a DEF WatermarkHonest
  <2> QED BY <2>2, <2>5, <1>a, <1>c DEF StoreOK
<1>5. TasksOK' /\ WindowsOK'
  <2>1. TasksOK'
    BY <1>a, <1>c DEF TasksOK
  <2>2. /\ runs' \in [Operator -> Nat] /\ failed_attempts' \in [Operator -> Nat]
    BY <1>a, <1>b, <1>2 DEF WindowsOK
  <2>3. retries' \in [Operator -> Window] /\ debounce' \in [Operator -> Window]
    BY <1>a, <1>b, <1>c DEF WindowsOK, Window
  <2>4. abandoned' \subseteq Operator
    BY <1>a, <1>b DEF WindowsOK
  <2> QED BY <2>1, <2>2, <2>3, <2>4 DEF WindowsOK
<1>6. Shapes'
  BY <1>a, <1>c, <1>4, <1>5 DEF Shapes, FixedOK, CapsOK, EnvOK, PC
<1>7. \A p \in Operator \ {o} : running'[p] = running[p]
  BY <1>a, <1>c DEF TasksOK
<1>8. InFlight'
  <2>1. \A p \in DOMAIN batch' : running'[p] \in Done
    BY <1>7, <1>a, <1>c DEF InFlight, TasksOK
  <2>2. ASSUME NEW k \in 1..Len(queue), "ok" \in DOMAIN queue[k]
        PROVE  running'[queue[k].op] \in Done /\ queue[k].op \notin DOMAIN batch'
    <3>1. queue[k].op \in Operator
      BY <2>2, <1>a DEF TasksOK, Message
    <3>2. running[queue[k].op] \in Done /\ queue[k].op \notin DOMAIN batch
      BY <2>2, <1>a DEF InFlight
    <3> QED BY <3>1, <3>2, <1>7, <1>c
  <2> QED BY <2>1, <2>2, <1>c DEF InFlight
<1>9. BatchOpen' /\ Gone' /\ NoTask' /\ QuiescentUpToDate'
  BY <1>c DEF BatchOpen, Gone, NoTask, QuiescentUpToDate
<1>10. Unconcluded'
  <2>1. \A p \in Operator \ {o} : /\ runs'[p] = runs[p]
                                    /\ watermark'[p] = watermark[p]
                                    /\ failed_attempts'[p] = failed_attempts[p]
    BY <1>a, <1>b DEF StoreOK, WindowsOK
  <2>2. watermark'[o] = Never => failed_attempts'[o] > 0
    <3>1. CASE retrying
      BY <3>1, <1>a, <1>b DEF WindowsOK
    <3>2. CASE ~retrying
      BY <3>2, <1>a, <1>b, <1>1, Consts DEF new_watermark, StoreOK
    <3> QED BY <3>1, <3>2
  <2> QED BY <2>1, <2>2, <1>a DEF Unconcluded
<1>11. CyclesBounded'
  <2>1. SUFFICES ASSUME NEW p \in ops, caps[p] # NoCap
                 PROVE  runs'[p] + (IF running'[p] = Idle THEN 0 ELSE 1) <= caps[p]
    BY <1>c DEF CyclesBounded
  <2>2. p \in Operator /\ caps[p] \in Nat /\ runs[p] \in Nat
    BY <2>1, <1>a DEF FixedOK, WindowsOK
  <2>3. CASE p = o
    <3>1. runs[p] + 1 <= caps[p]
      BY <2>1, <2>3, <1>1, <1>a, IdleIsNoTask DEF CyclesBounded
    <3>2. runs'[p] = runs[p] + 1
      BY <2>1, <2>2, <2>3, <3>1, <1>a, <1>b DEF count_run, WindowsOK
    <3>3. running'[p] = Idle
      BY <2>3, <1>a, <1>c DEF TasksOK
    <3> QED BY <3>1, <3>2, <3>3, <2>2
  <2>4. CASE p # o
    BY <2>1, <2>2, <2>4, <1>a, <1>b, <1>7 DEF CyclesBounded, WindowsOK
  <2> QED BY <2>3, <2>4
<1> QED BY <1>4, <1>6, <1>8, <1>9, <1>10, <1>11 DEF GatherInv
-----------------------------------------------------------------------------
(* Out of the loop and back.                                               *)

LEMMA ForgetStep ==
    ASSUME GatherInv, Park \/ Crash
    PROVE  GatherInv'
<1> USE DEF fixed, storeVars, envVars
<1>a. /\ FixedOK /\ StoreOK /\ EnvOK /\ WatermarkHonest
  BY DEF GatherInv, Shapes
<1>b. /\ Forget /\ pc' \in {"parked", "down"}
      /\ UNCHANGED <<fixed, storeVars, inbox, permitted, covered>>
  BY DEF Park, Crash
<1>1. DOMAIN batch' = {} /\ queue' = <<>>
  BY <1>b DEF Forget, NoBatch
<1>2. TasksOK'
  BY <1>b, <1>1, Consts DEF Forget, TasksOK
<1>3. WindowsOK'
  BY <1>b DEF Forget, WindowsOK, Window
<1>4. CapsOK'
  BY <1>b, Consts DEF Forget, CapsOK
<1>5. Shapes'
  BY <1>a, <1>b, <1>2, <1>3, <1>4 DEF Shapes, FixedOK, StoreOK, EnvOK, PC
<1>6. InFlight' /\ BatchOpen'
  BY <1>1 DEF InFlight, BatchOpen
<1>7. \A o \in Operator : running'[o] = Idle /\ runs'[o] = 0
  BY <1>b DEF Forget
<1>8. Gone' /\ Unconcluded' /\ NoTask' /\ QuiescentUpToDate' /\ WatermarkHonest'
  BY <1>a, <1>b, <1>7 DEF Gone, Unconcluded, NoTask, QuiescentUpToDate, WatermarkHonest
<1>9. CyclesBounded'
  BY <1>a, <1>b, <1>7 DEF CyclesBounded, FixedOK
<1> QED BY <1>5, <1>6, <1>8, <1>9 DEF GatherInv

LEMMA DrainStep ==
    ASSUME GatherInv, DrainRemaining
    PROVE  GatherInv'
<1> USE DEF fixed, runVars, capVars, envVars
<1>a. /\ FixedOK /\ StoreOK /\ TasksOK /\ WindowsOK /\ CapsOK /\ EnvOK
      /\ WatermarkHonest /\ CyclesBounded /\ Unconcluded /\ BatchOpen
  BY DEF GatherInv, Shapes
<1>1. StoreOK'
  BY <1>a, MergeKeepsTypes DEF DrainRemaining, StoreOK
<1>2. DOMAIN batch' = {} /\ queue' = <<>>
  BY <1>a DEF DrainRemaining, BatchOpen
<1>3. TasksOK'
  BY <1>2, Consts DEF DrainRemaining, TasksOK
<1>4. Shapes'
  BY <1>a, <1>1, <1>3
     DEF DrainRemaining, Shapes, FixedOK, WindowsOK, CapsOK, EnvOK, PC, Ended
<1>5. InFlight' /\ BatchOpen'
  BY <1>2 DEF InFlight, BatchOpen
<1>6. Gone' /\ Unconcluded' /\ NoTask' /\ WatermarkHonest' /\ QuiescentUpToDate'
  BY <1>a DEF DrainRemaining, Gone, Unconcluded, NoTask, WatermarkHonest, QuiescentUpToDate
<1>7. CyclesBounded'
  <2>1. \A o \in ops : o \in Operator /\ runs[o] \in Nat /\ running'[o] = Idle
                       /\ (caps[o] # NoCap => caps[o] \in Nat)
    BY <1>a DEF DrainRemaining, FixedOK, WindowsOK
  <2> QED BY <2>1, <1>a DEF DrainRemaining, CyclesBounded
<1> QED BY <1>4, <1>5, <1>6, <1>7 DEF GatherInv

\* What a run is permitted to gather with, and the caps the breaker gives it.
LEMMA FixedFits ==
    ASSUME NEW f \in Flows, NEW os, os \in {allowed \cap gathering(f) : allowed \in f.permits}
    PROVE  /\ os \subseteq Operator /\ os \subseteq gathering(f)
           /\ build_circuit_breaker(f, os) \in [Operator -> Nat \cup {NoCap}]
<1>1. /\ f.permits \in SUBSET (SUBSET Operator)
      /\ f.max_cycles \in [Operator -> Nat \cup {NoCap}]
  BY Consts DEF FlowType
<1> QED BY <1>1 DEF build_circuit_breaker

LEMMA ResumeStep ==
    ASSUME GatherInv, Resume
    PROVE  GatherInv'
<1> USE DEF storeVars, taskVars, runVars, capVars, envVars, history
<1>a. /\ FixedOK /\ StoreOK /\ TasksOK /\ WindowsOK /\ CapsOK /\ EnvOK
      /\ InFlight /\ WatermarkHonest /\ Unconcluded /\ BatchOpen /\ Gone
  BY DEF GatherInv, Shapes
<1>1. FixedOK'
  <2>1. flow \in Flows /\ flow' = flow
    BY <1>a DEF Resume, FixedOK
  <2>2. ops' \in {allowed \cap gathering(flow) : allowed \in flow.permits}
    BY DEF Resume, permitted_operators
  <2>3. caps' = build_circuit_breaker(flow, ops')
    BY DEF Resume
  <2> QED BY <2>1, <2>2, <2>3, FixedFits DEF FixedOK
<1>2. Shapes'
  BY <1>a, <1>1 DEF Resume, Shapes, StoreOK, TasksOK, WindowsOK, CapsOK, EnvOK, PC
<1>3. InFlight'
  BY <1>a DEF Resume, InFlight
<1>4. BatchOpen' /\ Gone' /\ Unconcluded' /\ NoTask' /\ WatermarkHonest' /\ QuiescentUpToDate'
  BY <1>a DEF Resume, BatchOpen, Gone, Unconcluded, NoTask, WatermarkHonest, QuiescentUpToDate
<1>5. CyclesBounded'
  <2>1. \A o \in Operator : running'[o] = Idle /\ runs'[o] = 0
    BY <1>a DEF Resume, Gone
  <2> QED BY <2>1, <1>1 DEF CyclesBounded, FixedOK
<1> QED BY <1>2, <1>3, <1>4, <1>5 DEF GatherInv

LEMMA GatherInit ==
    ASSUME Init
    PROVE  GatherInv
<1>1. FixedOK
  <2>1. flow \in Flows
    BY DEF Init
  <2>2. ops \in {allowed \cap gathering(flow) : allowed \in flow.permits}
    BY DEF Init, permitted_operators
  <2> QED BY <2>1, <2>2, FixedFits DEF Init, FixedOK
<1>2. StoreOK
  <2>1. PICK none : none = [i \in Identity |-> Absent]
    OBVIOUS
  <2>2. /\ entries = [i \in Identity |->
               IF i \in {j \in Seed : none[j] = Absent}
               THEN [added |-> 0 + 1, updated |-> 0 + 1]
               ELSE IF i \in {} THEN [none[i] EXCEPT !.updated = 0 + 1]
               ELSE none[i]]
        /\ revision = IF {j \in Seed : none[j] = Absent} \cup {} = {} THEN 0 ELSE 0 + 1
    BY <2>1 DEF Init, merge
  <2>3. entries \in [Identity -> [added: Nat, updated: Nat]] /\ revision \in Nat
    BY <2>1, <2>2 DEF Absent
  <2> QED BY <2>3 DEF Init, StoreOK
<1>3. DOMAIN batch = {} /\ queue = <<>>
  BY DEF Init, NoBatch
<1>4. Shapes
  <2>1. TasksOK
    BY <1>3, Consts DEF Init, TasksOK
  <2>2. WindowsOK
    BY DEF Init, WindowsOK, Window
  <2>3. CapsOK
    BY Consts DEF Init, CapsOK
  <2>4. EnvOK
    BY Consts DEF Init, EnvOK
  <2> QED BY <1>1, <1>2, <2>1, <2>2, <2>3, <2>4 DEF Init, Shapes, PC
<1>5. InFlight /\ BatchOpen
  BY <1>3 DEF InFlight, BatchOpen
<1>6. Gone /\ Unconcluded /\ NoTask /\ WatermarkHonest /\ QuiescentUpToDate
  BY DEF Init, Gone, Unconcluded, NoTask, WatermarkHonest, QuiescentUpToDate
<1>7. CyclesBounded
  BY <1>1 DEF Init, CyclesBounded, FixedOK
<1> QED BY <1>4, <1>5, <1>6, <1>7 DEF GatherInv

LEMMA GatherNext ==
    ASSUME GatherInv, [Next]_vars
    PROVE  GatherInv'
BY WaitsAndWindows, Surroundings, RefreshStep, PlanStep, EmitStep, FinishStep,
   ConsumeStep, RecordStep, ForgetStep, DrainStep, ResumeStep DEF Next, LoopStep

\* The loop's steps keep the inductive invariant.
LEMMA GatherInvariant == Spec => []GatherInv
<1>1. Init => GatherInv
  BY GatherInit
<1>2. GatherInv /\ [Next]_vars => GatherInv'
  BY GatherNext
<1> QED BY <1>1, <1>2, PTL DEF Spec

-----------------------------------------------------------------------------
(* The theorems.                                                           *)

\* Every variable of the loop keeps its type: in particular the emission queue
\* never exceeds emission_queue_size, completions included, and an activation
\* is not attempted past max_attempts.
THEOREM GatherTypeCorrect == Spec => []TypeOK
<1>1. GatherInv => TypeOK
  <2>1. SUFFICES ASSUME GatherInv PROVE TypeOK
    OBVIOUS
  <2>2. \A o \in Operator : running[o] = Idle \/ running[o] \in TaskType
    BY <2>1 DEF GatherInv, Shapes, TasksOK
  <2> QED BY <2>1, <2>2 DEF GatherInv, Shapes, FixedOK, StoreOK, TasksOK,
             WindowsOK, CapsOK, EnvOK, PC, TypeOK
<1> QED BY <1>1, GatherInvariant, PTL

\* A watermark never passes over a change no concluded run was shown, through
\* retries, crashes, parks and resumes (_record_completion).
THEOREM WatermarkNeverSkips == Spec => []WatermarkHonest
<1>1. GatherInv => WatermarkHonest
  BY DEF GatherInv
<1> QED BY <1>1, GatherInvariant, PTL

\* The circuit breaker holds: an operator on a cycle has never more than
\* max_cycles runs in one process, retries and the run in flight included
\* (build_circuit_breaker, is_tripped, _maybe_schedule_retry).
THEOREM CircuitBreakerHolds == Spec => []CyclesBounded
<1>1. GatherInv => CyclesBounded
  BY DEF GatherInv
<1> QED BY <1>1, GatherInvariant, PTL

\* When gathering goes quiescent nothing that is ready was left undone, and
\* nothing pending could still become ready (_plan, _gather).
THEOREM QuiescenceIsComplete == Spec => []QuiescentUpToDate
<1>1. GatherInv => QuiescentUpToDate
  BY DEF GatherInv
<1> QED BY <1>1, GatherInvariant, PTL

\* In a flow whose capabilities wait for no data, pruning to what the
\* aggregators consume never keeps a kept operator from running
\* (reachability.py, backward_reachable).
THEOREM DataPruningSound == Spec => []DataPruningLossless
<1>1. GatherInv => DataPruningLossless
  <2>1. SUFFICES ASSUME GatherInv, \A c \in flow.capabilities : flow.depends_on[c] = {}
                 PROVE  PruningLossless
    BY DEF DataPruningLossless
  <2>2. flow.interim \subseteq flow.aggregators /\ not_yet_run \subseteq gathering(flow)
    BY <2>1, Consts DEF GatherInv, Shapes, FixedOK, not_yet_run, Considered
  <2>3. PICK seeded : seeded = {TypeOf[i] : i \in Seed}
    OBVIOUS
  <2>4. ASSUME NEW x \in not_yet_run,
               x \in Runnable(flow, Unpruned(flow), seeded, flow.capabilities)
        PROVE  x \in Runnable(flow, gathering(flow), seeded, flow.capabilities)
    BY <2>1, <2>2, <2>4, PruningLosesNoRun
  <2> QED BY <2>3, <2>4 DEF PruningLossless
<1> QED BY <1>1, GatherInvariant, PTL
=============================================================================
