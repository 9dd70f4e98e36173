------------------------------- MODULE Inbox --------------------------------
(***************************************************************************)
(* The session inbox as the Redis adapter keeps it (orcastork/adapters/    *)
(* redis/inbox.py; adapters/memory/inbox.py is the same in one process)    *)
(* and the drain the orchestrator runs over it on every gathering pass     *)
(* (orchestrator.py _drain_inbox): at-least-once delivery, an ack only     *)
(* after the DataPoint is durable, poison and unappliable entries set      *)
(* aside, and between passes the wait for a wakeup, which is subscribed to *)
(* before the pending entries are counted.  Epoch e is the run that holds  *)
(* it; a predecessor may still be draining while its successor drains.     *)
(***************************************************************************)
EXTENDS Naturals, FiniteSets

CONSTANTS Entry,            \* inbox entries
          MaxEpoch,         \* runs of the session; the last one survives
          max_inbox_deliveries

ASSUME InboxAssumption ==
    /\ MaxEpoch \in Nat \ {0}
    /\ max_inbox_deliveries \in Nat \ {0}

Epoch == 1..MaxEpoch

\* good: appliable; bad: parses, but the store refuses it every time;
\* poison: not JSON; alien: JSON that parse_data_point rejects.
Kind == {"good", "bad", "poison", "alien"}

VARIABLES kind,         \* entry -> its kind, "none" before it is appended
          messages,     \* entry -> [count, claimed], for undisposed entries
          quarantined,  \* entry -> quarantine records written for it
          inbox_epoch,  \* the inbox's fence
          applied,      \* entries whose DataPoint is durable in the store
          store_epoch,  \* the store's fence
          minted,       \* the lock's epoch counter
          unpublished,  \* entries whose appender has yet to publish
          orphaned,     \* some appender died before it published
          run,          \* epoch -> [pc, work, cur, total, heard]
          ownFailures   \* history: entries whose own apply failed

inboxVars == <<kind, messages, quarantined, inbox_epoch>>
wakeupVars == <<unpublished, orphaned>>
vars == <<inboxVars, wakeupVars, applied, store_epoch, minted, run, ownFailures>>

NoWork == [i \in {} |-> 0]
\* "idle" drains next, "rest" waits next.
Idle == [pc |-> "idle", work |-> NoWork, cur |-> {}, total |-> 0, heard |-> FALSE]
With(pc, work, cur) == [Idle EXCEPT !.pc = pc, !.work = work, !.cur = cur]

TypeOK ==
    /\ kind \in [Entry -> Kind \cup {"none"}]
    /\ DOMAIN messages \subseteq {i \in Entry : kind[i] # "none"}
    /\ \A i \in DOMAIN messages : /\ messages[i].claimed \in BOOLEAN
                                  /\ messages[i].claimed <=> messages[i].count > 0
    /\ quarantined \in [Entry -> 0..1]
    /\ minted \in 0..MaxEpoch
    /\ inbox_epoch \in 0..minted /\ store_epoch \in 0..minted
    /\ applied \subseteq Entry /\ ownFailures \subseteq Entry
    /\ unpublished \subseteq {i \in Entry : kind[i] # "none"} /\ orphaned \in BOOLEAN
    /\ \A e \in Epoch :
         /\ run[e].pc \in {"none", "idle", "consume", "poison", "batch", "acks",
                           "each", "ack", "quarantine", "rest", "subscribed",
                           "counted", "waiting", "ended"}
         /\ DOMAIN run[e].work \subseteq Entry
         /\ run[e].cur \subseteq Entry /\ Cardinality(run[e].cur) <= 1

Init ==
    /\ kind = [i \in Entry |-> "none"]
    /\ messages = NoWork
    /\ quarantined = [i \in Entry |-> 0]
    /\ inbox_epoch = 0
    /\ applied = {}
    /\ store_epoch = 0
    /\ minted = 0
    /\ run = [e \in Epoch |-> [Idle EXCEPT !.pc = "none"]]
    /\ ownFailures = {}
    /\ unpublished = {} /\ orphaned = FALSE

Drop(f, i) == [j \in DOMAIN f \ {i} |-> f[j]]

\* pending_count: everything that is neither acked nor quarantined.
Pending == DOMAIN messages

-----------------------------------------------------------------------------
(* The inbox.                                                              *)

\* deliver's append, by any producer, at any time: the XADD.
Append(i, k) ==
    /\ kind[i] = "none"
    /\ kind' = [kind EXCEPT ![i] = k]
    /\ unpublished' = unpublished \cup {i}
    /\ messages' = [j \in Pending \cup {i} |->
                      IF j = i THEN [count |-> 0, claimed |-> FALSE] ELSE messages[j]]
    /\ UNCHANGED <<quarantined, inbox_epoch, applied, store_epoch, minted, run,
                   ownFailures, orphaned>>

\* Mutant: the subscription is taken out after the count.
hears_when_waiting(pc) == pc = "waiting"

\* A waiter is subscribed from before it counts until it returns.
hears(pc) == pc \in {"subscribed", "counted", "waiting"}

\* The PUBLISH that follows the XADD.
Publish(i) ==
    /\ i \in unpublished
    /\ unpublished' = unpublished \ {i}
    /\ run' = [e \in Epoch |-> [run[e] EXCEPT !.heard = @ \/ hears(run[e].pc)]]
    /\ UNCHANGED <<inboxVars, orphaned, applied, store_epoch, minted, ownFailures>>

AppenderDies(i) ==
    /\ i \in unpublished
    /\ unpublished' = unpublished \ {i}
    /\ orphaned' = TRUE
    /\ UNCHANGED <<inboxVars, applied, store_epoch, minted, run, ownFailures>>

\* Mutant: a reclaim that re-presents nothing.
never_reclaimed(claimed) == {i \in Pending : ~claimed /\ ~messages[i].claimed}

\* The entries a reclaim (claimed = TRUE) or a consume (FALSE) delivers.
Deliverable(claimed) == {i \in Pending : messages[i].claimed = claimed}

\* Mutant: a delivery that does not claim.
delivered_unclaimed(S) ==
    [i \in Pending |-> IF i \in S
                       THEN [messages[i] EXCEPT !.count = @ + 1]
                       ELSE messages[i]]

Delivered(S) ==
    [i \in Pending |-> IF i \in S
                       THEN [count |-> messages[i].count + 1, claimed |-> TRUE]
                       ELSE messages[i]]

\* ack and quarantine remove a delivered entry; otherwise they are no-ops.
removed(i) ==
    IF i \in Pending /\ messages[i].claimed THEN Drop(messages, i) ELSE messages

\* The record is pushed iff the entry was removed.
recorded(i) ==
    IF i \in Pending /\ messages[i].claimed
    THEN [quarantined EXCEPT ![i] = @ + 1] ELSE quarantined

-----------------------------------------------------------------------------
(* The drain of the run that holds epoch e.                                *)

InboxAccepts(e) == e >= inbox_epoch
StoreAccepts(e) == e >= store_epoch

Go(e, pc) == run' = [run EXCEPT ![e].pc = pc]
End(e) == run' = [run EXCEPT ![e] = [Idle EXCEPT !.pc = "ended"]]

\* Where the drain goes with the work it has left.
NextStage(work) ==
    IF \E i \in DOMAIN work : kind[i] = "poison" THEN "poison"
    ELSE IF Cardinality(DOMAIN work) > 1 THEN "batch"
    ELSE IF Cardinality(DOMAIN work) = 1 THEN "each" ELSE "rest"

Grant ==
    /\ minted < MaxEpoch
    /\ minted' = minted + 1
    /\ run' = [run EXCEPT ![minted + 1] = Idle]
    /\ UNCHANGED <<inboxVars, wakeupVars, applied, store_epoch, ownFailures>>

\* Delivering parses every entry; an alien one raises out of the drain and
\* of the run, its batch-mates claimed and their counts spent.
Reclaim(e) ==
    LET S == Deliverable(TRUE)
    IN  /\ run[e].pc = "idle"
        /\ messages' = Delivered(S)
        /\ IF \E i \in S : kind[i] = "alien" THEN End(e)
           ELSE run' = [run EXCEPT ![e] =
                   With("consume", [i \in S |-> messages[i].count + 1], {})]
        /\ UNCHANGED <<wakeupVars, kind, quarantined, inbox_epoch, applied, store_epoch,
                       minted, ownFailures>>

Consume(e) ==
    LET S == Deliverable(FALSE)
        all == [i \in DOMAIN run[e].work \cup S |->
                  IF i \in S THEN messages[i].count + 1 ELSE run[e].work[i]]
    IN  /\ run[e].pc = "consume"
        /\ messages' = Delivered(S)
        /\ IF \E i \in S : kind[i] = "alien" THEN End(e)
           ELSE run' = [run EXCEPT ![e] =
                   With(NextStage(all), all, {})]
        /\ UNCHANGED <<wakeupVars, kind, quarantined, inbox_epoch, applied, store_epoch,
                       minted, ownFailures>>

\* quarantine, fenced by the inbox: a stale epoch ends the run.
QuarantineEntry(e, i, rest, stage) ==
    /\ IF InboxAccepts(e)
       THEN /\ inbox_epoch' = e
            /\ messages' = removed(i)
            /\ quarantined' = recorded(i)
            /\ run' = [run EXCEPT ![e] = With(stage, rest, {})]
       ELSE End(e) /\ UNCHANGED <<messages, quarantined, inbox_epoch>>
    /\ UNCHANGED <<wakeupVars, kind, applied, store_epoch, minted, ownFailures>>

\* Mutant: whatever was delivered with a poison entry is poison.
whole_batch_is_poison(i) == TRUE

is_poison(i) == kind[i] = "poison"

\* Poison is quarantined on first sight.
QuarantinePoison(e) ==
    /\ run[e].pc = "poison"
    /\ \E i \in DOMAIN run[e].work :
         /\ is_poison(i)
         /\ LET rest == Drop(run[e].work, i)
            IN  QuarantineEntry(e, i, rest, NextStage(rest))

\* The whole batch in one store write.
ApplyBatch(e) ==
    /\ run[e].pc = "batch"
    /\ \A i \in DOMAIN run[e].work : kind[i] = "good"
    /\ IF StoreAccepts(e)
       THEN /\ store_epoch' = e
            /\ applied' = applied \cup DOMAIN run[e].work
            /\ Go(e, "acks")
       ELSE End(e) /\ UNCHANGED <<store_epoch, applied>>
    /\ UNCHANGED <<inboxVars, wakeupVars, minted, ownFailures>>

\* Mutant: a failed batch goes on to the acks.
after_failed_batch_ack == "acks"

after_failed_batch == "each"

\* The batch fails as a unit (a bad entry in it, or a transient fault):
\* nothing lands, and every entry is tried on its own.
BatchFails(e) ==
    /\ run[e].pc = "batch"
    /\ Go(e, after_failed_batch)
    /\ UNCHANGED <<inboxVars, wakeupVars, applied, store_epoch, minted, ownFailures>>

\* ack, fenced by the inbox.
AckEntry(e, i, rest, stage) ==
    /\ IF InboxAccepts(e)
       THEN /\ inbox_epoch' = e
            /\ messages' = removed(i)
            /\ run' = [run EXCEPT ![e] =
                         With(IF rest = NoWork THEN "rest" ELSE stage, rest, {})]
       ELSE End(e) /\ UNCHANGED <<messages, inbox_epoch>>
    /\ UNCHANGED <<wakeupVars, kind, quarantined, applied, store_epoch, minted, ownFailures>>

AckBatch(e) ==
    /\ run[e].pc = "acks"
    /\ \E i \in DOMAIN run[e].work : AckEntry(e, i, Drop(run[e].work, i), "acks")

\* _apply_inbox_entry: one entry, applied and then acked.
ApplyEach(e) ==
    /\ run[e].pc = "each"
    /\ \E i \in DOMAIN run[e].work :
         /\ kind[i] = "good"
         /\ IF StoreAccepts(e)
            THEN /\ store_epoch' = e
                 /\ applied' = applied \cup {i}
                 /\ run' = [run EXCEPT ![e].pc = "ack", ![e].cur = {i}]
            ELSE End(e) /\ UNCHANGED <<store_epoch, applied>>
    /\ UNCHANGED <<inboxVars, wakeupVars, minted, ownFailures>>

AckEach(e) ==
    /\ run[e].pc = "ack"
    /\ \E i \in run[e].cur : AckEntry(e, i, Drop(run[e].work, i), "each")

\* The apply of one entry fails: up to the cap it is left for redelivery.
EachFails(e) ==
    /\ run[e].pc = "each"
    /\ \E i \in DOMAIN run[e].work :
         LET rest == Drop(run[e].work, i)
         IN  /\ ownFailures' = ownFailures \cup {i}
             /\ run' = [run EXCEPT ![e] =
                  IF run[e].work[i] >= max_inbox_deliveries
                  THEN With("quarantine", run[e].work, {i})
                  ELSE With(IF rest = NoWork THEN "rest" ELSE "each", rest, {})]
    /\ UNCHANGED <<inboxVars, wakeupVars, applied, store_epoch, minted>>

QuarantineCapped(e) ==
    /\ run[e].pc = "quarantine"
    /\ \E i \in run[e].cur :
         LET rest == Drop(run[e].work, i)
         IN  QuarantineEntry(e, i, rest, IF rest = NoWork THEN "rest" ELSE "each")

\* wait_for_entry, of a pass that found nothing more to do: subscribe, count
\* (XLEN, then the acked counter, acks landing between the two), wait.
Subscribe(e) ==
    /\ run[e].pc = "rest"
    /\ run' = [run EXCEPT ![e] = With("subscribed", NoWork, {})]
    /\ UNCHANGED <<inboxVars, wakeupVars, applied, store_epoch, minted, ownFailures>>

XLen == Cardinality({i \in Entry : kind[i] # "none"})
Acked == XLen - Cardinality(Pending)

CountTotal(e) ==
    /\ run[e].pc = "subscribed"
    /\ run' = [run EXCEPT ![e].pc = "counted", ![e].total = XLen]
    /\ UNCHANGED <<inboxVars, wakeupVars, applied, store_epoch, minted, ownFailures>>

CountAcked(e) ==
    /\ run[e].pc = "counted"
    /\ run' = [run EXCEPT ![e] = IF @.total > Acked THEN Idle
                                 ELSE [@ EXCEPT !.pc = "waiting", !.total = 0]]
    /\ UNCHANGED <<inboxVars, wakeupVars, applied, store_epoch, minted, ownFailures>>

Woken(e) ==
    /\ run[e].pc = "waiting" /\ run[e].heard
    /\ run' = [run EXCEPT ![e] = Idle]
    /\ UNCHANGED <<inboxVars, wakeupVars, applied, store_epoch, minted, ownFailures>>

\* Something else starts the next pass: an operator that completes, a window.
OtherSignal(e) ==
    /\ run[e].pc = "rest"
    /\ run' = [run EXCEPT ![e] = Idle]
    /\ UNCHANGED <<inboxVars, wakeupVars, applied, store_epoch, minted, ownFailures>>

\* The run dies, or an inbox call raises out of it: entries stay claimed.
RunEnds(e) ==
    /\ run[e].pc \notin {"none", "ended"}
    /\ e < MaxEpoch
    /\ End(e)
    /\ UNCHANGED <<inboxVars, wakeupVars, applied, store_epoch, minted, ownFailures>>

Drain(e) ==
    \/ Reclaim(e)
    \/ Consume(e)
    \/ QuarantinePoison(e)
    \/ ApplyBatch(e)
    \/ BatchFails(e)
    \/ AckBatch(e)
    \/ ApplyEach(e)
    \/ AckEach(e)
    \/ EachFails(e)
    \/ QuarantineCapped(e)
    \/ Subscribe(e)
    \/ CountTotal(e)
    \/ CountAcked(e)
    \/ Woken(e)

Next ==
    \/ \E i \in Entry, k \in Kind : Append(i, k)
    \/ \E i \in Entry : Publish(i) \/ AppenderDies(i)
    \/ Grant
    \/ \E e \in Epoch : Drain(e) \/ OtherSignal(e) \/ RunEnds(e)

\* A supervisor resumes a session whose run ended, the gathering loop of a
\* live run goes on, and an appender publishes or dies.
Fairness ==
    /\ WF_vars(Grant)
    /\ \A e \in Epoch : WF_vars(Drain(e))
    /\ \A i \in Entry : WF_vars(Publish(i))

Spec == Init /\ [][Next]_vars /\ Fairness

-----------------------------------------------------------------------------
(* Properties.                                                             *)

\* Nothing appended is lost: until its DataPoint is durable or it is on
\* record as quarantined, an entry stays in the inbox, whoever crashes or is
\* fenced between the apply and the ack (orchestrator.py:1327-1330).
NoEntryLost ==
    \A i \in Entry : kind[i] # "none" =>
        i \in Pending \cup applied \/ quarantined[i] > 0

\* No wakeup is missed: while anything is pending, a run that waits has been
\* woken or will be by a publish still to come.  Its count may be short, since an
\* entry that came after XLEN and is acked before the counter is read hides one
\* that was there, but that entry has its own publish, after the subscription.
\* The exception is an appender that died before it published
\* (redis/inbox.py:99-101, 225-237).
NoLostWakeup ==
    \A e \in Epoch : run[e].pc = "waiting" /\ Pending # {} =>
        run[e].heard \/ unpublished # {} \/ orphaned

\* A healthy entry is quarantined only after its own apply failed: sharing a
\* batch with an unappliable one costs it nothing (orchestrator.py:1336-1339).
HealthySurvivesItsBatch ==
    \A i \in Entry :
        kind[i] = "good" /\ quarantined[i] > 0 => i \in ownFailures

\* Everything delivered is settled in the end, unappliable entries included,
\* unless an entry that cannot be parsed blocks the drain, or an appender died
\* before it woke the last run.
EveryEntrySettles ==
    []<>(Pending = {} \/ orphaned \/ \E j \in Pending : kind[j] = "alien")
=============================================================================
