---------------------------- MODULE WriteBehind -----------------------------
(***************************************************************************)
(* What a run writes behind the store, and its tail (orchestrator.py       *)
(* _merge_bookkeeping, _append_coalesced_audits, _flush_write_behind and   *)
(* the end of _run): every merge leaves audit rows or counts and archive   *)
(* rows, a clean end reports the counts, and the buffer is flushed by the  *)
(* loop or, on every other path, by the finally.  A predecessor that lost  *)
(* the lease goes on until something fences it; its flush is not fenced.   *)
(***************************************************************************)
EXTENDS Archive

CONSTANTS Run,
          EpochOf,      \* run -> its fencing epoch
          Batches,      \* the batches a merge may present: sequences of points
          Quiet,        \* points with audits_every_emission = False
          Ephemeral,    \* points that are never archived
          MaxMerges, MaxRedrives, MaxFaults     \* bounds

ASSUME WriteBehindAssumption ==
    /\ EpochOf \in [Run -> Nat \ {0}]
    /\ \A r, q \in Run : r # q => EpochOf[r] # EpochOf[q]
    /\ Batches \subseteq Seq(Point) /\ Quiet \cup Ephemeral \subseteq Point
    /\ MaxMerges \in Nat /\ MaxRedrives \in Nat /\ MaxFaults \in Nat

VARIABLES owner,        \* the run that holds the lock
          store,        \* points merged; store_epoch fences the merges
          store_epoch,
          audit_epoch,  \* max_epoch of the audit log
          trail,        \* run -> merges its audit rows stand for
          task,         \* run -> its locals, see Fresh
          merged,       \* history: run -> points it merged
          absorbed,     \* history: runs that swallowed a bookkeeping failure
          merges, faults

runVars == <<owner, store, store_epoch, audit_epoch, trail, merged, absorbed, merges>>
vars == <<archiveVars, runVars, task, faults>>

Fresh == [pc |-> "none", status |-> "none",
          source |-> "none",    \* of the merge under way: "operator" or "inbox"
          added |-> 0,          \* audit rows it appends
          rows |-> <<>>,        \* archive rows it buffers, numbered by Allocate
          counts |-> 0,         \* the coalesced tally
          parking |-> FALSE,
          page |-> <<>>, after |-> 0,
          backstop |-> FALSE,   \* the flush under way is the finally's
          flushed |-> FALSE, redrives |-> 0]

Ended == {"released", "dead"}
Clean == {"completed", "parked"}

Init ==
    /\ ArchiveInit
    /\ owner = "nobody"
    /\ store = {} /\ store_epoch = 0 /\ audit_epoch = 0
    /\ trail = [r \in Run |-> 0] /\ merged = [r \in Run |-> 0]
    /\ task = [r \in Run |-> Fresh]
    /\ absorbed = {} /\ merges = 0 /\ faults = 0

TypeOK ==
    /\ ArchiveType
    /\ \A r \in Run : /\ task[r].pc \in {"none", "gather", "audit", "allocate", "insert",
                            "coalesce", "park", "find", "commit", "clear", "probe"} \cup Ended
                      /\ trail[r] <= merged[r]
                      /\ task[r].counts <= merged[r] - trail[r]

Becomes(r, t) == task' = [task EXCEPT ![r] = t]

\* The run leaves the loop with a status: the finally flushes unless the loop
\* already has, then releases.
Leave(r, status) ==
    Becomes(r, [Fresh EXCEPT !.pc = IF task[r].flushed THEN "released" ELSE "find",
                             !.status = status, !.backstop = TRUE,
                             !.redrives = task[r].redrives])

\* The first run, or the next one once its predecessor's lease is gone.
Grant(r) ==
    /\ task[r].pc = "none"
    /\ \A q \in Run : EpochOf[q] < EpochOf[r] => task[q].pc # "none"
    /\ owner' = r
    /\ Becomes(r, [task[r] EXCEPT !.pc = "gather"])
    /\ UNCHANGED <<archiveVars, store, store_epoch, audit_epoch, trail, merged, absorbed,
                   merges, faults>>

-----------------------------------------------------------------------------
(* A merge and its bookkeeping.                                            *)

\* The outcomes that get an audit row of their own: added, not re-observed, and
\* of a type that audits every emission.
audited(batch) ==
    Cardinality({i \in 1..Len(batch) : /\ batch[i] \notin store \cup Quiet
                                       /\ \A j \in 1..(i - 1) : batch[j] # batch[i]})

\* The archive rows of a batch; the number of merges so far tells the time.
archive_rows(batch, epoch) ==
    LET kept == Ascending({i \in 1..Len(batch) : batch[i] \notin Ephemeral})
    IN  [i \in DOMAIN kept |-> [sequence |-> 0, point |-> batch[kept[i]],
                                at |-> merges + 1, epoch |-> epoch]]

Merge(r, source, batch) ==
    /\ task[r].pc = "gather" /\ merges < MaxMerges
    /\ IF EpochOf[r] < store_epoch
       THEN Leave(r, "superseded") /\ UNCHANGED <<store, store_epoch, merged, merges>>
       ELSE /\ store' = store \cup {batch[i] : i \in 1..Len(batch)}
            /\ store_epoch' = EpochOf[r]
            /\ merges' = merges + 1
            /\ merged' = [merged EXCEPT ![r] = @ + Len(batch)]
            /\ Becomes(r, [task[r] EXCEPT
                   !.pc = "audit", !.source = source, !.added = audited(batch),
                   !.counts = @ + (Len(batch) - audited(batch)),
                   !.rows = archive_rows(batch, EpochOf[r])])
    /\ UNCHANGED <<archiveVars, owner, audit_epoch, trail, absorbed, faults>>

\* AuditSink.append_many of rows that stand for n merges.  Its fence and its
\* insertion are two round trips, taken as one: only replay reads the log.
append_many(r, n) ==
    /\ audit_epoch' = EpochOf[r]
    /\ trail' = [trail EXCEPT ![r] = @ + n]

fenced_audit(r) == EpochOf[r] < audit_epoch

AppendAudit(r) ==
    /\ task[r].pc = "audit"
    /\ \/ /\ task[r].added > 0 /\ fenced_audit(r)
          /\ Leave(r, "superseded")
          /\ UNCHANGED <<audit_epoch, trail>>
       \/ /\ task[r].added > 0 => ~fenced_audit(r)
          /\ IF task[r].added > 0 THEN append_many(r, task[r].added)
             ELSE UNCHANGED <<audit_epoch, trail>>
          /\ IF task[r].rows = <<>>
             THEN Becomes(r, [task[r] EXCEPT !.pc = "gather", !.source = "none", !.added = 0])
             ELSE Becomes(r, [task[r] EXCEPT !.pc = "allocate", !.added = 0])
    /\ UNCHANGED <<archiveVars, owner, store, store_epoch, merged, absorbed, merges, faults>>

\* A bookkeeping failure ends the run, unless the merge came from the inbox:
\* the entry is in the store and is acked all the same.
BookkeepingRaises(r) ==
    IF task[r].source = "inbox"
    THEN /\ absorbed' = absorbed \cup {r}
         /\ Becomes(r, [task[r] EXCEPT !.pc = "gather", !.source = "none", !.added = 0,
                                        !.rows = <<>>])
    ELSE Leave(r, "failed") /\ UNCHANGED absorbed

Allocate(r) ==
    /\ task[r].pc = "allocate"
    /\ LET rows == task[r].rows IN
       \/ /\ unprotected({rows[i].point : i \in 1..Len(rows)})
          /\ BookkeepingRaises(r)
          /\ UNCHANGED meta
       \/ /\ ~unprotected({rows[i].point : i \in 1..Len(rows)})
          /\ ~admits(EpochOf[r])
          /\ Leave(r, "superseded")
          /\ UNCHANGED <<meta, absorbed>>
       \/ /\ ~unprotected({rows[i].point : i \in 1..Len(rows)})
          /\ admits(EpochOf[r])
          /\ allocate(Len(rows), EpochOf[r])
          /\ Becomes(r, [task[r] EXCEPT
                 !.pc = "insert",
                 !.rows = [i \in 1..Len(rows) |->
                             [rows[i] EXCEPT !.sequence = meta.sequence + i]]])
          /\ UNCHANGED absorbed
    /\ UNCHANGED <<buffer, committed, cipher, landed, late, owner, store, store_epoch,
                   audit_epoch, trail, merged, merges, faults>>

\* How far the flushes under way have come: the cursor, or the page found.
Passed == {task[q].after : q \in Run}
            \cup {Last(task[q].page).sequence : q \in {q \in Run : task[q].page # <<>>}}

Insert(r) ==
    /\ task[r].pc = "insert"
    /\ insert_many({task[r].rows[i] : i \in 1..Len(task[r].rows)}, Passed)
    /\ Becomes(r, [task[r] EXCEPT !.pc = "gather", !.source = "none", !.rows = <<>>])
    /\ UNCHANGED <<meta, committed, cipher, runVars, faults>>

-----------------------------------------------------------------------------
(* The tail.                                                               *)

\* Mutant: a park leaves the counts unreported.
closing_step_unreported(parking) == IF parking THEN "park" ELSE "coalesce"

\* Both clean ends report the coalesced counts first.
closing_step(parking) == "coalesce"

\* Gathering ends: parked, or settled and aggregated.
CloseGather(r) ==
    /\ task[r].pc = "gather"
    /\ \E parking \in BOOLEAN :
         Becomes(r, [task[r] EXCEPT !.pc = closing_step(parking), !.parking = parking])
    /\ UNCHANGED <<archiveVars, runVars, faults>>

\* _append_coalesced_audits: the tally is cleared, then appended.
AppendCoalesced(r) ==
    /\ task[r].pc = "coalesce"
    /\ \/ /\ task[r].counts > 0 /\ fenced_audit(r)
          /\ Leave(r, "superseded")
          /\ UNCHANGED <<audit_epoch, trail>>
       \/ /\ task[r].counts > 0 => ~fenced_audit(r)
          /\ IF task[r].counts > 0 THEN append_many(r, task[r].counts)
             ELSE UNCHANGED <<audit_epoch, trail>>
          /\ Becomes(r, [task[r] EXCEPT !.pc = IF task[r].parking THEN "park" ELSE "find",
                                         !.counts = 0, !.after = 0])
    /\ UNCHANGED <<archiveVars, owner, store, store_epoch, merged, absorbed, merges, faults>>

\* _audit_session_parked, and the return through the finally.
Park(r) ==
    /\ task[r].pc = "park"
    /\ IF fenced_audit(r)
       THEN Leave(r, "superseded") /\ UNCHANGED <<audit_epoch, trail>>
       ELSE append_many(r, 0) /\ Leave(r, "parked")
    /\ UNCHANGED <<archiveVars, owner, store, store_epoch, merged, absorbed, merges, faults>>

FlushFind(r) ==
    /\ task[r].pc = "find"
    /\ LET page == page_after(task[r].after) IN
       \/ page # <<>> /\ Becomes(r, [task[r] EXCEPT !.pc = "commit", !.page = page])
       \/ /\ page = <<>> /\ task[r].backstop
          /\ Becomes(r, [task[r] EXCEPT !.pc = "released", !.after = 0])
       \/ /\ page = <<>> /\ ~task[r].backstop
          /\ Becomes(r, [task[r] EXCEPT !.pc = "probe", !.flushed = TRUE, !.after = 0])
    /\ UNCHANGED <<archiveVars, runVars, faults>>

FlushCommit(r) ==
    /\ task[r].pc = "commit"
    /\ bulk_write(task[r].page)
    /\ Becomes(r, [task[r] EXCEPT !.pc = "clear"])
    /\ UNCHANGED <<meta, buffer, cipher, landed, late, runVars, faults>>

FlushClear(r) ==
    /\ task[r].pc = "clear"
    /\ buffer' = buffer \ cleared(task[r].page)
    /\ Becomes(r, [task[r] EXCEPT !.pc = "find", !.page = <<>>,
                                   !.after = Last(task[r].page).sequence])
    /\ UNCHANGED <<meta, committed, cipher, landed, late, runVars, faults>>

\* The inbox is probed: a late entry re-drives the run on its epoch, with
\* flushed left as it is; else the run marks the session complete.
Probe(r) ==
    /\ task[r].pc = "probe"
    /\ \/ /\ task[r].redrives < MaxRedrives
          /\ Becomes(r, [task[r] EXCEPT !.pc = "gather", !.redrives = @ + 1])
       \/ owner = r /\ Leave(r, "completed")
       \/ owner # r /\ Leave(r, "superseded")
    /\ UNCHANGED <<archiveVars, runVars, faults>>

-----------------------------------------------------------------------------
(* Faults.  A call that fails, times out or dies with its run may have     *)
(* done part of its work: the batches are ordered, so a prefix of it.      *)

PartOfCall(r) ==
    \/ /\ task[r].pc = "insert"
       /\ \E k \in 0..Len(task[r].rows) : insert_many({task[r].rows[i] : i \in 1..k}, Passed)
       /\ UNCHANGED committed
    \/ /\ task[r].pc = "commit"
       /\ \E k \in 0..Len(task[r].page) : bulk_write(SubSeq(task[r].page, 1, k))
       /\ UNCHANGED <<buffer, landed, late>>
    \/ /\ task[r].pc = "clear"
       /\ \E gone \in SUBSET cleared(task[r].page) : buffer' = buffer \ gone
       /\ UNCHANGED <<committed, landed, late>>
    \/ task[r].pc \notin {"insert", "commit", "clear"} /\ UNCHANGED archiveVars

CallFails(r) ==
    /\ task[r].pc \notin {"none", "gather"} \cup Ended
    /\ faults < MaxFaults
    /\ faults' = faults + 1
    /\ PartOfCall(r)
    /\ IF task[r].pc \in {"audit", "allocate", "insert"} THEN BookkeepingRaises(r)
       ELSE /\ UNCHANGED absorbed
            /\ IF task[r].backstop
               THEN Becomes(r, [task[r] EXCEPT !.pc = "released", !.status = "failed",
                                               !.page = <<>>, !.after = 0])
               ELSE Leave(r, "failed")
    /\ UNCHANGED <<meta, cipher, owner, store, store_epoch, audit_epoch, trail, merged, merges>>

Crash(r) ==
    /\ task[r].pc \notin {"none"} \cup Ended
    /\ faults < MaxFaults
    /\ faults' = faults + 1
    /\ PartOfCall(r)
    /\ Becomes(r, [Fresh EXCEPT !.pc = "dead", !.status = "failed"])
    /\ UNCHANGED <<meta, cipher, runVars>>

RunStep(r) ==
    \/ \E source \in {"operator", "inbox"}, batch \in Batches : Merge(r, source, batch)
    \/ AppendAudit(r) \/ Allocate(r) \/ Insert(r)
    \/ CloseGather(r) \/ AppendCoalesced(r) \/ Park(r)
    \/ FlushFind(r) \/ FlushCommit(r) \/ FlushClear(r) \/ Probe(r)

AllDone == (\A r \in Run : task[r].pc \in Ended) /\ UNCHANGED vars

Next ==
    \/ \E r \in Run : Grant(r) \/ RunStep(r) \/ CallFails(r) \/ Crash(r)
    \/ AllDone

Spec == Init /\ [][Next]_vars

-----------------------------------------------------------------------------
(* Properties.                                                             *)

\* What the archive answers is decided by the rows that landed in its buffer,
\* whatever flushes run side by side, stop half way or start over: no row is
\* lost, none counts backwards, and the first observation stands unless a row
\* landed behind a higher number of its point or behind the cursor of a flush
\* (mongo datapoint_archive.py flush, read).
ArchiveFaithful ==
    /\ DOMAIN read = {x.point : x \in landed}
    /\ \A p \in DOMAIN read :
         /\ \A x \in RowsOf(p) : x.at <= read[p].last /\ x.epoch <= read[p].epoch
         /\ \E x \in RowsOf(p) : x.at = read[p].last
         /\ \E x \in RowsOf(p) : x.epoch = read[p].epoch
         /\ p \notin late => \E x \in RowsOf(p) :
                x.at = read[p].first /\ \A y \in RowsOf(p) : x.sequence <= y.sequence

\* A run that ends cleanly has accounted for every merge in the audit trail,
\* rows and coalesced counts together, and has left none of its archive rows in
\* the buffer: unless it swallowed a failure of an inbox entry's bookkeeping, or
\* parked after a re-drive, when flushed still stands for the earlier pass
\* (orchestrator.py:375, 396-398, 458).
CleanEndAccounted ==
    \A r \in Run : task[r].pc = "released" /\ task[r].status \in Clean =>
        /\ r \in absorbed \/ trail[r] = merged[r]
        /\ \/ task[r].status = "parked" /\ task[r].redrives > 0
           \/ \A x \in buffer : x.epoch # EpochOf[r]
=============================================================================
