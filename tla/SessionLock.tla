---------------------------- MODULE SessionLock -----------------------------
(***************************************************************************)
(* The SessionLock adapter (orcastork/adapters/memory/lock.py) and the     *)
(* orchestrator runs that use it, for one session.  A run acquires a       *)
(* lease and an epoch, renews, marks the session complete and releases; a  *)
(* crashed run leaves its lease to its TTL; a run that stalls past its TTL *)
(* goes on with an epoch that somebody else may have superseded.           *)
(*                                                                         *)
(* expires_at is kept relative to the clock: ttl_left = expires_at - now,  *)
(* so the lease is live iff ttl_left > 0.                                  *)
(***************************************************************************)
EXTENDS Naturals

CONSTANTS Run,          \* orchestrator runs, on any pod
          TTL,          \* ttl_seconds, in clock ticks
          MaxEpoch      \* bound on the grants of the session

ASSUME LockAssumption ==
    /\ TTL \in Nat \ {0}
    /\ MaxEpoch \in Nat

VARIABLES epoch_counter, \* _LockState.epoch_counter
          lease,         \* _LockState.lease
          complete,      \* _LockState.complete
          grant,         \* grant[r]: the epoch run r works under, 0 if none
          window,        \* history: ticks left of the last grant or renewal
                         \* run r was given
          finalizer      \* history: the epoch of the run that last marked the
                         \* session complete, 0 if none has

lockVars == <<epoch_counter, lease, complete, grant, window, finalizer>>

NoLease == [epoch |-> 0, ttl_left |-> 0]
Lease == [epoch : 1..MaxEpoch, ttl_left : 0..TTL]

LockTypeOK ==
    /\ epoch_counter \in 0..MaxEpoch
    /\ lease \in Lease \cup {NoLease}
    /\ complete \in BOOLEAN
    /\ grant \in [Run -> 0..MaxEpoch]
    /\ window \in [Run -> 0..TTL]
    /\ finalizer \in 0..MaxEpoch

LockInit ==
    /\ epoch_counter = 0
    /\ lease = NoLease
    /\ complete = FALSE
    /\ grant = [r \in Run |-> 0]
    /\ window = [r \in Run |-> 0]
    /\ finalizer = 0

is_live == lease # NoLease /\ lease.ttl_left > 0

-----------------------------------------------------------------------------
(* The adapter's operations, on behalf of a run.                           *)

\* Mutant: acquire ignoring a live lease.
acquire_unguarded(r) ==
    /\ grant[r] = 0
    /\ epoch_counter < MaxEpoch
    /\ epoch_counter' = epoch_counter + 1
    /\ lease' = [epoch |-> epoch_counter + 1, ttl_left |-> TTL]
    /\ grant' = [grant EXCEPT ![r] = epoch_counter + 1]
    /\ window' = [window EXCEPT ![r] = TTL]
    /\ UNCHANGED <<complete, finalizer>>

acquire(r) ==
    /\ grant[r] = 0
    /\ ~is_live
    /\ epoch_counter < MaxEpoch
    /\ epoch_counter' = epoch_counter + 1
    /\ lease' = [epoch |-> epoch_counter + 1, ttl_left |-> TTL]
    /\ grant' = [grant EXCEPT ![r] = epoch_counter + 1]
    /\ window' = [window EXCEPT ![r] = TTL]
    /\ UNCHANGED <<complete, finalizer>>

\* Mutants: renew without comparing the epoch; renew of an expired lease;
\* renew that adds a whole TTL to what is left.
renewable_by_anyone(e) == is_live
renewable_expired(e) == lease # NoLease /\ lease.epoch = e
stacked_ttl == lease.ttl_left + TTL

renewable(e) == lease # NoLease /\ lease.epoch = e /\ is_live
renewed_ttl == TTL

renew(r) ==
    /\ grant[r] # 0
    /\ renewable(grant[r])
    /\ lease' = [lease EXCEPT !.ttl_left = renewed_ttl]
    /\ window' = [window EXCEPT ![r] = TTL]
    /\ UNCHANGED <<epoch_counter, complete, grant, finalizer>>

\* A lease is dropped by its own epoch only, live or not.
lease_after_release(e) == IF lease.epoch = e THEN NoLease ELSE lease

\* The finally of a run: it ends, whatever the lock says.
release(r) ==
    /\ grant[r] # 0
    /\ lease' = lease_after_release(grant[r])
    /\ grant' = [grant EXCEPT ![r] = 0]
    /\ window' = [window EXCEPT ![r] = 0]
    /\ UNCHANGED <<epoch_counter, complete, finalizer>>

\* Mutant: the flag set without comparing the epoch.
may_mark_anyone(r) == grant[r] # 0

may_mark(r) == grant[r] # 0 /\ grant[r] >= epoch_counter

mark_complete(r) ==
    /\ may_mark(r)
    /\ complete' = TRUE
    /\ finalizer' = grant[r]
    /\ UNCHANGED <<epoch_counter, lease, grant, window>>

\* A manager re-opening the session; no epoch is asked for.
clear_complete ==
    /\ complete
    /\ complete' = FALSE
    /\ UNCHANGED <<epoch_counter, lease, grant, window, finalizer>>

\* The process dies: no finally, the lease stays until its TTL runs out.
Crash(r) ==
    /\ grant[r] # 0
    /\ grant' = [grant EXCEPT ![r] = 0]
    /\ window' = [window EXCEPT ![r] = 0]
    /\ UNCHANGED <<epoch_counter, lease, complete, finalizer>>

Countdown(n) == IF n > 0 THEN n - 1 ELSE 0

\* The clock advances by one tick.
Tick ==
    /\ is_live
    /\ lease' = [lease EXCEPT !.ttl_left = Countdown(@)]
    /\ window' = [r \in Run |-> Countdown(window[r])]
    /\ UNCHANGED <<epoch_counter, complete, grant, finalizer>>

LockNext ==
    \/ \E r \in Run : \/ acquire(r)
                      \/ renew(r)
                      \/ release(r)
                      \/ mark_complete(r)
                      \/ Crash(r)
    \/ clear_complete
    \/ Tick

\* Time passes: the only fairness the TTL needs.
Fairness == WF_lockVars(Tick)

LockSpec == LockInit /\ [][LockNext]_lockVars
LockFairSpec == LockSpec /\ Fairness

-----------------------------------------------------------------------------
(* Properties.                                                             *)

\* Run r is inside the lease time its last acquire or renew gave it.
InWindow(r) == grant[r] # 0 /\ window[r] > 0

\* Mutual exclusion: as long as a run keeps within the lease time it was
\* last granted, no other run is within a grant of its own, whatever stalled
\* or fenced runs renew, release or crash meanwhile (lock.py acquire/renew/
\* release are compare-by-epoch for this).
LeaseMutualExclusion ==
    \A r, s \in Run : InWindow(r) /\ InWindow(s) => r = s

\* The run that marks the session complete, for the first time, over an
\* earlier mark or after a re-open, is itself the run of the newest epoch:
\* a predecessor that was superseded never finalizes the session, whether
\* its successor is alive, crashed or done (lock.py mark_complete, the
\* compare-and-set against epoch_counter).
OnlyNewestFinalizes ==
    [][(~complete /\ complete') \/ finalizer' # finalizer
         => finalizer' = epoch_counter]_lockVars

\* The lease of a holder that died runs out, so that a successor can
\* acquire: fenced runs cannot keep it alive (lock.py renew).
DeadLeaseExpires ==
    (is_live /\ \A r \in Run : grant[r] # lease.epoch) ~> ~is_live

\* The TTL lock implements what the port promises: the holder is the epoch
\* of the live lease.
Port == INSTANCE FencedLock WITH
            holder <- IF is_live THEN lease.epoch ELSE 0

ImplementsPort == Port!LockSpec
=============================================================================
