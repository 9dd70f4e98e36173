----------------------------- MODULE FencedLock -----------------------------
(***************************************************************************)
(* What the SessionLock port promises (orcastork/ports/session_lock.py):   *)
(* at most one holder, an epoch per grant that is above every earlier      *)
(* one, and a completion flag that only the newest epoch may raise.  No    *)
(* clock: a lease simply may end (expire).  SessionLock, with its TTL,     *)
(* implements this module; Session is built on it.                         *)
(***************************************************************************)
EXTENDS Naturals

CONSTANT MaxEpoch       \* bound on the grants of one session

ASSUME MaxEpochAssumption == MaxEpoch \in Nat

VARIABLES epoch_counter, \* the highest epoch minted
          holder,        \* the epoch of the live lease, 0 when there is none
          complete       \* the completion flag

lockVars == <<epoch_counter, holder, complete>>

LockTypeOK ==
    /\ epoch_counter \in 0..MaxEpoch
    /\ holder \in 0..MaxEpoch
    /\ complete \in BOOLEAN

LockInit ==
    /\ epoch_counter = 0
    /\ holder = 0
    /\ complete = FALSE

is_held == holder # 0

\* LockHeldError leaves the state alone; a grant mints the next epoch.
acquire ==
    /\ ~is_held
    /\ epoch_counter < MaxEpoch
    /\ epoch_counter' = epoch_counter + 1
    /\ holder' = epoch_counter'
    /\ UNCHANGED complete

\* Renewing changes nothing here; it fails (StaleEpochError) unless it holds.
CanRenew(e) == holder = e

\* Releasing another epoch's lease, or none, is a no-op.
release(e) ==
    /\ holder' = IF holder = e THEN 0 ELSE holder
    /\ UNCHANGED <<epoch_counter, complete>>

\* The TTL of the live lease runs out.
expire ==
    /\ is_held
    /\ holder' = 0
    /\ UNCHANGED <<epoch_counter, complete>>

\* The compare-and-set: only an epoch with no successor may finalize.  It
\* need not hold a live lease any more.
CanFinalize(e) == e >= epoch_counter

mark_complete(e) ==
    /\ CanFinalize(e)
    /\ complete' = TRUE
    /\ UNCHANGED <<epoch_counter, holder>>

\* Not fenced: the port takes no epoch here.
clear_complete ==
    /\ complete' = FALSE
    /\ UNCHANGED <<epoch_counter, holder>>

LockNext ==
    \/ acquire
    \/ expire
    \/ clear_complete
    \/ \E e \in 1..epoch_counter : release(e) \/ mark_complete(e)

LockSpec == LockInit /\ [][LockNext]_lockVars
=============================================================================
