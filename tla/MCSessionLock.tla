--------------------------- MODULE MCSessionLock ----------------------------
(* Three runs of one session, a lease of three ticks, five grants: a holder*)
(* that stalls past its TTL, a successor, and a third run behind both.     *)
EXTENDS SessionLock
=============================================================================
