------------------------------ MODULE MCInbox -------------------------------
(* Two entries of every combination of kinds, two runs (a predecessor that *)
(* may die, stall or be fenced anywhere, and its successor), a delivery    *)
(* cap of two.                                                             *)
EXTENDS Inbox
=============================================================================
