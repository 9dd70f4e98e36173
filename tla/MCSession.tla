----------------------------- MODULE MCSession ------------------------------
(* MCSession.cfg: a start and two deliveries that ask for a re-open, no    *)
(* fault, a backstop wide enough for both.  SessionFaults.cfg: a start, a  *)
(* delivery that asks for a re-open, a resume by the host, two faults      *)
(* anywhere.                                                               *)
EXTENDS Session
=============================================================================
