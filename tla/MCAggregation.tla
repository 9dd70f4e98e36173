--------------------------- MODULE MCAggregation ----------------------------
(* A predecessor and its successor (epochs 1 and 2), and a run of another  *)
(* session (epoch 1) that shares their output key; two attempts each, an   *)
(* interim refresh by the first session's runs, one fault.                 *)
EXTENDS Aggregation

MCSessionOf == [p |-> "s", q |-> "s", x |-> "t"]
MCEpochOf == [p |-> 1, q |-> 2, x |-> 1]
MCOps == {[s |-> "upsert", t |-> "upsert"], [s |-> "upsert", t |-> "add"]}
=============================================================================
