--------------------------- MODULE MCWriteBehind ----------------------------
(* A predecessor and its successor; one ordinary point, one that is quiet  *)
(* and personal data, one ephemeral; pages of one row.                     *)
EXTENDS WriteBehind

MCEpochOf == [p |-> 1, q |-> 2]
MCBatches == {<<"a">>, <<"b", "a">>, <<"e">>}
=============================================================================
