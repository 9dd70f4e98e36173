------------------------ MODULE MCSessionStateMirror ------------------------
(* Two identities, two observation times, batches of up to two DataPoints  *)
(* (so duplicates within a batch occur), two epochs, three revisions.      *)
EXTENDS SessionStateMirror

MCEpoch == 1..2
MCTime == 1..2
Symmetry == Permutations(Identity) \cup Permutations(Flow)
=============================================================================
