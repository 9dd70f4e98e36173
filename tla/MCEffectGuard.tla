--------------------------- MODULE MCEffectGuard ----------------------------
(* Two epochs, so a zombie runs beside its successor, with three attempts  *)
(* each: one that ends badly, its retry, and a rerun.                      *)
EXTENDS EffectGuard
=============================================================================
