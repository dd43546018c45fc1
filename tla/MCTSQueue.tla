----------------------------- MODULE MCTSQueue -----------------------------
(* TSQueue for TLC: the .cfg files give every constant a model value, none  *)
(* of them with symmetry, since each run checks a liveness property.        *)
EXTENDS TSQueue
=============================================================================
