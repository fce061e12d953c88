--------------------------- MODULE MCResultPipeline ---------------------------
(***************************************************************************)
(* Model-checking instances of ResultPipeline.  Workers are                *)
(* interchangeable; the run with a liveness property has one only and uses *)
(* no symmetry.                                                            *)
(***************************************************************************)
EXTENDS ResultPipeline, TLC

Symmetry == Permutations(Workers)
=============================================================================
