----------------------------- MODULE MCPreparation -----------------------------
(***************************************************************************)
(* Model-checking instances of Preparation.  Voters are interchangeable,   *)
(* and so are workers; the run with a liveness property uses no symmetry.  *)
(***************************************************************************)
EXTENDS Preparation, TLC

Symmetry == Permutations(Voters) \cup Permutations(Workers)
=============================================================================
