---------------------------- MODULE MCResultCounts ----------------------------
(***************************************************************************)
(* Model-checking instance of ResultCounts: two options, two questions, of *)
(* which the one with one answer may stay blank, and one page that is      *)
(* reloaded at any moment.                                                 *)
(***************************************************************************)
EXTENDS ResultCounts, TLC

Symmetry == Permutations(Voters) \cup Permutations(Submissions)
              \cup Permutations(Options)
=============================================================================
