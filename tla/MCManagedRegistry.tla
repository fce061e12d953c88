--------------------------- MODULE MCManagedRegistry ---------------------------
(***************************************************************************)
(* Model-checking instances of ManagedRegistry.                            *)
(***************************************************************************)
EXTENDS ManagedRegistry, TLC

Symmetry == Permutations(Voters) \cup Permutations(Workers)
              \cup Permutations(Rows) \cup Permutations(Editors)
=============================================================================
