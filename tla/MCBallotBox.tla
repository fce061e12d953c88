---------------------------- MODULE MCBallotBox ----------------------------
(***************************************************************************)
(* Model-checking instances of BallotBox.  Requests, credentials and       *)
(* browsers are interchangeable.                                           *)
(***************************************************************************)
EXTENDS BallotBox, TLC

Symmetry == Permutations(Requests) \cup Permutations(Credentials)
              \cup Permutations(Browsers)
=============================================================================
