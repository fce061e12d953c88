---------------------------- MODULE MCVoterBrowser ----------------------------
(***************************************************************************)
(* Instance of VoterBrowser: two voters of one election and one of another *)
(* in two tabs of one browser.                                             *)
(***************************************************************************)
EXTENDS VoterBrowser, TLC

CONSTANTS a, b, c, e1, e2, t1, t2, jar

TwoElections == a :> e1 @@ b :> e1 @@ c :> e2
OneOfEach == e1 :> "invite_link_with_identifier" @@ e2 :> "invite_link_only"
OneJar == t1 :> jar @@ t2 :> jar

Symmetry == Permutations({a, b}) \cup Permutations({t1, t2}) \cup Permutations(Sessions)
=============================================================================
