----------------------------- MODULE MCVoterAuth -----------------------------
(***************************************************************************)
(* Instance of VoterAuth: two voters of one election in two tabs of one    *)
(* browser.                                                                *)
(***************************************************************************)
EXTENDS VoterAuth, TLC

CONSTANTS a, b, e1, t1, t2, jar

OneElection == a :> e1 @@ b :> e1
WithIdentifier == e1 :> "invite_link_with_identifier"
OneJar == t1 :> jar @@ t2 :> jar

Symmetry == Permutations({a, b}) \cup Permutations({t1, t2}) \cup Permutations(Sessions)
=============================================================================
