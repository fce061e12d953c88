----------------------------- MODULE BallotLedger -----------------------------
(***************************************************************************)
(* What ballot submission promises, without sessions, cookies, passes,     *)
(* groups, clock or rows.  A submission is admitted while the vote is      *)
(* open, is cleared when its credential has no ballot at that moment, and  *)
(* is cast at a later one, or dropped before.  What is cast stays; once    *)
(* the vote is over nothing is admitted; the count takes exactly what was  *)
(* cast by then.                                                           *)
(*                                                                         *)
(* Clearing and casting are two moments: two submissions of a credential   *)
(* may both be cleared before either is cast.                              *)
(***************************************************************************)
CONSTANTS Requests, Credentials

VARIABLES
  stage,     \* "open", "paused" or "over"
  admitted,  \* <<request, credential>> of submissions that were admitted,
  cleared,   \* that were cleared as well,
  accepted,  \* and that were cast
  counted    \* whether there was a count, and the requests it counted

vars == <<stage, admitted, cleared, accepted, counted>>

Known == {p[1] : p \in admitted \cup cleared \cup accepted}

HasBallot(c) == \E r \in Requests : <<r, c>> \in accepted

Init ==
  /\ stage = "open"
  /\ admitted = {} /\ cleared = {} /\ accepted = {}
  /\ counted = [read |-> FALSE, ballots |-> {}]

Admit(r, c) ==
  /\ stage = "open" /\ r \notin Known
  /\ admitted' = admitted \cup {<<r, c>>}
  /\ UNCHANGED <<stage, cleared, accepted, counted>>

Clear(r, c) ==
  /\ <<r, c>> \in admitted /\ ~HasBallot(c)
  /\ admitted' = admitted \ {<<r, c>>}
  /\ cleared' = cleared \cup {<<r, c>>}
  /\ UNCHANGED <<stage, accepted, counted>>

Cast(r, c) ==
  /\ <<r, c>> \in cleared
  /\ cleared' = cleared \ {<<r, c>>}
  /\ accepted' = accepted \cup {<<r, c>>}
  /\ UNCHANGED <<stage, admitted, counted>>

(* An error, a refusal or a death: nothing is cast.                        *)
Drop(r, c) ==
  /\ <<r, c>> \in admitted \cup cleared
  /\ admitted' = admitted \ {<<r, c>>}
  /\ cleared' = cleared \ {<<r, c>>}
  /\ UNCHANGED <<stage, accepted, counted>>

(* The vote is paused and resumed, until it is over for good.              *)
Administer ==
  /\ stage # "over"
  /\ stage' \in {"open", "paused", "over"}
  /\ UNCHANGED <<admitted, cleared, accepted, counted>>

Count ==
  /\ stage = "over" /\ ~counted.read
  /\ counted' = [read |-> TRUE, ballots |-> {p[1] : p \in accepted}]
  /\ UNCHANGED <<stage, admitted, cleared, accepted>>

Next ==
  \/ \E r \in Requests, c \in Credentials :
       Admit(r, c) \/ Clear(r, c) \/ Cast(r, c) \/ Drop(r, c)
  \/ Administer
  \/ Count

Spec == Init /\ [][Next]_vars
=============================================================================
