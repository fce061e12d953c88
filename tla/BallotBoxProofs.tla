--------------------------- MODULE BallotBoxProofs ---------------------------
(***************************************************************************)
(* Proofs about BallotBox for any number of requests, credentials and      *)
(* browsers, any deadline and any clock bound.                             *)
(***************************************************************************)
EXTENDS BallotBox, FiniteSetTheorems, TLAPS

(***************************************************************************)
(* The steps of the specification, one disjunct per action: every proof    *)
(* that a step preserves an invariant splits on this list.                 *)
(***************************************************************************)
EnvironmentStep ==
  \/ Tick
  \/ \E to \in ElectionState : AdminTransition(to)
  \/ BeginTally
  \/ ReadBallotsForTally
  \/ CompleteTally
  \/ \E b \in Browsers, c \in Credentials : SignIn(b, c)

(* The handler's steps that change no row: only its own locals move.       *)
LocalStep(r) ==
  \/ \E b \in Browsers : Receive(r, b)
  \/ RejectMalformed(r)
  \/ RequireVoterSession(r)
  \/ RejectSession(r)
  \/ CheckElection(r)
  \/ CheckCredential(r)
  \/ FindPass(r)
  \/ FindGroup(r)
  \/ Fail(r)

LEMMA StepCases ==
  ASSUME [Next]_vars
  PROVE  \/ EnvironmentStep
         \/ \E r \in Requests :
              \/ LocalStep(r) \/ CreatePass(r) \/ CreateGroup(r)
              \/ RejectAnswers(r) \/ CommitBallot(r) \/ Respond(r)
         \/ UNCHANGED vars
  BY DEF Next, Environment, Handle, EnvironmentStep, LocalStep

(***************************************************************************)
(* Typing.                                                                 *)
(***************************************************************************)
LEMMA TypeInit == Init => TypeOK
  BY BallotBoxAssumption
  DEF Init, TypeOK, ElectionState, Request, Blank, Pc, Running, Answered,
      NoBallot, Ballot

LEMMA TypeEnvironment == TypeOK /\ EnvironmentStep => TypeOK'
  <1> SUFFICES ASSUME TypeOK, EnvironmentStep PROVE TypeOK'
    OBVIOUS
  <1> USE BallotBoxAssumption DEF rows
  <1>1. CASE Tick
    BY <1>1 DEF Tick, TypeOK
  <1>2. ASSUME NEW to \in ElectionState, AdminTransition(to) PROVE TypeOK'
    BY <1>2 DEF AdminTransition, TypeOK
  <1>3. CASE BeginTally
    BY <1>3 DEF BeginTally, TypeOK, ElectionState
  <1>4. CASE ReadBallotsForTally
    BY <1>4 DEF ReadBallotsForTally, TypeOK
  <1>5. CASE CompleteTally
    BY <1>5 DEF CompleteTally, TypeOK, ElectionState
  <1>6. ASSUME NEW b \in Browsers, NEW c \in Credentials, SignIn(b, c)
        PROVE  TypeOK'
    BY <1>6 DEF SignIn, TypeOK
  <1>7. QED
    BY <1>1, <1>2, <1>3, <1>4, <1>5, <1>6 DEF EnvironmentStep

(* A local step puts a well-typed record into req[r] and touches no row.   *)
LEMMA LocalStepShape ==
  ASSUME TypeOK, NEW r \in Requests, LocalStep(r)
  PROVE  /\ \E new \in Request : req' = [req EXCEPT ![r] = new]
         /\ UNCHANGED <<clock, election, session, cookie, rows, result>>
  <1> USE BallotBoxAssumption DEF Unaltered, Goto, Refuse
  <1> DEFINE Moved(pc) == [req[r] EXCEPT !.pc = pc]
  <1>1. /\ \A pc \in Pc : Moved(pc) \in Request /\ Blank(pc) \in Request
        /\ req[r] \in Request
    <2>1. req[r] \in Request
      BY DEF TypeOK
    <2>2. ASSUME NEW pc \in Pc, NEW q \in Request
          PROVE  [q EXCEPT !.pc = pc] \in Request
      BY DEF Request
    <2>3. ASSUME NEW pc \in Pc PROVE Blank(pc) \in Request
      BY DEF Request, Blank
    <2>4. QED
      BY <2>1, <2>2, <2>3
  <1>2. ASSUME NEW b \in Browsers, Receive(r, b)
        PROVE  \E new \in Request : req' = [req EXCEPT ![r] = new]
    <2> DEFINE new == [pc |-> "received", browser |-> b, credential |-> session[b],
                       token |-> cookie[b], receivedAt |-> clock, group |-> None,
                       hadVoted |-> session[b] # None /\ credential[session[b]].hasVoted]
    <2>1. (session[b] # None /\ credential[session[b]].hasVoted) \in BOOLEAN
      BY DEF TypeOK
    <2>2. new \in Request
      BY <2>1 DEF TypeOK, Request, Pc, Running
    <2>3. QED
      BY <1>2, <2>2 DEF Receive
  <1>3. CASE RejectMalformed(r)
    BY <1>1, <1>3 DEF RejectMalformed, Pc, Answered
  <1>4. CASE RequireVoterSession(r)
    BY <1>1, <1>4 DEF RequireVoterSession, Pc, Running, TypeOK
  <1>5. CASE RejectSession(r)
    BY <1>1, <1>5 DEF RejectSession, Pc, Answered
  <1>6. CASE CheckElection(r)
    BY <1>1, <1>6 DEF CheckElection, Pc, Running, Answered
  <1>7. CASE CheckCredential(r)
    BY <1>1, <1>7 DEF CheckCredential, Pc, Running, Answered
  <1>8. CASE FindPass(r)
    BY <1>1, <1>8 DEF FindPass, Pc, Running
  <1>9. CASE FindGroup(r)
    <2>1. [req[r] EXCEPT !.pc = "hasGroup", !.group = req[r].token] \in Request
      BY <1>1 DEF Request, Pc, Running
    <2>2. QED
      BY <1>1, <1>9, <2>1 DEF FindGroup, Pc, Running
  <1>10. CASE Fail(r)
    BY <1>1, <1>10 DEF Fail, Pc, Answered
  <1>11. UNCHANGED <<clock, election, session, cookie, rows, result>>
    BY DEF LocalStep, Receive, RejectMalformed, RequireVoterSession, RejectSession,
           CheckElection, CheckCredential, FindPass, FindGroup, Fail
  <1>12. QED
    BY <1>2, <1>3, <1>4, <1>5, <1>6, <1>7, <1>8, <1>9, <1>10, <1>11 DEF LocalStep

LEMMA TypeRowStep ==
  ASSUME TypeOK, NEW r \in Requests,
         \/ CreatePass(r) \/ CreateGroup(r) \/ RejectAnswers(r) \/ CommitBallot(r)
         \/ Respond(r)
  PROVE  TypeOK'
  <1> USE BallotBoxAssumption DEF Unaltered, rows
  <1>1. /\ req[r] \in Request
        /\ \A pc \in Pc : Blank(pc) \in Request
        /\ {"hasPass", "hasGroup", "committed", "failed", "refused", "accepted"}
             \subseteq Pc
    BY DEF TypeOK, Request, Blank, Pc, Running, Answered
  <1>2. ASSUME NEW pc \in Pc, NEW q \in Request
        PROVE  [q EXCEPT !.pc = pc] \in Request
    BY DEF Request
  <1>3. CASE CreatePass(r)
    <2>1. req' \in [Requests -> Request]
      <3>1. PICK new \in Request : req' = [req EXCEPT ![r] = new]
        <4>1. [req[r] EXCEPT !.pc = "hasPass"] \in Request
          BY <1>1, <1>2
        <4>2. CASE pass[req[r].credential].status = "none"
          BY <1>3, <4>1, <4>2 DEF CreatePass, Goto, TypeOK
        <4>3. CASE pass[req[r].credential].status # "none"
          BY <1>1, <1>3, <4>3 DEF CreatePass
        <4>4. QED
          BY <4>2, <4>3
      <3>2. QED
        BY <3>1 DEF TypeOK
    <2>2. pass' \in [Credentials -> [status: {"none", "issued", "used"}, usage: Nat]]
      BY <1>3 DEF CreatePass, TypeOK
    <2>3. QED
      BY <1>3, <2>1, <2>2 DEF CreatePass, TypeOK
  <1>4. CASE CreateGroup(r)
    <2>1. [req[r] EXCEPT !.pc = "hasGroup", !.group = r] \in Request
      BY <1>1 DEF Request
    <2>2. req' \in [Requests -> Request]
      BY <1>4, <2>1 DEF CreateGroup, TypeOK
    <2>3. group' \in [Requests -> [created: BOOLEAN, submissions: Nat,
                                   current: Requests \cup {None}]]
      BY <1>4 DEF CreateGroup, TypeOK
    <2>4. QED
      BY <1>4, <2>2, <2>3 DEF CreateGroup, TypeOK
  <1>5. CASE RejectAnswers(r)
    <2>1. req' \in [Requests -> Request]
      BY <1>1, <1>5 DEF RejectAnswers, Refuse, TypeOK
    <2>2. event' \subseteq EventType \X Requests
      BY <1>5 DEF RejectAnswers, TypeOK, EventType
    <2>3. QED
      BY <1>5, <2>1, <2>2 DEF RejectAnswers, TypeOK
  <1>6. CASE CommitBallot(r)
    <2> DEFINE c == req[r].credential
               g == req[r].group
    <2>1. req' \in [Requests -> Request]
      BY <1>1, <1>2, <1>6 DEF CommitBallot, Goto, TypeOK
    <2>2. ballot' \in [Requests -> Ballot]
      <3>1. NewBallot(r) \in Ballot
        BY <1>1 DEF NewBallot, Request, Ballot
      <3>2. ASSUME NEW b \in Requests
            PROVE  ballot[b] \in Ballot /\ Superseded(b) \in Ballot
        <4>1. ASSUME NEW x \in Ballot
              PROVE  [x EXCEPT !.isCurrent = FALSE, !.status = "superseded"] \in Ballot
          BY DEF Ballot
        <4>2. QED
          BY <4>1 DEF TypeOK, Superseded
      <3>3. QED
        BY <1>6, <3>1, <3>2 DEF CommitBallot
    <2>3. event' \subseteq EventType \X Requests
      BY <1>6 DEF CommitBallot, TypeOK, EventType
    <2>4. group' \in [Requests -> [created: BOOLEAN, submissions: Nat,
                                   current: Requests \cup {None}]]
      <3>1. group' = GroupWith(g, r)
        BY <1>6 DEF CommitBallot
      <3>2. CASE g \in Requests
        BY <3>1, <3>2 DEF GroupWith, TypeOK
      <3>3. CASE g \notin Requests
        BY <3>1, <3>3 DEF GroupWith, TypeOK
      <3>4. QED
        BY <3>2, <3>3
    <2>5. pass' \in [Credentials -> [status: {"none", "issued", "used"}, usage: Nat]]
      <3>1. pass' = [pass EXCEPT ![c] = [status |-> "used", usage |-> @.usage + 1]]
        BY <1>6 DEF CommitBallot
      <3>2. CASE c \in Credentials
        BY <3>1, <3>2 DEF TypeOK
      <3>3. CASE c \notin Credentials
        BY <3>1, <3>3 DEF TypeOK
      <3>4. QED
        BY <3>2, <3>3
    <2>6. credential' \in [Credentials -> [hasVoted: BOOLEAN, submissions: Nat]]
      <3>1. credential' = [credential EXCEPT ![c] =
                             [hasVoted |-> TRUE, submissions |-> @.submissions + 1]]
        BY <1>6 DEF CommitBallot
      <3>2. CASE c \in Credentials
        BY <3>1, <3>2 DEF TypeOK
      <3>3. CASE c \notin Credentials
        BY <3>1, <3>3 DEF TypeOK
      <3>4. QED
        BY <3>2, <3>3
    <2>7. QED
      BY <1>6, <2>1, <2>2, <2>3, <2>4, <2>5, <2>6 DEF CommitBallot, TypeOK
  <1>7. CASE Respond(r)
    <2>1. req' \in [Requests -> Request]
      BY <1>1, <1>7 DEF Respond, TypeOK
    <2>2. cookie' \in [Browsers -> Requests \cup {None}]
      BY <1>7 DEF Respond, TypeOK
    <2>3. QED
      BY <1>7, <2>1, <2>2 DEF Respond, TypeOK
  <1>8. QED
    BY <1>3, <1>4, <1>5, <1>6, <1>7

LEMMA TypeStep == TypeOK /\ [Next]_vars => TypeOK'
  <1> SUFFICES ASSUME TypeOK, [Next]_vars PROVE TypeOK'
    OBVIOUS
  <1>1. ASSUME NEW r \in Requests, LocalStep(r) PROVE TypeOK'
    <2>1. req' \in [Requests -> Request]
      BY <1>1, LocalStepShape DEF TypeOK
    <2>2. UNCHANGED <<clock, election, session, cookie, rows, result>>
      BY <1>1, LocalStepShape
    <2>3. QED
      BY <2>1, <2>2 DEF TypeOK, rows
  <1>2. CASE UNCHANGED vars
    BY <1>2 DEF vars, TypeOK
  <1>3. QED
    BY <1>1, <1>2, StepCases, TypeEnvironment, TypeRowStep

(* Every variable keeps its type, for all values of the constants.         *)
THEOREM TypeCorrect == Spec => []TypeOK
  BY TypeInit, TypeStep, PTL DEF Spec

(***************************************************************************)
(* SubmissionInv is inductive.                                             *)
(***************************************************************************)
LEMMA InvInit == Init => SubmissionInv
  BY BallotBoxAssumption
  DEF Init, SubmissionInv, TokensAreSpent, BallotsAtHome, HandlersInOrder,
      HandlerInOrder, PastTheCheck, Blank, NoBallot

(* The requests that do not move, when no ballot is lost or taken back and *)
(* no credential regains its vote.                                         *)
LEMMA OthersInOrder ==
  ASSUME NEW q \in Requests, HandlerInOrder(q), TypeOK,
         req'[q] = req[q], ballot'[q].status = ballot[q].status,
         \A c \in Credentials : credential[c].hasVoted => credential'[c].hasVoted
  PROVE  HandlerInOrder(q)'
  <1>1. req[q].credential \in Credentials \cup {None}
    BY DEF TypeOK, Request
  <1>2. QED
    BY <1>1 DEF HandlerInOrder

LEMMA InvEnvironment ==
  TypeOK /\ SubmissionInv /\ EnvironmentStep => SubmissionInv'
  <1> SUFFICES ASSUME TypeOK, SubmissionInv, EnvironmentStep PROVE SubmissionInv'
    OBVIOUS
  <1>1. UNCHANGED <<cookie, req, rows>>
    BY DEF EnvironmentStep, Tick, AdminTransition, BeginTally, ReadBallotsForTally,
           CompleteTally, SignIn
  <1>2. QED
    BY <1>1 DEF rows, SubmissionInv, TokensAreSpent, BallotsAtHome, HandlersInOrder,
                HandlerInOrder

(* Where a local step leaves its own request.                              *)
LEMMA LocalStepInOrder ==
  ASSUME TypeOK, SubmissionInv, NEW r \in Requests, LocalStep(r)
  PROVE  /\ HandlerInOrder(r)'
         /\ req'[r].token # None => ballot[req'[r].token].status # "none"
  <1> USE BallotBoxAssumption DEF Unaltered, rows, Goto, Refuse
  <1>0. /\ HandlerInOrder(r)
        /\ req[r].token # None => ballot[req[r].token].status # "none"
        /\ req[r] \in Request
        /\ req \in [Requests -> Request]
    BY DEF SubmissionInv, HandlersInOrder, TokensAreSpent, TypeOK
  <1> DEFINE Goal == /\ HandlerInOrder(r)'
                     /\ req'[r].token # None => ballot[req'[r].token].status # "none"
  <1>1. ASSUME NEW b \in Browsers, Receive(r, b) PROVE Goal
    <2>1. /\ req'[r].pc = "received"
          /\ req'[r].token = cookie[b]
          /\ req'[r].credential = session[b]
          /\ req'[r].hadVoted = (session[b] # None /\ credential[session[b]].hasVoted)
      BY <1>0, <1>1 DEF Receive
    <2>2. req[r].pc = "unsent" /\ UNCHANGED <<ballot, credential>>
      BY <1>1 DEF Receive
    <2>3. HandlerInOrder(r)'
      BY <1>0, <2>1, <2>2 DEF HandlerInOrder, PastTheCheck
    <2>4. QED
      BY <2>1, <2>3 DEF SubmissionInv, TokensAreSpent
  <1>2. ASSUME NEW pc \in Answered, req' = [req EXCEPT ![r] = Blank(pc)],
               UNCHANGED rows
        PROVE  Goal
    <2>1. req'[r] = Blank(pc)
      BY <1>0, <1>2
    <2>2. QED
      BY <1>2, <2>1 DEF Blank, HandlerInOrder, PastTheCheck, Answered
  <1>3. ASSUME NEW pc \in Pc, Goto(r, pc), UNCHANGED rows
        PROVE  /\ req'[r].pc = pc
               /\ req'[r].credential = req[r].credential
               /\ req'[r].token = req[r].token
               /\ req'[r].receivedAt = req[r].receivedAt
               /\ req'[r].group = req[r].group
               /\ req'[r].hadVoted = req[r].hadVoted
    BY <1>0, <1>3 DEF Request
  <1>4. CASE RequireVoterSession(r)
    <2>1. Goto(r, "authenticated") /\ UNCHANGED rows
      BY <1>4 DEF RequireVoterSession
    <2>2. QED
      BY <1>0, <1>3, <1>4, <2>1 DEF RequireVoterSession, HandlerInOrder, PastTheCheck,
                                   Pc, Running
  <1>5. CASE CheckElection(r)
    <2>1. CASE Goto(r, "open") /\ req[r].receivedAt <= EndsAt
      BY <1>0, <1>3, <1>5, <2>1 DEF CheckElection, HandlerInOrder, PastTheCheck,
                                   Pc, Running
    <2>2. CASE Refuse(r)
      BY <1>2, <1>5, <2>2 DEF CheckElection, Answered
    <2>3. QED
      BY <1>5, <2>1, <2>2 DEF CheckElection, IsVotingWindowOpen
  <1>6. CASE CheckCredential(r)
    <2>1. CASE Goto(r, "eligible") /\ ~credential[req[r].credential].hasVoted
      BY <1>0, <1>3, <1>6, <2>1 DEF CheckCredential, HandlerInOrder, PastTheCheck,
                                   Pc, Running
    <2>2. CASE Refuse(r)
      BY <1>2, <1>6, <2>2 DEF CheckCredential, Answered
    <2>3. QED
      BY <1>6, <2>1, <2>2 DEF CheckCredential
  <1>7. CASE FindPass(r)
    <2>1. CASE Goto(r, "noPass")
      BY <1>0, <1>3, <1>7, <2>1 DEF FindPass, HandlerInOrder, PastTheCheck, Pc, Running
    <2>2. CASE Goto(r, "hasPass")
      BY <1>0, <1>3, <1>7, <2>2 DEF FindPass, HandlerInOrder, PastTheCheck, Pc, Running
    <2>3. QED
      BY <1>7, <2>1, <2>2 DEF FindPass
  <1>8. CASE FindGroup(r)
    <2>1. ~(req[r].token # None /\ ReusableGroup(req[r].token))
      <3>1. req[r].token \in Requests \cup {None}
        BY <1>0 DEF Request
      <3>2. QED
        BY <1>0, <3>1 DEF SubmissionInv, BallotsAtHome, ReusableGroup
    <2>2. Goto(r, "noGroup")
      BY <1>8, <2>1 DEF FindGroup
    <2>3. QED
      BY <1>0, <1>3, <1>8, <2>2 DEF FindGroup, HandlerInOrder, PastTheCheck, Pc, Running
  <1>9. CASE RejectMalformed(r) \/ RejectSession(r) \/ Fail(r)
    BY <1>2, <1>9 DEF RejectMalformed, RejectSession, Fail, Answered
  <1>10. QED
    BY <1>1, <1>4, <1>5, <1>6, <1>7, <1>8, <1>9 DEF LocalStep

LEMMA InvLocal ==
  ASSUME TypeOK, SubmissionInv, NEW r \in Requests, LocalStep(r)
  PROVE  SubmissionInv'
  <1>1. PICK new \in Request : req' = [req EXCEPT ![r] = new]
    BY LocalStepShape
  <1>2. UNCHANGED <<clock, election, session, cookie, rows, result>>
    BY LocalStepShape
  <1>3. /\ HandlerInOrder(r)'
        /\ req'[r].token # None => ballot[req'[r].token].status # "none"
    BY LocalStepInOrder
  <1>4. ASSUME NEW q \in Requests PROVE HandlerInOrder(q)'
    <2>1. CASE q = r
      BY <1>3, <2>1
    <2>2. CASE q # r
      <3>1. req'[q] = req[q]
        BY <1>1, <2>2 DEF TypeOK
      <3>2. HandlerInOrder(q)
        BY DEF SubmissionInv, HandlersInOrder
      <3>3. QED
        BY <1>2, <3>1, <3>2, OthersInOrder DEF rows
    <2>3. QED
      BY <2>1, <2>2
  <1>5. TokensAreSpent'
    BY <1>1, <1>2, <1>3 DEF SubmissionInv, TokensAreSpent, TypeOK, rows
  <1>6. BallotsAtHome'
    BY <1>2 DEF SubmissionInv, BallotsAtHome, rows
  <1>7. QED
    BY <1>4, <1>5, <1>6 DEF SubmissionInv, HandlersInOrder

(***************************************************************************)
(* The one step that writes a ballot: it finds none in the group, gives    *)
(* the group its first, and touches no other ballot.                       *)
(***************************************************************************)
LEMMA CommitEffect ==
  ASSUME TypeOK, SubmissionInv, NEW r \in Requests, CommitBallot(r)
  PROVE  /\ req[r].credential \in Credentials
         /\ ballot[r] = NoBallot
         /\ ballot' = [ballot EXCEPT ![r] = NewBallot(r)]
         /\ NewBallot(r) = [status |-> "accepted", isCurrent |-> TRUE, group |-> r,
                            receivedAt |-> req[r].receivedAt,
                            castBy |-> req[r].credential]
         /\ req[r].receivedAt <= EndsAt
         /\ ~req[r].hadVoted
         /\ group' = [group EXCEPT ![r] = [created |-> TRUE, submissions |-> 1,
                                           current |-> r]]
  <1>1. /\ HandlerInOrder(r)
        /\ req[r].pc = "hasGroup"
        /\ req[r] \in Request
    BY DEF SubmissionInv, HandlersInOrder, CommitBallot, TypeOK
  <1>2. /\ req[r].credential \in Credentials
        /\ req[r].group = r
        /\ ballot[r].status = "none"
        /\ req[r].receivedAt <= EndsAt
        /\ ~req[r].hadVoted
    BY <1>1 DEF HandlerInOrder, PastTheCheck, Request
  <1>3. /\ ballot[r] = NoBallot
        /\ group[r].submissions = 0
    BY <1>2 DEF SubmissionInv, BallotsAtHome
  <1>4. CurrentBallots(r) = {}
    <2> SUFFICES ASSUME NEW b \in Requests, ballot[b].group = r, ballot[b].isCurrent
                 PROVE  FALSE
      BY DEF CurrentBallots
    <2>1. CASE ballot[b].status = "none"
      BY <2>1 DEF SubmissionInv, BallotsAtHome, NoBallot
    <2>2. CASE ballot[b].status # "none"
      BY <1>2, <2>2 DEF SubmissionInv, BallotsAtHome
    <2>3. QED
      BY <2>1, <2>2
  <1>5. ballot' = [b \in Requests |-> IF b = r THEN NewBallot(r) ELSE ballot[b]]
    BY <1>2, <1>4 DEF CommitBallot
  <1>6. ballot' = [ballot EXCEPT ![r] = NewBallot(r)]
    <2> HIDE DEF NewBallot
    <2>1. DOMAIN ballot = Requests
      BY DEF TypeOK
    <2>2. ballot = [b \in Requests |-> ballot[b]]
      BY DEF TypeOK
    <2>3. QED
      BY <1>5, <2>1, <2>2
  <1>7. group' = GroupWith(r, r)
    BY <1>2 DEF CommitBallot
  <1>8. group' = [group EXCEPT ![r] = [created |-> TRUE, submissions |-> 1, current |-> r]]
    BY <1>3, <1>7 DEF GroupWith, TypeOK
  <1>9. QED
    BY <1>2, <1>3, <1>6, <1>8 DEF NewBallot
(* The steps that write rows but no ballot, where they leave the request.  *)
LEMMA InvNoBallotStep ==
  ASSUME TypeOK, SubmissionInv, NEW r \in Requests,
         CreatePass(r) \/ CreateGroup(r) \/ RejectAnswers(r) \/ Respond(r)
  PROVE  SubmissionInv'
  <1> USE BallotBoxAssumption DEF Unaltered, rows
  <1>0. /\ HandlerInOrder(r)
        /\ req[r].token # None => ballot[req[r].token].status # "none"
        /\ req[r] \in Request
        /\ req \in [Requests -> Request]
        /\ group \in [Requests -> [created: BOOLEAN, submissions: Nat,
                                   current: Requests \cup {None}]]
    BY DEF SubmissionInv, HandlersInOrder, TokensAreSpent, TypeOK
  <1>1. UNCHANGED <<ballot, credential>>
    BY DEF CreatePass, CreateGroup, RejectAnswers, Respond
  <1>2. \E new : req' = [req EXCEPT ![r] = new]
    BY DEF CreatePass, CreateGroup, RejectAnswers, Respond, Goto, Refuse
  <1> DEFINE Goal == /\ HandlerInOrder(r)'
                     /\ req'[r].token # None => ballot[req'[r].token].status # "none"
  <1>3. Goal
    <2>1. ASSUME NEW pc \in Answered, req' = [req EXCEPT ![r] = Blank(pc)]
          PROVE  Goal
      <3>1. req'[r] = Blank(pc)
        BY <1>0, <2>1
      <3>2. QED
        BY <1>1, <2>1, <3>1 DEF Blank, HandlerInOrder, PastTheCheck, Answered
    <2>2. CASE CreatePass(r)
      <3>1. CASE pass[req[r].credential].status = "none"
        <4>1. /\ req'[r].pc = "hasPass"
              /\ req'[r].credential = req[r].credential
              /\ req'[r].token = req[r].token
              /\ req'[r].receivedAt = req[r].receivedAt
              /\ req'[r].hadVoted = req[r].hadVoted
          BY <1>0, <2>2, <3>1 DEF CreatePass, Goto, Request
        <4>2. req[r].pc = "noPass"
          BY <2>2 DEF CreatePass
        <4>3. QED
          BY <1>0, <1>1, <4>1, <4>2 DEF HandlerInOrder, PastTheCheck
      <3>2. CASE pass[req[r].credential].status # "none"
        BY <2>1, <2>2, <3>2 DEF CreatePass, Answered
      <3>3. QED
        BY <3>1, <3>2
    <2>3. CASE CreateGroup(r)
      <3>1. /\ req'[r].pc = "hasGroup"
            /\ req'[r].group = r
            /\ req'[r].credential = req[r].credential
            /\ req'[r].token = req[r].token
            /\ req'[r].receivedAt = req[r].receivedAt
            /\ req'[r].hadVoted = req[r].hadVoted
        BY <1>0, <2>3 DEF CreateGroup, Request
      <3>2. req[r].pc = "noGroup"
        BY <2>3 DEF CreateGroup
      <3>3. QED
        BY <1>0, <1>1, <3>1, <3>2 DEF HandlerInOrder, PastTheCheck
    <2>4. CASE RejectAnswers(r)
      BY <2>1, <2>4 DEF RejectAnswers, Refuse, Answered
    <2>5. CASE Respond(r)
      BY <2>1, <2>5 DEF Respond, Answered
    <2>6. QED
      BY <2>2, <2>3, <2>4, <2>5
  <1>4. ASSUME NEW q \in Requests PROVE HandlerInOrder(q)'
    <2>1. CASE q = r
      BY <1>3, <2>1
    <2>2. CASE q # r
      <3>1. req'[q] = req[q]
        BY <1>0, <1>2, <2>2
      <3>2. HandlerInOrder(q)
        BY DEF SubmissionInv, HandlersInOrder
      <3>3. QED
        BY <1>1, <3>1, <3>2, OthersInOrder
    <2>3. QED
      BY <2>1, <2>2
  <1>5. TokensAreSpent'
    <2>1. ASSUME NEW b \in Browsers, cookie'[b] # None
          PROVE  ballot'[cookie'[b]].status # "none"
      <3>1. CASE cookie'[b] = cookie[b]
        BY <1>1, <2>1, <3>1 DEF SubmissionInv, TokensAreSpent
      <3>2. CASE cookie'[b] # cookie[b]
        <4>1. Respond(r)
          BY <3>2 DEF CreatePass, CreateGroup, RejectAnswers
        <4>2. cookie'[b] = r
          BY <2>1, <3>2, <4>1 DEF Respond, TypeOK
        <4>3. ballot[r].status # "none"
          BY <1>0, <4>1 DEF Respond, HandlerInOrder
        <4>4. QED
          BY <1>1, <4>2, <4>3
      <3>3. QED
        BY <3>1, <3>2
    <2>2. ASSUME NEW q \in Requests, req'[q].token # None
          PROVE  ballot'[req'[q].token].status # "none"
      <3>1. CASE q = r
        BY <1>1, <1>3, <2>2, <3>1
      <3>2. CASE q # r
        <4>1. req'[q] = req[q]
          BY <1>0, <1>2, <3>2
        <4>2. QED
          BY <1>1, <2>2, <4>1 DEF SubmissionInv, TokensAreSpent
      <3>3. QED
        BY <3>1, <3>2
    <2>3. QED
      BY <2>1, <2>2 DEF TokensAreSpent
  <1>6. BallotsAtHome'
    <2>1. CASE CreateGroup(r)
      <3>1. ballot[r].status = "none"
        BY <1>0, <2>1 DEF CreateGroup, HandlerInOrder, PastTheCheck
      <3>2. /\ group'[r].submissions = 0
            /\ group'[r].current = None
            /\ \A g \in Requests : g # r => group'[g] = group[g]
        BY <1>0, <2>1 DEF CreateGroup
      <3>3. QED
        BY <1>1, <3>1, <3>2 DEF SubmissionInv, BallotsAtHome
    <2>2. CASE ~CreateGroup(r)
      <3>1. group' = group
        BY <2>2 DEF CreatePass, RejectAnswers, Respond
      <3>2. QED
        BY <1>1, <3>1 DEF SubmissionInv, BallotsAtHome
    <2>3. QED
      BY <2>1, <2>2
  <1>7. QED
    BY <1>4, <1>5, <1>6 DEF SubmissionInv, HandlersInOrder

(* The submitting transaction.                                             *)
LEMMA InvCommit ==
  ASSUME TypeOK, SubmissionInv, NEW r \in Requests, CommitBallot(r)
  PROVE  SubmissionInv'
  <1> USE BallotBoxAssumption
  <1> DEFINE c == req[r].credential
             new == [status |-> "accepted", isCurrent |-> TRUE, group |-> r,
                     receivedAt |-> req[r].receivedAt, castBy |-> c]
  <1>1. /\ c \in Credentials
        /\ ballot' = [ballot EXCEPT ![r] = new]
        /\ group' = [group EXCEPT ![r] = [created |-> TRUE, submissions |-> 1,
                                          current |-> r]]
        /\ req[r].receivedAt <= EndsAt
        /\ ~req[r].hadVoted
    BY CommitEffect
  <1>2. /\ DOMAIN ballot = Requests /\ DOMAIN group = Requests
        /\ req \in [Requests -> Request]
    BY DEF TypeOK
  <1>3. /\ ballot'[r] = new
        /\ \A b \in Requests : b # r => ballot'[b] = ballot[b]
        /\ \A b \in Requests : ballot[b].status # "none" => ballot'[b].status # "none"
    BY <1>1, <1>2
  <1>4. /\ UNCHANGED <<cookie>>
        /\ req' = [req EXCEPT ![r].pc = "committed"]
        /\ req[r].pc = "hasGroup"
    BY DEF CommitBallot, Unaltered, Goto
  <1>5. /\ req'[r].pc = "committed"
        /\ req'[r].group = req[r].group
        /\ req'[r].hadVoted = req[r].hadVoted
        /\ req'[r].token = req[r].token
        /\ \A q \in Requests : q # r => req'[q] = req[q]
    BY <1>2, <1>4 DEF Request
  <1>6. \A d \in Credentials : credential[d].hasVoted => credential'[d].hasVoted
    <2>1. credential' = [credential EXCEPT ![c] =
                           [hasVoted |-> TRUE, submissions |-> @.submissions + 1]]
      BY DEF CommitBallot
    <2>2. QED
      BY <2>1 DEF TypeOK
  <1>7. ASSUME NEW q \in Requests PROVE HandlerInOrder(q)'
    <2>1. CASE q = r
      <3>1. req[r].group = r
        BY <1>4 DEF SubmissionInv, HandlersInOrder, HandlerInOrder
      <3>2. QED
        BY <1>1, <1>3, <1>5, <2>1, <3>1 DEF HandlerInOrder, PastTheCheck
    <2>2. CASE q # r
      <3>1. HandlerInOrder(q)
        BY DEF SubmissionInv, HandlersInOrder
      <3>2. QED
        BY <1>3, <1>5, <1>6, <2>2, <3>1, OthersInOrder
    <2>3. QED
      BY <2>1, <2>2
  <1>8. TokensAreSpent'
    <2>1. ASSUME NEW b \in Browsers, cookie'[b] # None
          PROVE  ballot'[cookie'[b]].status # "none"
      <3>1. cookie[b] \in Requests
        BY <1>4, <2>1 DEF TypeOK
      <3>2. QED
        BY <1>3, <1>4, <2>1, <3>1 DEF SubmissionInv, TokensAreSpent
    <2>2. ASSUME NEW q \in Requests, req'[q].token # None
          PROVE  ballot'[req'[q].token].status # "none"
      <3>1. req'[q].token = req[q].token
        BY <1>5
      <3>2. req[q].token \in Requests
        BY <1>2, <2>2, <3>1 DEF Request
      <3>3. QED
        BY <1>3, <2>2, <3>1, <3>2 DEF SubmissionInv, TokensAreSpent
    <2>3. QED
      BY <2>1, <2>2 DEF TokensAreSpent
  <1>9. BallotsAtHome'
    <2> SUFFICES ASSUME NEW g \in Requests
                 PROVE  (IF ballot[g].status = "none"
                           THEN /\ ballot[g] = NoBallot
                                /\ group[g].submissions = 0
                                /\ group[g].current = None
                           ELSE /\ ballot[g].status = "accepted"
                                /\ ballot[g].isCurrent
                                /\ ballot[g].group = g
                                /\ ballot[g].receivedAt <= EndsAt
                                /\ group[g].submissions = 1
                                /\ group[g].current = g)'
      BY DEF BallotsAtHome
    <2>1. CASE g = r
      <3>1. group'[r] = [created |-> TRUE, submissions |-> 1, current |-> r]
        BY <1>1, <1>2
      <3>2. QED
        BY <1>1, <1>3, <2>1, <3>1
    <2>2. CASE g # r
      <3>1. group'[g] = group[g] /\ ballot'[g] = ballot[g]
        BY <1>1, <1>2, <1>3, <2>2
      <3>2. QED
        BY <3>1 DEF SubmissionInv, BallotsAtHome
    <2>3. QED
      BY <2>1, <2>2
  <1>10. QED
    BY <1>7, <1>8, <1>9 DEF SubmissionInv, HandlersInOrder

LEMMA InvStep == TypeOK /\ SubmissionInv /\ [Next]_vars => SubmissionInv'
  <1> SUFFICES ASSUME TypeOK, SubmissionInv, [Next]_vars PROVE SubmissionInv'
    OBVIOUS
  <1>1. CASE UNCHANGED vars
    BY <1>1 DEF vars, SubmissionInv, TokensAreSpent, BallotsAtHome, HandlersInOrder,
                HandlerInOrder
  <1>2. QED
    BY <1>1, StepCases, InvEnvironment, InvLocal, InvNoBallotStep, InvCommit

(***************************************************************************)
(* Tokens leave the server only with the ballot they name, so every        *)
(* request votes in a group of its own: for any number of voters, browsers *)
(* and overlapping requests.                                               *)
(***************************************************************************)
THEOREM SubmissionCorrect == Spec => []SubmissionInv
  BY TypeInit, TypeStep, InvInit, InvStep, PTL DEF Spec
(***************************************************************************)
(* What follows from it.                                                   *)
(***************************************************************************)
LEMMA HomeMeansEligible == TypeOK /\ SubmissionInv => AcceptedMeansEligible
  BY DEF SubmissionInv, BallotsAtHome, AcceptedMeansEligible, IsBallotEligibleForTally

(* No ballot is accepted that the official rule would leave out.           *)
THEOREM EligibleCorrect == Spec => []AcceptedMeansEligible
  BY TypeCorrect, SubmissionCorrect, HomeMeansEligible, PTL

LEMMA HomeMeansOneCurrent == TypeOK /\ SubmissionInv => OneCurrentBallotPerGroup
  <1> SUFFICES ASSUME TypeOK, SubmissionInv, NEW g \in Requests
               PROVE  /\ group[g].submissions = Cardinality(HeldBy(g))
                      /\ CurrentBallots(g) = {group[g].current} \ {None}
                      /\ HeldBy(g) # {} => group[g].current \in HeldBy(g)
    BY DEF OneCurrentBallotPerGroup
  <1> USE BallotBoxAssumption
  <1>1. BallotsAtHome
    BY DEF SubmissionInv
  <1>2. \A b \in Requests : ballot[b].status = "none" => ~ballot[b].isCurrent
    BY <1>1 DEF BallotsAtHome, NoBallot
  <1>3. CASE ballot[g].status = "none"
    <2>1. HeldBy(g) = {} /\ CurrentBallots(g) = {}
      BY <1>1, <1>2, <1>3 DEF BallotsAtHome, HeldBy, CurrentBallots
    <2>2. group[g].submissions = 0 /\ group[g].current = None
      BY <1>1, <1>3 DEF BallotsAtHome
    <2>3. QED
      BY <2>1, <2>2, FS_EmptySet
  <1>4. CASE ballot[g].status # "none"
    <2>1. HeldBy(g) = {g} /\ CurrentBallots(g) = {g}
      BY <1>1, <1>2, <1>4 DEF BallotsAtHome, HeldBy, CurrentBallots
    <2>2. group[g].submissions = 1 /\ group[g].current = g
      BY <1>1, <1>4 DEF BallotsAtHome
    <2>3. QED
      BY <2>1, <2>2, FS_Singleton
  <1>5. QED
    BY <1>3, <1>4

(* INV-08 for any number of voters sharing any number of browsers.         *)
THEOREM OneCurrentCorrect == Spec => []OneCurrentBallotPerGroup
  BY TypeCorrect, SubmissionCorrect, HomeMeansOneCurrent, PTL

(* A step either commits a ballot or leaves every ballot as it is.         *)
LEMMA BallotStep ==
  ASSUME [Next]_vars
  PROVE  \/ \E r \in Requests : CommitBallot(r)
         \/ UNCHANGED ballot
  <1>1. EnvironmentStep => UNCHANGED ballot
    BY DEF EnvironmentStep, Tick, AdminTransition, BeginTally, ReadBallotsForTally,
           CompleteTally, SignIn, rows
  <1>2. ASSUME NEW r \in Requests, LocalStep(r) PROVE UNCHANGED ballot
    BY <1>2 DEF LocalStep, Receive, RejectMalformed, RequireVoterSession,
                RejectSession, CheckElection, CheckCredential, FindPass, FindGroup,
                Fail, rows
  <1>3. ASSUME NEW r \in Requests,
               CreatePass(r) \/ CreateGroup(r) \/ RejectAnswers(r) \/ Respond(r)
        PROVE  UNCHANGED ballot
    BY <1>3 DEF CreatePass, CreateGroup, RejectAnswers, Respond, rows
  <1>4. QED
    BY <1>1, <1>2, <1>3, StepCases DEF vars

LEMMA FinalStep ==
  ASSUME TypeOK, SubmissionInv, [Next]_vars
  PROVE  \A b \in Requests : ballot[b].status # "none" => ballot'[b] = ballot[b]
  <1>1. ASSUME NEW r \in Requests, CommitBallot(r),
               NEW b \in Requests, ballot[b].status # "none"
        PROVE  ballot'[b] = ballot[b]
    <2>1. /\ ballot[r] = NoBallot
          /\ ballot' = [ballot EXCEPT ![r] = NewBallot(r)]
      BY <1>1, CommitEffect
    <2>2. b # r
      BY <1>1, <2>1 DEF NoBallot
    <2> HIDE DEF NewBallot
    <2>3. QED
      BY <2>1, <2>2 DEF TypeOK
  <1>2. QED
    BY <1>1, BallotStep

(* An accepted ballot stays what it was, whoever votes next on that PC.    *)
THEOREM FinalCorrect == Spec => BallotsAreFinal
  <1>1. TypeOK /\ SubmissionInv /\ [Next]_vars =>
          [\A b \in Requests : ballot[b].status # "none" => ballot'[b] = ballot[b]]_vars
    BY FinalStep
  <1>2. QED
    BY <1>1, TypeCorrect, SubmissionCorrect, PTL DEF Spec, BallotsAreFinal

LEMMA NoVoteAfterVoteStep ==
  ASSUME TypeOK, SubmissionInv, [Next]_vars
  PROVE  \A r \in Requests : Accepts(r) => ~req[r].hadVoted
  <1>1. ASSUME NEW q \in Requests, CommitBallot(q), NEW r \in Requests, Accepts(r)
        PROVE  ~req[r].hadVoted
    <2>1. /\ ballot' = [ballot EXCEPT ![q] = NewBallot(q)]
          /\ ~req[q].hadVoted
      BY <1>1, CommitEffect
    <2>2. r = q
      <3> SUFFICES ASSUME r # q PROVE FALSE
        OBVIOUS
      <3> HIDE DEF NewBallot
      <3>1. ballot'[r] = ballot[r]
        BY <2>1 DEF TypeOK
      <3>2. QED
        BY <1>1, <3>1 DEF Accepts
    <2>3. QED
      BY <2>1, <2>2
  <1>2. ASSUME UNCHANGED ballot, NEW r \in Requests PROVE ~Accepts(r)
    BY <1>2 DEF Accepts
  <1>3. QED
    BY <1>1, <1>2, BallotStep

(* Voting again is refused to every request that arrives after the vote.   *)
THEOREM NoVoteAfterVoteCorrect == Spec => NoVoteAfterVote
  <1>1. TypeOK /\ SubmissionInv /\ [Next]_vars =>
          [\A r \in Requests : Accepts(r) => ~req[r].hadVoted]_vars
    BY NoVoteAfterVoteStep
  <1>2. QED
    BY <1>1, TypeCorrect, SubmissionCorrect, PTL DEF Spec, NoVoteAfterVote
(***************************************************************************)
(* The ledgers.  BooksBalance is inductive once SubmissionInv holds: the   *)
(* insert of a pass finds a credential without ballots, and the submitting *)
(* transaction adds one ballot, never one that was there before.           *)
(***************************************************************************)
Balanced(c) ==
  /\ credential[c].submissions = Cardinality(CastBy(c))
  /\ pass[c].usage = credential[c].submissions
  /\ credential[c].hasVoted <=> credential[c].submissions > 0
  /\ (pass[c].status = "used") <=> credential[c].submissions > 0

LEMMA BooksInit == Init => BooksBalance
  <1> SUFFICES ASSUME Init, NEW c \in Credentials PROVE Balanced(c)
    BY DEF BooksBalance, Balanced
  <1>1. CastBy(c) = {}
    BY DEF Init, CastBy, NoBallot
  <1>2. QED
    BY <1>1, FS_EmptySet DEF Init, Balanced

(* A credential none of whose rows and ballots changes stays balanced.     *)
LEMMA BalanceKept ==
  ASSUME NEW c \in Credentials, Balanced(c),
         credential'[c] = credential[c], pass'[c] = pass[c], CastBy(c)' = CastBy(c)
  PROVE  Balanced(c)'
  BY DEF Balanced

LEMMA BooksCreatePass ==
  ASSUME TypeOK, BooksBalance, NEW r \in Requests, CreatePass(r)
  PROVE  BooksBalance'
  <1> SUFFICES ASSUME NEW c \in Credentials PROVE Balanced(c)'
    BY DEF BooksBalance, Balanced
  <1> DEFINE d == req[r].credential
  <1>1. /\ Balanced(c)
        /\ UNCHANGED <<ballot, credential>>
        /\ CastBy(c)' = CastBy(c)
    BY DEF BooksBalance, Balanced, CreatePass, CastBy
  <1>2. CASE c = d /\ pass[d].status = "none"
    <2>1. pass'[c] = [status |-> "issued", usage |-> 0]
      BY <1>2 DEF CreatePass, TypeOK
    <2>2. /\ credential[c].submissions \in Nat
          /\ ~(credential[c].submissions > 0)
      BY <1>1, <1>2 DEF Balanced, TypeOK
    <2>3. credential[c].submissions = 0
      BY <2>2
    <2>4. QED
      BY <1>1, <2>1, <2>3 DEF Balanced
  <1>3. CASE ~(c = d /\ pass[d].status = "none")
    <2>1. pass'[c] = pass[c]
      BY <1>3 DEF CreatePass, TypeOK
    <2>2. QED
      BY <1>1, <2>1, BalanceKept
  <1>4. QED
    BY <1>2, <1>3

LEMMA BooksCommit ==
  ASSUME TypeOK, SubmissionInv, BooksBalance, NEW r \in Requests, CommitBallot(r)
  PROVE  BooksBalance'
  <1> SUFFICES ASSUME NEW c \in Credentials PROVE Balanced(c)'
    BY DEF BooksBalance, Balanced
  <1> DEFINE d == req[r].credential
  <1>0. Balanced(c)
    BY DEF BooksBalance, Balanced
  <1>1. /\ ballot[r].status = "none"
        /\ ballot'[r].status = "accepted"
        /\ ballot'[r].castBy = d
        /\ \A b \in Requests : b # r => ballot'[b] = ballot[b]
    <2>1. /\ ballot[r] = NoBallot
          /\ ballot' = [ballot EXCEPT ![r] = NewBallot(r)]
          /\ NewBallot(r).status = "accepted"
          /\ NewBallot(r).castBy = d
      BY CommitEffect
    <2> HIDE DEF NewBallot
    <2>2. QED
      BY <2>1 DEF NoBallot, TypeOK
  <1>2. /\ credential' = [credential EXCEPT ![d] =
                            [hasVoted |-> TRUE, submissions |-> @.submissions + 1]]
        /\ pass' = [pass EXCEPT ![d] = [status |-> "used", usage |-> @.usage + 1]]
    BY DEF CommitBallot
  <1>3. CASE c = d
    <2>1. CastBy(c)' = CastBy(c) \cup {r} /\ r \notin CastBy(c)
      BY <1>1, <1>3 DEF CastBy
    <2>2. IsFiniteSet(CastBy(c))
      BY BallotBoxAssumption, FS_Subset DEF CastBy
    <2>3. Cardinality(CastBy(c)') = Cardinality(CastBy(c)) + 1
      BY <2>1, <2>2, FS_AddElement
    <2>4. /\ credential'[c] = [hasVoted |-> TRUE,
                               submissions |-> credential[c].submissions + 1]
          /\ pass'[c] = [status |-> "used", usage |-> pass[c].usage + 1]
          /\ credential[c].submissions \in Nat
      BY <1>2, <1>3 DEF TypeOK
    <2>5. QED
      BY <1>0, <2>3, <2>4 DEF Balanced
  <1>4. CASE c # d
    <2>1. CastBy(c)' = CastBy(c)
      BY <1>1, <1>4 DEF CastBy
    <2>2. credential'[c] = credential[c] /\ pass'[c] = pass[c]
      BY <1>2, <1>4 DEF TypeOK
    <2>3. QED
      BY <1>0, <2>1, <2>2, BalanceKept
  <1>5. QED
    BY <1>3, <1>4

LEMMA BooksStep ==
  TypeOK /\ SubmissionInv /\ BooksBalance /\ [Next]_vars => BooksBalance'
  <1> SUFFICES ASSUME TypeOK, SubmissionInv, BooksBalance, [Next]_vars
               PROVE  BooksBalance'
    OBVIOUS
  <1>1. ASSUME UNCHANGED <<ballot, credential, pass>> PROVE BooksBalance'
    BY <1>1 DEF BooksBalance, CastBy
  <1>2. CASE EnvironmentStep
    BY <1>1, <1>2 DEF EnvironmentStep, Tick, AdminTransition, BeginTally,
                      ReadBallotsForTally, CompleteTally, SignIn, rows
  <1>3. ASSUME NEW r \in Requests, LocalStep(r) PROVE BooksBalance'
    BY <1>1, <1>3, LocalStepShape DEF rows
  <1>4. ASSUME NEW r \in Requests, CreateGroup(r) \/ RejectAnswers(r) \/ Respond(r)
        PROVE  BooksBalance'
    BY <1>1, <1>4 DEF CreateGroup, RejectAnswers, Respond, rows
  <1>5. CASE UNCHANGED vars
    BY <1>1, <1>5 DEF vars
  <1>6. QED
    BY <1>2, <1>3, <1>4, <1>5, StepCases, BooksCreatePass, BooksCommit

(***************************************************************************)
(* The credential, its pass and the ballots cast with it agree in every    *)
(* reachable state: for any number of overlapping, failing or retried      *)
(* submissions.                                                            *)
(***************************************************************************)
THEOREM BooksCorrect == Spec => []BooksBalance
  BY TypeCorrect, SubmissionCorrect, BooksInit, BooksStep, PTL DEF Spec
(* Once the election is neither open nor paused, a handler stands past the *)
(* check only if it stood there before.                                    *)
LEMMA NobodyPassesTheCheck ==
  ASSUME TypeOK, [Next]_vars, election \notin {"open", "paused"},
         NEW q \in Requests, req'[q].pc \in PastTheCheck
  PROVE  req[q].pc \in PastTheCheck
  <1> USE DEF PastTheCheck, Unaltered, Goto, Refuse
  <1>0. req \in [Requests -> Request]
    BY DEF TypeOK
  <1>1. ASSUME req'[q] = req[q] PROVE req[q].pc \in PastTheCheck
    BY <1>1
  <1>2. ASSUME NEW r \in Requests, NEW new, req' = [req EXCEPT ![r] = new],
               new.pc \notin PastTheCheck
        PROVE  req[q].pc \in PastTheCheck
    BY <1>0, <1>1, <1>2
  <1>3. ASSUME NEW r \in Requests, req[r].pc \in PastTheCheck,
               NEW new, req' = [req EXCEPT ![r] = new]
        PROVE  req[q].pc \in PastTheCheck
    BY <1>0, <1>1, <1>3
  <1>4. ASSUME NEW r \in Requests, NEW pc \in {"authenticated"}, Goto(r, pc)
        PROVE  req[q].pc \in PastTheCheck
    <2>1. CASE q = r
      BY <1>0, <1>4, <2>1 DEF Request
    <2>2. CASE q # r
      BY <1>0, <1>1, <1>4, <2>2
    <2>3. QED
      BY <2>1, <2>2
  <1>5. ASSUME NEW r \in Requests, NEW pc \in Answered,
               req' = [req EXCEPT ![r] = Blank(pc)]
        PROVE  req[q].pc \in PastTheCheck
    <2>1. Blank(pc).pc \notin PastTheCheck
      BY DEF Blank, Answered
    <2> HIDE DEF Blank
    <2>2. QED
      BY <1>2, <1>5, <2>1
  <1>6. ASSUME NEW r \in Requests, NEW b \in Browsers, Receive(r, b)
        PROVE  req[q].pc \in PastTheCheck
    BY <1>2, <1>6 DEF Receive
  <1>7. ASSUME NEW r \in Requests, RequireVoterSession(r)
        PROVE  req[q].pc \in PastTheCheck
    BY <1>4, <1>7 DEF RequireVoterSession
  <1>8. ASSUME NEW r \in Requests,
               RejectMalformed(r) \/ RejectSession(r) \/ RejectAnswers(r)
                 \/ Fail(r) \/ Respond(r)
        PROVE  req[q].pc \in PastTheCheck
    BY <1>5, <1>8 DEF RejectMalformed, RejectSession, RejectAnswers, Fail, Respond,
                      Answered
  <1>9. ASSUME NEW r \in Requests, CheckElection(r)
        PROVE  req[q].pc \in PastTheCheck
    <2>1. ~CanPerform(election, "submitBallot")
      BY DEF CanPerform, StatesAllowing
    <2>2. req' = [req EXCEPT ![r] = Blank("refused")]
      BY <1>9, <2>1 DEF CheckElection
    <2>3. QED
      BY <1>5, <2>2 DEF Answered
  <1>10. ASSUME NEW r \in Requests,
                CheckCredential(r) \/ FindPass(r) \/ FindGroup(r) \/ CreatePass(r)
                  \/ CreateGroup(r) \/ CommitBallot(r)
         PROVE  req[q].pc \in PastTheCheck
    <2>1. req[r].pc \in PastTheCheck
      BY <1>10 DEF CheckCredential, FindPass, FindGroup, CreatePass, CreateGroup,
                   CommitBallot
    <2>2. \E new : req' = [req EXCEPT ![r] = new]
      BY <1>10 DEF CheckCredential, FindPass, FindGroup, CreatePass, CreateGroup,
                   CommitBallot
    <2>3. QED
      BY <1>3, <2>1, <2>2
  <1>11. CASE EnvironmentStep \/ UNCHANGED vars
    BY <1>11 DEF EnvironmentStep, Tick, AdminTransition, BeginTally,
                 ReadBallotsForTally, CompleteTally, SignIn, vars
  <1>12. QED
    BY <1>6, <1>7, <1>8, <1>9, <1>10, <1>11, StepCases DEF LocalStep

LEMMA NoNewVoteStep ==
  ASSUME TypeOK, SubmissionInv, [Next]_vars, election \notin {"open", "paused"}
  PROVE  (InFlight \cup Cast)' \subseteq InFlight \cup Cast
  <1>1. ASSUME NEW q \in Requests, req'[q].pc \in PastTheCheck
        PROVE  q \in InFlight
    BY <1>1, NobodyPassesTheCheck DEF InFlight
  <1>2. ASSUME NEW q \in Requests, ballot'[q].status # "none",
               ballot[q].status = "none"
        PROVE  q \in InFlight
    <2>1. PICK r \in Requests : CommitBallot(r)
      BY <1>2, BallotStep
    <2>2. ballot' = [ballot EXCEPT ![r] = NewBallot(r)]
      BY <2>1, CommitEffect
    <2>3. q = r
      <3> SUFFICES ASSUME q # r PROVE FALSE
        OBVIOUS
      <3> HIDE DEF NewBallot
      <3>1. ballot'[q] = ballot[q]
        BY <2>2 DEF TypeOK
      <3>2. QED
        BY <1>2, <3>1
    <2>4. QED
      BY <2>1, <2>3 DEF CommitBallot, InFlight, PastTheCheck
  <1>3. QED
    BY <1>1, <1>2 DEF InFlight, Cast

(* After the close only submissions already past the check can still land. *)
THEOREM NoNewVoteCorrect == Spec => NoNewVoteAfterClose
  <1>1. TypeOK /\ SubmissionInv /\ [Next]_vars =>
          [election \notin {"open", "paused"} =>
             (InFlight \cup Cast)' \subseteq InFlight \cup Cast]_vars
    BY NoNewVoteStep
  <1>2. QED
    BY <1>1, TypeCorrect, SubmissionCorrect, PTL DEF Spec, NoNewVoteAfterClose

-----------------------------------------------------------------------------
(***************************************************************************)
(* BallotBox implements BallotLedger: every step of the handlers, of the   *)
(* administrators and of the tally is a step of the ledger or leaves it as *)
(* it is.                                                                  *)
(***************************************************************************)

(***************************************************************************)
(* The administrators and the tally take an election that was opened along *)
(* five states only; none leads back to an open vote from the last three.  *)
(***************************************************************************)
OpenedElection ==
  election \in {"open", "paused", "closed", "tallying", "pending_confirmation"}

LEMMA ElectionStep ==
  ASSUME OpenedElection, [Next]_vars
  PROVE  /\ OpenedElection'
         /\ election \notin {"open", "paused"} => election' \notin {"open", "paused"}
  <1>1. ASSUME NEW to \in ElectionState, AdminTransition(to)
        PROVE  /\ OpenedElection'
               /\ election \notin {"open", "paused"}
                    => election' \notin {"open", "paused"}
    BY <1>1 DEF AdminTransition, OpenedElection, CanTransition, AllowedTransitions,
                PreStartStates, ElectionState
  <1>2. CASE BeginTally
    BY <1>2 DEF BeginTally, OpenedElection, CanPerform, StatesAllowing
  <1>3. CASE CompleteTally
    BY <1>3 DEF CompleteTally, OpenedElection
  <1>4. CASE UNCHANGED election
    BY <1>4 DEF OpenedElection
  <1>5. ASSUME NEW r \in Requests,
               \/ LocalStep(r) \/ CreatePass(r) \/ CreateGroup(r)
               \/ RejectAnswers(r) \/ CommitBallot(r) \/ Respond(r)
        PROVE  UNCHANGED election
    BY <1>5 DEF LocalStep, Receive, RejectMalformed, RequireVoterSession,
           RejectSession, CheckElection, CheckCredential, FindPass, FindGroup, Fail,
           CreatePass, CreateGroup, RejectAnswers, CommitBallot, Respond, Unaltered
  <1>6. QED
    BY <1>1, <1>2, <1>3, <1>4, <1>5, StepCases
       DEF EnvironmentStep, Tick, ReadBallotsForTally, SignIn, vars

(***************************************************************************)
(* The ledger's variables, as BallotBox shows them.                        *)
(***************************************************************************)
Stage == IF election \in {"open", "paused"} THEN election ELSE "over"
Admitted == At({"open"})
Cleared == At(PastTheCheck \ {"open"})
Accepted == {<<b, ballot[b].castBy>> : b \in Cast}

(* The submissions at given steps, after one request moved.                *)
LEMMA AtStep ==
  ASSUME TypeOK, NEW r \in Requests, NEW new, NEW pcs,
         req' = [req EXCEPT ![r] = new]
  PROVE  /\ new.pc \in pcs =>
              At(pcs)' = (At(pcs) \ {<<r, req[r].credential>>})
                           \cup {<<r, new.credential>>}
         /\ new.pc \notin pcs =>
              At(pcs)' = At(pcs) \ {<<r, req[r].credential>>}
  <1>1. DOMAIN req = Requests
    BY DEF TypeOK
  <1>2. /\ req'[r] = new
        /\ \A q \in Requests : q # r => req'[q] = req[q]
    BY <1>1
  <1>3. At(pcs)' = {<<q, req'[q].credential>> :
                      q \in {x \in Requests : req'[x].pc \in pcs}}
    BY DEF At
  <1>4. QED
    BY <1>2, <1>3 DEF At

LEMMA AdmittedStep ==
  ASSUME TypeOK, NEW r \in Requests, NEW new, req' = [req EXCEPT ![r] = new]
  PROVE  /\ new.pc = "open" =>
              Admitted' = (Admitted \ {<<r, req[r].credential>>})
                            \cup {<<r, new.credential>>}
         /\ new.pc # "open" =>
              Admitted' = Admitted \ {<<r, req[r].credential>>}
  <1>1. new.pc = "open" <=> new.pc \in {"open"}
    OBVIOUS
  <1>2. QED
    BY <1>1, AtStep DEF Admitted

LEMMA ClearedStep ==
  ASSUME TypeOK, NEW r \in Requests, NEW new, req' = [req EXCEPT ![r] = new]
  PROVE  /\ new.pc \in PastTheCheck \ {"open"} =>
              Cleared' = (Cleared \ {<<r, req[r].credential>>})
                           \cup {<<r, new.credential>>}
         /\ new.pc \notin PastTheCheck \ {"open"} =>
              Cleared' = Cleared \ {<<r, req[r].credential>>}
  <1> DEFINE pcs == PastTheCheck \ {"open"}
  <1>1. Cleared = At(pcs) /\ Cleared' = At(pcs)'
    BY DEF Cleared
  <1> HIDE DEF pcs
  <1>2. QED
    BY <1>1, AtStep DEF pcs

LEMMA AtMember ==
  ASSUME NEW pcs, NEW p
  PROVE  p \in At(pcs) <=>
           \E q \in Requests : req[q].pc \in pcs /\ p = <<q, req[q].credential>>
  BY DEF At

LEMMA LedgerInit == Init => Ledger!Init
  <1> SUFFICES ASSUME Init PROVE Ledger!Init
    OBVIOUS
  <1>1. Admitted = {} /\ Cleared = {}
    BY DEF Init, Admitted, Cleared, At, Blank, PastTheCheck
  <1>2. Accepted = {}
    BY DEF Init, Accepted, Cast, NoBallot
  <1>3. Stage = "open" /\ result = [read |-> FALSE, ballots |-> {}]
    BY DEF Init, Stage
  <1>4. QED
    BY <1>1, <1>2, <1>3 DEF Ledger!Init, Stage, Admitted, Cleared, Accepted

(***************************************************************************)
(* Steps that the ledger does not see.                                     *)
(***************************************************************************)
LEMMA LedgerStutters ==
  ASSUME Stage' = Stage, Admitted' = Admitted, Cleared' = Cleared,
         Accepted' = Accepted, UNCHANGED result
  PROVE  UNCHANGED Ledger!vars
  BY DEF Ledger!vars, Stage, Admitted, Cleared, Accepted

LEMMA SameRequests ==
  ASSUME UNCHANGED <<req, ballot>>
  PROVE  Admitted' = Admitted /\ Cleared' = Cleared /\ Accepted' = Accepted
  BY DEF Admitted, Cleared, Accepted, At, Cast

(* A request that moves without a ballot leaves the others where they are. *)
LEMMA RequestMoves ==
  ASSUME UNCHANGED <<election, ballot, result>>
  PROVE  Stage' = Stage /\ Accepted' = Accepted /\ UNCHANGED result
  BY DEF Stage, Accepted, Cast

(* A request that was not past the check and does not get there.           *)
LEMMA StaysOutside ==
  ASSUME TypeOK, NEW r \in Requests, NEW new,
         req' = [req EXCEPT ![r] = new], UNCHANGED <<election, ballot, result>>,
         req[r].pc \notin PastTheCheck, new.pc \notin PastTheCheck
  PROVE  UNCHANGED Ledger!vars
  <1>1. ASSUME NEW pcs \in SUBSET PastTheCheck PROVE At(pcs)' = At(pcs)
    <2>1. At(pcs)' = At(pcs) \ {<<r, req[r].credential>>}
      BY AtStep
    <2>2. <<r, req[r].credential>> \notin At(pcs)
      BY AtMember
    <2>3. QED
      BY <2>1, <2>2
  <1>2. Admitted' = Admitted /\ Cleared' = Cleared
    BY <1>1 DEF Admitted, Cleared, PastTheCheck
  <1>3. QED
    BY <1>2, RequestMoves, LedgerStutters

(* A request that goes on from one of its cleared steps to another.        *)
LEMMA StaysCleared ==
  ASSUME TypeOK, NEW r \in Requests, NEW new,
         req' = [req EXCEPT ![r] = new], UNCHANGED <<election, ballot, result>>,
         req[r].pc \in PastTheCheck \ {"open"}, new.pc \in PastTheCheck \ {"open"},
         new.credential = req[r].credential
  PROVE  UNCHANGED Ledger!vars
  <1>1. Admitted' = Admitted
    <2>1. Admitted' = Admitted \ {<<r, req[r].credential>>}
      BY AdmittedStep
    <2>2. <<r, req[r].credential>> \notin Admitted
      BY AtMember DEF Admitted
    <2>3. QED
      BY <2>1, <2>2
  <1>2. Cleared' = Cleared
    <2>1. Cleared' = (Cleared \ {<<r, req[r].credential>>}) \cup {<<r, req[r].credential>>}
      BY ClearedStep DEF PastTheCheck
    <2>2. <<r, req[r].credential>> \in Cleared
      BY AtMember DEF Cleared
    <2>3. QED
      BY <2>1, <2>2
  <1>3. QED
    BY <1>1, <1>2, RequestMoves, LedgerStutters

(* A request that ends without a ballot: the ledger drops it, if it had it. *)
LEMMA Ends ==
  ASSUME TypeOK, SubmissionInv, NEW r \in Requests, NEW new,
         req' = [req EXCEPT ![r] = new], UNCHANGED <<election, ballot, result>>,
         new.pc \notin PastTheCheck
  PROVE  [Ledger!Next]_(Ledger!vars)
  <1> DEFINE c == req[r].credential
  <1>1. CASE req[r].pc \notin PastTheCheck
    BY <1>1, StaysOutside
  <1>2. CASE req[r].pc \in PastTheCheck
    <2>1. c \in Credentials
      BY <1>2 DEF SubmissionInv, HandlersInOrder, HandlerInOrder, TypeOK, Request
    <2>2. <<r, c>> \in Admitted \cup Cleared
      BY <1>2, AtMember DEF Admitted, Cleared
    <2>3. Admitted' = Admitted \ {<<r, c>>} /\ Cleared' = Cleared \ {<<r, c>>}
      BY AdmittedStep, ClearedStep DEF PastTheCheck
    <2>4. Stage' = Stage /\ Accepted' = Accepted /\ UNCHANGED result
      BY RequestMoves
    <2>5. Ledger!Drop(r, c)
      BY <2>2, <2>3, <2>4 DEF Ledger!Drop, Stage, Admitted, Cleared, Accepted
    <2>6. QED
      BY <2>1, <2>5 DEF Ledger!Next
  <1>3. QED
    BY <1>1, <1>2

(***************************************************************************)
(* The steps the ledger sees.                                              *)
(***************************************************************************)
(* Passing the check of the election: the submission is admitted.          *)
LEMMA LedgerAdmits ==
  ASSUME TypeOK, SubmissionInv, NEW r \in Requests, CheckElection(r)
  PROVE  [Ledger!Next]_(Ledger!vars)
  <1> DEFINE c == req[r].credential
             open == [req[r] EXCEPT !.pc = "open"]
  <1>0. /\ req[r].pc = "authenticated"
        /\ UNCHANGED <<election, ballot, result>>
    BY DEF CheckElection, Unaltered, rows
  <1>1. CASE req' = [req EXCEPT ![r] = open] /\ election = "open"
    <2>1. c \in Credentials /\ open.credential = c /\ open.pc = "open"
      BY <1>0 DEF SubmissionInv, HandlersInOrder, HandlerInOrder, TypeOK, Request
    <2> HIDE DEF open
    <2>2. \A d : <<r, d>> \notin Admitted /\ <<r, d>> \notin Cleared
      BY <1>0, AtMember DEF Admitted, Cleared, PastTheCheck
    <2>3. \A d : <<r, d>> \notin Accepted
      BY <1>0 DEF SubmissionInv, HandlersInOrder, HandlerInOrder, Accepted, Cast
    <2>4. Admitted' = Admitted \cup {<<r, c>>}
      <3>1. Admitted' = (Admitted \ {<<r, c>>}) \cup {<<r, c>>}
        BY <1>1, <2>1, AdmittedStep
      <3>2. QED
        BY <2>2, <3>1
    <2>5. Cleared' = Cleared
      <3>1. Cleared' = Cleared \ {<<r, c>>}
        BY <1>1, <2>1, ClearedStep
      <3>2. QED
        BY <2>2, <3>1
    <2>6. r \notin {p[1] : p \in Admitted \cup Cleared \cup Accepted}
      <3>1. ASSUME NEW p \in Admitted \cup Cleared PROVE \E d : p = <<p[1], d>>
        BY <3>1, AtMember DEF Admitted, Cleared
      <3>2. ASSUME NEW p \in Accepted PROVE \E d : p = <<p[1], d>>
        BY <3>2 DEF Accepted
      <3>3. QED
        BY <2>2, <2>3, <3>1, <3>2
    <2>7. Stage = "open"
      BY <1>1 DEF Stage
    <2>8. Stage' = Stage /\ Accepted' = Accepted /\ UNCHANGED result
      BY <1>0, RequestMoves
    <2>9. Ledger!Admit(r, c)
      BY <2>4, <2>5, <2>6, <2>7, <2>8
         DEF Ledger!Admit, Ledger!Known, Stage, Admitted, Cleared, Accepted
    <2>10. QED
      BY <2>1, <2>9 DEF Ledger!Next
  <1>2. CASE req' = [req EXCEPT ![r] = Blank("refused")]
    <2>1. Blank("refused").pc \notin PastTheCheck
      BY DEF Blank, PastTheCheck
    <2> HIDE DEF Blank
    <2>2. QED
      BY <1>0, <1>2, <2>1, Ends
  <1>3. QED
    BY <1>1, <1>2 DEF CheckElection, Goto, Refuse, IsVotingWindowOpen

(* Finding a credential that has not voted: the submission is cleared.     *)
LEMMA LedgerClears ==
  ASSUME TypeOK, SubmissionInv, BooksBalance, NEW r \in Requests, CheckCredential(r)
  PROVE  [Ledger!Next]_(Ledger!vars)
  <1> DEFINE c == req[r].credential
             eligible == [req[r] EXCEPT !.pc = "eligible"]
  <1>0. /\ req[r].pc = "open"
        /\ UNCHANGED <<election, ballot, result>>
        /\ c \in Credentials
    BY DEF CheckCredential, Unaltered, rows, SubmissionInv, HandlersInOrder,
           HandlerInOrder, PastTheCheck, TypeOK, Request
  <1>1. CASE req' = [req EXCEPT ![r] = eligible] /\ ~credential[c].hasVoted
    <2>1. eligible.credential = c /\ eligible.pc = "eligible"
      BY DEF TypeOK, Request
    <2> HIDE DEF eligible
    <2>2. <<r, c>> \in Admitted /\ <<r, c>> \notin Cleared
      BY <1>0, AtMember DEF Admitted, Cleared
    <2>3. Admitted' = Admitted \ {<<r, c>>}
      BY <1>1, <2>1, AdmittedStep
    <2>4. Cleared' = Cleared \cup {<<r, c>>}
      BY <1>1, <2>1, <2>2, ClearedStep DEF PastTheCheck
    <2>5. \A q \in Requests : <<q, c>> \notin Accepted
      <3>1. Cardinality(CastBy(c)) = 0
        <4>1. credential[c].submissions \in Nat /\ ~(credential[c].submissions > 0)
          BY <1>0, <1>1 DEF BooksBalance, TypeOK
        <4>2. QED
          BY <1>0, <4>1 DEF BooksBalance
      <3>2. IsFiniteSet(CastBy(c))
        BY BallotBoxAssumption, FS_Subset DEF CastBy
      <3>3. CastBy(c) = {}
        BY <3>1, <3>2, FS_EmptySet
      <3>4. QED
        BY <3>3 DEF Accepted, Cast, CastBy
    <2>6. Stage' = Stage /\ Accepted' = Accepted /\ UNCHANGED result
      BY <1>0, RequestMoves
    <2>7. Ledger!Clear(r, c)
      BY <2>2, <2>3, <2>4, <2>5, <2>6
         DEF Ledger!Clear, Ledger!HasBallot, Stage, Admitted, Cleared, Accepted
    <2>8. QED
      BY <1>0, <2>7 DEF Ledger!Next
  <1>2. CASE req' = [req EXCEPT ![r] = Blank("refused")]
    <2>1. Blank("refused").pc \notin PastTheCheck
      BY DEF Blank, PastTheCheck
    <2> HIDE DEF Blank
    <2>2. QED
      BY <1>0, <1>2, <2>1, Ends
  <1>3. QED
    BY <1>1, <1>2 DEF CheckCredential, Goto, Refuse

(* The transaction: the submission is cast.                                *)
LEMMA LedgerCasts ==
  ASSUME TypeOK, SubmissionInv, NEW r \in Requests, CommitBallot(r)
  PROVE  [Ledger!Next]_(Ledger!vars)
  <1> DEFINE committed == [req[r] EXCEPT !.pc = "committed"]
  <1>0. PICK c \in Credentials : c = req[r].credential
    BY CommitEffect
  <1>1. /\ req[r].pc = "hasGroup"
        /\ req' = [req EXCEPT ![r] = committed]
        /\ committed.pc = "committed"
        /\ UNCHANGED <<election, result>>
    BY DEF CommitBallot, Goto, Unaltered, TypeOK, Request
  <1> HIDE DEF committed
  <1>2. <<r, c>> \in Cleared /\ <<r, c>> \notin Admitted
    BY <1>0, <1>1, AtMember DEF Admitted, Cleared, PastTheCheck
  <1>3. Cleared' = Cleared \ {<<r, c>>}
    BY <1>0, <1>1, ClearedStep DEF PastTheCheck
  <1>4. Admitted' = Admitted
    <2>1. Admitted' = Admitted \ {<<r, c>>}
      BY <1>0, <1>1, AdmittedStep
    <2>2. QED
      BY <1>2, <2>1
  <1>5. Accepted' = Accepted \cup {<<r, c>>}
    <2>1. /\ ballot[r] = NoBallot
          /\ ballot' = [ballot EXCEPT ![r] = NewBallot(r)]
          /\ NewBallot(r).status = "accepted"
          /\ NewBallot(r).castBy = c
      BY <1>0, CommitEffect
    <2> HIDE DEF NewBallot
    <2>2. /\ ballot'[r].status = "accepted" /\ ballot'[r].castBy = c
          /\ \A b \in Requests : b # r => ballot'[b] = ballot[b]
          /\ ballot[r].status = "none"
      BY <2>1 DEF TypeOK, NoBallot
    <2>3. Cast' = Cast \cup {r} /\ r \notin Cast
      BY <2>2 DEF Cast
    <2>4. Accepted' = {<<b, ballot'[b].castBy>> : b \in Cast'}
      BY DEF Accepted
    <2>5. QED
      BY <2>2, <2>3, <2>4 DEF Accepted, Cast
  <1>6. Stage' = Stage
    BY <1>1 DEF Stage
  <1>7. Ledger!Cast(r, c)
    BY <1>1, <1>2, <1>3, <1>4, <1>5, <1>6
       DEF Ledger!Cast, Stage, Admitted, Cleared, Accepted
  <1>8. QED
    BY <1>7 DEF Ledger!Next

(***************************************************************************)
(* The administrators and the tally.                                       *)
(***************************************************************************)
LEMMA LedgerEnvironment ==
  ASSUME TypeOK, SubmissionInv, OpenedElection, EnvironmentStep
  PROVE  [Ledger!Next]_(Ledger!vars)
  <1>1. ASSUME UNCHANGED <<req, ballot, result>>,
               Stage = "over" => Stage' = "over"
        PROVE  [Ledger!Next]_(Ledger!vars)
    <2>1. Admitted' = Admitted /\ Cleared' = Cleared /\ Accepted' = Accepted
      BY <1>1, SameRequests
    <2>2. CASE Stage = "over"
      BY <1>1, <2>1, <2>2, LedgerStutters
    <2>3. CASE Stage # "over"
      <3>1. Stage' \in {"open", "paused", "over"}
        BY DEF Stage
      <3>2. Ledger!Administer
        BY <1>1, <2>1, <2>3, <3>1
           DEF Ledger!Administer, Stage, Admitted, Cleared, Accepted
      <3>3. QED
        BY <3>2 DEF Ledger!Next
    <2>4. QED
      BY <2>2, <2>3
  <1>2. CASE ReadBallotsForTally
    <2>1. Stage = "over" /\ Stage' = "over" /\ ~result.read
      BY <1>2 DEF ReadBallotsForTally, Stage
    <2>2. Admitted' = Admitted /\ Cleared' = Cleared /\ Accepted' = Accepted
      BY <1>2, SameRequests DEF ReadBallotsForTally, rows
    <2>3. {b \in Requests : IsBallotEligibleForTally(b)} = {p[1] : p \in Accepted}
      <3>1. \A b \in Requests : IsBallotEligibleForTally(b) <=> b \in Cast
        BY DEF SubmissionInv, BallotsAtHome, NoBallot, IsBallotEligibleForTally, Cast
      <3>2. {p[1] : p \in Accepted} = Cast
        <4>1. \A b \in Cast : <<b, ballot[b].castBy>> \in Accepted
          BY DEF Accepted
        <4>2. \A p \in Accepted : p[1] \in Cast
          BY DEF Accepted
        <4>3. \A b \in Cast : \E p \in Accepted : b = p[1]
          BY <4>1
        <4>4. QED
          BY <4>2, <4>3
      <3>3. QED
        BY <3>1, <3>2 DEF Cast
    <2>4. result' = [read |-> TRUE, ballots |-> {p[1] : p \in Accepted}]
      BY <1>2, <2>3 DEF ReadBallotsForTally
    <2>5. Ledger!Count
      BY <2>1, <2>2, <2>4 DEF Ledger!Count, Stage, Admitted, Cleared, Accepted
    <2>6. QED
      BY <2>5 DEF Ledger!Next
  <1>3. ASSUME ~ReadBallotsForTally
        PROVE  /\ UNCHANGED <<req, ballot, result>>
               /\ Stage = "over" => Stage' = "over"
    <2>1. UNCHANGED <<req, ballot, result>>
      BY <1>3 DEF EnvironmentStep, Tick, AdminTransition, BeginTally, CompleteTally,
                  SignIn, rows
    <2>2. [Next]_vars
      BY DEF EnvironmentStep, Next, Environment
    <2>3. QED
      BY <2>1, <2>2, ElectionStep DEF Stage
  <1>4. QED
    BY <1>1, <1>2, <1>3

LEMMA LedgerStep ==
  TypeOK /\ SubmissionInv /\ BooksBalance /\ OpenedElection /\ [Next]_vars
    => [Ledger!Next]_(Ledger!vars)
  <1> SUFFICES ASSUME TypeOK, SubmissionInv, BooksBalance, OpenedElection, [Next]_vars
               PROVE  [Ledger!Next]_(Ledger!vars)
    OBVIOUS
  <1> USE DEF Unaltered, rows, Refuse
  <1>1. ASSUME NEW r \in Requests, NEW pc \in Answered,
               req' = [req EXCEPT ![r] = Blank(pc)],
               UNCHANGED <<election, ballot, result>>
        PROVE  [Ledger!Next]_(Ledger!vars)
    <2>1. Blank(pc).pc \notin PastTheCheck
      BY DEF Blank, Answered, PastTheCheck
    <2> HIDE DEF Blank
    <2>2. QED
      BY <1>1, <2>1, Ends
  <1>2. ASSUME NEW r \in Requests,
               RejectMalformed(r) \/ RejectSession(r) \/ RejectAnswers(r)
                 \/ Fail(r) \/ Respond(r)
        PROVE  [Ledger!Next]_(Ledger!vars)
    BY <1>1, <1>2 DEF RejectMalformed, RejectSession, RejectAnswers, Fail, Respond,
                      Answered
  <1>3. ASSUME NEW r \in Requests, NEW b \in Browsers, Receive(r, b)
        PROVE  [Ledger!Next]_(Ledger!vars)
    <2> DEFINE new == [pc |-> "received", browser |-> b, credential |-> session[b],
                       token |-> cookie[b], receivedAt |-> clock, group |-> None,
                       hadVoted |-> session[b] # None /\ credential[session[b]].hasVoted]
    <2>1. /\ req[r].pc \notin PastTheCheck
          /\ req' = [req EXCEPT ![r] = new]
          /\ new.pc \notin PastTheCheck
          /\ UNCHANGED <<election, ballot, result>>
      BY <1>3 DEF Receive, PastTheCheck
    <2> HIDE DEF new
    <2>2. QED
      BY <2>1, StaysOutside
  <1>4. ASSUME NEW r \in Requests, NEW pc, Goto(r, pc)
        PROVE  \E new : /\ req' = [req EXCEPT ![r] = new]
                        /\ new.pc = pc /\ new.credential = req[r].credential
    <2> DEFINE new == [req[r] EXCEPT !.pc = pc]
    <2>1. /\ req' = [req EXCEPT ![r] = new]
          /\ new.pc = pc /\ new.credential = req[r].credential
      BY <1>4 DEF TypeOK, Request, Goto
    <2> HIDE DEF new
    <2>2. QED
      BY <2>1
  <1>5. ASSUME NEW r \in Requests, RequireVoterSession(r)
        PROVE  [Ledger!Next]_(Ledger!vars)
    <2>1. /\ Goto(r, "authenticated")
          /\ req[r].pc \notin PastTheCheck
          /\ UNCHANGED <<election, ballot, result>>
      BY <1>5 DEF RequireVoterSession, PastTheCheck
    <2>2. PICK new : req' = [req EXCEPT ![r] = new] /\ new.pc = "authenticated"
      BY <1>4, <2>1
    <2>3. QED
      BY <2>1, <2>2, StaysOutside DEF PastTheCheck
  <1>6. ASSUME NEW r \in Requests, NEW pc \in PastTheCheck \ {"open"}, Goto(r, pc),
               req[r].pc \in PastTheCheck \ {"open"},
               UNCHANGED <<election, ballot, result>>
        PROVE  [Ledger!Next]_(Ledger!vars)
    BY <1>4, <1>6, StaysCleared
  <1>7. ASSUME NEW r \in Requests, FindPass(r) PROVE [Ledger!Next]_(Ledger!vars)
    BY <1>6, <1>7 DEF FindPass, PastTheCheck
  <1>8. ASSUME NEW r \in Requests, CreatePass(r) PROVE [Ledger!Next]_(Ledger!vars)
    <2>1. CASE Goto(r, "hasPass")
      BY <1>6, <1>8, <2>1 DEF CreatePass, PastTheCheck
    <2>2. CASE req' = [req EXCEPT ![r] = Blank("failed")]
      BY <1>1, <1>8, <2>2 DEF CreatePass, Answered
    <2>3. QED
      BY <1>8, <2>1, <2>2 DEF CreatePass
  <1>9. ASSUME NEW r \in Requests, NEW g,
               req' = [req EXCEPT ![r].pc = "hasGroup", ![r].group = g],
               req[r].pc \in PastTheCheck \ {"open"},
               UNCHANGED <<election, ballot, result>>
        PROVE  [Ledger!Next]_(Ledger!vars)
    <2> DEFINE new == [req[r] EXCEPT !.pc = "hasGroup", !.group = g]
    <2>1. /\ req' = [req EXCEPT ![r] = new]
          /\ new.pc \in PastTheCheck \ {"open"}
          /\ new.credential = req[r].credential
      <3>1. req[r] \in Request /\ req \in [Requests -> Request]
        BY DEF TypeOK
      <3>2. req' = [req EXCEPT ![r] = new]
        BY <1>9, <3>1
      <3>3. new.pc = "hasGroup" /\ new.credential = req[r].credential
        BY <3>1 DEF Request
      <3>4. QED
        BY <3>2, <3>3 DEF PastTheCheck
    <2> HIDE DEF new
    <2>2. QED
      BY <1>9, <2>1, StaysCleared
  <1>10. ASSUME NEW r \in Requests, FindGroup(r) PROVE [Ledger!Next]_(Ledger!vars)
    <2>1. CASE Goto(r, "noGroup")
      BY <1>6, <1>10, <2>1 DEF FindGroup, PastTheCheck
    <2>2. CASE req' = [req EXCEPT ![r].pc = "hasGroup", ![r].group = req[r].token]
      BY <1>9, <1>10, <2>2 DEF FindGroup, PastTheCheck
    <2>3. QED
      BY <1>10, <2>1, <2>2 DEF FindGroup
  <1>11. ASSUME NEW r \in Requests, CreateGroup(r) PROVE [Ledger!Next]_(Ledger!vars)
    BY <1>9, <1>11 DEF CreateGroup, PastTheCheck
  <1>12. CASE UNCHANGED vars
    <2>1. UNCHANGED <<election, req, ballot, result>>
      BY <1>12 DEF vars
    <2>2. QED
      BY <2>1, SameRequests, RequestMoves, LedgerStutters
  <1>13. QED
    BY <1>2, <1>3, <1>5, <1>7, <1>8, <1>10, <1>11, <1>12, StepCases, LedgerAdmits,
       LedgerClears, LedgerCasts, LedgerEnvironment DEF LocalStep

(***************************************************************************)
(* For any number of overlapping, failing or repeated submissions and any  *)
(* deadline, the service does only what the ledger allows.                 *)
(***************************************************************************)
THEOREM LedgerImplemented == Spec => ImplementsLedger
  <1>1. Init => OpenedElection
    BY DEF Init, OpenedElection
  <1>2. OpenedElection /\ [Next]_vars => OpenedElection'
    BY ElectionStep
  <1>3. Spec => []OpenedElection
    BY <1>1, <1>2, PTL DEF Spec
  <1>4. QED
    BY <1>3, LedgerInit, LedgerStep, TypeCorrect, SubmissionCorrect, BooksCorrect, PTL
       DEF Spec, ImplementsLedger, Ledger!Spec
=============================================================================
