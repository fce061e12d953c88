------------------------------ MODULE BallotBox ------------------------------
(***************************************************************************)
(* Anonymous ballot submission: concurrent executions of                   *)
(* submitAnonymousBallot against one election, each a chain of database    *)
(* calls with a step of its own, because other requests, the               *)
(* administrators and the clock move between two awaits.  The final        *)
(* submitBallotTransaction is one step.                                    *)
(*                                                                         *)
(* A row created by a request is named by the request: a group token is    *)
(* 32 fresh random bytes and each request creates at most one group and    *)
(* one ballot, so "the group (ballot) of request r" is a faithful name.    *)
(***************************************************************************)
EXTENDS ElectionPolicy, FiniteSets

CONSTANTS Requests,     \* submissions that reach the server
          Credentials,  \* voting credentials, one per eligible voter
          Browsers,     \* cookie jars; a shared PC is one browser
          EndsAt,       \* election.endsAt
          MaxTime,      \* bound of the clock
          None

ASSUME BallotBoxAssumption ==
  /\ None \notin Requests
  /\ None \notin Credentials
  /\ None \notin Browsers
  /\ IsFiniteSet(Requests)
  /\ EndsAt \in Nat
  /\ MaxTime \in Nat

VARIABLES
  clock,       \* server time
  election,    \* elections.state
  session,     \* session[b]: whose voter session cookie browser b holds
  cookie,      \* cookie[b]: the ballot group token browser b holds
  req,         \* req[r]: the local variables of the handler of request r
  credential,  \* voting_credentials: hasVoted, submissionCount
  pass,        \* anonymous_voting_passes: passStatus, usageCount
  group,       \* anonymous_ballot_groups: currentBallotId, submissionCount
  ballot,      \* ballots: acceptanceStatus, isCurrent, group, serverReceivedAt
  event,       \* submission_events, as <<type, request>>
  result       \* the ballots the tally read, once it has read them

vars == <<clock, election, session, cookie, req, credential, pass, group,
          ballot, event, result>>

rows == <<credential, pass, group, ballot, event>>

-----------------------------------------------------------------------------
(* Where the handler stands; the last three are the answers.              *)

Running  == {"received", "authenticated", "open", "eligible", "noPass",
             "hasPass", "noGroup", "hasGroup", "committed"}
Answered == {"accepted", "refused", "failed"}
Pc       == {"unsent"} \cup Running \cup Answered

(***************************************************************************)
(* hadVoted is a history value no guard reads: whether the credential had  *)
(* already voted when the request arrived.  castBy in a ballot is another: *)
(* the database keeps no link from a ballot to a credential.               *)
(***************************************************************************)
Request ==
  [pc: Pc, browser: Browsers \cup {None}, credential: Credentials \cup {None},
   token: Requests \cup {None}, receivedAt: 0..MaxTime,
   group: Requests \cup {None}, hadVoted: BOOLEAN]

Blank(pc) == [pc |-> pc, browser |-> None, credential |-> None, token |-> None,
              receivedAt |-> 0, group |-> None, hadVoted |-> FALSE]

NoBallot == [status |-> "none", isCurrent |-> FALSE, group |-> None,
             receivedAt |-> 0, castBy |-> None]

Ballot == [status: {"none", "accepted", "superseded"}, isCurrent: BOOLEAN,
           group: Requests \cup {None}, receivedAt: 0..MaxTime,
           castBy: Credentials \cup {None}]

EventType == {"submission_started", "submission_accepted", "submission_failed"}

TypeOK ==
  /\ clock \in 0..MaxTime
  /\ election \in ElectionState
  /\ session \in [Browsers -> Credentials \cup {None}]
  /\ cookie \in [Browsers -> Requests \cup {None}]
  /\ req \in [Requests -> Request]
  /\ credential \in [Credentials -> [hasVoted: BOOLEAN, submissions: Nat]]
  /\ pass \in [Credentials -> [status: {"none", "issued", "used"}, usage: Nat]]
  /\ group \in [Requests -> [created: BOOLEAN, submissions: Nat,
                             current: Requests \cup {None}]]
  /\ ballot \in [Requests -> Ballot]
  /\ event \subseteq EventType \X Requests
  /\ result \in [read: BOOLEAN, ballots: SUBSET Requests]

(* The election has just been opened: its credentials exist, unused.       *)
Init ==
  /\ clock = 0
  /\ election = "open"
  /\ session = [b \in Browsers |-> None]
  /\ cookie = [b \in Browsers |-> None]
  /\ req = [r \in Requests |-> Blank("unsent")]
  /\ credential = [c \in Credentials |-> [hasVoted |-> FALSE, submissions |-> 0]]
  /\ pass = [c \in Credentials |-> [status |-> "none", usage |-> 0]]
  /\ group = [g \in Requests |->
                [created |-> FALSE, submissions |-> 0, current |-> None]]
  /\ ballot = [r \in Requests |-> NoBallot]
  /\ event = {}
  /\ result = [read |-> FALSE, ballots |-> {}]

-----------------------------------------------------------------------------
(* The environment: time, the administrators, the voters.                 *)

Tick ==
  /\ clock < MaxTime
  /\ clock' = clock + 1
  /\ UNCHANGED <<election, session, cookie, req, rows, result>>

(***************************************************************************)
(* transitionElectionState of pause, resume, close.  With one              *)
(* administrative operation in flight its read, check and write behave as  *)
(* one step, since nobody else writes elections.state.                     *)
(***************************************************************************)
AdminTransition(to) ==
  /\ to \in {"open", "paused", "closed"}
  /\ CanTransition(election, to)
  /\ election' = to
  /\ UNCHANGED <<clock, session, cookie, req, rows, result>>

(* Mutant: the result's status written into the election's state.          *)
BeginTallyWrongEnum ==
  /\ CanPerform(election, "tallyResult")
  /\ election' = "tallied"
  /\ UNCHANGED <<clock, session, cookie, req, rows, result>>

(* tallyElectionResult up to its first write.                              *)
BeginTally ==
  /\ CanPerform(election, "tallyResult")
  /\ election' = "tallying"
  /\ UNCHANGED <<clock, session, cookie, req, rows, result>>

IsBallotEligibleForTally(b) ==
  /\ ballot[b].isCurrent
  /\ ballot[b].status = "accepted"
  /\ ballot[b].receivedAt <= EndsAt

(* listBallotsForTally, aggregated later into the stored result.           *)
ReadBallotsForTally ==
  /\ election = "tallying"
  /\ ~result.read
  /\ result' = [read |-> TRUE,
                ballots |-> {b \in Requests : IsBallotEligibleForTally(b)}]
  /\ UNCHANGED <<clock, election, session, cookie, req, rows>>

CompleteTally ==
  /\ election = "tallying"
  /\ result.read
  /\ election' = "pending_confirmation"
  /\ UNCHANGED <<clock, session, cookie, req, rows, result>>

(***************************************************************************)
(* A voter is verified in browser b, which gets that voter's session       *)
(* cookie; the ballot group cookie of whoever voted there before stays.    *)
(***************************************************************************)
SignIn(b, c) ==
  /\ session[b] # c
  /\ session' = [session EXCEPT ![b] = c]
  /\ UNCHANGED <<clock, election, cookie, req, rows, result>>

-----------------------------------------------------------------------------
(* The handler.                                                            *)

Goto(r, pc) == req' = [req EXCEPT ![r].pc = pc]

Unaltered == UNCHANGED <<clock, election, session, cookie, result>>

(* An error thrown before anything is written for the request.             *)
Refuse(r) == req' = [req EXCEPT ![r] = Blank("refused")]

(* The request arrives with the cookies of its browser: receivedAt is      *)
(* taken before the first database call.                                   *)
Receive(r, b) ==
  /\ req[r].pc = "unsent"
  /\ req' = [req EXCEPT ![r] =
       [pc |-> "received", browser |-> b, credential |-> session[b],
        token |-> cookie[b], receivedAt |-> clock, group |-> None,
        hadVoted |-> session[b] # None /\ credential[session[b]].hasVoted]]
  /\ Unaltered /\ UNCHANGED rows

(* A body the schema rejects: nothing has been read or written.            *)
RejectMalformed(r) ==
  /\ req[r].pc = "unsent"
  /\ Refuse(r)
  /\ Unaltered /\ UNCHANGED rows

(* requireVoterSession: a session, neither revoked nor expired.            *)
RequireVoterSession(r) ==
  /\ req[r].pc = "received"
  /\ req[r].credential # None
  /\ Goto(r, "authenticated")
  /\ Unaltered /\ UNCHANGED rows

(* No cookie, or the session expired: its 15 minutes may end at any time.  *)
RejectSession(r) ==
  /\ req[r].pc = "received"
  /\ Refuse(r)
  /\ Unaltered /\ UNCHANGED rows

(* Mutant: the deadline is checked, the state is not.                      *)
CheckElectionDeadlineOnly(r) ==
  /\ req[r].pc = "authenticated"
  /\ IF req[r].receivedAt <= EndsAt THEN Goto(r, "open") ELSE Refuse(r)
  /\ Unaltered /\ UNCHANGED rows

(* requireElection and ensureSubmitAllowed on the row that was read.       *)
CheckElection(r) ==
  /\ req[r].pc = "authenticated"
  /\ IF /\ CanPerform(election, "submitBallot")
        /\ IsVotingWindowOpen(election, EndsAt, req[r].receivedAt)
       THEN Goto(r, "open")
       ELSE Refuse(r)
  /\ Unaltered /\ UNCHANGED rows

(* Mutant: revotes are not refused.                                        *)
CheckCredentialRevote(r) ==
  /\ req[r].pc = "open"
  /\ Goto(r, "eligible")
  /\ Unaltered /\ UNCHANGED rows

(* findVotingCredential; a credential that has voted is refused.           *)
CheckCredential(r) ==
  /\ req[r].pc = "open"
  /\ IF credential[req[r].credential].hasVoted
       THEN Refuse(r)
       ELSE Goto(r, "eligible")
  /\ Unaltered /\ UNCHANGED rows

(* getOrCreateAnonymousVotingPass, the look-up.  Nothing ever makes a pass *)
(* "revoked" or "expired", the two statuses it would refuse.               *)
FindPass(r) ==
  /\ req[r].pc = "eligible"
  /\ Goto(r, IF pass[req[r].credential].status = "none"
               THEN "noPass" ELSE "hasPass")
  /\ Unaltered /\ UNCHANGED rows

(* Mutant: an upsert instead of an insert.                                 *)
UpsertPass(r) ==
  /\ req[r].pc = "noPass"
  /\ pass' = [pass EXCEPT ![req[r].credential] = [status |-> "issued", usage |-> 0]]
  /\ Goto(r, "hasPass")
  /\ Unaltered /\ UNCHANGED <<credential, group, ballot, event>>

(* Its insert: unique per credential, so the second of two fails.          *)
CreatePass(r) ==
  LET c == req[r].credential IN
  /\ req[r].pc = "noPass"
  /\ IF pass[c].status = "none"
       THEN /\ pass' = [pass EXCEPT ![c] = [status |-> "issued", usage |-> 0]]
            /\ Goto(r, "hasPass")
       ELSE /\ req' = [req EXCEPT ![r] = Blank("failed")]
            /\ UNCHANGED pass
  /\ Unaltered /\ UNCHANGED <<credential, group, ballot, event>>

(* Mutant: any group whose token the browser shows is used again.          *)
ReusableGroupAny(g) == group[g].created

(* Only a group that holds no ballot yet may be used again.                *)
ReusableGroup(g) ==
  /\ group[g].created
  /\ group[g].submissions = 0
  /\ group[g].current = None

FindGroup(r) ==
  /\ req[r].pc = "hasPass"
  /\ IF req[r].token # None /\ ReusableGroup(req[r].token)
       THEN req' = [req EXCEPT ![r].pc = "hasGroup", ![r].group = req[r].token]
       ELSE Goto(r, "noGroup")
  /\ Unaltered /\ UNCHANGED rows

CreateGroup(r) ==
  /\ req[r].pc = "noGroup"
  /\ group' = [group EXCEPT ![r] =
                 [created |-> TRUE, submissions |-> 0, current |-> None]]
  /\ req' = [req EXCEPT ![r].pc = "hasGroup", ![r].group = r]
  /\ Unaltered /\ UNCHANGED <<credential, pass, ballot, event>>

(* validateAnswers throws: the failure is logged, pass and group remain.   *)
RejectAnswers(r) ==
  /\ req[r].pc = "hasGroup"
  /\ event' = event \cup {<<"submission_failed", r>>}
  /\ Refuse(r)
  /\ Unaltered /\ UNCHANGED <<credential, pass, group, ballot>>

CurrentBallots(g) == {b \in Requests : ballot[b].group = g /\ ballot[b].isCurrent}

NewBallot(r) ==
  [status |-> "accepted", isCurrent |-> TRUE, group |-> req[r].group,
   receivedAt |-> req[r].receivedAt, castBy |-> req[r].credential]

Superseded(b) == [ballot[b] EXCEPT !.isCurrent = FALSE, !.status = "superseded"]

(* Mutant: currentBallotId is not moved.                                   *)
GroupWithout(g, r) == [group EXCEPT ![g].submissions = @ + 1]

(* The transaction's update of the group row, after its new ballot r.      *)
GroupWith(g, r) ==
  [group EXCEPT ![g] = [created |-> TRUE, submissions |-> @.submissions + 1,
                        current |-> r]]

(* submitBallotTransaction: neither the election nor hasVoted is read      *)
(* again, the counters are increments.  A "superseded" event would need a  *)
(* group that had a current ballot when it was read: none is ever used.    *)
CommitBallot(r) ==
  LET c == req[r].credential
      g == req[r].group
  IN
  /\ req[r].pc = "hasGroup"
  /\ ballot' = [b \in Requests |->
                  IF b = r THEN NewBallot(r)
                  ELSE IF b \in CurrentBallots(g) THEN Superseded(b)
                  ELSE ballot[b]]
  /\ event' = event
       \cup {<<"submission_started", r>>, <<"submission_accepted", r>>}
  /\ group' = GroupWith(g, r)
  /\ pass' = [pass EXCEPT ![c] = [status |-> "used", usage |-> @.usage + 1]]
  /\ credential' = [credential EXCEPT ![c] =
                      [hasVoted |-> TRUE, submissions |-> @.submissions + 1]]
  /\ Goto(r, "committed")
  /\ Unaltered

(* touchVoterSession and the answer; a new group's token goes into the     *)
(* browser that asked.                                                     *)
Respond(r) ==
  /\ req[r].pc = "committed"
  /\ cookie' = [cookie EXCEPT ![req[r].browser] = IF req[r].group = r THEN r ELSE @]
  /\ req' = [req EXCEPT ![r] = Blank("accepted")]
  /\ UNCHANGED <<clock, election, session, rows, result>>

(* A database call fails, the process dies, or the answer is lost: what    *)
(* was written stays, the voter learns nothing.                            *)
Fail(r) ==
  /\ req[r].pc \in Running
  /\ req' = [req EXCEPT ![r] = Blank("failed")]
  /\ Unaltered /\ UNCHANGED rows

Handle(r) ==
  \/ RequireVoterSession(r) \/ RejectSession(r)
  \/ CheckElection(r) \/ CheckCredential(r)
  \/ FindPass(r) \/ CreatePass(r)
  \/ FindGroup(r) \/ CreateGroup(r)
  \/ RejectAnswers(r) \/ CommitBallot(r) \/ Respond(r)

Environment ==
  \/ Tick
  \/ \E to \in ElectionState : AdminTransition(to)
  \/ BeginTally \/ ReadBallotsForTally \/ CompleteTally
  \/ \E b \in Browsers, c \in Credentials : SignIn(b, c)

Next ==
  \/ Environment
  \/ \E r \in Requests :
       \/ \E b \in Browsers : Receive(r, b)
       \/ RejectMalformed(r) \/ Handle(r) \/ Fail(r)

Spec == Init /\ [][Next]_vars

-----------------------------------------------------------------------------
(* Properties.                                                             *)

CastBy(c) == {b \in Requests : ballot[b].status # "none" /\ ballot[b].castBy = c}

HeldBy(g) == {b \in Requests : ballot[b].status # "none" /\ ballot[b].group = g}

Accepts(r) == ballot[r].status = "none" /\ ballot'[r].status = "accepted"

(***************************************************************************)
(* The three ledgers no key joins agree at every step, whatever requests   *)
(* overlap, fail half way or are retried: the credential's and the pass's  *)
(* counters equal the ballots cast with the credential, and "has voted"    *)
(* and "used" mean that this number is not zero.  So a crash never burns   *)
(* a vote and no ballot goes unregistered.                                 *)
(***************************************************************************)
BooksBalance ==
  \A c \in Credentials :
    /\ credential[c].submissions = Cardinality(CastBy(c))
    /\ pass[c].usage = credential[c].submissions
    /\ credential[c].hasVoted <=> credential[c].submissions > 0
    /\ (pass[c].status = "used") <=> credential[c].submissions > 0

(***************************************************************************)
(* INV-08: a group has at most one current ballot, it is the one the group *)
(* points at, and the group counts the ballots it holds.  A partial unique *)
(* index backs the first half only; the application keeps the rest over    *)
(* three rows of its transaction.                                          *)
(***************************************************************************)
OneCurrentBallotPerGroup ==
  \A g \in Requests :
    /\ group[g].submissions = Cardinality(HeldBy(g))
    /\ CurrentBallots(g) = {group[g].current} \ {None}
    /\ HeldBy(g) # {} => group[g].current \in HeldBy(g)

(***************************************************************************)
(* Several voters may vote one after the other, or at once, on one PC,     *)
(* which hands the group cookie of one to the next: still no accepted      *)
(* ballot is ever superseded, moved to another group or altered.           *)
(***************************************************************************)
BallotsAreFinal ==
  [][\A b \in Requests : ballot[b].status # "none" => ballot'[b] = ballot[b]]_vars

(***************************************************************************)
(* A request that arrives after its credential has voted adds no ballot,   *)
(* although the submitting transaction never looks: the look-up of         *)
(* hasVoted comes after the arrival.  (Requests that overlap are another   *)
(* matter: see AtMostOneBallotPerCredential.)                              *)
(***************************************************************************)
NoVoteAfterVote == [][\A r \in Requests : Accepts(r) => ~req[r].hadVoted]_vars

(***************************************************************************)
(* tally_eligible is computed from the submitter's own reads; every        *)
(* accepted ballot satisfies the official rule at all later times.         *)
(***************************************************************************)
AcceptedMeansEligible ==
  \A b \in Requests : ballot[b].status # "none" => IsBallotEligibleForTally(b)

(***************************************************************************)
(* After the election is closed the only ballots still to come are those   *)
(* of requests that had passed the check before: the set of votes cast or  *)
(* in flight does not grow.                                                *)
(***************************************************************************)
PastTheCheck == {"open", "eligible", "noPass", "hasPass", "noGroup", "hasGroup"}

InFlight == {r \in Requests : req[r].pc \in PastTheCheck}

Cast == {b \in Requests : ballot[b].status # "none"}

NoNewVoteAfterClose ==
  [][election \notin {"open", "paused"} =>
       (InFlight \cup Cast)' \subseteq InFlight \cup Cast]_vars

-----------------------------------------------------------------------------
(* The handlers seen as the submissions of a BallotLedger.                 *)

At(pcs) == {<<r, req[r].credential>> : r \in {q \in Requests : req[q].pc \in pcs}}

Ledger == INSTANCE BallotLedger WITH
  stage    <- IF election \in {"open", "paused"} THEN election ELSE "over",
  admitted <- At({"open"}),
  cleared  <- At(PastTheCheck \ {"open"}),
  accepted <- {<<b, ballot[b].castBy>> : b \in Cast},
  counted  <- result

(***************************************************************************)
(* Chains of database calls that overlap, share browsers and die anywhere  *)
(* do what the ledger does: a ballot is cast only for a submission that    *)
(* was admitted while the vote was open and found its credential without a *)
(* ballot after that, it stays as it was cast, and the tally reads exactly *)
(* those cast by then, though it selects them by the rows of three tables  *)
(* and the deadline.                                                       *)
(***************************************************************************)
ImplementsLedger == Ledger!Spec

-----------------------------------------------------------------------------
(***************************************************************************)
(* The inductive invariant behind the properties above.                    *)
(***************************************************************************)

(* A browser, or a request, only ever shows the token of a group that has  *)
(* its ballot: tokens leave the server after the commit.                   *)
TokensAreSpent ==
  /\ \A b \in Browsers : cookie[b] # None => ballot[cookie[b]].status # "none"
  /\ \A r \in Requests :
       req[r].token # None => ballot[req[r].token].status # "none"

(* Hence every ballot is the only one of the group its request created.    *)
BallotsAtHome ==
  \A g \in Requests :
    IF ballot[g].status = "none"
      THEN /\ ballot[g] = NoBallot
           /\ group[g].submissions = 0
           /\ group[g].current = None
      ELSE /\ ballot[g].status = "accepted"
           /\ ballot[g].isCurrent
           /\ ballot[g].group = g
           /\ ballot[g].receivedAt <= EndsAt
           /\ group[g].submissions = 1
           /\ group[g].current = g

(* What the handler of a request knows at each of its steps.               *)
HandlerInOrder(r) ==
  /\ req[r].pc \in {"unsent", "received", "authenticated"} \cup PastTheCheck
       => ballot[r].status = "none"
  /\ req[r].pc = "committed" => ballot[r].status # "none"
  /\ req[r].pc \in {"hasGroup", "committed"} => req[r].group = r
  /\ req[r].pc \in {"authenticated"} \cup PastTheCheck => req[r].credential # None
  /\ req[r].pc \in PastTheCheck => req[r].receivedAt <= EndsAt
  /\ req[r].hadVoted =>
       /\ req[r].pc \in {"received", "authenticated", "open"}
       /\ req[r].credential # None
       /\ credential[req[r].credential].hasVoted

HandlersInOrder == \A r \in Requests : HandlerInOrder(r)

(***************************************************************************)
(* Why no group ever holds two ballots: the token of a group is shown only *)
(* after the group has its ballot, so nobody can ever meet the condition   *)
(* for using a group again, and each request votes in its own.             *)
(***************************************************************************)
SubmissionInv == TokensAreSpent /\ BallotsAtHome /\ HandlersInOrder

-----------------------------------------------------------------------------
(* What the documents say and the code does not do.                        *)

(***************************************************************************)
(* README: a submission completes the participation and cannot be made     *)
(* again.  Two overlapping requests of one credential both read            *)
(* hasVoted = false.                                                       *)
(***************************************************************************)
AtMostOneBallotPerCredential ==
  \A c \in Credentials : Cardinality(CastBy(c)) <= 1

(***************************************************************************)
(* README: only voters who did not vote are counted as abstaining.  A      *)
(* ballot committed after the tally has read the ballots, accepted and     *)
(* reported tally_eligible, is counted as an abstention.                   *)
(***************************************************************************)
NoEligibleBallotLeftOut ==
  result.read =>
    \A b \in Requests : IsBallotEligibleForTally(b) => b \in result.ballots
=============================================================================
