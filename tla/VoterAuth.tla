------------------------------- MODULE VoterAuth -------------------------------
(***************************************************************************)
(* How a voter becomes a voter session: the exchange of the invitation     *)
(* link, the identifier check behind it, and the check of a voter who      *)
(* comes from the public list of elections.  A handler is a chain of       *)
(* database calls and each call is a step, so that the checks of several   *)
(* tabs overlap and any of them may die half way.  The pages that have     *)
(* nothing but a form of this module are here too: a tab is where the last *)
(* answer has sent it.                                                     *)
(*                                                                         *)
(* A person is the voter whose row of the registry matches what he types.  *)
(* Events are written and never read: they are left out.  Nothing revokes  *)
(* a session, an invitation or a credential, and nothing touched by        *)
(* touchVoterSession is read.                                              *)
(***************************************************************************)
EXTENDS ElectionPolicy, FiniteSets

CONSTANTS Voters,      \* voters with an invitation and a credential
          Elections,
          ElectionOf,  \* ElectionOf[v]: the election voter v is registered in
          MethodOf,    \* MethodOf[e]: the method of its authentication policy
          Persons,     \* the voters, and others who are in no registry
          Tabs,
          JarOf,       \* JarOf[t]: the browser that keeps the cookies of tab t
          Sessions,    \* the rows of voter_sessions
          None,
          EndsAt,             \* of every election, and of its invitations
          MaxFailedAttempts,  \* IDENTIFIER_LOCK_POLICY
          LockMinutes,
          SessionMinutes,
          Stages,      \* the states administrators take elections to
          MaxTime,     \* bound of the clock
          MaxFailures  \* bound of the handlers that die

(* completedStates: those whose form leads to the results                  *)
CompletedStates == {"closed", "tallying", "pending_confirmation", "confirmed", "published"}

(* The states of an election whose vote was opened.                        *)
States == {"open", "paused"} \cup CompletedStates

Jars == {JarOf[t] : t \in Tabs}

(* The authentication methods by what they ask for; the first two are the  *)
(* ones that are available.                                                *)
Methods == {"invite_link_only", "invite_link_with_identifier"}

RequiresIdentifier(method) == method # "invite_link_only"

ASSUME VoterAuthAssumption ==
  /\ Voters \subseteq Persons
  /\ None \notin Persons \cup Sessions \cup Elections
  /\ ElectionOf \in [Voters -> Elections]
  /\ MethodOf \in [Elections -> Methods]
  /\ MaxFailedAttempts \in Nat \ {0}
  /\ Stages \subseteq States
  /\ {EndsAt, LockMinutes, SessionMinutes, MaxTime, MaxFailures} \subseteq Nat

VARIABLES
  now,
  state,       \* state[e]: of the election
  credential,  \* voting_credentials of each voter
  session,     \* voter_sessions
  cookie,      \* cookie[j]: the session whose handle browser j holds
  check,       \* check[t]: the handler that works for tab t
  page,        \* page[t]: the page tab t is on
  failures,
  overlapped   \* history: two checks of one credential were at work at once

authVars == <<now, state, credential, session, cookie, check, page, failures,
              overlapped>>

-----------------------------------------------------------------------------
(* wrong: history, the wrong identifiers since the last right one.         *)
NewCredential == [status |-> "active", attempts |-> 0, lockedUntil |-> 0,
                  auth |-> "not_started", wrong |-> 0]

(* shownBy: history, whose identifier was given for the session.           *)
NoSession == [voter |-> None, authenticated |-> FALSE, expiresAt |-> 0,
              shownBy |-> None]

Idle == [pc |-> "idle", session |-> None, person |-> None, election |-> None,
         voter |-> None, at |-> 0, attempts |-> 0, status |-> "active",
         state |-> "open"]

Pcs == {"idle", "look", "right", "wrong", "admit", "find", "listed", "clear"}

(* A page is its name and the election its address has, if any.            *)
At(name) == <<name, None>>

Pages == {"portal", "invite", "identify", "verify", "election", "ballot", "review",
          "complete", "results"}

CredentialRow == [status: {"active", "locked"}, attempts: Nat, lockedUntil: Nat,
                  auth: {"not_started", "authenticated", "failed"}, wrong: Nat]

SessionRow == [voter: Voters \cup {None}, authenticated: BOOLEAN, expiresAt: Nat,
               shownBy: Persons \cup {None}]

CheckType == [pc: Pcs, session: Sessions \cup {None}, person: Persons \cup {None},
              election: Elections \cup {None}, voter: Voters \cup {None},
              at: 0..MaxTime, attempts: Nat, status: {"active", "locked"}, state: States]

AuthTypeOK ==
  /\ now \in 0..MaxTime
  /\ state \in [Elections -> States]
  /\ credential \in [Voters -> CredentialRow]
  /\ session \in [Sessions -> SessionRow]
  /\ cookie \in [Jars -> Sessions \cup {None}]
  /\ check \in [Tabs -> CheckType]
  /\ page \in [Tabs -> Pages \X (Elections \cup {None})]
  /\ failures \in 0..MaxFailures /\ overlapped \in BOOLEAN

AuthInit ==
  /\ now = 0
  /\ state = [e \in Elections |-> "open"]
  /\ credential = [v \in Voters |-> NewCredential]
  /\ session = [s \in Sessions |-> NoSession]
  /\ cookie = [j \in Jars |-> None]
  /\ check = [t \in Tabs |-> Idle]
  /\ page = [t \in Tabs |-> At("portal")]
  /\ failures = 0
  /\ overlapped = FALSE

Fresh == {s \in Sessions : session[s].voter = None}

(* The bound on Sessions stops no handler: one is set apart for whom the   *)
(* form of the list may admit.                                             *)
SetApart == {t \in Tabs : check[t].pc \in {"find", "listed"}}

(* createVoterSession                                                      *)
NewSession(v, authenticated, at) ==
  [voter |-> v, authenticated |-> authenticated, expiresAt |-> at + SessionMinutes,
   shownBy |-> IF authenticated THEN v ELSE None]

(* findVoterSessionByHandleHash                                            *)
Valid(s, at) == s # None /\ session[s].expiresAt > at

HeldBy(t) == cookie[JarOf[t]]

Goto(t, pc) == check' = [check EXCEPT ![t].pc = pc]

Answer(t, to) ==
  /\ check' = [check EXCEPT ![t] = Idle]
  /\ page' = [page EXCEPT ![t] = to]

(* The error stays on the page and says nothing of its reason.             *)
Refuse(t) == Answer(t, page[t])

Others == UNCHANGED <<now, state, failures>>

-----------------------------------------------------------------------------
(* The link                                                                *)

(* handleInvitationVerifyRoute, and the page it leads to.  The invitation  *)
(* expires with the election; its reads are of rows that never change.     *)
OpenLink(t, v) ==
  /\ check[t].pc = "idle"
  /\ Cardinality(SetApart) < Cardinality(Fresh)
  /\ IF now < EndsAt
       THEN \E s \in Fresh :
              /\ session' = [session EXCEPT ![s] = NewSession(v, FALSE, now)]
              /\ cookie' = [cookie EXCEPT ![JarOf[t]] = s]
              /\ page' = [page EXCEPT ![t] =
                            IF RequiresIdentifier(MethodOf[ElectionOf[v]])
                              THEN At("identify") ELSE At("election")]
       ELSE /\ page' = [page EXCEPT ![t] = At("invite")]
            /\ UNCHANGED <<session, cookie>>
  /\ UNCHANGED <<credential, check, overlapped>> /\ Others

-----------------------------------------------------------------------------
(* The identifier                                                          *)

Looking(v) == {t \in Tabs : check[t].voter = v}

(* handleIdentifierVerifyRoute up to the call of verifyVoterIdentifier,    *)
(* whose time is taken here.                                               *)
SendIdentifier(t, p) ==
  /\ check[t].pc = "idle" /\ page[t] = At("identify")
  /\ IF Valid(HeldBy(t), now)
       THEN LET v == session[HeldBy(t)].voter
            IN  /\ check' = [check EXCEPT ![t] =
                               [Idle EXCEPT !.pc = "look", !.session = HeldBy(t),
                                            !.person = p, !.voter = v, !.at = now]]
                /\ overlapped' = (overlapped \/ Looking(v) # {})
       ELSE UNCHANGED <<check, overlapped>>
  /\ UNCHANGED <<credential, session, cookie, page>> /\ Others

IsCredentialLocked(v, at) ==
  credential[v].status = "locked" /\ credential[v].lockedUntil > at

(* Mutant: a lock is for ever, or for nothing: only the status counts.     *)
LookUnlocked(t) ==
  LET v == check[t].voter
  IN  /\ check[t].pc = "look"
      /\ check' = [check EXCEPT
           ![t].pc = IF check[t].person = v THEN "right" ELSE "wrong",
           ![t].attempts = credential[v].attempts,
           ![t].status = credential[v].status]
      /\ UNCHANGED <<page, credential, session, cookie, overlapped>> /\ Others

(* findVotingCredential; what is read here is written back later.          *)
LookUp(t) ==
  LET v == check[t].voter
  IN  /\ check[t].pc = "look"
      /\ IF IsCredentialLocked(v, check[t].at)
           THEN Refuse(t)
           ELSE /\ check' = [check EXCEPT
                     ![t].pc = IF check[t].person = v THEN "right" ELSE "wrong",
                     ![t].attempts = credential[v].attempts,
                     ![t].status = credential[v].status]
                /\ UNCHANGED page
      /\ UNCHANGED <<credential, session, cookie, overlapped>> /\ Others

(* Mutant: the lock needs one attempt more than the policy says.           *)
CountWrongLate(t) ==
  LET attempts == check[t].attempts + 1
      locked   == attempts > MaxFailedAttempts
  IN  /\ check[t].pc = "wrong"
      /\ credential' = [credential EXCEPT ![check[t].voter] =
           [status |-> IF locked THEN "locked" ELSE check[t].status,
            attempts |-> attempts,
            lockedUntil |-> IF locked THEN check[t].at + LockMinutes ELSE 0,
            auth |-> "failed", wrong |-> @.wrong + 1]]
      /\ Refuse(t)
      /\ UNCHANGED <<session, cookie, overlapped>> /\ Others

(* updateVotingCredential after a mismatch                                 *)
CountWrong(t) ==
  LET attempts == check[t].attempts + 1
      locked   == attempts >= MaxFailedAttempts
  IN  /\ check[t].pc = "wrong"
      /\ credential' = [credential EXCEPT ![check[t].voter] =
           [status |-> IF locked THEN "locked" ELSE check[t].status,
            attempts |-> attempts,
            lockedUntil |-> IF locked THEN check[t].at + LockMinutes ELSE 0,
            auth |-> "failed", wrong |-> @.wrong + 1]]
      /\ Refuse(t)
      /\ UNCHANGED <<session, cookie, overlapped>> /\ Others

(* updateVotingCredential after a match                                    *)
ClearWrong(t) ==
  /\ check[t].pc = "right"
  /\ credential' = [credential EXCEPT ![check[t].voter] =
                      [NewCredential EXCEPT !.auth = "authenticated"]]
  /\ Goto(t, "admit")
  /\ UNCHANGED <<session, cookie, page, overlapped>> /\ Others

(* Mutant: the session the browser holds by now.                           *)
AdmitCurrent(t) ==
  /\ check[t].pc = "admit"
  /\ session' = [session EXCEPT ![HeldBy(t)].authenticated = TRUE,
                                ![HeldBy(t)].shownBy = check[t].person]
  /\ Answer(t, At("election"))
  /\ UNCHANGED <<credential, cookie, overlapped>> /\ Others

(* updateVoterSessionAuthentication of the handle that was sent.           *)
Admit(t) ==
  /\ check[t].pc = "admit"
  /\ session' = [session EXCEPT ![check[t].session].authenticated = TRUE,
                                ![check[t].session].shownBy = check[t].person]
  /\ Answer(t, At("election"))
  /\ UNCHANGED <<credential, cookie, overlapped>> /\ Others

-----------------------------------------------------------------------------
(* The list                                                                *)

(* All pages have a link to the portal.                                    *)
GoHome(t) ==
  /\ check[t].pc = "idle" /\ page[t] # At("portal")
  /\ page' = [page EXCEPT ![t] = At("portal")]
  /\ UNCHANGED <<credential, session, cookie, check, overlapped>> /\ Others

(* A link of the portal to the form of an election.                        *)
Choose(t, e) ==
  /\ check[t].pc = "idle" /\ page[t] = At("portal")
  /\ page' = [page EXCEPT ![t] = <<"verify", e>>]
  /\ UNCHANGED <<credential, session, cookie, check, overlapped>> /\ Others

(* The form, with what person p types.                                     *)
SendListed(t, p) ==
  /\ check[t].pc = "idle" /\ page[t][1] = "verify"
  /\ Cardinality(SetApart) < Cardinality(Fresh)
  /\ check' = [check EXCEPT ![t] = [Idle EXCEPT !.pc = "find", !.person = p,
                                                !.election = page[t][2]]]
  /\ UNCHANGED <<credential, session, cookie, page, overlapped>> /\ Others

(* isAwaitingAdminResultProcessing                                         *)
Awaiting(e) == state[e] = "open" /\ now > EndsAt

Barred(v) == credential[v].status = "locked" \/ credential[v].lockedUntil > now

Finds(t) ==
  check[t].person \in Voters /\ ElectionOf[check[t].person] = check[t].election

(* verifyListedElectionVoterAction up to the voter, credential and state   *)
(* it reads in one query.                                                  *)
FindListed(t) ==
  /\ check[t].pc = "find"
  /\ LET e == check[t].election
         v == check[t].person
     IN  IF ~Finds(t) THEN Refuse(t) /\ UNCHANGED overlapped
         ELSE IF Awaiting(e) THEN Answer(t, At("portal")) /\ UNCHANGED overlapped
         ELSE IF Barred(v) THEN Refuse(t) /\ UNCHANGED overlapped
         ELSE /\ check' = [check EXCEPT ![t].pc = "listed", ![t].voter = v,
                                        ![t].at = now, ![t].state = state[e]]
              /\ overlapped' = (overlapped \/ Looking(v) # {})
              /\ UNCHANGED page
  /\ UNCHANGED <<credential, session, cookie>> /\ Others

(* A session that is authenticated at once.                                *)
AdmitListed(t) ==
  /\ check[t].pc = "listed"
  /\ \E s \in Fresh :
       /\ session' = [session EXCEPT ![s] =
            [NewSession(check[t].voter, TRUE, check[t].at)
               EXCEPT !.shownBy = check[t].person]]
       /\ check' = [check EXCEPT ![t].pc = "clear", ![t].session = s]
  /\ UNCHANGED <<credential, cookie, page, overlapped>> /\ Others

(* The status stays what it was.  The cookie, and the page by the state    *)
(* and the time that were read.                                            *)
ClearListed(t) ==
  LET voting == IsVotingWindowOpen(check[t].state, EndsAt, check[t].at)
  IN
  /\ check[t].pc = "clear"
  /\ credential' = [credential EXCEPT
       ![check[t].voter].auth = "authenticated", ![check[t].voter].attempts = 0,
       ![check[t].voter].lockedUntil = 0, ![check[t].voter].wrong = 0]
  /\ cookie' = [cookie EXCEPT ![JarOf[t]] = check[t].session]
  /\ Answer(t, IF voting THEN <<"ballot", check[t].election>>
               ELSE IF check[t].state \in CompletedStates THEN <<"results", check[t].election>>
               ELSE At("portal"))
  /\ UNCHANGED <<session, overlapped>> /\ Others

-----------------------------------------------------------------------------
(* A handler dies, or its answer is lost.                                  *)
FailCheck(t) ==
  /\ check[t].pc # "idle" /\ failures < MaxFailures
  /\ failures' = failures + 1
  /\ Refuse(t)
  /\ UNCHANGED <<now, state, credential, session, cookie, overlapped>>

Tick ==
  /\ now < MaxTime
  /\ now' = now + 1
  /\ UNCHANGED <<state, credential, session, cookie, check, page, failures, overlapped>>

(* Pausing, closing and what comes after: the subject of BallotBox and     *)
(* ResultPipeline.  The states in between may pass unseen.                 *)
LifeCycle == <<"open", "closed", "tallying", "pending_confirmation", "confirmed",
               "published">>

Administer(e, to) ==
  /\ \/ CanTransition(state[e], to)
     \/ \E i, j \in DOMAIN LifeCycle :
          i < j /\ LifeCycle[i] = state[e] /\ LifeCycle[j] = to
  /\ state' = [state EXCEPT ![e] = to]
  /\ UNCHANGED <<now, credential, session, cookie, check, page, failures, overlapped>>

Judge(t) ==
  \/ LookUp(t) \/ CountWrong(t) \/ ClearWrong(t) \/ Admit(t)
  \/ FindListed(t) \/ AdmitListed(t) \/ ClearListed(t)

AuthNext ==
  \/ Tick
  \/ \E e \in Elections, to \in Stages : Administer(e, to)
  \/ \E t \in Tabs : \/ \E v \in Voters : OpenLink(t, v)
                     \/ \E e \in Elections : Choose(t, e)
                     \/ \E p \in Persons : SendIdentifier(t, p) \/ SendListed(t, p)
                     \/ GoHome(t) \/ Judge(t) \/ FailCheck(t)

AuthSpec == AuthInit /\ [][AuthNext]_authVars

-----------------------------------------------------------------------------
(* Properties                                                              *)

(***************************************************************************)
(* Tabs of one browser share their cookie, which any sign-in replaces, and *)
(* an identifier check takes four database calls: still a session is       *)
(* authenticated only by the identifier of the voter it belongs to.        *)
(***************************************************************************)
SessionsAreProved ==
  \A s \in Sessions : session[s].authenticated => session[s].shownBy = session[s].voter

(***************************************************************************)
(* As long as no two checks of a credential overlap, deaths of handlers,   *)
(* sign-ins by the list and expiries of locks in any order leave the       *)
(* counter at the number of wrong identifiers since the last right one,    *)
(* and exactly the credentials that have reached the limit are locked.     *)
(***************************************************************************)
WrongOnesAreCounted ==
  ~overlapped =>
    \A v \in Voters :
      /\ credential[v].attempts = credential[v].wrong
      /\ credential[v].wrong >= MaxFailedAttempts <=> credential[v].status = "locked"

InForce(v) == credential[v].status = "locked" /\ credential[v].lockedUntil > now

Judging(v) == {t \in Tabs : check[t].voter = v
                 /\ check[t].pc \in {"right", "wrong", "admit", "listed", "clear"}}

(***************************************************************************)
(* A lock holds: while it is in force no further check of the credential   *)
(* gets past the look-up, by neither door.  (Those that were past it when  *)
(* the lock was set go on; one that fails may lift the lock.)              *)
(***************************************************************************)
LocksHold ==
  [][\A v \in Voters : InForce(v) => Judging(v)' \subseteq Judging(v)]_authVars

(***************************************************************************)
(* ui-design-and-screen-spec: five failures lock for 15 minutes.  A voter  *)
(* the link has locked is refused by the list for ever: the action never   *)
(* compares the status with the time.                                      *)
(***************************************************************************)
LockEnds ==
  [][\A t \in Tabs :
       check[t].pc = "find" /\ Finds(t) /\ ~Awaiting(check[t].election)
         /\ failures' = failures
         /\ credential[check[t].person].lockedUntil <= now
         /\ check'[t] # check[t] => check'[t].pc = "listed"]_authVars
=============================================================================
