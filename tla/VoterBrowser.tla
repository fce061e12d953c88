----------------------------- MODULE VoterBrowser -----------------------------
(***************************************************************************)
(* The voter's pages.  Each is rendered by the server from the session     *)
(* whose cookie the browser holds at that moment, and stays on the screen  *)
(* while sessions, elections and ballots change.  The answers on their way *)
(* from the form to the confirmation are kept in the tab, under one key    *)
(* for all elections and all voters who use it.                            *)
(*                                                                         *)
(* A submission is one step: what happens inside it is the subject of      *)
(* BallotBox.  A draft is abstracted to the election it answers and who    *)
(* typed it.                                                               *)
(***************************************************************************)
EXTENDS VoterAuth

CONSTANT Typed  \* the pages whose address is typed

ASSUME VoterBrowserAssumption == Typed \subseteq Pages

VARIABLES
  view,      \* view[t]: what the server rendered for tab t
  draft,     \* draft[t]: sessionStorage of tab t
  hasVoted,  \* voting_credentials.hasVoted
  ballots,   \* the ballots that were accepted
  strayed    \* history: an address was typed, or two tabs were signed in

browserVars == <<view, draft, hasVoted, ballots, strayed>>

vars == <<authVars, browserVars>>

-----------------------------------------------------------------------------
(* offers: what one can do or read there; links: the elections the portal  *)
(* offers a form for.                                                      *)
Unloaded == [offers |-> "nothing", election |-> None, voter |-> None, links |-> {}]

Offers == {"nothing", "form", "info", "notice", "error", "done", "submit", "status",
           "result", "list"}

NoDraft == [election |-> None, by |-> None]

(* voter: history, whose credential the ballot was accepted for.           *)
Ballot == [voter: Voters, draft: [election: Elections, by: Voters]]

TypeOK ==
  /\ AuthTypeOK
  /\ \A t \in Tabs : /\ view[t].offers \in Offers
                     /\ view[t].links \subseteq Elections
                     /\ draft[t] \in {NoDraft} \cup [election: Elections, by: Voters]
  /\ hasVoted \subseteq Voters
  /\ ballots \subseteq Ballot
  /\ strayed \in BOOLEAN

Init ==
  /\ AuthInit
  /\ view = [t \in Tabs |-> Unloaded]
  /\ draft = [t \in Tabs |-> NoDraft]
  /\ hasVoted = {}
  /\ ballots = {}
  /\ strayed = FALSE

-----------------------------------------------------------------------------
(* The pages                                                               *)

(* requireVoterSession, for the pages and for the submission               *)
Admitted(t) == Valid(HeldBy(t), now) /\ session[HeldBy(t)].authenticated

VoterOf(t) == session[HeldBy(t)].voter

Show(t, offers) ==
  [Unloaded EXCEPT !.offers = offers, !.voter = VoterOf(t),
                   !.election = ElectionOf[VoterOf(t)]]

Error == [Unloaded EXCEPT !.offers = "error"]

(* listVoterPortalElections: what is open or over, and not paused          *)
Listed == {e \in Elections : state[e] \in {"open"} \cup CompletedStates}

(* The portal: an election whose time is up but which nobody has closed    *)
(* has a button that only says so.                                         *)
RenderPortal ==
  [Unloaded EXCEPT !.offers = "list", !.links = {e \in Listed : ~Awaiting(e)}]

(* voting_open and completed, of the session's voter.                      *)
VotingOpen(t) == IsVotingWindowOpen(state[ElectionOf[VoterOf(t)]], EndsAt, now)

Completed(t) == VoterOf(t) \in hasVoted

(* Mutant: the address is not compared with the session.                   *)
SameElectionAny(t, e) == TRUE

(* A page whose address has an election is for sessions of that election.  *)
SameElection(t, e) == Admitted(t) => e = ElectionOf[VoterOf(t)]

RenderElection(t) ==
  IF ~Admitted(t) THEN Error
  ELSE Show(t, IF VotingOpen(t) THEN "info" ELSE "notice")

RenderBallot(t) ==
  IF ~Admitted(t) THEN Error
  ELSE IF ~VotingOpen(t) THEN Show(t, "notice")
  ELSE Show(t, IF Completed(t) THEN "done" ELSE "form")

RenderListedBallot(t, e) == IF SameElection(t, e) THEN RenderBallot(t) ELSE Error

RenderReview(t) ==
  IF ~Admitted(t) THEN Error
  ELSE IF ~VotingOpen(t) \/ draft[t] = NoDraft THEN Show(t, "notice")
  ELSE Show(t, IF Completed(t) THEN "done" ELSE "submit")

(* Only published elections have a result that is shown.                   *)
RenderResults(t) ==
  IF Admitted(t) /\ state[ElectionOf[VoterOf(t)]] = "published"
    THEN Show(t, "result")
    ELSE Error

RenderListedResults(t, e) == IF SameElection(t, e) THEN RenderResults(t) ELSE Error

(* The headline says that the ballot was received, the rest whether it was.*)
RenderComplete(t) == IF Admitted(t) THEN Show(t, "status") ELSE Error

Form(e) == [Unloaded EXCEPT !.offers = "form", !.election = e]

(* The form of a paused election is not found.                             *)
RenderVerify(e) == IF e \in Listed THEN Form(e) ELSE Error

Render(t, p) ==
  CASE p[1] = "portal"   -> RenderPortal
    [] p[1] = "verify"   -> RenderVerify(p[2])
    [] p[1] \in {"invite", "identify"} -> Form(None)
    [] p[1] = "election" -> RenderElection(t)
    [] p[1] = "ballot"   -> IF p[2] = None THEN RenderBallot(t)
                                           ELSE RenderListedBallot(t, p[2])
    [] p[1] = "review"   -> RenderReview(t)
    [] p[1] = "complete" -> RenderComplete(t)
    [] p[1] = "results"  -> IF p[2] = None THEN RenderResults(t)
                                           ELSE RenderListedResults(t, p[2])

(* The request for a page may take its time.                               *)
Load(t) ==
  /\ view[t] = Unloaded
  /\ view' = [view EXCEPT ![t] = Render(t, page[t])]
  /\ UNCHANGED <<authVars, draft, hasVoted, ballots, strayed>>

Head(t, p) ==
  /\ page' = [page EXCEPT ![t] = p]
  /\ view' = [view EXCEPT ![t] = Unloaded]
  /\ UNCHANGED <<now, state, credential, session, cookie, check, failures, overlapped>>

(* The links of the pages; that to the portal is on all of them.           *)
Links(t) ==
  LET name   == page[t][1]
      again  == <<"verify", page[t][2]>>
      listed == page[t][2] # None
  IN  CASE name = "election" /\ view[t].offers = "info"  -> {At("ballot"), At("portal")}
        [] name = "review" /\ view[t].offers = "submit"  -> {At("ballot"), At("portal")}
        [] name = "complete" /\ view[t].offers = "status" -> {At("results"), At("portal")}
        [] view[t].offers = "error" /\ listed            -> {again, At("portal")}
        [] view[t].offers = "error" /\ name = "review"   -> {At("election"), At("portal")}
        [] view[t].offers = "error" /\ name = "results"  -> {At("complete"), At("portal")}
        [] view[t].offers = "error" /\ name \in {"election", "ballot", "complete"}
                                                         -> {At("invite"), At("portal")}
        [] OTHER                                         -> {At("portal")}

Follow(t) ==
  /\ view[t] # Unloaded /\ check[t].pc = "idle"
  /\ \E p \in Links(t) : Head(t, p)
  /\ UNCHANGED <<draft, hasVoted, ballots, strayed>>

(* The pages there is one of for each election.                            *)
Addressed == {"verify", "ballot", "results"}

(* An address that is typed, or the way back of the browser.               *)
Stray(t) ==
  /\ check[t].pc = "idle"
  /\ \E name \in Typed, e \in Elections \cup {None} :
       /\ (name = "verify" => e # None) /\ (name \notin Addressed => e = None)
       /\ Head(t, <<name, e>>)
  /\ strayed' = TRUE
  /\ UNCHANGED <<draft, hasVoted, ballots>>

-----------------------------------------------------------------------------
(* The ballot form                                                         *)

(* Mutant: a draft that is there already is kept.                          *)
FillBallotOnce(t) ==
  /\ page[t][1] = "ballot" /\ view[t].offers = "form" /\ check[t].pc = "idle"
  /\ draft' = [draft EXCEPT ![t] =
       IF @ # NoDraft THEN @
       ELSE [election |-> view[t].election, by |-> view[t].voter]]
  /\ Head(t, At("review"))
  /\ UNCHANGED <<hasVoted, ballots, strayed>>

(* The form asks for the required answers only: how many options may be    *)
(* chosen is left to the server.                                           *)
FillBallot(t) ==
  /\ page[t][1] = "ballot" /\ view[t].offers = "form" /\ check[t].pc = "idle"
  /\ draft' = [draft EXCEPT ![t] =
       [election |-> view[t].election, by |-> view[t].voter]]
  /\ Head(t, At("review"))
  /\ UNCHANGED <<hasVoted, ballots, strayed>>

(* Mutant: answers to unknown questions are passed over.                   *)
AnswersFitLax(d, e) == d # NoDraft

(* validateAnswers: of an election's questions, all and no others.  How    *)
(* many options they choose may still be wrong.                            *)
AnswersFit(d, e) == d.election = e

(* What the server makes of a draft now.                                   *)
Accepts(t) ==
  /\ Admitted(t)
  /\ VotingOpen(t)
  /\ ~Completed(t)
  /\ AnswersFit(draft[t], ElectionOf[VoterOf(t)])

Submitting(t) ==
  page[t] = At("review") /\ view[t].offers = "submit" /\ check[t].pc = "idle"

(* Mutant: the draft goes whatever the answer was.                         *)
RefusedCleared(t) ==
  /\ Submitting(t)
  /\ view' = [view EXCEPT ![t].offers = "error"]
  /\ draft' = [draft EXCEPT ![t] = NoDraft]
  /\ UNCHANGED <<authVars, hasVoted, ballots, strayed>>

(* The error is shown on the page, which keeps its button.                 *)
Refused(t) ==
  /\ Submitting(t)
  /\ UNCHANGED vars

Accepted(t) ==
  /\ Submitting(t) /\ Accepts(t)
  /\ hasVoted' = hasVoted \cup {VoterOf(t)}
  /\ ballots' = ballots \cup {[voter |-> VoterOf(t), draft |-> draft[t]]}

(* Mutant: the answers are cleared one by one, and one of them is missed.  *)
SubmitDraftHalf(t) ==
  /\ Accepted(t)
  /\ draft' = [draft EXCEPT ![t].by = None]
  /\ Head(t, At("complete"))
  /\ UNCHANGED strayed

(* clearDraft, and on to the page that says so                             *)
SubmitDraft(t) ==
  /\ Accepted(t)
  /\ draft' = [draft EXCEPT ![t] = NoDraft]
  /\ Head(t, At("complete"))
  /\ UNCHANGED strayed

(* The ballot is accepted and the answer lost: for the page an error.      *)
LoseAnswer(t) ==
  /\ failures < MaxFailures /\ failures' = failures + 1
  /\ Accepted(t)
  /\ UNCHANGED <<now, state, credential, session, cookie, check, page, overlapped>>
  /\ UNCHANGED <<view, draft, strayed>>

-----------------------------------------------------------------------------
(* The steps of VoterAuth, as the tabs see them: an answer loads a page.   *)
(* (Checks that overlap, die or find a wrong identifier are the subject of *)
(* VoterAuth.)                                                             *)
SomeoneElsewhere(t) ==
  \E u \in Tabs \ {t} : JarOf[u] = JarOf[t] /\ page[u] # At("portal")

SignIn(t) ==
  /\ \A u \in Tabs \ {t} : check[u] = Idle
  /\ \/ \E v \in Voters : OpenLink(t, v)
     \/ \E e \in Elections : e \in view[t].links /\ Choose(t, e)
     \/ view[t].offers = "form" /\ HeldBy(t) # None /\ SendIdentifier(t, VoterOf(t))
     \/ \E v \in Voters : view[t].offers = "form" /\ SendListed(t, v)
     \/ Judge(t)
  /\ view' = IF check'[t] = Idle THEN [view EXCEPT ![t] = Unloaded] ELSE view
  /\ strayed' = (strayed \/ (cookie' # cookie /\ SomeoneElsewhere(t)))
  /\ UNCHANGED <<draft, hasVoted, ballots>>

Elsewhere ==
  /\ Tick \/ \E e \in Elections, to \in Stages : Administer(e, to)
  /\ UNCHANGED browserVars

Next ==
  \/ Elsewhere
  \/ \E t \in Tabs :
       \/ SignIn(t) \/ Load(t) \/ Follow(t) \/ Stray(t)
       \/ FillBallot(t) \/ Refused(t) \/ SubmitDraft(t) \/ LoseAnswer(t)

Spec == Init /\ [][Next]_vars

-----------------------------------------------------------------------------
(* Properties                                                              *)

(***************************************************************************)
(* Drafts outlive sign-ins, and are kept under one key for every election: *)
(* still a ballot is accepted only with answers to the questions of the    *)
(* election its voter is registered in, whoever typed them and wherever.   *)
(***************************************************************************)
BallotsAnswerTheirElection ==
  \A b \in ballots : b.draft.election = ElectionOf[b.voter]

(***************************************************************************)
(* The answers a voter has typed leave his tab only with a ballot that was *)
(* accepted with them, or for answers typed later: no refusal, expired     *)
(* session, lost answer or sign-in of another loses them.                  *)
(***************************************************************************)
DraftsSurvive ==
  [][\A t \in Tabs :
       draft[t] # NoDraft /\ draft'[t] = NoDraft =>
         \E b \in ballots' : b.draft = draft[t]]_vars

(***************************************************************************)
(* Nothing ties a draft to its voter.  Following the links of the pages,   *)
(* in one tab at a time, is enough for the ballot to be that of the person *)
(* whose session casts it, though voters may use the tab in turn and leave *)
(* their drafts behind.                                                    *)
(***************************************************************************)
AuthorsCastTheirBallots ==
  ~strayed => \A b \in ballots : b.draft.by = b.voter

(***************************************************************************)
(* The page of an election shows no other, although the cookie may have    *)
(* become that of a voter of another election meanwhile, by another tab.   *)
(***************************************************************************)
PagesShowTheirElection ==
  \A t \in Tabs :
    page[t][2] # None => view[t].election \in {None, page[t][2]}

(***************************************************************************)
(* Nobody's vote or page is taken for another's, in a browser with one     *)
(* cookie and one draft key: the three invariants above.                   *)
(***************************************************************************)
NothingMixedUp ==
  BallotsAnswerTheirElection /\ AuthorsCastTheirBallots /\ PagesShowTheirElection

(***************************************************************************)
(* ui-design-and-screen-spec: with invite_link_only whoever has the link   *)
(* has access.  The exchange leaves the session unauthenticated and sends  *)
(* the tab to a page that asks for an authenticated one.                   *)
(***************************************************************************)
LinkGivesAccess ==
  [][\A t \in Tabs :
       view[t] = Unloaded /\ view'[t] # Unloaded /\ page[t] = At("election")
         /\ Valid(HeldBy(t), now)
         /\ ~RequiresIdentifier(MethodOf[ElectionOf[VoterOf(t)]])
       => view'[t].offers # "error"]_vars
=============================================================================
