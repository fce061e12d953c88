------------------------------ MODULE ResultCounts ------------------------------
(***************************************************************************)
(* What the numbers of an election say: the counts that a tally stores and *)
(* the turnout that every page computes again when it is opened.  A tally  *)
(* and a page read the ballots and the electorate in calls of their own,   *)
(* which Promise.all starts together, while submissions that were checked  *)
(* before the close still commit, a voter may vote twice (both as in       *)
(* BallotBox), and an edit of the registry judged before the opening may   *)
(* still be written (as in Preparation and ManagedRegistry).               *)
(*                                                                         *)
(* Every ballot here is current, accepted and in time, which BallotBox     *)
(* shows of every accepted ballot.  The questions stay as they are.        *)
(***************************************************************************)
EXTENDS Integers, FiniteSets, FiniteSetsExt

CONSTANTS Voters,       \* everybody who may ever be in the registry
          Submissions,  \* submissions; an accepted one is a ballot
          Singles, Multiples, Texts,  \* the questions of each type
          Compulsory,   \* the questions that may not stay without an answer
          Options,      \* the options of every choice question
          Readers,      \* pages of results that are open
          MaxLateEdits, \* bound of the edits of the registry after the opening
          Nothing

ChoiceQuestions == Singles \cup Multiples
Questions == ChoiceQuestions \cup Texts

(* A row of results with its result_items; of: history, the ballots counted. *)
ResultRow == [items: [(ChoiceQuestions \X Options) \cup (Texts \X {"text"}) -> Nat],
              of: SUBSET Submissions, electorate: Nat, abstain: Nat]

ASSUME CountsAssumption ==
  /\ \A S \in {Voters, Submissions, Singles, Multiples, Texts, Options} : IsFiniteSet(S)
  /\ Singles \cap Multiples = {} /\ ChoiceQuestions \cap Texts = {}
  /\ Compulsory \subseteq Questions
  /\ Options \cap {"abstain", "text"} = {} /\ Nothing \notin ResultRow
  /\ MaxLateEdits \in Nat

VARIABLES
  stage,     \* "open", "closed", "tallying", "pending", "published"
  active,    \* the active rows of eligible_voters
  checked,   \* checked[s]: the voter and answers of a submission past its checks
  ballots,   \* the submissions that were accepted
  tally,     \* what the running tally has read: its pc, ballots and electorate
  result,    \* the row that was stored, with its items, or Nothing
  reading,   \* reading[r]: what page r has read so far
  page,      \* page[r]: the numbers page r shows, or Nothing
  lateEdits, \* edits of the registry since the opening
  twice      \* whether some voter has two ballots

vars == <<stage, active, checked, ballots, tally, result, reading, page, lateEdits, twice>>

-----------------------------------------------------------------------------
(* Answers a submission may carry, as validateAnswers takes them: an       *)
(* abstention in so many words, a text, one option or several; and none,   *)
(* unless the question is required and asks for at least one option.       *)

Answer(q) ==
  {{"abstain"}} \cup (IF q \in Compulsory THEN {} ELSE {{}})
    \cup (IF q \in Texts THEN {{"text"}}
          ELSE IF q \in Singles THEN {{o} : o \in Options} ELSE SUBSET Options \ {{}})

Ballot == [voter: Voters, answers: [Questions -> SUBSET (Options \cup {"abstain", "text"})]]

Validated == {a \in [Questions -> UNION {Answer(q) : q \in Questions}] :
                \A q \in Questions : a[q] \in Answer(q)}

-----------------------------------------------------------------------------
(* aggregateResultItems.                                                   *)

(* Mutant: the difference as it is.                                        *)
NonVotingUnclamped(electorate, counted) == electorate - counted

(* Abstentions: the electorate without those whose ballots count.          *)
NonVoting(electorate, counted) == IF counted > electorate THEN 0 ELSE electorate - counted

(* The ballots that marked an option, or that filled in a text.  A question *)
(* left blank and an explicit abstention add to no item.                   *)
Marked(read, q, mark) == Cardinality({s \in read : mark \in checked[s].answers[q]})

Items(read) ==
  [i \in (ChoiceQuestions \X Options) \cup (Texts \X {"text"}) |-> Marked(read, i[1], i[2])]

TotalOf(items, q) == MapThenSumSet(LAMBDA o : items[<<q, o>>], Options)

(* formatPercent: Math.round of a share, and 0 of nothing.                 *)
Percent(n, of) == IF of <= 0 THEN 0 ELSE (200 * n + of) \div (2 * of)

(* Mutant: the share of the voters in place of the marks.                  *)
SharesOfVoters(items, turnout) ==
  [i \in ChoiceQuestions \X Options |-> Percent(items[i], turnout)]

(* resultItemVoteDenominators: the marks of a question, without abstainers *)
Shares(items, turnout) ==
  [i \in ChoiceQuestions \X Options |-> Percent(items[i], TotalOf(items, i[1]))]

-----------------------------------------------------------------------------
Resting == [pc |-> "rest", ballots |-> Nothing, electorate |-> Nothing]

Init ==
  /\ stage = "open" /\ active \in SUBSET Voters /\ active # {}
  /\ checked = [s \in Submissions |-> Nothing] /\ ballots = {}
  /\ tally = Resting /\ result = Nothing
  /\ reading = [r \in Readers |-> Resting] /\ page = [r \in Readers |-> Nothing]
  /\ lateEdits = 0 /\ twice = FALSE

HasVoted(v) == \E s \in ballots : checked[s].voter = v

(* A submission passes the checks of submitAnonymousBallot.                *)
Check(s) ==
  /\ stage = "open" /\ checked[s] = Nothing
  /\ \E v \in active, a \in Validated :
       /\ ~HasVoted(v)
       /\ checked' = [checked EXCEPT ![s] = [voter |-> v, answers |-> a]]
  /\ UNCHANGED <<stage, active, ballots, tally, result, reading, page, lateEdits, twice>>

(* Its transaction commits, whatever has happened since.                   *)
Commit(s) ==
  /\ checked[s] # Nothing /\ s \notin ballots
  /\ ballots' = ballots \cup {s}
  /\ twice' = (twice \/ HasVoted(checked[s].voter))
  /\ UNCHANGED <<stage, active, checked, tally, result, reading, page, lateEdits>>

(* An import or synchronisation that was judged before the opening.        *)
EditRegistry(v) ==
  /\ lateEdits < MaxLateEdits
  /\ active' = IF v \in active THEN active \ {v} ELSE active \cup {v}
  /\ lateEdits' = lateEdits + 1
  /\ UNCHANGED <<stage, checked, ballots, tally, result, reading, page, twice>>

Close ==
  /\ stage = "open" /\ stage' = "closed"
  /\ UNCHANGED <<active, checked, ballots, tally, result, reading, page, lateEdits, twice>>

-----------------------------------------------------------------------------
(* tallyElectionResult.                                                    *)

BeginTally ==
  /\ stage = "closed" /\ stage' = "tallying"
  /\ tally' = [Resting EXCEPT !.pc = "read"]
  /\ UNCHANGED <<active, checked, ballots, result, reading, page, lateEdits, twice>>

(* Reads in any order, for a tally and for a page alike.                   *)
Reads(record) ==
  (IF record.ballots = Nothing THEN {[record EXCEPT !.ballots = ballots]} ELSE {})
    \cup (IF record.electorate = Nothing
          THEN {[record EXCEPT !.electorate = Cardinality(active)]} ELSE {})

ReadForTally ==
  /\ tally.pc = "read" /\ tally' \in Reads(tally)
  /\ UNCHANGED <<stage, active, checked, ballots, result, reading, page, lateEdits, twice>>

(* Mutant: the tally is stored when the electorate is known.               *)
StoreResultEarly ==
  /\ tally.pc = "read" /\ tally.electorate # Nothing
  /\ LET read == IF tally.ballots = Nothing THEN {} ELSE tally.ballots IN
     result' = [items |-> Items(read), of |-> ballots, electorate |-> tally.electorate,
                abstain |-> NonVoting(tally.electorate, Cardinality(read))]
  /\ tally' = [Resting EXCEPT !.pc = "stored"]
  /\ UNCHANGED <<stage, active, checked, ballots, reading, page, lateEdits, twice>>

StoreResult ==
  /\ tally.pc = "read" /\ Reads(tally) = {}
  /\ result' = [items |-> Items(tally.ballots), of |-> tally.ballots,
                electorate |-> tally.electorate,
                abstain |-> NonVoting(tally.electorate, Cardinality(tally.ballots))]
  /\ tally' = [Resting EXCEPT !.pc = "stored"]
  /\ UNCHANGED <<stage, active, checked, ballots, reading, page, lateEdits, twice>>

(* The state after the tally, and the confirmation and publication.        *)
Advance ==
  /\ \/ stage = "tallying" /\ tally.pc = "stored" /\ stage' = "pending"
     \/ stage = "pending" /\ stage' = "published"
  /\ tally' = Resting
  /\ UNCHANGED <<active, checked, ballots, result, reading, page, lateEdits, twice>>

-----------------------------------------------------------------------------
(* Pages: the live turnout while there is no result; the administrator's   *)
(* results once a result is stored; the public results once published.     *)

FindResult(r, kind) ==
  /\ reading[r].pc = "rest"
  /\ CASE kind = "live"   -> result = Nothing
       [] kind = "admin"  -> result # Nothing
       [] kind = "public" -> stage = "published"
  /\ reading' = [reading EXCEPT ![r] = [Resting EXCEPT !.pc = kind]]
  /\ UNCHANGED <<stage, active, checked, ballots, tally, result, page, lateEdits, twice>>

ReadForPage(r) ==
  /\ reading[r].pc # "rest"
  /\ \E next \in Reads(reading[r]) : reading' = [reading EXCEPT ![r] = next]
  /\ UNCHANGED <<stage, active, checked, ballots, tally, result, page, lateEdits, twice>>

(* Mutant: the abstentions that were stored beside the turnout of the moment. *)
ShownAsStored(electorate, counted) ==
  LET turnout == NonVoting(electorate, NonVoting(electorate, counted)) IN
  [kind |-> "result", electorate |-> electorate, turnout |-> turnout,
   abstain |-> result.abstain, items |-> result.items,
   shares |-> Shares(result.items, turnout)]

(* resultDto: the abstentions of the moment replace those that were stored *)
Shown(electorate, counted) ==
  LET abstain == NonVoting(electorate, counted)
      turnout == NonVoting(electorate, abstain) IN
  [kind |-> "result", electorate |-> electorate, turnout |-> turnout, abstain |-> abstain,
   items |-> result.items, shares |-> Shares(result.items, turnout)]

(* Mutant: every submission that was begun.                                *)
LiveSubmissions(electorate, counted) ==
  LET begun == Cardinality({s \in Submissions : checked[s] # Nothing}) IN
  [kind |-> "live", electorate |-> electorate, turnout |-> begun,
   percent |-> Percent(begun, electorate)]

(* The live page shows the number of ballots as it is.                     *)
Live(electorate, counted) ==
  [kind |-> "live", electorate |-> electorate, turnout |-> counted,
   percent |-> Percent(counted, electorate)]

(* Mutant: the public page shows the abstentions that were stored.         *)
RenderPublicAsStored(r) ==
  LET read == reading[r]  counted == Cardinality(read.ballots) IN
  /\ read.pc # "rest" /\ Reads(read) = {}
  /\ page' = [page EXCEPT ![r] =
       CASE read.pc = "live"   -> Live(read.electorate, counted)
         [] read.pc = "admin"  -> Shown(read.electorate, counted)
         [] read.pc = "public" -> ShownAsStored(read.electorate, counted)]
  /\ reading' = [reading EXCEPT ![r] = Resting]
  /\ UNCHANGED <<stage, active, checked, ballots, tally, result, lateEdits, twice>>

Render(r) ==
  LET read == reading[r]  counted == Cardinality(read.ballots) IN
  /\ read.pc # "rest" /\ Reads(read) = {}
  /\ page' = [page EXCEPT ![r] = IF read.pc = "live" THEN Live(read.electorate, counted)
                                 ELSE Shown(read.electorate, counted)]
  /\ reading' = [reading EXCEPT ![r] = Resting]
  /\ UNCHANGED <<stage, active, checked, ballots, tally, result, lateEdits, twice>>

Next ==
  \/ \E s \in Submissions : Check(s) \/ Commit(s)
  \/ \E v \in Voters : EditRegistry(v)
  \/ Close \/ BeginTally \/ ReadForTally \/ StoreResult \/ Advance
  \/ \E r \in Readers :
       \/ \E kind \in {"live", "admin", "public"} : FindResult(r, kind)
       \/ ReadForPage(r) \/ Render(r)

Spec == Init /\ [][Next]_vars

-----------------------------------------------------------------------------
(* Neither of the two overlaps that BallotBox and Preparation allow came about. *)
Undisturbed == lateEdits = 0 /\ ~twice

(***************************************************************************)
(* Types: what was counted is what was accepted, and every count is a      *)
(* number that a ballot box of this size can give, never a negative one.   *)
(***************************************************************************)
CountsTypeOK ==
  /\ stage \in {"open", "closed", "tallying", "pending", "published"}
  /\ active \subseteq Voters /\ ballots \subseteq Submissions
  /\ \A s \in Submissions : checked[s] \in Ballot \cup {Nothing}
  /\ \A s \in ballots : checked[s] # Nothing
  /\ result # Nothing =>
       /\ result.of \subseteq ballots
       /\ \A i \in DOMAIN result.items : result.items[i] \in 0..Cardinality(Submissions)
       /\ result.abstain \in 0..Cardinality(Voters)
  /\ \A r \in Readers : page[r] # Nothing =>
       /\ page[r].electorate \in 0..Cardinality(Voters)
       /\ page[r].turnout \in 0..Cardinality(Submissions)
  /\ lateEdits \in 0..MaxLateEdits /\ twice \in BOOLEAN

(* The ballots that mark no option of a question.                          *)
Silent(read, q) == Cardinality({s \in read : checked[s].answers[q] \cap Options = {}})

(***************************************************************************)
(* Non-voters count as abstentions "so that the total of the results       *)
(* matches the registry" (README): the marks of a question with one        *)
(* answer, the abstentions that were stored and the ballots that mark none *)
(* of its options make up the electorate, although ballots and electorate  *)
(* are read at different moments.  (Ballots that abstain in so many words  *)
(* or leave the question blank are in no item and are no non-voters:       *)
(* with one of them the results that are shown add up to less.)            *)
(***************************************************************************)
TotalsMatchRegistry ==
  result # Nothing /\ Undisturbed => \A q \in Singles :
    TotalOf(result.items, q) + result.abstain + Silent(result.of, q) = result.electorate

(***************************************************************************)
(* A page never shows more votes for the options of a question than people *)
(* who voted, although the items are those of the tally and the turnout is *)
(* of the moment; and the turnout and the abstentions it shows make up the *)
(* electorate it shows.                                                    *)
(***************************************************************************)
TurnoutCoversCounts ==
  \A r \in Readers : page[r] # Nothing /\ page[r].kind = "result" =>
    /\ Undisturbed => \A q \in Singles : TotalOf(page[r].items, q) <= page[r].turnout
    /\ page[r].turnout + page[r].abstain = page[r].electorate

(***************************************************************************)
(* The live turnout is at most a hundred per cent: nobody counts whose     *)
(* submission is under way, or who is no longer in the registry.           *)
(***************************************************************************)
LiveTurnoutAtMostAll ==
  \A r \in Readers : page[r] # Nothing /\ page[r].kind = "live" /\ Undisturbed =>
    page[r].percent <= 100 /\ page[r].turnout <= Cardinality(ballots)

(***************************************************************************)
(* The shares beside the options of a question that got any vote add up to *)
(* a hundred, give or take half a point of rounding for each option.       *)
(***************************************************************************)
SharesAddUp ==
  \A r \in Readers : page[r] # Nothing /\ page[r].kind = "result" => \A q \in ChoiceQuestions :
    LET total == TotalOf(page[r].shares, q)
        slack == Cardinality(Options) IN
    TotalOf(page[r].items, q) > 0 => 2 * total \in (200 - slack)..(200 + slack)

(***************************************************************************)
(* The numbers of one page fit together: the three invariants above.       *)
(***************************************************************************)
PageNumbersFit == TurnoutCoversCounts /\ LiveTurnoutAtMostAll /\ SharesAddUp

(***************************************************************************)
(* Whoever reloads a page of results sees the abstentions fall or stay     *)
(* (ballots that commit late are taken in), never rise.                    *)
(***************************************************************************)
AbstentionsNeverRise ==
  [][\A r \in Readers :
       /\ page[r] # Nothing /\ page[r].kind = "result" /\ page'[r] # page[r]
       /\ Undisturbed'
       => page'[r].abstain <= page[r].abstain]_vars
=============================================================================
