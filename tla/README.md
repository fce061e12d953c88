# A verification project for voting-service-web

voting-service-web is an anonymous online voting service for housing
communities: a Next.js application over one PostgreSQL database, reached
through Prisma. Administrators prepare an election, open it, close it, tally
and publish it; voters verify themselves with registry data and submit one
anonymous ballot. There is no lock, queue or background job in the
application: **every request is a chain of database calls, and what happens
between two of them is the subject of this project**. A few chains end in, or
contain, a database transaction; most do not.

The modules are TLA+; TLC checks them on small instances. TLAPS proves the
safety properties of every part that is modelled: ballot submission (including
that it implements an abstract ledger of votes), the preparation of an
election and its content, managed registries, the result pipeline and its
counts, voter verification and the voter's pages, and administrator access,
for every electorate and any number of overlapping requests and failures.

## 1. Inventory of the system

Paths are relative to `src/` inside the repository.

| Component | Code | State | Operations |
|---|---|---|---|
| Election policy | `domain/elections/{state-machine,actions,voting-window}.ts`, `guardrails/enums.js` | none (tables) | which state may follow which; which action a state denies; whether the voting window is open |
| Ballot submission | `server/ballots/*`, `domain/ballots/ballot-policy.ts` | voting credentials (`hasVoted`, `submissionCount`), anonymous passes, anonymous ballot groups, ballots, votes, submission events; in the browser the session and the ballot-group cookies | `submitAnonymousBallot` (`submitRevote` always refuses) |
| Result pipeline | `server/results/*`, `server/elections/election-service.ts` (pause, resume, close), `domain/results/result-policy.ts` | `elections.state`, state history, results and items, result versions, correction requests, invalidation records, reports | pause, resume, close, tally, confirm, publish, request and approve a correction, invalidate, request a report |
| Election preparation | `server/elections/election-service.ts` | election draft, questions, options, authentication policy, voter registry with its counts, eligible voters, credentials, invitations, delivery events | draft, edit, import, validate, request review, approve, schedule, open, delete, cancel, prepare / send / resend invitations |
| Administrator wizard and content | `server/elections/admin-actions.ts`, `components/admin/admin-election-forms.tsx`, `lib/voter-registry-fields.ts` | what the browser has typed so far; per request the rest of a chain of service calls | the wizard's three steps and its server action; the forms that edit questions, options, information and policy; the import of a spreadsheet; review and opening |
| Managed registries | `server/voter-registries/managed-registry-service.ts` | reusable voter lists and the copies of them inside elections | create, rename, add / update / delete a voter (each followed by a synchronisation of the elections in preparation), clone, link to an election |
| Voter verification | `server/voters/*`, `server/auth/voter-session.ts` | failed attempts, lock, authentication status of a credential; voter sessions (15 minutes) | invitation token, identifier check, verification from the public list |
| Voter's pages | `app/voter`, `components/voter` | the session cookie of a browser; a draft of the answers in each tab, under one key | portal, identifier forms, election, ballot, review, submission, confirmation, results |
| Administrator access | `server/auth/*`, `server/rbac/*`, `app/admin/login`, `scripts/bootstrap-admin.ts` | administrator sessions (8 hours), step-up rows (10 minutes), users and their roles | login, restoring a session, `requirePermissionWithStepUp`, step-up, logout, bootstrap of the first owner |
| Result aggregation | `aggregateResultItems` and the turnout in `server/results/*`, `privacy-policy.ts` | the items of a result; nothing else (pure) | counts per option, abstentions, the live turnout of every page, percentages, masking |
| Audit, privacy, HTTP, the rest of the UI | `server/audit`, `server/privacy`, `server/http`, `app/`, `components/` | audit and security events (append only) | logging, encryption, parsing, rendering |

How they interact. Everything meets in the database. The ballot submission
*reads* `elections.state` once and never again; the administrative operations
*write* it without comparing it with what they read. The tally reads the
ballots that submissions are still writing. The group cookie is left in a
shared browser by one voter and shown by the next. Opening an election turns
eligible voters into credentials one by one while imports and registry
synchronisations may still change the voters. The wizard's single request is
half a dozen service calls, each of which the next form of another
administrator may slip in between. A page of results reads the stored items
and counts the turnout anew. Every page, of voters and of administrators,
restores its session from a cookie that all tabs of a browser share. Audit
events are written last and read by nobody.

What is hard about it:

* **checks that are stale when they are used** - `hasVoted`, the election's
  state and the deadline are judged several database calls before the ballot is
  written; administrators' decisions likewise;
* **overlap** - two tabs, a double click, two administrators;
* **partial failure** - a call fails or the process dies between two writes
  that are not in one transaction; nothing repairs the rest;
* **retries** - the answer is lost and the voter or administrator tries again;
* **shared browsers** - one cookie jar, several voters.

What makes each component correct:

* ballot submission: the three ledgers no key joins (credential, pass, ballot)
  agree; an accepted ballot is final; a credential votes once; every accepted
  ballot is counted; nobody joins the vote after the close;
* result pipeline: the life cycle keeps its order; a stage is never announced
  without its rows; one tally; versions numbered in order; what was published
  stays; the pipeline can always go on;
* preparation: an open election has a credential for every voter of its
  registry; nothing under review changes after the approval;
* managed registries: the copy in an election equals the source once a
  synchronisation has ended; the copy is fixed once the election opens;
* administrator wizard: a draft cut off half way has no voters and cannot be
  opened; no edit takes an option away; the voters are those of the files;
* verification: a session is authenticated only by its own voter's
  identifier; failed attempts are counted and lock, and a lock holds;
* voter's pages: whoever shares a browser casts his own answers, to his own
  election's questions; answers are not lost by refusals or lost responses;
* administrator access: nothing sent after a logout is authorised; every
  sensitive action has its own confirmation, by the same session, in time;
* aggregation: votes and abstentions of each question add up to the registry,
  and the numbers of one page fit together.

The hazards, each with its line and the property that covers it, are listed in
`PROJECT.json`.

## 2. The modules

| Module | Models | Size |
|---|---|---|
| `ElectionPolicy` | the pure tables, shared by most others | operators only |
| `BallotBox` | concurrent executions of `submitAnonymousBallot`, with cookies, clock, administrators and tally around them | 11 variables, 22 actions |
| `BallotLedger` | the abstract specification of ballot submission that `BallotBox` implements | 5 variables, 6 actions |
| `ResultPipeline` | concurrent administrative operations of an opened election, each a chain of database calls | 8 variables, 15 actions |
| `ResultCounts` | the counts of a tally and of the pages, and when their parts are read | 10 variables, 11 actions |
| `Preparation` | concurrent administrative operations of an election up to and around its opening, each a chain of database calls, several of them loops over voters | 12 variables, 17 actions |
| `ManagedRegistry` | extends `Preparation` with a reusable registry, its editors, and the copies they make of it in the election | 4 more variables, 9 actions |
| `VoterRows` | a file of voters on its way from the spreadsheet to the registry | operators only |
| `ElectionContent` | the wizard and the forms that give an election its content, each request a chain of service calls; uses `VoterRows` | 8 variables, 26 actions |
| `VoterAuth` | how a voter becomes a voter session, at two doors, each handler a chain of database calls | 9 variables, 15 actions |
| `VoterBrowser` | extends `VoterAuth` with the pages, drafts and submissions of the tabs | 5 more variables, 9 actions |
| `AdminAccess` | login, restored sessions, permissions, step-up, logout, bootstrap | 10 variables, 19 actions |
| `MCBallotBox`, `MCResultPipeline`, `MCResultCounts`, `MCPreparation`, `MCManagedRegistry`, `MCElectionContent`, `MCVoterAuth`, `MCVoterBrowser`, `MCAdminAccess` | TLC instances and mutants | |
| `BallotBoxProofs`, `ResultPipelineProofs`, `ResultCountsProofs`, `PreparationProofs`, `ManagedRegistryProofs`, `ElectionContentProofs`, `VoterBrowserProofs`, `AdminAccessProofs` | theorems and their proofs, each about the module it is named after; `BallotBoxProofs` holds the refinement of `BallotLedger` as well, `VoterBrowserProofs` the proofs of `VoterAuth` | |

`ManagedRegistry` composes a registry with the preparation of an election;
`VoterBrowser` composes the pages with voter verification; `BallotBox` contains
the tally and the administrators as far as a submission meets them.

Definitions named as variants in a comment that starts with "Mutant" are plausible mistakes,
used to test that each property can fail; no specification uses them.

### 2.1 BallotBox

`req[r]` is the local state of one execution of the handler; `req[r].pc` says
which of its database calls comes next:

| pc | next call | action |
|---|---|---|
| `received` | `findVoterSessionByHandleHash` | `RequireVoterSession`, `RejectSession` |
| `authenticated` | `findElectionById`, `ensureSubmitAllowed` | `CheckElection` |
| `open` | `findVotingCredential` | `CheckCredential` |
| `eligible` | `findAnonymousVotingPassByCredential` | `FindPass` |
| `noPass` | `createAnonymousVotingPass` | `CreatePass` |
| `hasPass` | `findAnonymousBallotGroupByTokenHash` | `FindGroup` |
| `noGroup` | `createAnonymousBallotGroup` | `CreateGroup` |
| `hasGroup` | `validateAnswers`, then `submitBallotTransaction` | `RejectAnswers`, `CommitBallot` |
| `committed` | `touchVoterSession` and the response | `Respond` |

`Fail(r)` may replace any of them: an error of the database, the death of the
process, an answer that is lost. A retry is simply another request.

Abstractions. Answers are opaque (a body is rejected before anything is
written, an answer after pass and group exist). A row is named by the request
that created it; `castBy` in a ballot and `hadVoted` in a request are history
values no guard reads - the database keeps no link from a ballot to a voter.
Session expiry is `RejectSession` at any time. `submitBallotTransaction` is one
step: it runs in a database transaction whose increments are atomic, and two
transactions touch common rows only through such increments or through a group,
which the proof shows two requests never share. Pause, resume, close and the
tally's first write are one step each here, which is what they are when
administrators work one at a time; their overlap is the subject of
`ResultPipeline`. What happens before the opening and after the tally is left
out, since a submission only asks whether the state is `open`.

**What it implements.** `BallotLedger` knows no sessions, cookies, passes,
groups, clock or rows: a submission is admitted while the vote is open
(`Admit`), cleared when its credential has no ballot at that moment (`Clear`),
and cast later (`Cast`) or dropped (`Drop`); `Administer` and `Count` stand for
the administrators and the tally, and the count takes exactly what was cast by
then. Clearing and casting are two moments, which is why a voter may vote
twice - the ledger says what the code promises, not what its documents do.
`ImplementsLedger` in `BallotBox` is the refinement: `pc` past the state check
is admitted, past the look-up of `hasVoted` is cleared, a ballot with a status
is cast, and what the tally read through three tables is the count. A step
that creates a pass or a group, answers or fails after the commit leaves the
ledger as it is.

### 2.2 ResultPipeline

`work[w]` is the operation in the hands of worker `w`: its kind, the state it
read (`from`), the state it will write (`to`), and the rows it has found.
`Begin` is `getScopedElection` with the checks on what it returned; then each
database call is an action, in the order of the service function:

* pause, resume, close: `WriteState`, `WriteHistory`;
* tally: the same with `tallying`, then `CreateResult`, then the same with
  `pending_confirmation` - the second transition starts from a synthetic
  election and reads nothing;
* confirm: `FindResult`, `ReadMaxVersion`, `CreateVersion`, then state and history;
* publish: `FindVersion`, `CheckResult`, `MarkPublished`, then state and history;
* corrections: `FindPublished`, `CreateCorrection`; `FindResult`, `Approve`,
  `ReadMaxVersion`, `CreateVersion`;
* invalidate: `FindPublished`, `CreateInvalidation`, then state and history.

`Crash` ends an operation between any two calls. `openElection` is also
accepted in a paused election, where it writes what a resume writes; "resume"
stands for both. The audit event after the last write and the privacy and
turnout reads before a publication decide nothing and are left out. A result is
its ordinal number; the counts in it are the subject of `ResultCounts`.

### 2.3 Preparation

`work[w]` is again the operation of worker `w`. `Begin` is `getScopedElection`
with the checks on what it returned (`Accepts`); from then on the operation
does not look at the election again - except that sending invitations calls
their preparation, which does (`ReadAgain`). `work[w].phase` says which list the
operation goes through, `todo` what is left of it, `pc` the next call:

| operation | phases | calls of a phase |
|---|---|---|
| import | rows, counting | `GetRegistry`; per row `Find`, `CreateVoter`; `WriteCounts` |
| validate | | `ReadRegistry`, `WriteCounts` |
| open | credentials, opening | `CheckRegistry`, `ListVoters`; per voter `Find`, `CreateCredential`; `WriteState` |
| prepare | invitations, credentials | `CheckRegistry`, `ListVoters`; per voter `Find` and a `Create...`; twice |
| issue | the two of prepare, sending | `ReadAgain`, ...; `ListVoters`; per voter `Find`, `MarkSent` |
| resend | sending | `ListVoters` (all or one), per voter `Find`, `MarkSent` |
| edit, delete | | `WriteEdit`; `SoftDelete` |
| request review, approve, schedule, pause, resume, cancel | | `WriteState` |

A failed insert - a unique key, a voter who does not exist - ends the operation
and leaves what it wrote. `Crash` ends it anywhere. Voters are named by their
external identifier; the order in which a list is gone through is any order.
An import file is a set of people and a number of repeated rows, which count
as errors, as do rows that are there already. `content` counts edits: what is
written matters to no property, when it is written does. `due` is whether
`startsAt` has passed: the clock sets it, an edit may clear it, an opening
sets it. `opened` is a history variable: the voters for whom an opening wrote
`open`. The import record with its errors, the histories and the audit events
are read by no decision. What follows the opening is in `ResultPipeline`;
pause and resume are here too because a resume also opens an election that was
never opened.

### 2.4 ManagedRegistry

`source` holds the rows of the reusable list, `editing[e]` the request of an
editor. `BeginEdit` is `assertEditableRegistry`; then `FindRow`,
`FindDuplicate`, `WriteRow`, and the synchronisation in two steps, since it
reads outside the transaction that writes: `ReadSource`, `WriteCopy`.
`BeginLink` and `WriteLink` are `linkManagedRegistryToElection`, called by the
wizard for the draft it has created. `overlapped` is a history variable:
whether some request took a step while another was in progress. The module extends `Preparation`, writes
its `registry` and `voters`, and its steps interleave with the operations on
the election. `import` is not among the operations of these instances: a
linked election takes its voters from the registry, and a link replaces rows
under new identities, which the model does not tell apart.

### 2.5 VoterRows and ElectionContent

`VoterRows` follows a file: `Parsed` reads cells by header or by the standard
order, `Normalized` and `ValidRow` are the rules of `voter-registry-fields.ts`,
`Formatted` is the text the browser writes back into the form - the server
parses *that* again - and `Identity` joins the fields whose HMAC is the unique
key. A line is a sequence of words and marks: commas, tabs, blanks and quotation
marks stand for themselves, and a word is a run of characters between them, of
which the model knows how many digits it is made of, if it is digits, and its
lower case; zeros in front are words of their own, and the headings are words.
`Split` takes a line apart as `splitDelimitedLine` does: quotation marks open
and close, two of them where one is open stand for one, a comma or tab outside
cuts. `Formatted` writes fields bare, so what is read again may be something
else: `"A,1234"` becomes two cells, `Kim"Jr"` becomes `KimJr`.

`wizard` is what the browser holds of the three pages (`FillInfo`,
`FillOptions`, `LoadFile`, `GoNext`, `GoBack`); `requests[r]` is a server action
with its place in the chain of service calls:

| server action | calls, each a step that may fail |
|---|---|
| wizard | `SubmitWizard`; `CreateDraft`, `CreatePolicy`, `CreateQuestion`, `CreateOption` per title, `ImportVoters` (its rows, then the counts) |
| edit a question | `OpenEditForm` (what the page shows from now on), `SubmitEdit`, `UpdateQuestion`, `UpdateOption` per shown option, `AppendOptions` |
| add a question | `SubmitQuestion`, then question and options as in the wizard |
| information, policy, import | `UpdateInfo`; `UpdatePolicy`, `ConfigurePolicy`; `SubmitImport`, `ImportVoters` |
| review, opening | `SubmitReview`, `RequestReview`; `OpenElection` |

One call (find the election, check its state, write a row) is one step here;
the gap inside a call is `Preparation`'s. `Fail` ends a chain anywhere and
leaves what is written. The wizard keeps filled titles at their places and
creates options from those (`FilledRow` is the place of the k-th filled title,
`OptionsOf` the options made of them); descriptions are read by the place in the filtered
list, as in the code. The text of the form is the data of a request: `NamedBy`
and `ImportableTexts` are what the server makes of it. `listedBy`, `by` and
`overlapped` are history.

### 2.6 VoterAuth and VoterBrowser

`check[t]` is the handler at work for tab `t`; the tabs of one browser share
`cookie[JarOf[t]]`. The link: `OpenLink` (the exchange, one step: it reads rows that never
change and inserts a session), `SendIdentifier`, `LookUp`, then `CountWrong`
for a wrong identifier, `ClearWrong` and `Admit` for the right one. The list: `GoHome`, `Choose`, `SendListed`,
`FindListed`, `AdmitListed`, `ClearListed`. `CountWrong` writes what `LookUp`
read plus one, so overlapping checks lose counts; `FailCheck` ends a handler
between two calls. `Administer` moves elections on, `Tick` the clock. `wrong`,
`shownBy` and `overlapped` are history: the wrong identifiers since the last
right one, whose identifier authenticated a session, whether two checks of a
credential ever overlapped.

`VoterBrowser` adds what the server renders (`view[t]`, made by `Load` from the
session the browser holds *then*, and kept on the screen), the links a page
offers (`Follow`), addresses that are typed (`Stray`), and the draft of each
tab, which is stored under one key for every election and voter. `FillBallot`,
`SubmitDraft`, `Refused` and `LoseAnswer` are what the form does with it.
`SignIn` is any step of `VoterAuth` with the right identifier, one tab at a
time; checks that overlap, fail or find a wrong identifier stay in
`VoterAuth`. A submission is one step: what happens within is in `BallotBox`.
`strayed` is history: whether an address was typed or two tabs signed in.

### 2.7 AdminAccess

`request[t]` is what tab `t` waits for. Each page, action, step-up and logout
starts with the restoring of the session - `FindSession`, `FindHolder`,
`FindGrants` - whose result is a copy the handler keeps; then `Authorise` and
`Operate` for an action, `FindAgain` and `CreateGrant` for a confirmation of
the password, `RevokeSession` and `RevokeGrants` for a logout; a login is
`FindUser` and `CreateSession`. `Answer` sets or clears the cookie when the
response arrives, `Fail` loses it. The copy joins the codes of all active
step-up rows under the latest of their expiries, as `restoreAdminSession`
does; the cookie that carries a step-up token is read by no code and left out.
`FindOwner` and `CreateOwner` are the bootstrap script, `Disable` any change of
a user's status. `late` marks a request sent when its session was already
revoked or expired, or its user disabled.

### 2.8 ResultCounts

`Check` and `Commit` are a submission (as in `BallotBox`, so that late commits
and double votes happen), `EditRegistry` an edit judged before the opening and
written after it. `BeginTally` starts the tally's reads of ballots and of the
electorate, which `Promise.all` puts in any order (`ReadForTally`);
`StoreResult` stores items and abstentions, `Advance` the later states. A page
finds a result (`FindResult`: live, administrator's, or the public one), reads
ballots and electorate again (`ReadForPage`), and shows (`Render`). `Items`,
`NonVoting`, `Percent` are `aggregateResultItems` and the arithmetic of the
pages. A question that is not required, or that asks for no option at least,
may be left without an answer (`Compulsory` holds those that may not); such an
answer and an abstention in so many words are in no item, and whoever gave it is
no non-voter, so the results that are shown may add up to less than the
registry, in spite of the sentence `README.md:76` of the repository.
`TotalsMatchRegistry` counts these ballots (`Silent`) and says that otherwise
nobody is missing or counted twice.

## 3. What is checked

Between them, the passing runs fire every action.

| Run | Instance | Shows |
|---|---|---|
| `ballot_safety` | 3 requests, 2 voters, 1 browser, deadline 0, clock 0..1 | the ledgers agree (`BooksBalance`), one current ballot in a group, `BallotsAreFinal`, `NoVoteAfterVote`, and the refinement `ImplementsLedger` |
| `result_overlap` | 2 workers, 1 death, 2 tallies, 3 versions, 1 correction | `StageHasItsRows`, `VersionsNumberedInOrder`, `PublishedCountsKept` whatever overlaps |
| `result_serial` | 1 worker, 2 deaths, 2 tallies, 4 versions, 2 corrections | `LifecycleOrder`, `PublicResultFixed`, `KeptAlone` (one tally, one notice of a version, a history that explains the state), and the liveness property `ClosedIsPublished` |
| `prep_serial` | all 14 operations, 2 voters, 1 worker, 1 death, 1 edit, 1 repeated row | `OpeningIsComplete`, `KeptAlone` (one invitation each, a deleted election is never open, sent invitations work) |
| `prep_overlap` | import, validate, open, prepare by 2 workers, 2 voters, 1 death, 1 repeated row | `OpenedVotersHaveCredentials`, `ValidatedMeansValid` whatever overlaps, and the liveness property `ReadyIsOpened` |
| `registry` | 2 editors and a worker with open, resume, cancel, delete; 2 voters, 2 rows, 1 death | `CountsMatchCopy`, `OpenedVotersHaveCredentials` whatever overlaps; `CopyIsCurrent` of requests that do not |
| `content` | 1 election, 2 requests, 3 titles, 5 files, questions of at most 3 options, 2 questions, 1 tick, 2 forms after the wizard, 1 failure | `QuestionsSound`, `VotersComeLast`, `VotersAreThoseOfFiles`, `NothingIsTakenAway` |
| `doors` | 2 voters and a stranger, 2 tabs of one browser, 3 sessions, 2 attempts, 2 ticks, 1 failure | `SessionsAreProved`, `LocksHold` whatever overlaps; `WrongOnesAreCounted` of checks that do not |
| `pages` | 3 voters of 2 elections, one with a link only, 2 tabs of one browser, 2 sessions, 1 tick | `NothingMixedUp`, `DraftsSurvive` |
| `access` | 2 tabs of one browser, 2 users, 2 scripts, 2 sessions of 2 minutes, 2 confirmations of 1 minute, 2 ticks, 5 beginnings | `LogoutIsFinal`, `EachConfirmed` |
| `counts` | 2 voters, 2 submissions, 1 question with one answer that may be left blank, 1 with several that may not, 2 options, 1 page, 1 late edit | `TotalsMatchRegistry`, `PageNumbersFit`, `AbstentionsNeverRise` |

Why the bounds are enough. Three requests on one browser give two voters
that overlap *and* a third request that arrives with the cookie they leave;
two requests of one credential give the lost check; one clock tick takes a
request over the deadline at any of its steps. A second browser and a larger
instance add nothing a proof does not already cover. Two workers give every
overlap of two operations; two tallies, three versions and a correction let a
confirmation, a repeated confirmation and an approval compete for one number.
Two voters are the fewest of
whom one has a row, a credential or an invitation and the other has not, which
is what a loop that stops half way leaves; two workers meet in every way at the same voter; one
repeated row makes a file that is not wholly valid; two rows let one be
disabled while the other is edited, and two editors let one copy overtake the
other. In `content` three titles leave
room for an empty one before two others and for a title that is typed twice,
two requests let an edit, a review or an opening meet a wizard at each of
its calls, and of the five files one has its columns in another order and its
voters written with zeros, blanks and capitals, one has a name with quotation
marks and a wrong row that the text of the form makes right, and three are
refused: for a name with a comma, a wrong row under a right one, and one person
twice. In `doors` the limit of two attempts is the least that is not the
first, three sessions let two tabs replace each other's, and two ticks outlast
a lock; the code's limits (5 attempts, 15 minutes) are larger values of the
same constants, which the theorems cover. In `pages` two voters of one
election and one of another are the fewest whose ballots and pages can be
mixed up in both ways. In `access` two confirmations of one session may name
different permissions and expire at different moments, and a confirmation runs
out within a session that is still restored, as in the code, where a session
lasts 480 minutes and a confirmation 10; five beginnings
allow a login, two confirmations, a logout and a request that overlaps them. In `counts` two submissions may be one voter's or
two voters', before or after the reads.
`Operations` restricts
a run to the operations its property depends on, to keep overlapping instances small.
The bounds `MaxTime`, `MaxResults`, `MaxVersions`, `MaxCorrections`,
`MaxCrashes`, `MaxEdits`, `MaxDuplicates`, `MaxFailures`, `MaxSent`, `MaxBegun`,
`MaxLateEdits`, `Places`, `Questions` and `Rows` only cut counters off; where
it matters they count the operations in progress, so
that an operation that has begun is never blocked by a bound.

The `ResultPipeline` runs do not check for deadlock: the pipeline really ends,
in an invalidated election or, in `lost_tally`, in one that nothing accepts.
Neither do the runs of `Preparation` and `ManagedRegistry` in which an election can be
deleted, cancelled or opened for good and nothing is left to do; nor `content`,
`access` and `counts`, where the forms, the requests or the submissions of the
instance are used up in the end.

Fairness. An operation that has begun takes its next step: Node runs it and the
database answers. Deaths are never fair. In `ResultPipeline` the beginning of
tally, confirm and publish is weakly fair as well: administrators keep asking
for what the screen offers next. In `Preparation` the beginning of an opening
is strongly fair for every worker: with weak fairness two workers could take
turns at validating for ever, which only says that the model has two workers;
the server accepts a request at any time. Nothing in the code makes
administrators ask, so `ClosedIsPublished`, `TallyingEnds` and `ReadyIsOpened`
are statements about what the code allows diligent administrators.
The other modules are checked for safety only; `ballot_safety`,
`doors` and `pages` for deadlock as well. Runs with a liveness
property use no symmetry.

### What the code does not do

Eleven configurations end in a counterexample to a sentence of the repository's
documents, forms or tests. The first is among the runs; the others can be
repeated with `tlc -config <file> <module>`:

| Configuration | Property | What happens |
|---|---|---|
| `MCBallotBox_double_vote` | `AtMostOneBallotPerCredential` | two overlapping requests of one voter both read `hasVoted = false` and both commit |
| `MCBallotBox_late_commit` | `NoEligibleBallotLeftOut` | a ballot checked before the close commits after the tally has read the ballots |
| `MCResultPipeline_lost_tally` | `TallyingEnds` | a tally dies after writing `tallying`; no operation accepts the election again |
| `MCResultPipeline_stale_write` | `ClosedStaysClosed` | a pause decided before a close is written after it |
| `MCPreparation_resume_draft` | `OpenMeansReady` | a resume opens a draft that has no registry |
| `MCPreparation_stale_edit` | `FrozenOnceOpen` | an edit or import accepted before the opening writes after it |
| `MCElectionContent_opened` | `OpenedReady` | what the page of an election lists as needed before the start is not what opening asks for: an election opens without a question |
| `MCElectionContent_shifted` | `DescriptionsBelong` | a title left empty in the wizard shifts the descriptions of the options after it |
| `MCElectionContent_misread` | `EveryoneIsInAFile` | "확인이 필요한 행 N건이 있습니다", says the form of the rows it finds wrong; but the row `12,"kim,1234",990101,memo`, written back without its quotation marks, is a right one, and registers a person who is in no valid row of a file; so does a name with quotation marks |
| `MCVoterAuth_locked_out` | `LockEnds` | a voter whom the link has locked is refused by the list for ever: it asks for the status and never for the time |
| `MCVoterBrowser_link_only` | `LinkGivesAccess` | with `invite_link_only` the exchange leaves the session unauthenticated, and the page it leads to refuses it |

The sentence the first contradicts is under `findings` in `PROJECT.json`; the
others are quoted at their properties or in the hazards. Several
properties carry a condition because the code does not keep them without it,
mostly from the same causes: two overlapping publications write the notice of
one version twice, two overlapping preparations invite a voter twice, a
deletion that overlaps an opening leaves an open election that every operation
refuses, a preparation that dies between its two loops
leaves invitations that a resending sends in vain (the two `KeptAlone` are about
one operation at a time, the last part of one about operations that do not
die); of
two overlapping edits of a registry the older copy may be written last, and so
it is when the start is moved to a later time again or an approval decided
earlier is written after an opening
(`CopyIsCurrent`, and the precondition of its theorem); overlapping checks of a
credential lose counts (`WrongOnesAreCounted`), and wrong attempts at the list
are not counted at all; two edits of a question that overlap each check their
own titles only (`QuestionsSound`); two runs of the bootstrap script that
overlap make two owners (`OneOwner`); a double vote, or a voter removed after
the opening, breaks the sum of votes and abstentions (`Undisturbed`). Two more have no property: a registry whose voters came in
overlapping files never becomes ready, and a ballot may be written after the
deadline its handler was started before. The hazards in `PROJECT.json` give the
lines of the most important ones.

## 4. What is proved

`BallotBoxProofs` proves for every set of requests (finite), credentials and
browsers, every deadline and every bound of the clock - the assumption
`BallotBoxAssumption` says no more:

* `TypeCorrect`: `[]TypeOK`;
* `SubmissionCorrect`: `[]SubmissionInv`, the inductive core;
* `EligibleCorrect`, `OneCurrentCorrect`, `BooksCorrect`: the three invariants;
* `FinalCorrect`, `NoVoteAfterVoteCorrect`, `NoNewVoteCorrect`: the three
  action properties.

The argument. None of the properties is inductive alone: that an accepted ballot is never
superseded depends on which groups a request may use. `ReusableGroup` accepts a
group only while it holds no ballot - but the token of a group leaves the
server only in the response, after the group has its ballot (`TokensAreSpent`).
So the condition is never met, every request votes in the group it created
itself, and every ballot is alone in the group of its own name
(`BallotsAtHome`); what a handler knows at each step (`HandlersInOrder`)
carries this from call to call. `OneCurrentBallotPerGroup`, `BallotsAreFinal`
and `AcceptedMeansEligible` follow from it. `BooksBalance` needs one more idea: a
commit adds one ballot to one credential's set and one to each counter, and
`CreatePass` only ever replaces a pass that does not exist. `NoVoteAfterVote`
follows because `hadVoted` survives only up to the look-up of `hasVoted`, which
never goes back to false.

`PreparationProofs` proves for every finite electorate, any number of workers,
any set of operations and any bounds (`PreparationAssumption`):

* `TypeCorrect`: `[]TypeOK`;
* `OpenedCorrect`: `[]OpenedVotersHaveCredentials`, whatever overlaps or dies;
* `ValidatedCorrect`: `[]ValidatedMeansValid`;
* `OpeningCompleteAlone`: with a single worker, `[]OpeningIsComplete`.

The argument. Typing is not inductive alone: `WriteState` looks its state up by
the operation's kind, and a row is written for `voter`, so `OnCourse` says that
only operations with a target reach `writeState` and that whoever writes a row
has a voter. It also says the one thing an opening knows on its way: the voters
it has listed and done with have credentials (`listed \ todo`). A step through
the list keeps that because the voter was found to have one or was just given
one; the others' steps keep it because credentials only grow
(`OthersStayOnCourse`). When `todo` is empty the opening writes `open` for
exactly the listed voters. For one worker, `SerialInv` adds that the list stays
the list of active voters, and that once a vote was opened the transition table
has no way back to a state in which voters are imported (`NoWayBack`).

`BallotBoxProofs` ends with `LedgerImplemented`: `Spec => ImplementsLedger`, for
all constants. Initial states map to initial states, and every action of
`BallotBox` to one of the ledger or to a stutter (`LedgerStep`). The mapping is
made of sets of pairs, and a step moves one request: `AtStep` says how a set
changes when one handler's `pc` does. Casting needs `SubmissionInv`: a commit
happens in a group without a ballot, so the ballot is new in the ledger; and
the tally reads exactly the cast ballots because every accepted one is
eligible (`EligibleCorrect`). That a count is never followed by an admission
is `ElectionStep`.

`PreparationProofs` ends with `KeptAloneCorrect`, for one worker and any number
of deaths. That a sent invitation works is the hard part: `Owed` is the set of
voters whom the preparation in progress has yet to give credentials, and while
nothing has died every invited voter has one or is owed one. `Looked` keeps the result of a look-up true until the
insert that follows, which makes invitations unique; `Undeleted` keeps a
deleted election from being opened.

`ManagedRegistryProofs` extends the proofs of `Preparation`, whose step lemmas
it uses, to the composition: `ManagedTypeCorrect` and `ManagedOpenedCorrect`
hold whatever overlaps. `CountsCorrect` assumes that a linked election does not
also import or validate by hand (`Operations` without `import` and `validate`),
as the wizard has it: then the editors alone write voters and counts, in one
transaction. It needs `NothingYet` (before the link there are no voters, and
no operation has any in hand: `Fit`) and `OneLink` (the election is linked once, and only then gets copies). `CopyCorrect` assumes further that nothing takes the
election back to a state in which it is synchronised; `SoleInv` says what an
editor at work alone still owes the copy at each of its calls.

`ResultPipelineProofs` proves for any number of overlapping workers
`TypeCorrect`, `StageCorrect`, `NumberingCorrect` and `PublishedCorrect`, from
`RowsInv`: each worker knows that the rows which the state it is about to write
announces are there already (`Knows`), and rows are never removed, so the
others' steps cannot make it wrong (`RowsStay`). A version is numbered after
the greatest number read, and two equal numbers cannot both be inserted. For
one worker, `AloneInv` adds what has been counted, noted and written so far (`Books`) and that the state
is still the one the operation has read (`KnowsAlone`), from which follow `KeptAloneCorrect`,
`OrderCorrect` and `PublicCorrect`.

`VoterBrowserProofs` begins with `VoterAuth`: for any number of voters, tabs and
browsers and any limits `SessionsCorrect`, `LocksCorrect` and `CountCorrect`. `AuthInv` joins the
typing with what a handler may rely on between its calls (`ChecksKnow`: the
session it read is its voter's; who is about to be admitted has shown that
voter's identifier) and that a row not created yet has run out
(`FreshHasExpired`). `CountInv` adds, while no checks of a credential overlap, that
what a handler read of the counter is still there (`ChecksAlone`).

The rest of `VoterBrowserProofs` is about the pages: `BrowserTypeCorrect`,
`NothingMixedUpCorrect` and `DraftsCorrect`, for any number of tabs, browsers,
voters and elections. A step of signing in is a step of `VoterAuth`, so its
invariant is kept by the lemmas above, and `BrowserInv` adds what a screen may
rely on after the session behind it has changed. A handler at work belongs to
a page that asks for an identifier (`TabsWait`), and a form of answers shows
an election and a voter (`FormsHaveVoters`). As long as nobody has typed an address or signed
in beside another tab, the form on the screen is that of the session the
browser holds *now*, and a draft under review was typed by that session's
voter (`ScreensAreMine`): this is what a sign-in could break, since it replaces
the cookie of all tabs and leaves the draft where it was, and why
`NothingMixedUp` is not inductive alone.

`AdminAccessProofs` proves for any number of tabs, users, permissions and
confirmations `AccessCorrect` (the inductive `AccessInv`), `LogoutCorrect`,
`ConfirmedCorrect`, `RowsOnlyEndCorrect` and `OneOwnerCorrect`. The point of the
second is that a request sent too late stays late: whatever revoked, expired or
disabled its session still stands when each of the three look-ups comes
(`LateStopped`), which needs that rows only end. The point of the third is that
the copy holds many codes under one expiry, the latest: each was active when it
was read, hence confirmed in time for the moment the request was received
(`CopyConfirmed`).

`ResultCountsProofs` proves for any finite numbers of voters, submissions,
questions and options `CountsTypeCorrect`, `TotalsCorrect`,
`PageNumbersCorrect` and `AbstentionsCorrect`. `CountsAssumption` asks besides
that "abstain" and "text" are no option's name (the code keeps them in fields
of their own) and that a result is told from none. `CountInv` says whose ballots are in the box (`BoxInv`, and
`OwnBallots` while nothing disturbs the election), what a tally has read so far
(`StagesFit`), and what the result (`ResultFits`) and the pages (`PagesFit`) were
computed from. The stored numbers are functions of the ballots read
and the electorate read, at different moments; what joins them is that while
nothing disturbs the election the electorate does not change, a ballot belongs
to one voter, and a page reads at least the ballots its result
was made of. The total of a question's items is a sum over options, which the
library defines by a recursion over sets: `Parts` gives that recursion a name
and `TotalIsParts` the equation, from which a total of items is shown, by a
least counterexample, to be the number of ballots that chose one option each.
The shares of a question add up to 100 within half a point for each option, the
slack that rounding every share by itself leaves.

`ElectionContentProofs` proves for any elections, requests, forms and files
`ContentTypeCorrect`, `VotersComeLastCorrect`, `NothingTakenCorrect`,
`QuestionsSoundCorrect` and `VotersCorrect`. `ElectionContentAssumption` says
that forms and files are sequences, that there is a request and that a
draft may hold a question; `VotersCorrect` needs of the words besides only what
`VoterRowsAssumption` says, that headings and the zero are words and marks are
not. Whatever
overlaps, `ContentInv` holds: types - among them that the options of a question
stand at the places 0 to n - 1, since each is appended after those it finds - and
`RequestsFit`, what a request knows between two calls: the question it works on
exists, the options its page has shown are still there, and a wizard that has
come to the voters has written its question and two options. The steps of the others
cannot make this wrong because questions and options are only ever added
or changed in place (`Growing`, which is `NothingTakenCorrect`). `QuestionsSound`
needs more, as every call relies on what the calls before it left: the titles
are compared once, before the chain begins, and then written one after the
other, so that half way through a correct edit two options may bear one title.
`SoloInv` says that as long as no requests overlapped there is one request that
everything unfinished is due to: its chain is in step with the rows
(`ChainInStep`: the titles still to be written, with those written already, are
different), and every question the wizard made is sound or is the one this
request has in hand (`SoundOrInHand`). When the request ends, nothing is in
hand.

`VotersCorrect` follows a file through the form and back, whatever is in it.
`ContentTypeOK` says of the people of an election that they are those of texts
the server has taken (`Registries`), so it remains to say of one text what is in
it (`FileThroughForm`). Its first line is the header, in which nothing is changed
(`HeaderCells`); each row becomes a line, and of a line of four cells
without commas, tabs, quotation marks and outer blanks the places of the three
commas are known (`LineParts`), so that it comes apart as it was joined
(`SplitLine`). Fields that are normalised once stay as they are when they are
again (`NormalizedAgain`): these rows are judged as the file's own, and name the
same person. Of a row with a mark in a field nothing of the kind holds; the
theorem says that the person registered is the one its text names when it is
read alone, which need not be one the file names (`EveryoneIsInAFile`, above).
How often a place occurs in a set, on which `Pick` and `Split` rest, is shown by
least counterexamples (`LeastNumber`, `PlacesUpTo`).

Only model-checked: the liveness properties `ClosedIsPublished` and
`ReadyIsOpened` (fairness and ENABLED are out of the prover's reach). Every
other property of a passing run is stated by a theorem. The counterexamples
are TLC's.

## 5. The plan

Done, in this order: `BallotBox`, `ResultPipeline`, `Preparation`,
`ManagedRegistry` with their runs; the proofs of the ballot box and of the
preparation; `BallotLedger` and its refinement; the wizard, both ways of
verifying a voter, the voter's pages, the administrators' sessions and the
counts; the proofs of the result pipeline, of what one preparation at a time
keeps, of managed registries, voter verification and administrator access; the
proofs of the voter's pages, of the counts and of the content of an election.
What is left, in the order of importance:

1. `VotingSystem` - ballot submission composed with the pipeline, so that a
   paused or closed election is the one overlapping administrators write.
2. The lemmas that would carry the theorems of one worker or of requests that
   do not overlap (`OpeningCompleteAlone`, both `KeptAloneCorrect`,
   `QuestionsSoundCorrect`) to the overlaps that do no harm.
3. The approval of a report, once the code has one.

The project keeps to a dozen runs, one for each distinct question: a new one
joins the instances above or replaces a weaker one. Runs stay small (two
workers, two or three voters); no module uses a RECURSIVE operator, and sums
fold over sets.

## 6. What is not modelled

Audit and security events (written last, read by nobody), encryption, masking
(the privacy policy masks nothing, whatever it is given) and formatting, HTTP
parsing, list and layout pages, printing, the seed and deployment scripts. Of
the permissions, the seeded table of roles (`AdminAccess` takes any) and the
separation of tenants; modules other than `AdminAccess` let every caller pass,
the most permissive environment for the state. Report exports are requested
but nothing ever approves one. Renaming and cloning a registry touch nothing an
election reads. One-time codes are refused by every path. The routes of the API
that call the services of the wizard's forms with texts and an order of the
caller's choice are left out of `ElectionContent`.

Liveness and ENABLED cannot be proved with the prover at hand and stay with
TLC. Neither can it use the induction theorems of the library, which take an
operator as a parameter: where a proof has to go from number to number or from
set to set (sums over options, places in a form, versions), an argument by a
least counterexample stands in.
