------------------------------ MODULE Preparation ------------------------------
(***************************************************************************)
(* The administrative operations on an election up to its opening: edits,  *)
(* the import and validation of the voter registry, review, approval,      *)
(* scheduling, opening, resuming, cancelling, deleting, and the            *)
(* preparation, sending and resending of invitations.  An operation reads  *)
(* the election once, judges by what it read, and then makes its database  *)
(* calls one by one: for an import one pair per row, for an opening one    *)
(* pair per voter.  A worker executes one operation at a time.             *)
(***************************************************************************)
EXTENDS ElectionPolicy, FiniteSets

CONSTANTS Voters,         \* the people, by external identifier
          NoVoter,
          Workers,
          Operations,     \* the operations the administrators use
          MaxEdits,       \* bound of the edits
          MaxDuplicates,  \* bound of the rows an import file repeats
          MaxCrashes      \* bound of the operations that die half way

Kinds == {"edit", "import", "validate", "requestReview", "approve", "schedule",
          "open", "pause", "resume", "cancel", "delete",
          "prepare", "issue", "resend"}

ASSUME PreparationAssumption ==
  /\ IsFiniteSet(Voters)
  /\ NoVoter \notin Voters
  /\ Operations \subseteq Kinds
  /\ {MaxEdits, MaxDuplicates, MaxCrashes} \subseteq Nat

VARIABLES
  election,     \* elections.state
  due,          \* whether startsAt has passed
  deleted,      \* whether deletedAt is set
  content,      \* how often title, schedule, questions, options were written
  registry,     \* the row of voter_registries: status and counts
  voters,       \* eligible_voters: the status of each person's row
  credentials,  \* voting_credentials: the voters who have one
  invitations,  \* how many rows of invitations each voter has
  sent,         \* the voters whose invitation was sent
  opened,       \* history: the voters for whom an opening wrote "open"
  work,         \* work[w]: the operation of worker w and its local variables
  crashes

record == <<election, due, deleted, content>>
lists  == <<registry, voters, credentials, invitations, sent>>
vars   == <<record, lists, opened, work, crashes>>

-----------------------------------------------------------------------------
NoRegistry == [status |-> "none", total |-> 0, valid |-> 0]

(* createOrGetVoterRegistry: an upsert that leaves an existing row alone.  *)
DraftRegistry == [status |-> "draft", total |-> 0, valid |-> 0]

Registry == [status: {"none", "draft", "imported", "validated"},
             total: Nat, valid: Nat]

(* Mutant: the status of an import record for that of the registry.        *)
CountedUploaded(total, valid) ==
  [status |-> IF total = valid THEN "validated" ELSE "uploaded",
   total |-> total, valid |-> valid]

(* The status an import or a validation gives to the counts it writes.     *)
Counted(total, valid) ==
  [status |-> IF total = valid THEN "validated" ELSE "imported",
   total |-> total, valid |-> valid]

(* assertVoterRegistryReady; nothing writes "confirmed" or "locked".       *)
Ready(r) == r.status = "validated" /\ r.total > 0 /\ r.valid = r.total

ActiveVoters == {v \in Voters : voters[v] = "active"}

(* The state written by an operation that only writes a state.             *)
Target ==
  [requestReview |-> "ready_for_review", approve |-> "approved",
   schedule |-> "scheduled", open |-> "open", pause |-> "paused",
   resume |-> "open", cancel |-> "invalidated"]

(***************************************************************************)
(* The checks on the state of the election.  "edit" stands for the six     *)
(* operations that edit title, schedule, questions, options and            *)
(* authentication policy: their three actions are allowed in the same      *)
(* states.                                                                 *)
(***************************************************************************)
AllowedNow(kind) ==
  CASE kind = "edit" -> \A a \in {"editElectionInfo", "editQuestions", "editOptions"} :
                          CanPerform(election, a)
    [] kind \in {"import", "validate"} -> CanPerform(election, "editVoterRegistry")
    [] kind = "delete" -> election \in PreStartStates /\ ~due
    [] kind = "cancel" -> CanPerform(election, "cancelElection") /\ due
    [] kind = "prepare" -> CanPerform(election, "sendInvitations")
    [] kind \in {"issue", "resend"} ->
         CanPerform(election, "sendInvitations") /\ election # "approved"
    [] OTHER -> CanTransition(election, Target[kind])

(* getScopedElection does not find a deleted election.                     *)
Accepts(kind) == ~deleted /\ AllowedNow(kind)

-----------------------------------------------------------------------------
(***************************************************************************)
(* Several operations go through a list of voters or rows, in one phase or *)
(* in several: an opening gives credentials; a preparation invites and     *)
(* gives credentials; issuing prepares, then lists the voters again and    *)
(* sends.                                                                  *)
(***************************************************************************)
Phases == {"none", "rows", "counting", "invitations", "credentials", "sending", "opening"}

FirstPhase(kind) ==
  CASE kind = "import"              -> "rows"
    [] kind = "open"                -> "credentials"
    [] kind \in {"prepare", "issue"} -> "invitations"
    [] kind = "resend"              -> "sending"
    [] OTHER                        -> "none"

(* Mutant: issuing invitations leaves the credentials to the opening.      *)
PhaseAfterHasty(kind, phase) ==
  CASE phase = "rows"                               -> "counting"
    [] phase = "invitations" /\ kind = "issue"      -> "sending"
    [] phase = "invitations"                        -> "credentials"
    [] phase = "credentials" /\ kind = "open"       -> "opening"
    [] OTHER                                        -> "none"

PhaseAfter(kind, phase) ==
  CASE phase = "rows"                               -> "counting"
    [] phase = "invitations"                        -> "credentials"
    [] phase = "credentials" /\ kind = "open"       -> "opening"
    [] phase = "credentials" /\ kind = "issue"      -> "sending"
    [] OTHER                                        -> "none"

Steps == {"writeEdit", "softDelete", "getRegistry", "readRegistry", "writeCounts",
          "readAgain", "checkRegistry", "listVoters", "find", "write", "writeState"}

(* The database call a phase starts with.                                  *)
CallOf(phase) ==
  CASE phase \in {"invitations", "credentials"} -> "checkRegistry"
    [] phase = "sending"                        -> "listVoters"
    [] phase = "counting"                       -> "writeCounts"
    [] phase = "opening"                        -> "writeState"
    [] OTHER                                    -> "idle"

FirstCall(kind) ==
  CASE kind = "edit"     -> "writeEdit"
    [] kind = "delete"   -> "softDelete"
    [] kind = "import"   -> "getRegistry"
    [] kind = "validate" -> "readRegistry"
    [] kind = "issue"    -> "readAgain"
    [] kind \in {"open", "prepare", "resend"} -> CallOf(FirstPhase(kind))
    [] OTHER             -> "writeState"

Idle == [pc |-> "idle", kind |-> "none", phase |-> "none", listed |-> {},
         todo |-> {}, voter |-> NoVoter, total |-> 0, valid |-> 0]

Work == [pc: {"idle"} \cup Steps, kind: {"none"} \cup Kinds, phase: Phases,
         listed: SUBSET Voters, todo: SUBSET Voters, voter: Voters \cup {NoVoter},
         total: Nat, valid: Nat]

TypeOK ==
  /\ election \in ElectionState
  /\ due \in BOOLEAN /\ deleted \in BOOLEAN
  /\ content \in Nat
  /\ registry \in Registry
  /\ voters \in [Voters -> {"none", "active", "disabled"}]
  /\ credentials \subseteq Voters
  /\ invitations \in [Voters -> Nat]
  /\ sent \subseteq Voters
  /\ opened \subseteq Voters
  /\ work \in [Workers -> Work]
  /\ crashes \in Nat

(* createElectionDraft: a draft without a registry.                        *)
Init ==
  /\ election = "draft"
  /\ due \in BOOLEAN
  /\ deleted = FALSE
  /\ content = 0
  /\ registry = NoRegistry
  /\ voters = [v \in Voters |-> "none"]
  /\ credentials = {}
  /\ invitations = [v \in Voters |-> 0]
  /\ sent = {}
  /\ opened = {}
  /\ work = [w \in Workers |-> Idle]
  /\ crashes = 0

-----------------------------------------------------------------------------
Goto(w, pc) == work' = [work EXCEPT ![w].pc = pc]

Leave(w) == work' = [work EXCEPT ![w] = Idle]

(* Mutant: the last voter of a list is left out.                           *)
ContinueShort(w, todo) ==
  LET phase == PhaseAfter(work[w].kind, work[w].phase)
  IN  IF Cardinality(todo) > 1
        THEN [work[w] EXCEPT !.pc = "find", !.todo = todo, !.voter = NoVoter]
        ELSE IF phase = "none" THEN Idle
        ELSE [work[w] EXCEPT !.pc = CallOf(phase), !.phase = phase,
                             !.todo = {}, !.voter = NoVoter]

(* The next voter of the list, the next phase, or the end.                 *)
Continue(w, todo) ==
  LET phase == PhaseAfter(work[w].kind, work[w].phase)
  IN  IF todo # {}
        THEN [work[w] EXCEPT !.pc = "find", !.todo = todo, !.voter = NoVoter]
        ELSE IF phase = "none" THEN Idle
        ELSE [work[w] EXCEPT !.pc = CallOf(phase), !.phase = phase,
                             !.todo = {}, !.voter = NoVoter]

Begin(w, kind) ==
  /\ work[w].pc = "idle"
  /\ Accepts(kind)
  /\ kind = "edit" =>
       content + Cardinality({u \in Workers : work[u].kind = "edit"}) < MaxEdits
  /\ work' = [work EXCEPT ![w] = [Idle EXCEPT !.pc = FirstCall(kind), !.kind = kind,
                                              !.phase = FirstPhase(kind)]]
  /\ UNCHANGED <<record, lists, opened, crashes>>

(* An edit of the schedule may move startsAt to either side of the clock.  *)
WriteEdit(w) ==
  /\ work[w].pc = "writeEdit"
  /\ content' = content + 1
  /\ due' \in BOOLEAN
  /\ Leave(w)
  /\ UNCHANGED <<election, deleted, lists, opened, crashes>>

SoftDelete(w) ==
  /\ work[w].pc = "softDelete"
  /\ deleted' = TRUE
  /\ Leave(w)
  /\ UNCHANGED <<election, due, content, lists, opened, crashes>>

(* importEligibleVoters, with a file of some rows, some of them repeated.  *)
GetRegistry(w) ==
  /\ work[w].pc = "getRegistry"
  /\ registry' = IF registry = NoRegistry THEN DraftRegistry ELSE registry
  /\ \E rows \in (SUBSET Voters) \ {{}}, repeated \in 0..MaxDuplicates :
       work' = [work EXCEPT ![w].pc = "find", ![w].todo = rows,
                            ![w].total = Cardinality(rows) + repeated]
  /\ UNCHANGED <<record, voters, credentials, invitations, sent, opened, crashes>>

ReadRegistry(w) ==
  /\ work[w].pc = "readRegistry"
  /\ IF registry = NoRegistry
       THEN Leave(w)
       ELSE work' = [work EXCEPT ![w].pc = "writeCounts", ![w].total = registry.total,
                                 ![w].valid = registry.valid]
  /\ UNCHANGED <<record, lists, opened, crashes>>

(* Mutant: a validation writes the status alone.                           *)
WriteCountsStatusOnly(w) ==
  /\ work[w].pc = "writeCounts"
  /\ registry' = IF work[w].kind = "import" THEN Counted(work[w].total, work[w].valid)
                 ELSE [registry EXCEPT !.status =
                         Counted(work[w].total, work[w].valid).status]
  /\ Leave(w)
  /\ UNCHANGED <<record, voters, credentials, invitations, sent, opened, crashes>>

(***************************************************************************)
(* updateVoterRegistryCounts: an import writes the counts of its own rows, *)
(* a validation the counts it has read.                                    *)
(***************************************************************************)
WriteCounts(w) ==
  /\ work[w].pc = "writeCounts"
  /\ registry' = Counted(work[w].total, work[w].valid)
  /\ Leave(w)
  /\ UNCHANGED <<record, voters, credentials, invitations, sent, opened, crashes>>

(* issueInvitations calls prepareInvitationsForElection, which reads again.*)
ReadAgain(w) ==
  /\ work[w].pc = "readAgain"
  /\ IF Accepts("prepare") THEN Goto(w, CallOf("invitations")) ELSE Leave(w)
  /\ UNCHANGED <<record, lists, opened, crashes>>

CheckRegistry(w) ==
  /\ work[w].pc = "checkRegistry"
  /\ IF Ready(registry) THEN Goto(w, "listVoters") ELSE Leave(w)
  /\ UNCHANGED <<record, lists, opened, crashes>>

(* listEligibleVotersForElection; a resending may name one of them.        *)
ListVoters(w) ==
  /\ work[w].pc = "listVoters"
  /\ \E list \in {ActiveVoters} \cup
                 (IF work[w].kind = "resend" THEN {{v} : v \in ActiveVoters} ELSE {}) :
       work' = [work EXCEPT ![w] = [Continue(w, list) EXCEPT
                  !.listed = IF work[w].kind = "open" THEN list ELSE {}]]
  /\ UNCHANGED <<record, lists, opened, crashes>>

(* Mutant: a voter who was invited is taken to have a credential.          *)
FoundByInvitation(phase, v) == IF phase = "rows" THEN voters[v] # "none" ELSE invitations[v] > 0

(* What a look-up finds, and whether a write follows: a row, a credential  *)
(* or an invitation is inserted if none is found, and sent if one is.      *)
Found(phase, v) ==
  CASE phase = "rows"        -> voters[v] # "none"
    [] phase = "credentials" -> v \in credentials
    [] OTHER                 -> invitations[v] > 0

(* Mutant: insert without looking.                                         *)
FindNothing(w) ==
  /\ work[w].pc = "find"
  /\ \E v \in work[w].todo :
       work' = [work EXCEPT ![w].pc = "write", ![w].voter = v]
  /\ UNCHANGED <<record, lists, opened, crashes>>

Find(w) ==
  /\ work[w].pc = "find"
  /\ \E v \in work[w].todo :
       work' = IF (work[w].phase = "sending") = Found(work[w].phase, v)
                 THEN [work EXCEPT ![w].pc = "write", ![w].voter = v]
                 ELSE [work EXCEPT ![w] = Continue(w, work[w].todo \ {v})]
  /\ UNCHANGED <<record, lists, opened, crashes>>

Writes(w, phase) == work[w].pc = "write" /\ work[w].phase = phase

(* The write succeeds and the operation goes on with the rest of its list. *)
Advance(w) ==
  work' = [work EXCEPT ![w] = Continue(w, work[w].todo \ {work[w].voter})]

(* createEligibleVoter: (election, identifier) is unique.                  *)
CreateVoter(w) ==
  /\ Writes(w, "rows")
  /\ IF voters[work[w].voter] = "none"
       THEN /\ voters' = [voters EXCEPT ![work[w].voter] = "active"]
            /\ work' = [work EXCEPT ![w] =
                          [Continue(w, work[w].todo \ {work[w].voter}) EXCEPT
                             !.valid = work[w].valid + 1]]
       ELSE Leave(w) /\ UNCHANGED voters
  /\ UNCHANGED <<record, registry, credentials, invitations, sent, opened, crashes>>

(* createVotingCredential: one per voter, and the voter must exist.        *)
CreateCredential(w) ==
  /\ Writes(w, "credentials")
  /\ IF work[w].voter \in credentials \/ voters[work[w].voter] = "none"
       THEN Leave(w) /\ UNCHANGED credentials
       ELSE credentials' = credentials \cup {work[w].voter} /\ Advance(w)
  /\ UNCHANGED <<record, registry, voters, invitations, sent, opened, crashes>>

(* createInvitation: no key forbids a second one for the same voter.       *)
CreateInvitation(w) ==
  /\ Writes(w, "invitations")
  /\ IF voters[work[w].voter] = "none"
       THEN Leave(w) /\ UNCHANGED invitations
       ELSE invitations' = [invitations EXCEPT ![work[w].voter] = @ + 1] /\ Advance(w)
  /\ UNCHANGED <<record, registry, voters, credentials, sent, opened, crashes>>

(* markInvitationSent of the latest invitation, and the delivery event.    *)
MarkSent(w) ==
  /\ Writes(w, "sending")
  /\ sent' = sent \cup {work[w].voter}
  /\ Advance(w)
  /\ UNCHANGED <<record, registry, voters, credentials, invitations, opened, crashes>>

(***************************************************************************)
(* updateElectionState, whatever the state has become; an opening sets     *)
(* startsAt to the present as well.  The history row that follows is never *)
(* read and is left out here (see ResultPipeline).                         *)
(***************************************************************************)
WriteState(w) ==
  /\ work[w].pc = "writeState"
  /\ election' = Target[work[w].kind]
  /\ IF work[w].kind = "open"
       THEN due' = TRUE /\ opened' = opened \cup work[w].listed
       ELSE UNCHANGED <<due, opened>>
  /\ Leave(w)
  /\ UNCHANGED <<deleted, content, lists, crashes>>

(* A call fails or the process dies: what was written stays written.       *)
Crash(w) ==
  /\ work[w].pc # "idle"
  /\ crashes < MaxCrashes
  /\ crashes' = crashes + 1
  /\ Leave(w)
  /\ UNCHANGED <<record, lists, opened>>

(* The clock reaches startsAt; nothing happens by itself.                  *)
StartPasses ==
  /\ ~due
  /\ due' = TRUE
  /\ UNCHANGED <<election, deleted, content, lists, opened, work, crashes>>

Step(w) ==
  \/ WriteEdit(w) \/ SoftDelete(w)
  \/ GetRegistry(w) \/ ReadRegistry(w) \/ WriteCounts(w)
  \/ ReadAgain(w) \/ CheckRegistry(w) \/ ListVoters(w) \/ Find(w)
  \/ CreateVoter(w) \/ CreateCredential(w) \/ CreateInvitation(w) \/ MarkSent(w)
  \/ WriteState(w)

Next == \/ \E w \in Workers : \/ \E kind \in Operations : Begin(w, kind)
                              \/ Step(w) \/ Crash(w)
        \/ StartPasses

Spec == Init /\ [][Next]_vars

(***************************************************************************)
(* An operation that has begun goes on, and the administrators keep asking *)
(* for the opening: not always something else when a worker is free        *)
(* (workers are a bound of the model, the server accepts another request   *)
(* at any time).                                                           *)
(***************************************************************************)
FairSpec ==
  /\ Spec
  /\ \A w \in Workers : WF_vars(Step(w)) /\ SF_vars(Begin(w, "open"))

-----------------------------------------------------------------------------
(* Properties that hold however many operations overlap or die.            *)

(***************************************************************************)
(* What an opening promises: every voter it listed has a credential by the *)
(* time it writes "open", and keeps it, although other openings and        *)
(* preparations insert the same credentials, fail on each other's, and may *)
(* die anywhere.                                                           *)
(***************************************************************************)
OpenedVotersHaveCredentials == opened \subseteq credentials

(***************************************************************************)
(* A registry reads "validated" only with all of its rows valid, although  *)
(* a validation writes back counts that an import may have replaced since. *)
(***************************************************************************)
ValidatedMeansValid == registry.status = "validated" => registry.valid = registry.total

(***************************************************************************)
(* Two openings that overlap make each other's inserts fail, and one may   *)
(* die; still, while the registry is ready, the election is opened if the  *)
(* administrators keep asking.                                             *)
(***************************************************************************)
ReadyIsOpened == Ready(registry) ~> (election = "open" \/ ~Ready(registry))

(* Properties of an administration that does one operation at a time.      *)

(***************************************************************************)
(* Once openElection has opened the vote, every active voter of the        *)
(* registry has a credential, those of a registry imported in several      *)
(* files, after openings that died half way, and for good.                 *)
(***************************************************************************)
OpeningIsComplete == opened # {} => ActiveVoters \subseteq credentials

(***************************************************************************)
(* A preparation or an issue that died is repeated without inviting anyone *)
(* a second time; no key forbids it.                                       *)
(***************************************************************************)
OneInvitationEach == \A v \in Voters : invitations[v] <= 1

(***************************************************************************)
(* Elections are deleted only before they start, and nothing starts them   *)
(* afterwards; an open one would be out of reach of pause and close.       *)
(***************************************************************************)
DeletedNeverOpen == ~(deleted /\ election = "open")

(***************************************************************************)
(* Unless an operation has died, an invitation that was sent gives its     *)
(* voter access: the verification refuses one without a credential, and a  *)
(* resending does not look for credentials.                                *)
(***************************************************************************)
SentInvitationsWork == crashes = 0 => sent \subseteq credentials

(***************************************************************************)
(* What one operation at a time keeps: the three invariants above.         *)
(***************************************************************************)
KeptAlone == OneInvitationEach /\ DeletedNeverOpen /\ SentInvitationsWork

-----------------------------------------------------------------------------
(* What the documents and tests say and the code does not do.              *)

(***************************************************************************)
(* The opening is blocked while the registry is not confirmed.  A resume   *)
(* asks the transition table only, which opens every pre-start state.      *)
(***************************************************************************)
OpenMeansReady == election = "open" => Ready(registry)

(***************************************************************************)
(* Questions, options and registry are not edited once the vote is open.   *)
(* An edit or import judged before the opening writes after it.            *)
(***************************************************************************)
FrozenOnceOpen ==
  [][election = "open" => UNCHANGED <<content, registry, voters>>]_vars
=============================================================================
