---------------------------- MODULE ResultPipeline ----------------------------
(***************************************************************************)
(* The administrative operations on an election that has been opened:      *)
(* pause, resume, close, tally, confirm, publish, correction requests and  *)
(* approvals, invalidation.  Each is a chain of database calls without a   *)
(* transaction: it reads elections.state once, judges by what it read, and *)
(* writes several rows one after the other.  A worker executes one         *)
(* operation at a time and may die between any two calls; several workers  *)
(* are several administrators, several tabs, or a double click.            *)
(***************************************************************************)
EXTENDS ElectionPolicy, Sequences, FiniteSets

CONSTANTS Workers,
          MaxResults,      \* bound of the tallies
          MaxVersions,     \* bound of the result versions
          MaxCorrections,  \* bound of the correction requests
          MaxCrashes       \* bound of the operations that die half way

ASSUME ResultPipelineAssumption ==
  /\ IsFiniteSet(Workers)
  /\ {MaxResults, MaxVersions, MaxCorrections, MaxCrashes} \subseteq Nat

VARIABLES
  election,      \* elections.state
  history,       \* election_state_history, as a set of <<from, to>>
  results,       \* how many results were tallied; the latest has this number
  versions,      \* result_versions in the order of their insertion
  corrections,   \* correction_requests: the status of each
  invalidations, \* invalidation_records: the version each one names, or 0
  work,          \* work[w]: the operation of worker w and its local variables
  crashes

vars == <<election, history, results, versions, corrections, invalidations,
          work, crashes>>

-----------------------------------------------------------------------------
(* The operations: the state each leads to and the states that allow it.   *)

Transitions == {"pause", "resume", "close"}

Kinds == Transitions \cup {"tally", "confirm", "publish", "requestCorrection",
                           "approveCorrection", "invalidate"}

(* Mutant: the status of the result for the state of the election.         *)
TargetResultStatus ==
  [pause |-> "paused", resume |-> "open", close |-> "closed",
   tally |-> "tallied", confirm |-> "confirmed", publish |-> "published",
   requestCorrection |-> "none", approveCorrection |-> "none",
   invalidate |-> "invalidated"]

(* The state written by an operation; "none" when it writes none.          *)
Target ==
  [pause |-> "paused", resume |-> "open", close |-> "closed",
   tally |-> "tallying", confirm |-> "confirmed", publish |-> "published",
   requestCorrection |-> "none", approveCorrection |-> "none",
   invalidate |-> "invalidated"]

(***************************************************************************)
(* What is asked of the state that was read.  The three transitions ask    *)
(* the transition table only; invalidation asks the action table and then  *)
(* requiresInvalidationRecord, which leaves nothing but "published".       *)
(***************************************************************************)
Allowed(kind, state) ==
  CASE kind \in Transitions -> CanTransition(state, Target[kind])
    [] kind = "tally"       -> /\ CanPerform(state, "tallyResult")
                               /\ CanTransition(state, "tallying")
    [] kind = "confirm"     -> CanPerform(state, "confirmResult")
    [] kind = "publish"     -> CanPerform(state, "publishResult")
    [] kind = "invalidate"  -> /\ CanPerform(state, "invalidateElection")
                               /\ state \in {"published", "invalidated"}
    [] OTHER                -> state = "published"

(* The first database call after the check.                                *)
FirstStep(kind) ==
  CASE kind \in Transitions \cup {"tally"}          -> "writeState"
    [] kind \in {"confirm", "approveCorrection"}    -> "findResult"
    [] kind = "publish"                             -> "findVersion"
    [] kind \in {"requestCorrection", "invalidate"} -> "findPublished"

Steps == {"writeState", "writeHistory", "createResult", "findResult",
          "approve", "readMaxVersion", "createVersion", "findVersion",
          "checkResult", "markPublished", "findPublished",
          "createCorrection", "createInvalidation"}

(* version is a position in versions, or the number of the row to insert.  *)
Idle == [pc |-> "idle", kind |-> "none", from |-> "none", to |-> "none",
         result |-> 0, version |-> 0, correction |-> 0]

Work == [pc: {"idle"} \cup Steps, kind: {"none"} \cup Kinds,
         from: {"none"} \cup ElectionState, to: {"none"} \cup ElectionState,
         result: Nat, version: Nat, correction: Nat]

(* writes counts the updates of publishedAt and notice.                    *)
Version == [no: Nat, type: {"initial", "correction"},
            status: {"confirmed", "published"}, result: Nat, writes: Nat]

TypeOK ==
  /\ election \in ElectionState
  /\ history \subseteq ({"none"} \cup ElectionState) \X ({"none"} \cup ElectionState)
  /\ results \in Nat
  /\ versions \in Seq(Version)
  /\ corrections \in Seq({"requested", "approved"})
  /\ invalidations \subseteq Nat
  /\ work \in [Workers -> Work]
  /\ crashes \in Nat

Init ==
  /\ election = "open"
  /\ history = {}
  /\ results = 0
  /\ versions = <<>>
  /\ corrections = <<>>
  /\ invalidations = {}
  /\ work = [w \in Workers |-> Idle]
  /\ crashes = 0

-----------------------------------------------------------------------------
(* Steps of a worker.                                                      *)

Goto(w, pc) == work' = [work EXCEPT ![w].pc = pc]

Leave(w) == work' = [work EXCEPT ![w] = Idle]

(* Workers that may still insert a row of that sort: the bounds count them.*)
Busy(kinds) == Cardinality({w \in Workers : work[w].kind \in kinds})

WithinBounds(kind) ==
  /\ kind = "tally" => results + Busy({"tally"}) < MaxResults
  /\ kind \in {"confirm", "approveCorrection"} =>
       Len(versions) + Busy({"confirm", "approveCorrection"}) < MaxVersions
  /\ kind = "requestCorrection" =>
       Len(corrections) + Busy({"requestCorrection"}) < MaxCorrections

(***************************************************************************)
(* getScopedElection and the checks on the state it returned: a denied     *)
(* operation ends without a write.  Nothing deletes a correction request,  *)
(* so the one an approval names is found.                                  *)
(***************************************************************************)
Begin(w, kind) ==
  /\ work[w].pc = "idle"
  /\ Allowed(kind, election)
  /\ WithinBounds(kind)
  /\ \E c \in (IF kind = "approveCorrection" THEN DOMAIN corrections ELSE {0}) :
       work' = [work EXCEPT ![w] =
                  [Idle EXCEPT !.pc = FirstStep(kind), !.kind = kind,
                               !.from = election, !.to = Target[kind],
                               !.correction = c]]
  /\ UNCHANGED <<election, history, results, versions, corrections,
                 invalidations, crashes>>

(* updateElectionState, whatever the state has become in the meantime.     *)
WriteState(w) ==
  /\ work[w].pc = "writeState"
  /\ election' = work[w].to
  /\ Goto(w, "writeHistory")
  /\ UNCHANGED <<history, results, versions, corrections, invalidations, crashes>>

(* recordElectionStateHistory, with the state that was read as "from".     *)
WriteHistory(w) ==
  /\ work[w].pc = "writeHistory"
  /\ history' = history \cup {<<work[w].from, work[w].to>>}
  /\ IF work[w].to = "tallying" THEN Goto(w, "createResult") ELSE Leave(w)
  /\ UNCHANGED <<election, results, versions, corrections, invalidations, crashes>>

(* Mutant: a tally confirms its own result.                                *)
CreateResultConfirmed(w) ==
  /\ work[w].pc = "createResult"
  /\ results' = results + 1
  /\ work' = [work EXCEPT ![w].pc = "writeState", ![w].from = "tallying",
                          ![w].to = "confirmed"]
  /\ UNCHANGED <<election, history, versions, corrections, invalidations, crashes>>

(* Mutant: the second transition is forgotten.                             *)
CreateResultOnly(w) ==
  /\ work[w].pc = "createResult"
  /\ results' = results + 1
  /\ Leave(w)
  /\ UNCHANGED <<election, history, versions, corrections, invalidations, crashes>>

(***************************************************************************)
(* The ballots are read and createTalliedResult inserts their count; then  *)
(* safeTransitionElectionState goes on from "tallying" without reading.    *)
(***************************************************************************)
CreateResult(w) ==
  /\ work[w].pc = "createResult"
  /\ results' = results + 1
  /\ work' = [work EXCEPT ![w].pc = "writeState", ![w].from = "tallying",
                          ![w].to = "pending_confirmation"]
  /\ UNCHANGED <<election, history, versions, corrections, invalidations, crashes>>

(* findLatestResult, for a confirmation or the approval of a correction.   *)
FindResult(w) ==
  /\ work[w].pc = "findResult"
  /\ IF results = 0
       THEN Leave(w)
       ELSE work' = [work EXCEPT ![w].result = results,
                       ![w].pc = IF work[w].kind = "confirm"
                                   THEN "readMaxVersion" ELSE "approve"]
  /\ UNCHANGED <<election, history, results, versions, corrections,
                 invalidations, crashes>>

(* approveCorrectionRequest: whatever its status was.                      *)
Approve(w) ==
  /\ work[w].pc = "approve"
  /\ corrections' = [corrections EXCEPT ![work[w].correction] = "approved"]
  /\ Goto(w, "readMaxVersion")
  /\ UNCHANGED <<election, history, results, versions, invalidations, crashes>>

Numbers == {versions[i].no : i \in DOMAIN versions}

LatestVersion == CHOOSE i \in DOMAIN versions :
                   \A j \in DOMAIN versions : versions[j].no <= versions[i].no

(* createResultVersion, the aggregate.                                     *)
ReadMaxVersion(w) ==
  /\ work[w].pc = "readMaxVersion"
  /\ work' = [work EXCEPT ![w].pc = "createVersion",
                ![w].version = IF versions = <<>> THEN 1
                               ELSE versions[LatestVersion].no + 1]
  /\ UNCHANGED <<election, history, results, versions, corrections,
                 invalidations, crashes>>

(* Mutant: an approved correction is published at once.                    *)
NewVersionPublished(w) ==
  [no |-> work[w].version,
   type |-> IF work[w].kind = "confirm" THEN "initial" ELSE "correction",
   status |-> IF work[w].kind = "confirm" THEN "confirmed" ELSE "published",
   result |-> work[w].result, writes |-> 0]

NewVersion(w) ==
  [no |-> work[w].version,
   type |-> IF work[w].kind = "confirm" THEN "initial" ELSE "correction",
   status |-> "confirmed", result |-> work[w].result, writes |-> 0]

AfterVersion(w) == IF work[w].kind = "confirm" THEN Goto(w, "writeState") ELSE Leave(w)

(* Mutant: version_no is not unique.                                       *)
CreateVersionAnyway(w) ==
  /\ work[w].pc = "createVersion"
  /\ versions' = Append(versions, NewVersion(w))
  /\ AfterVersion(w)
  /\ UNCHANGED <<election, history, results, corrections, invalidations, crashes>>

(* Mutant: an upsert instead of an insert.                                 *)
UpsertVersion(w) ==
  /\ work[w].pc = "createVersion"
  /\ versions' = IF work[w].version \in Numbers
                   THEN [versions EXCEPT ![work[w].version] = NewVersion(w)]
                   ELSE Append(versions, NewVersion(w))
  /\ AfterVersion(w)
  /\ UNCHANGED <<election, history, results, corrections, invalidations, crashes>>

(* Its insert: (election, version_no) is unique, so a late one fails.      *)
CreateVersion(w) ==
  /\ work[w].pc = "createVersion"
  /\ IF work[w].version \in Numbers
       THEN Leave(w) /\ UNCHANGED versions
       ELSE versions' = Append(versions, NewVersion(w)) /\ AfterVersion(w)
  /\ UNCHANGED <<election, history, results, corrections, invalidations, crashes>>

(* Mutant: a version that is published already is taken for confirmed.     *)
FindVersionAnyStatus(w) ==
  /\ work[w].pc = "findVersion"
  /\ IF versions # <<>>
       THEN work' = [work EXCEPT ![w].pc = "checkResult", ![w].version = LatestVersion]
       ELSE Leave(w)
  /\ UNCHANGED <<election, history, results, versions, corrections,
                 invalidations, crashes>>

(* publishResult: the latest version must be a confirmed one ...           *)
FindVersion(w) ==
  /\ work[w].pc = "findVersion"
  /\ IF versions # <<>> /\ versions[LatestVersion].status = "confirmed"
       THEN work' = [work EXCEPT ![w].pc = "checkResult", ![w].version = LatestVersion]
       ELSE Leave(w)
  /\ UNCHANGED <<election, history, results, versions, corrections,
                 invalidations, crashes>>

(* ... of the latest result.                                               *)
CheckResult(w) ==
  /\ work[w].pc = "checkResult"
  /\ IF versions[work[w].version].result = results
       THEN Goto(w, "markPublished")
       ELSE Leave(w)
  /\ UNCHANGED <<election, history, results, versions, corrections,
                 invalidations, crashes>>

(* Mutant: the election is declared published before its version is.       *)
MarkPublishedAfterwards(w) ==
  /\ work[w].pc = "markPublished"
  /\ election' = "published"
  /\ Goto(w, "writeState")
  /\ UNCHANGED <<history, results, versions, corrections, invalidations, crashes>>

(* markResultVersionPublished: status, publishedAt and notice.             *)
MarkPublished(w) ==
  /\ work[w].pc = "markPublished"
  /\ versions' = [versions EXCEPT ![work[w].version].status = "published",
                                  ![work[w].version].writes = @ + 1]
  /\ Goto(w, "writeState")
  /\ UNCHANGED <<election, history, results, corrections, invalidations, crashes>>

Published == {i \in DOMAIN versions : versions[i].status = "published"}

(* findPublishedResultVersion: what the public page shows; 0 is none.      *)
PublicVersion ==
  IF Published = {} THEN 0
  ELSE CHOOSE i \in Published : \A j \in Published : versions[j].no <= versions[i].no

(* A correction needs a published version, an invalidation takes what is.  *)
FindPublished(w) ==
  /\ work[w].pc = "findPublished"
  /\ IF work[w].kind = "invalidate"
       THEN work' = [work EXCEPT ![w].pc = "createInvalidation",
                                 ![w].version = PublicVersion]
       ELSE IF PublicVersion = 0 THEN Leave(w) ELSE Goto(w, "createCorrection")
  /\ UNCHANGED <<election, history, results, versions, corrections,
                 invalidations, crashes>>

CreateCorrection(w) ==
  /\ work[w].pc = "createCorrection"
  /\ corrections' = Append(corrections, "requested")
  /\ Leave(w)
  /\ UNCHANGED <<election, history, results, versions, invalidations, crashes>>

CreateInvalidation(w) ==
  /\ work[w].pc = "createInvalidation"
  /\ invalidations' = invalidations \cup {work[w].version}
  /\ Goto(w, "writeState")
  /\ UNCHANGED <<election, history, results, versions, corrections, crashes>>

(* A call fails or the process dies: what was written stays written.       *)
Crash(w) ==
  /\ work[w].pc # "idle"
  /\ crashes < MaxCrashes
  /\ crashes' = crashes + 1
  /\ Leave(w)
  /\ UNCHANGED <<election, history, results, versions, corrections, invalidations>>

Step(w) ==
  \/ WriteState(w) \/ WriteHistory(w) \/ CreateResult(w)
  \/ FindResult(w) \/ Approve(w) \/ ReadMaxVersion(w) \/ CreateVersion(w)
  \/ FindVersion(w) \/ CheckResult(w) \/ MarkPublished(w)
  \/ FindPublished(w) \/ CreateCorrection(w) \/ CreateInvalidation(w)

Next == \E w \in Workers :
          \/ \E kind \in Kinds : Begin(w, kind)
          \/ Step(w) \/ Crash(w)

Spec == Init /\ [][Next]_vars

(***************************************************************************)
(* An operation that has begun goes on, and the administrators keep asking *)
(* for what the screen offers next: tally, confirm, publish.               *)
(***************************************************************************)
FairSpec ==
  /\ Spec
  /\ \A w \in Workers :
       /\ WF_vars(Step(w))
       /\ \A kind \in {"tally", "confirm", "publish"} : WF_vars(Begin(w, kind))

-----------------------------------------------------------------------------
(* Properties that hold however many operations overlap or die.            *)

(***************************************************************************)
(* The election's state never runs ahead of the rows it announces: an      *)
(* operation inserts its row before it writes the state, so neither a      *)
(* death between the two nor a stale write shows a confirmed election      *)
(* without a version, or a published one without a published version.      *)
(***************************************************************************)
StageHasItsRows ==
  /\ election \in {"pending_confirmation", "confirmed", "published"} => results > 0
  /\ election \in {"confirmed", "published"} => versions # <<>>
  /\ election = "published" => Published # {}
  /\ election = "invalidated" => invalidations # {}

(***************************************************************************)
(* Confirmations and approvals that overlap read the same largest number;  *)
(* still the versions of an election are numbered 1, 2, 3, ... in the      *)
(* order of their insertion, and "latest" means the last one.              *)
(***************************************************************************)
VersionsNumberedInOrder == \A i \in DOMAIN versions : versions[i].no = i

(***************************************************************************)
(* INV-10 as far as the counts are concerned: once published, a version is *)
(* neither withdrawn nor replaced by the row of a confirmation or a        *)
(* correction that overlaps, although both may have computed its number.   *)
(***************************************************************************)
CountsOf(v) == [no |-> v.no, type |-> v.type, result |-> v.result]

PublishedCountsKept ==
  [][\A i \in Published : /\ i \in Published'
                          /\ CountsOf(versions'[i]) = CountsOf(versions[i])]_vars

(* Properties of an administration that does one operation at a time.      *)

(***************************************************************************)
(* The state moves along the transition table only, although no write      *)
(* checks the state it replaces, and wherever operations die.              *)
(***************************************************************************)
LifecycleOrder == [][CanTransition(election, election')]_election

(***************************************************************************)
(* There is one tally, whatever dies: no second count of the ballots can   *)
(* differ from the one that is confirmed.                                  *)
(***************************************************************************)
OneTally == results <= 1

(***************************************************************************)
(* INV-10: what the public page shows once the election is published is    *)
(* never replaced, by corrections and their approval neither.              *)
(***************************************************************************)
PublicResultFixed ==
  [][election = "published" => PublicVersion' = PublicVersion]_vars

(***************************************************************************)
(* The history explains the state: unless an operation is between its two  *)
(* writes or has died, some row leads to the present state.                *)
(***************************************************************************)
HistoryExplainsState ==
  \/ election = "open"
  \/ crashes > 0
  \/ \E w \in Workers : work[w].pc = "writeHistory"
  \/ \E from \in ElectionState : <<from, election>> \in history

(***************************************************************************)
(* INV-10, "not overwritten": a publication that died half way and is      *)
(* tried again does not write the date and notice of a version a second    *)
(* time.  (Two publications that overlap do.)                              *)
(***************************************************************************)
PublishedOnce == \A i \in DOMAIN versions : versions[i].writes <= 1

(***************************************************************************)
(* What one operation at a time keeps, wherever it dies and is tried again:*)
(* the three invariants above.                                             *)
(***************************************************************************)
KeptAlone == OneTally /\ HistoryExplainsState /\ PublishedOnce

(***************************************************************************)
(* While nothing dies, a closed election is published if the               *)
(* administrators keep doing what is next.                                 *)
(***************************************************************************)
ClosedIsPublished == election = "closed" ~> (election = "published" \/ crashes > 0)

-----------------------------------------------------------------------------
(* What the documents say and the code does not do.                        *)

(***************************************************************************)
(* The life cycle of the design document allows counting again while the   *)
(* election is in "Tallying".  When a tally dies after its first write,    *)
(* no operation accepts the election any more.                             *)
(***************************************************************************)
TallyingEnds == election = "tallying" ~> election # "tallying"

(***************************************************************************)
(* The life cycle lists the next states of each state, and none for a      *)
(* closed election but tallying.  A pause judged by "open" and written     *)
(* after a close takes the election back.                                  *)
(***************************************************************************)
ClosedStaysClosed ==
  [][election = "closed" => election' \notin {"open", "paused"}]_election
=============================================================================
