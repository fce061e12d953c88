---------------------------- MODULE ManagedRegistry ----------------------------
(***************************************************************************)
(* A managed registry, the reusable list of voters an election takes its   *)
(* own list from, composed with the preparation of that election.  The     *)
(* election gets a copy when the registry is linked to it; each later edit *)
(* of the list is followed by a synchronisation that copies it again.  The *)
(* edits ask the election for its state once, and so does, in a later      *)
(* call, the synchronisation.                                              *)
(*                                                                         *)
(* One registry and one election are modelled: elections are synchronised  *)
(* one after the other, each in a transaction of its own.  The totals of   *)
(* the registry itself (refreshCounts) are read by no decision and are     *)
(* left out.  "import" does not belong to Operations here: the electorate  *)
(* of a linked election comes from the registry.                           *)
(***************************************************************************)
EXTENDS Preparation

CONSTANTS Rows,     \* bound of the rows of managed_voters, by identity
          Editors   \* concurrent requests of administrators to the registry

ASSUME ManagedRegistryAssumption == IsFiniteSet(Rows)

VARIABLES
  source,   \* managed_voters: the person and the status of each row
  linked,   \* whether the election's registry refers to this one
  editing,  \* editing[e]: the request of editor e and its local variables
  overlapped  \* history: whether one request ran while another was going on

managed     == <<source, linked, editing, overlapped>>
preparation == <<record, lists, opened, work, crashes>>
allVars     == <<preparation, managed>>

NoRow == [who |-> NoVoter, status |-> "none"]

Row == {NoRow} \cup [who: Voters, status: {"active", "disabled"}]

SourceVoters == {source[r].who : r \in {q \in Rows : source[q].status = "active"}}

Edits == {"add", "update", "remove"}

Resting == [pc |-> "rest", kind |-> "none", row |-> "none", who |-> NoVoter, copy |-> {}]

Editing == [pc: {"rest", "findRow", "findDuplicate", "writeRow", "readSource",
                 "writeCopy", "writeLink"},
            kind: {"none", "link"} \cup Edits, row: {"none"} \cup Rows,
            who: Voters \cup {NoVoter}, copy: SUBSET Voters]

ManagedTypeOK ==
  /\ source \in [Rows -> Row]
  /\ linked \in BOOLEAN
  /\ editing \in [Editors -> Editing]
  /\ overlapped \in BOOLEAN

(* createManagedRegistry: at least one voter, nobody twice.                *)
ManagedInit ==
  /\ Init
  /\ source \in [Rows -> {NoRow} \cup [who: Voters, status: {"active"}]]
  /\ \E r \in Rows : source[r] # NoRow
  /\ \A r, q \in Rows : source[r].who = source[q].who => r = q \/ source[r] = NoRow
  /\ linked = FALSE
  /\ editing = [e \in Editors |-> Resting]
  /\ overlapped = FALSE

-----------------------------------------------------------------------------
(* assertEditableRegistry, which counts a deleted election like any other. *)
Editable ==
  linked => /\ election \notin {"open", "paused", "closed", "tallying",
                                "pending_confirmation", "confirmed", "published", "invalidated"}
            /\ ~due

(* The elections a synchronisation selects.                                *)
Synchronised == linked /\ ~deleted /\ ~due /\ election \in PreStartStates

Proceed(e, pc) == editing' = [editing EXCEPT ![e].pc = pc]

Finish(e) == editing' = [editing EXCEPT ![e] = Resting]

FreeRows == {r \in Rows : source[r] = NoRow}

(* The form names a row to update or remove, a person to add or to write.  *)
BeginEdit(e, kind) ==
  /\ editing[e].pc = "rest"
  /\ Editable
  /\ kind = "add" =>
       Cardinality({f \in Editors : editing[f].kind = "add"}) < Cardinality(FreeRows)
  /\ \E r \in (IF kind = "add" THEN {"none"} ELSE Rows),
        v \in (IF kind = "remove" THEN {NoVoter} ELSE Voters) :
       editing' = [editing EXCEPT ![e] =
                     [Resting EXCEPT !.kind = kind, !.row = r, !.who = v,
                        !.pc = IF kind = "add" THEN "findDuplicate" ELSE "findRow"]]
  /\ UNCHANGED <<preparation, source, linked>>

(* findFirst by the identity of the row; no row is ever deleted.           *)
FindRow(e) ==
  /\ editing[e].pc = "findRow"
  /\ IF source[editing[e].row] = NoRow THEN Finish(e)
     ELSE Proceed(e, IF editing[e].kind = "remove" THEN "writeRow" ELSE "findDuplicate")
  /\ UNCHANGED <<preparation, source, linked>>

(* Rows that hold the person of the form, the edited one excepted.         *)
Duplicates(e) == {r \in Rows \ {editing[e].row} : source[r].who = editing[e].who}

FindDuplicate(e) ==
  /\ editing[e].pc = "findDuplicate"
  /\ IF Duplicates(e) # {} THEN Finish(e) ELSE Proceed(e, "writeRow")
  /\ UNCHANGED <<preparation, source, linked>>

(***************************************************************************)
(* create and update fail on a person who has a row by now: (registry,     *)
(* identifier) is unique.  An update makes a disabled row active again.    *)
(***************************************************************************)
WriteRow(e) ==
  /\ editing[e].pc = "writeRow"
  /\ IF editing[e].kind # "remove" /\ Duplicates(e) # {}
       THEN Finish(e) /\ UNCHANGED source
       ELSE /\ \E r \in (IF editing[e].kind = "add" THEN FreeRows
                         ELSE {editing[e].row}) :
                 source' = [source EXCEPT ![r] =
                              IF editing[e].kind = "remove" THEN [@ EXCEPT !.status = "disabled"]
                              ELSE [who |-> editing[e].who, status |-> "active"]]
            /\ Proceed(e, "readSource")
  /\ UNCHANGED <<preparation, linked>>

(* syncEditableElectionSnapshots, the read.                                *)
ReadSource(e) ==
  /\ editing[e].pc = "readSource"
  /\ IF Synchronised
       THEN editing' = [editing EXCEPT ![e].pc = "writeCopy", ![e].copy = SourceVoters]
       ELSE Finish(e)
  /\ UNCHANGED <<preparation, source, linked>>

(* The registry row that goes with a copy of these voters.                 *)
Copied(people) ==
  [status |-> IF people = {} THEN "draft" ELSE "validated",
   total |-> Cardinality(people), valid |-> Cardinality(people)]

(* Mutant: voters who were removed stay active in the copy.                *)
WriteCopyAdding(e) ==
  /\ editing[e].pc = "writeCopy"
  /\ voters' = [v \in Voters |-> IF v \in editing[e].copy THEN "active" ELSE voters[v]]
  /\ registry' = Copied(editing[e].copy)
  /\ Finish(e)
  /\ UNCHANGED <<record, credentials, invitations, sent, opened, work, crashes,
                 source, linked>>

(* Its transaction: everyone is disabled, those who were read are upserted.*)
WriteCopy(e) ==
  /\ editing[e].pc = "writeCopy"
  /\ voters' = [v \in Voters |-> IF v \in editing[e].copy THEN "active"
                                 ELSE IF voters[v] = "none" THEN "none" ELSE "disabled"]
  /\ registry' = Copied(editing[e].copy)
  /\ Finish(e)
  /\ UNCHANGED <<record, credentials, invitations, sent, opened, work, crashes,
                 source, linked>>

(* linkManagedRegistryToElection, called by the wizard once for its draft. *)
BeginLink(e) ==
  /\ editing[e].pc = "rest"
  /\ ~linked /\ \A f \in Editors : editing[f].kind # "link"
  /\ IF SourceVoters = {} THEN UNCHANGED editing
     ELSE editing' = [editing EXCEPT ![e] = [Resting EXCEPT !.pc = "writeLink",
                                               !.kind = "link", !.copy = SourceVoters]]
  /\ UNCHANGED <<preparation, source, linked>>

(* deleteMany spares voters with an invitation or a credential, and        *)
(* createMany skips those who still have a row.                            *)
WriteLink(e) ==
  /\ editing[e].pc = "writeLink"
  /\ linked' = TRUE
  /\ registry' = Copied(editing[e].copy)
  /\ voters' = [v \in Voters |->
                  IF invitations[v] = 0 /\ v \notin credentials
                    THEN IF v \in editing[e].copy THEN "active" ELSE "none"
                    ELSE voters[v]]
  /\ Finish(e)
  /\ UNCHANGED <<record, credentials, invitations, sent, opened, work, crashes, source>>

Abandon(e) ==
  /\ editing[e].pc # "rest"
  /\ crashes < MaxCrashes
  /\ crashes' = crashes + 1
  /\ Finish(e)
  /\ UNCHANGED <<record, lists, opened, work, source, linked>>

EditorStep(e) ==
  \/ \E kind \in Edits : BeginEdit(e, kind)
  \/ FindRow(e) \/ FindDuplicate(e) \/ WriteRow(e)
  \/ ReadSource(e) \/ WriteCopy(e)
  \/ BeginLink(e) \/ WriteLink(e) \/ Abandon(e)

NoteOverlap(e) ==
  overlapped' = (overlapped \/ \E f \in Editors \ {e} : editing[f].pc # "rest")

ManagedNext == \/ Next /\ UNCHANGED managed
               \/ \E e \in Editors : EditorStep(e) /\ NoteOverlap(e)

ManagedSpec == ManagedInit /\ [][ManagedNext]_allVars

-----------------------------------------------------------------------------
(***************************************************************************)
(* The counts the opening judges by are those of the voters it will list,  *)
(* although editors overlap, overtake each other and die: each copy        *)
(* rewrites the rows and the counts together.  (A validation that overlaps *)
(* a synchronisation writes back the counts it has read, so "validate" is  *)
(* not among the operations of this property's run.)                       *)
(***************************************************************************)
CountsMatchCopy == linked => registry.total = Cardinality(ActiveVoters)

(***************************************************************************)
(* The copy is the list: unless two edits overlapped or one died, the      *)
(* voters of an election that has not reached its start are those of its   *)
(* registry whenever no edit is in progress, while others open, resume,    *)
(* cancel or delete it.  (Of two edits that overlap the older copy may be  *)
(* written last; and an election whose start is moved to a later time      *)
(* again has missed the edits since its start.)                            *)
(***************************************************************************)
CopyIsCurrent ==
  (/\ Synchronised /\ ~overlapped /\ crashes = 0
   /\ \A e \in Editors : editing[e].pc = "rest")
  => ActiveVoters = SourceVoters
===============================================================================
