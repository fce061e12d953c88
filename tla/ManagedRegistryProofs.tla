------------------------- MODULE ManagedRegistryProofs -------------------------
(***************************************************************************)
(* Proofs about ManagedRegistry for any electorate and any list, any       *)
(* number of concurrent editors of the list and of operations on the       *)
(* election, and any number of crashes.                                    *)
(*                                                                         *)
(* The preparation is used through what PreparationProofs has shown of it; *)
(* what is new is that a linked election gets its voters and their counts  *)
(* from the editors alone, and that before the link there is nobody whom   *)
(* an operation could have invited.                                        *)
(***************************************************************************)
EXTENDS ManagedRegistry, PreparationProofs

(* Operations that write voters or counts past the managed list.           *)
Bypassing == {"import", "validate"}

(* Operations that may take an election back to where it is synchronised.  *)
Returning == {"edit", "requestReview", "approve", "schedule"}

(***************************************************************************)
(* What holds of a worker s while nothing bypasses the list; l is whether  *)
(* the election is linked.  Without a registry no preparation gets past    *)
(* its check, and a resending finds nobody to write to.                    *)
(***************************************************************************)
Fit(s, l) ==
  /\ s.kind \in {"none"} \cup Operations
  /\ s.pc \notin {"getRegistry", "readRegistry", "writeCounts"}
  /\ s.pc = "writeEdit" => s.kind = "edit"
  /\ s.phase \notin {"rows", "counting"}
  /\ \/ l
     \/ /\ s.pc \notin {"find", "write"}
        /\ s.pc = "listVoters" => s.kind = "resend" /\ s.phase = "sending"

AllFit == \A w \in Workers : Fit(work[w], linked)

(* The lists of an election without a registry.                            *)
NothingYet ==
  /\ registry = NoRegistry
  /\ voters = [v \in Voters |-> "none"]
  /\ credentials = {}
  /\ invitations = [v \in Voters |-> 0]

(* The wizard links once, and only a linked election gets copies.          *)
OneLink ==
  /\ \A e \in Editors : editing[e].pc = "writeCopy" => linked
  /\ \A e \in Editors :
       editing[e].kind = "link" <=> editing[e].pc = "writeLink"
  /\ \A e \in Editors : editing[e].kind = "link" => ~linked
  /\ \A e, f \in Editors : editing[e].kind = "link" /\ editing[f].kind = "link" => e = f

(***************************************************************************)
(* What holds of an editor's request s while the list is src: it names     *)
(* what its kind needs, and a row to remove has been found.                *)
(***************************************************************************)
FormOK(s, src) ==
  /\ s.pc \in {"findRow", "findDuplicate", "writeRow"} => s.kind \in Edits
  /\ s.kind \in {"add", "update"} => s.who \in Voters
  /\ s.kind \in {"update", "remove"} => s.row \in Rows
  /\ s.kind = "remove" => s.pc # "findDuplicate"
  /\ s.kind = "remove" /\ s.pc = "writeRow" => src[s.row] # NoRow

AllForms == \A e \in Editors : FormOK(editing[e], source)

(* The inductive invariants: of the composition, and for its counts.       *)
BaseInv == TypeOK /\ WorkInv /\ ManagedTypeOK /\ AllForms /\ opened \subseteq credentials

ListInv == /\ BaseInv /\ AllFit /\ OneLink
           /\ ~linked => NothingYet
           /\ CountsMatchCopy

-----------------------------------------------------------------------------
(* Typing.                                                                 *)

LEMMA CopiedType ==
  ASSUME NEW people \in SUBSET Voters
  PROVE  /\ Copied(people) \in Registry
         /\ Copied(people).total = Cardinality(people)
  <1>1. Cardinality(people) \in Nat
    BY PreparationAssumption, FS_Subset, FS_CardinalityType
  <1>2. QED
    BY <1>1 DEF Copied, Registry

LEMMA SourceVotersType ==
  ASSUME ManagedTypeOK
  PROVE  SourceVoters \in SUBSET Voters
  <1>1. ASSUME NEW r \in Rows, source[r].status = "active" PROVE source[r].who \in Voters
    BY <1>1 DEF ManagedTypeOK, Row, NoRow
  <1>2. QED
    BY <1>1 DEF SourceVoters

LEMMA RestingType == Resting \in Editing
  BY DEF Resting, Editing

LEMMA PutEditing ==
  ASSUME editing \in [Editors -> Editing], NEW e \in Editors, NEW s \in Editing,
         editing' = [editing EXCEPT ![e] = s]
  PROVE  /\ editing' \in [Editors -> Editing]
         /\ editing'[e] = s
         /\ \A f \in Editors \ {e} : editing'[f] = editing[f]
  OBVIOUS

LEMMA ProceedType ==
  ASSUME editing \in [Editors -> Editing], NEW e \in Editors,
         NEW pc \in {"findRow", "findDuplicate", "writeRow", "readSource"},
         Proceed(e, pc)
  PROVE  /\ editing' \in [Editors -> Editing]
         /\ editing'[e].pc = pc /\ editing'[e].kind = editing[e].kind
         /\ editing'[e].row = editing[e].row /\ editing'[e].who = editing[e].who
         /\ \A f \in Editors \ {e} : editing'[f] = editing[f]
  <1> DEFINE s == [editing[e] EXCEPT !.pc = pc]
  <1>1. /\ s \in Editing /\ s.pc = pc /\ s.kind = editing[e].kind
        /\ s.row = editing[e].row /\ s.who = editing[e].who
    BY DEF Editing
  <1>2. editing' = [editing EXCEPT ![e] = s]
    BY DEF Proceed
  <1> HIDE DEF s
  <1>3. QED
    BY <1>1, <1>2, PutEditing

LEMMA FinishType ==
  ASSUME editing \in [Editors -> Editing], NEW e \in Editors, Finish(e)
  PROVE  /\ editing' \in [Editors -> Editing]
         /\ editing'[e] = Resting
         /\ \A f \in Editors \ {e} : editing'[f] = editing[f]
  BY RestingType, PutEditing DEF Finish

-----------------------------------------------------------------------------
(***************************************************************************)
(* What one step of an editor does to the editors: the one that moves goes *)
(* to rest, or on with what it has, or has begun, or has read a copy.      *)
(***************************************************************************)
Rests(e) == editing'[e] = Resting

GoesOn(e) ==
  /\ editing[e].pc \in {"findRow", "findDuplicate", "writeRow"}
  /\ editing'[e].pc \in {"findDuplicate", "writeRow", "readSource"}
  /\ editing'[e].pc = "readSource" <=> editing[e].pc = "writeRow"
  /\ editing'[e].kind = editing[e].kind
  /\ editing'[e].row = editing[e].row /\ editing'[e].who = editing[e].who

Begins(e) ==
  /\ editing[e].pc = "rest"
  /\ editing'[e].pc \in {"findRow", "findDuplicate"}
  /\ FormOK(editing'[e], source)

BeginsLink(e) ==
  /\ BeginLink(e)
  /\ editing'[e].pc = "writeLink" /\ editing'[e].kind = "link"
  /\ editing'[e].copy = SourceVoters

Reads(e) ==
  /\ ReadSource(e)
  /\ editing'[e].pc = "writeCopy" /\ editing'[e].kind = editing[e].kind
  /\ editing'[e].copy = SourceVoters

Moves(e) ==
  /\ editing' \in [Editors -> Editing]
  /\ \A f \in Editors \ {e} : editing'[f] = editing[f]
  /\ \/ Rests(e) \/ GoesOn(e) \/ Begins(e) \/ BeginsLink(e) \/ Reads(e)
     \/ editing' = editing

LEMMA BeginEditMoves ==
  ASSUME ManagedTypeOK, NEW e \in Editors, NEW kind \in Edits, BeginEdit(e, kind)
  PROVE  Moves(e) /\ Begins(e)
  <1>1. PICK r \in (IF kind = "add" THEN {"none"} ELSE Rows),
             v \in (IF kind = "remove" THEN {NoVoter} ELSE Voters) :
          editing' = [editing EXCEPT ![e] =
                        [Resting EXCEPT !.kind = kind, !.row = r, !.who = v,
                           !.pc = IF kind = "add" THEN "findDuplicate" ELSE "findRow"]]
    BY DEF BeginEdit
  <1> DEFINE s == [Resting EXCEPT !.kind = kind, !.row = r, !.who = v,
                     !.pc = IF kind = "add" THEN "findDuplicate" ELSE "findRow"]
  <1>2. s \in Editing /\ FormOK(s, source) /\ s.pc \in {"findRow", "findDuplicate"}
    <2>1. /\ s.kind = kind /\ s.row = r /\ s.who = v
          /\ s.pc = IF kind = "add" THEN "findDuplicate" ELSE "findRow"
      BY DEF Resting
    <2>2. s \in Editing
      BY DEF Resting, Editing, Edits
    <2>3. /\ kind # "add" => r \in Rows
          /\ kind # "remove" => v \in Voters
      BY <1>1
    <2>4. QED
      BY <2>1, <2>2, <2>3 DEF FormOK, Edits
  <1>3. editing' = [editing EXCEPT ![e] = s]
    BY <1>1
  <1> HIDE DEF s
  <1>4. /\ editing' \in [Editors -> Editing] /\ editing'[e] = s
        /\ \A f \in Editors \ {e} : editing'[f] = editing[f]
    BY <1>2, <1>3, PutEditing DEF ManagedTypeOK
  <1>5. editing[e].pc = "rest"
    BY DEF BeginEdit
  <1>6. QED
    BY <1>2, <1>4, <1>5 DEF Moves, Begins

LEMMA RestMoves ==
  ASSUME ManagedTypeOK, NEW e \in Editors, Finish(e)
  PROVE  Moves(e) /\ Rests(e)
  BY FinishType DEF Moves, Rests, ManagedTypeOK

LEMMA RowMoves ==
  ASSUME ManagedTypeOK, NEW e \in Editors, FindRow(e) \/ FindDuplicate(e) \/ WriteRow(e)
  PROVE  Moves(e) /\ (Rests(e) \/ GoesOn(e))
  <1>1. CASE Finish(e)
    BY <1>1, RestMoves
  <1>2. ASSUME NEW pc \in {"findDuplicate", "writeRow", "readSource"}, Proceed(e, pc),
               editing[e].pc \in {"findRow", "findDuplicate", "writeRow"},
               pc = "readSource" <=> editing[e].pc = "writeRow"
        PROVE  Moves(e) /\ GoesOn(e)
    <2>1. /\ editing' \in [Editors -> Editing]
          /\ editing'[e].pc = pc /\ editing'[e].kind = editing[e].kind
          /\ editing'[e].row = editing[e].row /\ editing'[e].who = editing[e].who
          /\ \A f \in Editors \ {e} : editing'[f] = editing[f]
      BY <1>2, ProceedType DEF ManagedTypeOK
    <2>2. GoesOn(e)
      BY <1>2, <2>1 DEF GoesOn
    <2>3. QED
      BY <2>1, <2>2 DEF Moves
  <1>3. CASE FindRow(e) /\ ~Finish(e)
    <2>1. Proceed(e, "writeRow") \/ Proceed(e, "findDuplicate")
      BY <1>3 DEF FindRow
    <2>2. QED
      BY <1>2, <1>3, <2>1 DEF FindRow
  <1>4. CASE FindDuplicate(e) /\ ~Finish(e)
    BY <1>2, <1>4 DEF FindDuplicate
  <1>5. CASE WriteRow(e) /\ ~Finish(e)
    BY <1>2, <1>5 DEF WriteRow
  <1>6. QED
    BY <1>1, <1>3, <1>4, <1>5

LEMMA CopyMoves ==
  ASSUME ManagedTypeOK, NEW e \in Editors, ReadSource(e) \/ BeginLink(e)
  PROVE  Moves(e) /\ (Rests(e) \/ BeginsLink(e) \/ Reads(e) \/ editing' = editing)
  <1>1. SourceVoters \in SUBSET Voters /\ editing \in [Editors -> Editing]
    BY SourceVotersType DEF ManagedTypeOK
  <1>2. CASE Finish(e)
    BY <1>2, RestMoves
  <1>3. CASE ReadSource(e) /\ ~Finish(e)
    <2> DEFINE s == [editing[e] EXCEPT !.pc = "writeCopy", !.copy = SourceVoters]
    <2>1. /\ s \in Editing /\ s.pc = "writeCopy" /\ s.copy = SourceVoters
          /\ s.kind = editing[e].kind
      BY <1>1 DEF Editing
    <2>2. editing' = [editing EXCEPT ![e] = s]
      BY <1>3 DEF ReadSource
    <2> HIDE DEF s
    <2>3. /\ editing' \in [Editors -> Editing] /\ editing'[e] = s
          /\ \A f \in Editors \ {e} : editing'[f] = editing[f]
      BY <1>1, <2>1, <2>2, PutEditing
    <2>4. Reads(e)
      BY <1>3, <2>1, <2>3 DEF Reads
    <2>5. QED
      BY <2>3, <2>4 DEF Moves
  <1>4. CASE BeginLink(e) /\ editing' # editing
    <2> DEFINE s == [Resting EXCEPT !.pc = "writeLink", !.kind = "link",
                                    !.copy = SourceVoters]
    <2>1. /\ s \in Editing /\ s.pc = "writeLink" /\ s.copy = SourceVoters
          /\ s.kind = "link"
      BY <1>1 DEF Editing, Resting
    <2>2. editing' = [editing EXCEPT ![e] = s]
      BY <1>4 DEF BeginLink
    <2> HIDE DEF s
    <2>3. /\ editing' \in [Editors -> Editing] /\ editing'[e] = s
          /\ \A f \in Editors \ {e} : editing'[f] = editing[f]
      BY <1>1, <2>1, <2>2, PutEditing
    <2>4. BeginsLink(e)
      BY <1>4, <2>1, <2>3 DEF BeginsLink
    <2>5. QED
      BY <2>3, <2>4 DEF Moves
  <1>5. CASE editing' = editing
    BY <1>1, <1>5 DEF Moves
  <1>6. QED
    BY <1>2, <1>3, <1>4, <1>5

LEMMA EditorMoves ==
  ASSUME ManagedTypeOK, NEW e \in Editors, EditorStep(e)
  PROVE  Moves(e)
  <1>1. CASE WriteCopy(e) \/ WriteLink(e) \/ Abandon(e)
    BY <1>1, RestMoves DEF WriteCopy, WriteLink, Abandon
  <1>2. QED
    BY <1>1, BeginEditMoves, RowMoves, CopyMoves DEF EditorStep

-----------------------------------------------------------------------------
(***************************************************************************)
(* The base invariant.                                                     *)
(***************************************************************************)
LEMMA WriteRowSource ==
  ASSUME BaseInv, NEW e \in Editors, WriteRow(e)
  PROVE  /\ source' \in [Rows -> Row]
         /\ \A r \in Rows : source[r] # NoRow => source'[r] # NoRow
  <1>1. /\ source \in [Rows -> Row] /\ FormOK(editing[e], source)
        /\ editing[e].pc = "writeRow"
    BY DEF BaseInv, ManagedTypeOK, AllForms, WriteRow
  <1>2. editing[e].kind \in Edits
    BY <1>1 DEF FormOK
  <1>3. CASE UNCHANGED source
    BY <1>1, <1>3
  <1>4. CASE source' # source /\ editing[e].kind = "remove"
    <2> DEFINE r == editing[e].row
               row == [source[r] EXCEPT !.status = "disabled"]
    <2>1. r \in Rows /\ source[r] # NoRow
      BY <1>1, <1>4 DEF FormOK
    <2>2. source' = [source EXCEPT ![r] = row]
      BY <1>4 DEF WriteRow
    <2>3. row \in Row /\ row.status = "disabled"
      BY <1>1, <2>1 DEF Row, NoRow
    <2> HIDE DEF row, r
    <2>4. QED
      BY <1>1, <2>1, <2>2, <2>3 DEF NoRow
  <1>5. CASE source' # source /\ editing[e].kind # "remove"
    <2> DEFINE row == [who |-> editing[e].who, status |-> "active"]
    <2>1. PICK r \in Rows : source' = [source EXCEPT ![r] = row]
      <3>1. editing[e].kind # "add" => editing[e].row \in Rows
        BY <1>1, <1>2, <1>5 DEF FormOK, Edits
      <3>2. QED
        BY <1>5, <3>1 DEF WriteRow, FreeRows
    <2>2. row \in Row /\ row.status = "active"
      BY <1>1, <1>2, <1>5 DEF FormOK, Edits, Row
    <2> HIDE DEF row
    <2>3. QED
      BY <1>1, <2>1, <2>2 DEF NoRow
  <1>6. QED
    BY <1>3, <1>4, <1>5

(* The rows of an editor's step: only WriteRow touches them.               *)
LEMMA EditorSource ==
  ASSUME BaseInv, NEW e \in Editors, EditorStep(e)
  PROVE  /\ source' \in [Rows -> Row]
         /\ \A r \in Rows : source[r] # NoRow => source'[r] # NoRow
  <1>1. CASE WriteRow(e)
    BY <1>1, WriteRowSource
  <1>2. CASE ~WriteRow(e)
    <2>1. source' = source
      BY <1>2 DEF EditorStep, BeginEdit, FindRow, FindDuplicate, ReadSource, WriteCopy,
                  BeginLink, WriteLink, Abandon
    <2>2. QED
      BY <2>1 DEF BaseInv, ManagedTypeOK
  <1>3. QED
    BY <1>1, <1>2

LEMMA FormsKept ==
  ASSUME BaseInv, NEW e \in Editors, EditorStep(e)
  PROVE  AllForms'
  <1>1. Moves(e)
    BY EditorMoves DEF BaseInv
  <1>2. \A r \in Rows : source[r] # NoRow => source'[r] # NoRow
    BY EditorSource
  <1>3. \A f \in Editors : FormOK(editing[f], source')
    BY <1>2 DEF BaseInv, AllForms, FormOK
  <1>4. FormOK(editing'[e], source')
    <2>1. CASE Rests(e)
      BY <2>1 DEF Rests, FormOK, Resting
    <2>2. CASE Begins(e)
      BY <1>2, <2>2 DEF Begins, FormOK
    <2>3. CASE BeginsLink(e)
      BY <2>3 DEF BeginsLink, FormOK
    <2>4. CASE Reads(e)
      <3>1. FormOK(editing[e], source') /\ editing[e].pc = "readSource"
        BY <1>3, <2>4 DEF Reads, ReadSource
      <3>2. /\ editing'[e].who = editing[e].who /\ editing'[e].row = editing[e].row
            /\ editing'[e].kind = editing[e].kind
        <4>1. editing' = [editing EXCEPT ![e].pc = "writeCopy", ![e].copy = SourceVoters]
          BY <2>4 DEF Reads, ReadSource, Finish, Resting, BaseInv, ManagedTypeOK
        <4>2. QED
          BY <4>1 DEF BaseInv, ManagedTypeOK, Editing
      <3>3. QED
        BY <2>4, <3>1, <3>2 DEF FormOK, Reads
    <2>5. CASE GoesOn(e)
      <3>1. /\ FormOK(editing[e], source') /\ FormOK(editing[e], source)
            /\ editing[e].kind \in Edits
        BY <1>3, <2>5 DEF GoesOn, FormOK, BaseInv, AllForms
      <3>2. CASE FindRow(e)
        <4>1. source' = source /\ source[editing[e].row] # NoRow
          <5>1. ~Finish(e)
            BY <2>5 DEF GoesOn, Finish, Resting, BaseInv, ManagedTypeOK
          <5>2. QED
            BY <3>2, <5>1 DEF FindRow
        <4>2. editing[e].kind = "remove" => editing'[e].pc = "writeRow"
          <5>1. editing[e].kind = "remove" => Proceed(e, "writeRow")
            BY <3>2, <4>1 DEF FindRow
          <5>2. QED
            BY <5>1, ProceedType DEF BaseInv, ManagedTypeOK
        <4>3. QED
          BY <2>5, <3>1, <4>1, <4>2 DEF FormOK, GoesOn
      <3>3. CASE ~FindRow(e)
        <4>1. editing[e].kind = "remove" => editing'[e].pc = "readSource"
          <5>1. editing[e].pc # "findRow"
            <6>1. ~Abandon(e)
              <7>1. editing'[e].pc # "rest"
                BY <2>5 DEF GoesOn
              <7>2. QED
                BY <7>1, FinishType DEF Abandon, Resting, BaseInv, ManagedTypeOK
            <6>2. QED
              BY <3>3, <6>1 DEF EditorStep, BeginEdit, FindDuplicate, WriteRow,
                                ReadSource, WriteCopy, BeginLink, WriteLink
          <5>2. QED
            BY <2>5, <3>1, <5>1 DEF FormOK, GoesOn
        <4>2. QED
          BY <2>5, <3>1, <4>1 DEF FormOK, GoesOn
      <3>4. QED
        BY <3>2, <3>3
    <2>6. CASE editing' = editing
      BY <1>3, <2>6
    <2>7. QED
      BY <1>1, <2>1, <2>2, <2>3, <2>4, <2>5, <2>6 DEF Moves
  <1>5. QED
    BY <1>1, <1>3, <1>4 DEF AllForms, Moves

(* The election as an editor leaves it.                                    *)
LEMMA EditorElection ==
  ASSUME BaseInv, NEW e \in Editors, EditorStep(e)
  PROVE  TypeOK' /\ WorkInv' /\ UNCHANGED <<opened, credentials>>
  <1>1. UNCHANGED <<record, credentials, invitations, sent, opened, work>>
    BY DEF EditorStep, BeginEdit, FindRow, FindDuplicate, WriteRow, ReadSource, WriteCopy,
           BeginLink, WriteLink, Abandon, preparation, lists
  <1>2. WorkInv'
    BY <1>1 DEF BaseInv, WorkInv
  <1>3. crashes' \in Nat
    <2>1. crashes' = crashes \/ crashes' = crashes + 1
      BY DEF EditorStep, BeginEdit, FindRow, FindDuplicate, WriteRow, ReadSource, WriteCopy,
             BeginLink, WriteLink, Abandon, preparation
    <2>2. QED
      BY <2>1 DEF BaseInv, TypeOK
  <1>4. /\ registry' \in Registry
        /\ voters' \in [Voters -> {"none", "active", "disabled"}]
    <2>1. editing[e].copy \in SUBSET Voters
      BY DEF BaseInv, ManagedTypeOK, Editing
    <2>2. CASE WriteCopy(e) \/ WriteLink(e)
      <3>1. registry' \in Registry
        BY <2>1, <2>2, CopiedType DEF WriteCopy, WriteLink
      <3>2. \A v \in Voters : voters[v] \in {"none", "active", "disabled"}
        BY DEF BaseInv, TypeOK
      <3>3. QED
        BY <2>2, <3>1, <3>2 DEF WriteCopy, WriteLink
    <2>3. CASE ~(WriteCopy(e) \/ WriteLink(e))
      <3>1. UNCHANGED <<registry, voters>>
        BY <2>3 DEF EditorStep, BeginEdit, FindRow, FindDuplicate, WriteRow, ReadSource,
                    BeginLink, Abandon, preparation, lists
      <3>2. QED
        BY <3>1 DEF BaseInv, TypeOK
    <2>4. QED
      BY <2>2, <2>3
  <1>5. QED
    BY <1>1, <1>2, <1>3, <1>4 DEF BaseInv, TypeOK, record

LEMMA BaseKept == BaseInv /\ [ManagedNext]_allVars => BaseInv'
  <1> SUFFICES ASSUME BaseInv, [ManagedNext]_allVars PROVE BaseInv'
    OBVIOUS
  <1>1. CASE Next /\ UNCHANGED managed
    <2>1. ManagedTypeOK' /\ AllForms'
      BY <1>1 DEF BaseInv, ManagedTypeOK, AllForms, managed
    <2>2. TypeOK' /\ WorkInv' /\ opened' \subseteq credentials'
      BY <1>1, TypeStep, WorkInvStep, OpenedStep DEF BaseInv, OpeningInv
    <2>3. QED
      BY <2>1, <2>2 DEF BaseInv
  <1>2. ASSUME NEW e \in Editors, EditorStep(e), NoteOverlap(e) PROVE BaseInv'
    <2>1. TypeOK' /\ WorkInv' /\ opened' \subseteq credentials'
      BY <1>2, EditorElection DEF BaseInv
    <2>2. editing' \in [Editors -> Editing]
      BY <1>2, EditorMoves DEF BaseInv, Moves
    <2>3. overlapped' \in BOOLEAN
      BY <1>2 DEF NoteOverlap, BaseInv, ManagedTypeOK
    <2>4. linked' \in BOOLEAN
      BY <1>2 DEF EditorStep, BeginEdit, FindRow, FindDuplicate, WriteRow, ReadSource,
                  WriteCopy, BeginLink, WriteLink, Abandon, BaseInv, ManagedTypeOK
    <2>5. ManagedTypeOK'
      BY <1>2, <2>2, <2>3, <2>4, EditorSource DEF ManagedTypeOK
    <2>6. QED
      BY <1>2, <2>1, <2>5, FormsKept DEF BaseInv
  <1>3. CASE UNCHANGED allVars
    <2>1. ManagedTypeOK' /\ AllForms'
      BY <1>3 DEF BaseInv, ManagedTypeOK, AllForms, managed, allVars
    <2>2. UNCHANGED vars
      BY <1>3 DEF allVars, preparation, vars
    <2>3. TypeOK' /\ WorkInv' /\ opened' \subseteq credentials'
      BY <2>2, TypeStep, WorkInvStep, OpenedStep DEF BaseInv, OpeningInv
    <2>4. QED
      BY <2>1, <2>3 DEF BaseInv
  <1>4. QED
    BY <1>1, <1>2, <1>3 DEF ManagedNext

LEMMA BaseStarts == ManagedInit => BaseInv
  <1> SUFFICES ASSUME ManagedInit PROVE BaseInv
    OBVIOUS
  <1>1. OpeningInv
    BY InitInv DEF ManagedInit
  <1>2. source \in [Rows -> Row]
    BY DEF ManagedInit, Row
  <1>3. ManagedTypeOK
    BY <1>2, RestingType DEF ManagedInit, ManagedTypeOK
  <1>4. AllForms
    BY DEF ManagedInit, AllForms, FormOK, Resting
  <1>5. QED
    BY <1>1, <1>3, <1>4 DEF BaseInv, OpeningInv

(***************************************************************************)
(* Every variable keeps its type, the locals of the editors' requests      *)
(* included: a request that writes a row has a row or a person to write.   *)
(***************************************************************************)
THEOREM ManagedTypeCorrect == ManagedSpec => []ManagedTypeOK
  <1>1. BaseInv => ManagedTypeOK
    BY DEF BaseInv
  <1>2. QED
    BY <1>1, BaseStarts, BaseKept, PTL DEF ManagedSpec

(***************************************************************************)
(* What an opening promises to the voters it listed survives the editors:  *)
(* no edit of the list and no copy takes anyone's credential away.         *)
(***************************************************************************)
THEOREM ManagedOpenedCorrect == ManagedSpec => []OpenedVotersHaveCredentials
  <1>1. BaseInv => OpenedVotersHaveCredentials
    BY DEF BaseInv, OpenedVotersHaveCredentials
  <1>2. QED
    BY <1>1, BaseStarts, BaseKept, PTL DEF ManagedSpec

-----------------------------------------------------------------------------
(***************************************************************************)
(* The operations on the election, when none of them bypasses the list.    *)
(***************************************************************************)
LEMMA PutFit ==
  ASSUME TypeOK, AllFit, NEW w \in Workers, NEW s, Fit(s, linked), UNCHANGED linked,
         work' = [work EXCEPT ![w] = s]
  PROVE  AllFit'
  <1>1. \A u \in Workers : work'[u] = IF u = w THEN s ELSE work[u]
    BY DEF TypeOK
  <1>2. ASSUME NEW u \in Workers PROVE Fit(work'[u], linked')
    BY <1>1 DEF AllFit
  <1>3. QED
    BY <1>2 DEF AllFit

LEMMA IdleFit == \A l : Fit(Idle, l)
  BY DEF Fit, Idle

LEMMA LeaveFit ==
  ASSUME TypeOK, AllFit, NEW w \in Workers, Leave(w), UNCHANGED linked
  PROVE  AllFit'
  BY IdleFit, PutFit DEF Leave

(* A worker of a linked election may go on with its list.                  *)
LEMMA ContinueFit ==
  ASSUME NEW w \in Workers, work[w] \in Work, linked, Fit(work[w], linked), NEW todo
  PROVE  Fit(Continue(w, todo), linked)
  <1> DEFINE phase == PhaseAfter(work[w].kind, work[w].phase)
             s == [work[w] EXCEPT !.pc = CallOf(phase), !.phase = phase,
                                  !.todo = {}, !.voter = NoVoter]
             t == [work[w] EXCEPT !.pc = "find", !.todo = todo, !.voter = NoVoter]
  <1>1. Fit(t, linked)
    <2>1. t.pc = "find" /\ t.kind = work[w].kind /\ t.phase = work[w].phase
      BY DEF Work
    <2> HIDE DEF t
    <2>2. QED
      BY <2>1 DEF Fit
  <1>2. phase # "none" => Fit(s, linked)
    <2>1. s.pc = CallOf(phase) /\ s.kind = work[w].kind /\ s.phase = phase
      BY DEF Work
    <2>2. phase \in {"none", "credentials", "sending", "opening"}
      BY DEF Fit, PhaseAfter
    <2>3. CallOf(phase) \in {"checkRegistry", "listVoters", "idle", "writeState"}
      BY <2>2 DEF CallOf
    <2> HIDE DEF s, phase
    <2>4. QED
      BY <2>1, <2>2, <2>3 DEF Fit
  <1>3. Continue(w, todo) \in {s, t, Idle} /\ (Continue(w, todo) = s => phase # "none" \/ s = t \/ s = Idle)
    BY DEF Continue
  <1> HIDE DEF s, t, phase
  <1>4. QED
    BY <1>1, <1>2, <1>3, IdleFit

(* The locals a worker carries along do not matter.                        *)
LEMMA FitSame ==
  ASSUME NEW s, NEW t, NEW l, Fit(s, l), t.pc = s.pc, t.kind = s.kind, t.phase = s.phase
  PROVE  Fit(t, l)
  BY DEF Fit

LEMMA ListFit ==
  ASSUME BaseInv, AllFit, ~linked => NothingYet, NEW w \in Workers, ListVoters(w),
         UNCHANGED linked
  PROVE  AllFit'
  <1>1. /\ TypeOK /\ work[w] \in Work /\ Fit(work[w], linked)
        /\ work[w].pc = "listVoters"
    BY DEF BaseInv, TypeOK, AllFit, ListVoters
  <1>2. PICK list \in {ActiveVoters} \cup
                   (IF work[w].kind = "resend" THEN {{v} : v \in ActiveVoters} ELSE {}) :
          work' = [work EXCEPT ![w] = [Continue(w, list) EXCEPT
                     !.listed = IF work[w].kind = "open" THEN list ELSE {}]]
    BY DEF ListVoters
  <1> DEFINE c == Continue(w, list)
             s == [c EXCEPT !.listed = IF work[w].kind = "open" THEN list ELSE {}]
  <1>3. c \in Work
    <2>1. list \in SUBSET Voters
      BY <1>2 DEF ActiveVoters
    <2>2. QED
      BY <1>1, <2>1, ContinueType
  <1>4. Fit(c, linked)
    <2>1. CASE linked
      BY <1>1, <2>1, ContinueFit
    <2>2. CASE ~linked
      <3>1. ActiveVoters = {}
        BY <2>2 DEF NothingYet, ActiveVoters
      <3>2. list = {}
        BY <1>2, <3>1
      <3>3. PhaseAfter(work[w].kind, work[w].phase) = "none"
        BY <1>1, <2>2 DEF Fit, PhaseAfter
      <3>4. c = Idle
        BY <3>2, <3>3 DEF Continue
      <3> HIDE DEF c
      <3>5. QED
        BY <3>4, IdleFit
    <2>3. QED
      BY <2>1, <2>2
  <1>5. s.pc = c.pc /\ s.kind = c.kind /\ s.phase = c.phase
    BY <1>3 DEF Work
  <1>6. work' = [work EXCEPT ![w] = s]
    BY <1>2
  <1> HIDE DEF s, c
  <1>7. Fit(s, linked)
    BY <1>4, <1>5, FitSame
  <1>8. QED
    BY <1>1, <1>6, <1>7, PutFit

LEMMA FindFit ==
  ASSUME BaseInv, AllFit, NEW w \in Workers, Find(w), UNCHANGED linked
  PROVE  AllFit'
  <1>1. TypeOK /\ work[w] \in Work /\ Fit(work[w], linked) /\ work[w].pc = "find" /\ linked
    BY DEF BaseInv, TypeOK, AllFit, Find, Fit, ManagedTypeOK
  <1>2. PICK v \in work[w].todo :
          \/ work' = [work EXCEPT ![w].pc = "write", ![w].voter = v]
          \/ work' = [work EXCEPT ![w] = Continue(w, work[w].todo \ {v})]
    BY DEF Find
  <1>3. CASE work' = [work EXCEPT ![w].pc = "write", ![w].voter = v]
    <2> DEFINE s == [work[w] EXCEPT !.pc = "write", !.voter = v]
    <2>1. s.pc = "write" /\ s.kind = work[w].kind /\ s.phase = work[w].phase
      BY <1>1 DEF Work
    <2>2. work' = [work EXCEPT ![w] = s]
      BY <1>3
    <2> HIDE DEF s
    <2>3. Fit(s, linked)
      BY <1>1, <2>1 DEF Fit
    <2>4. QED
      BY <1>1, <2>2, <2>3, PutFit
  <1>4. CASE work' = [work EXCEPT ![w] = Continue(w, work[w].todo \ {v})]
    BY <1>1, <1>4, ContinueFit, PutFit
  <1>5. QED
    BY <1>2, <1>3, <1>4

LEMMA WritesFit ==
  ASSUME BaseInv, AllFit, NEW w \in Workers,
         CreateCredential(w) \/ CreateInvitation(w) \/ MarkSent(w), UNCHANGED linked
  PROVE  AllFit' /\ linked
  <1>1. TypeOK /\ work[w] \in Work /\ Fit(work[w], linked) /\ work[w].pc = "write" /\ linked
    BY DEF BaseInv, TypeOK, AllFit, CreateCredential, CreateInvitation, MarkSent, Writes, Fit,
           ManagedTypeOK
  <1>2. Leave(w) \/ Advance(w)
    BY DEF CreateCredential, CreateInvitation, MarkSent
  <1>3. CASE Advance(w)
    <2>1. Fit(Continue(w, work[w].todo \ {work[w].voter}), linked)
      BY <1>1, ContinueFit
    <2>2. QED
      BY <1>1, <1>3, <2>1, PutFit DEF Advance
  <1>4. QED
    BY <1>1, <1>2, <1>3, LeaveFit

LEMMA GotoFit ==
  ASSUME TypeOK, AllFit, NEW w \in Workers, NEW pc, Goto(w, pc), UNCHANGED linked,
         pc = "checkRegistry" \/ (pc = "listVoters" /\ linked)
  PROVE  AllFit'
  <1> DEFINE s == [work[w] EXCEPT !.pc = pc]
  <1>1. Fit(work[w], linked) /\ work[w] \in Work
    BY DEF AllFit, TypeOK
  <1>2. s.pc = pc /\ s.kind = work[w].kind /\ s.phase = work[w].phase
    BY <1>1 DEF Work
  <1>3. work' = [work EXCEPT ![w] = s]
    BY DEF Goto
  <1> HIDE DEF s
  <1>4. Fit(s, linked)
    BY <1>1, <1>2 DEF Fit
  <1>5. QED
    BY <1>3, <1>4, PutFit

LEMMA BeginFit ==
  ASSUME TypeOK, AllFit, Operations \cap Bypassing = {}, NEW w \in Workers,
         NEW kind \in Operations, Begin(w, kind), UNCHANGED linked
  PROVE  AllFit'
  <1> DEFINE s == [Idle EXCEPT !.pc = FirstCall(kind), !.kind = kind,
                               !.phase = FirstPhase(kind)]
  <1>1. s.pc = FirstCall(kind) /\ s.kind = kind /\ s.phase = FirstPhase(kind)
    BY DEF Idle
  <1>2. kind \in Kinds \ {"import", "validate"}
    BY PreparationAssumption DEF Bypassing
  <1>3. /\ FirstPhase(kind) \in {"none", "credentials", "invitations", "sending"}
        /\ FirstCall(kind) \in {"writeEdit", "softDelete", "readAgain", "checkRegistry",
                                "listVoters", "writeState"}
        /\ FirstCall(kind) = "writeEdit" => kind = "edit"
        /\ FirstCall(kind) = "listVoters" => kind = "resend" /\ FirstPhase(kind) = "sending"
    BY <1>2 DEF Kinds, FirstPhase, FirstCall, CallOf
  <1>4. work' = [work EXCEPT ![w] = s]
    BY DEF Begin
  <1> HIDE DEF s
  <1>5. Fit(s, linked)
    BY <1>1, <1>3 DEF Fit
  <1>6. QED
    BY <1>4, <1>5, PutFit

LEMMA PreparationFit ==
  ASSUME BaseInv, AllFit, ~linked => NothingYet, Operations \cap Bypassing = {},
         Next, UNCHANGED managed
  PROVE  /\ AllFit'
         /\ UNCHANGED <<registry, voters>>
         /\ ~linked => UNCHANGED <<credentials, invitations>>
  <1>1. TypeOK /\ UNCHANGED linked /\ \A w \in Workers : Fit(work[w], linked)
    BY DEF BaseInv, managed, AllFit
  <1>2. ASSUME NEW w \in Workers, NEW kind \in Operations, Begin(w, kind)
        PROVE  AllFit' /\ UNCHANGED lists
    BY <1>1, <1>2, BeginFit DEF Begin
  <1>3. ASSUME NEW w \in Workers,
               WriteEdit(w) \/ SoftDelete(w) \/ WriteState(w) \/ Crash(w)
        PROVE  AllFit' /\ UNCHANGED lists
    BY <1>1, <1>3, LeaveFit DEF WriteEdit, SoftDelete, WriteState, Crash
  <1>4. ASSUME NEW w \in Workers
        PROVE  ~(GetRegistry(w) \/ ReadRegistry(w) \/ WriteCounts(w) \/ CreateVoter(w))
    BY <1>1 DEF GetRegistry, ReadRegistry, WriteCounts, CreateVoter, Writes, Fit
  <1>5. ASSUME NEW w \in Workers, ReadAgain(w) \/ CheckRegistry(w)
        PROVE  AllFit' /\ UNCHANGED lists
    <2>1. UNCHANGED lists
      BY <1>5 DEF ReadAgain, CheckRegistry
    <2>2. CASE Leave(w)
      BY <1>1, <2>1, <2>2, LeaveFit
    <2>3. CASE ReadAgain(w) /\ ~Leave(w)
      BY <1>1, <2>1, <2>3, GotoFit DEF ReadAgain, CallOf
    <2>4. CASE CheckRegistry(w) /\ ~Leave(w)
      <3>1. Goto(w, "listVoters") /\ Ready(registry)
        BY <2>4 DEF CheckRegistry
      <3>2. linked
        BY <3>1 DEF NothingYet, NoRegistry, Ready
      <3>3. QED
        BY <1>1, <2>1, <3>1, <3>2, GotoFit
    <2>5. QED
      BY <1>5, <2>2, <2>3, <2>4
  <1>6. ASSUME NEW w \in Workers, ListVoters(w)
        PROVE  AllFit' /\ UNCHANGED lists
    BY <1>1, <1>6, ListFit DEF ListVoters
  <1>7. ASSUME NEW w \in Workers, Find(w)
        PROVE  AllFit' /\ UNCHANGED lists
    BY <1>1, <1>7, FindFit DEF Find
  <1>8. ASSUME NEW w \in Workers, CreateCredential(w) \/ CreateInvitation(w) \/ MarkSent(w)
        PROVE  AllFit' /\ UNCHANGED <<registry, voters>> /\ linked
    BY <1>1, <1>8, WritesFit DEF CreateCredential, CreateInvitation, MarkSent
  <1>9. ASSUME StartPasses PROVE AllFit' /\ UNCHANGED lists
    BY <1>1, <1>9 DEF StartPasses, AllFit
  <1>10. QED
    BY <1>2, <1>3, <1>4, <1>5, <1>6, <1>7, <1>8, <1>9 DEF Next, Step, lists

-----------------------------------------------------------------------------
(* The counts.                                                             *)

LEMMA OneLinkKept ==
  ASSUME BaseInv, OneLink, NEW e \in Editors, EditorStep(e)
  PROVE  OneLink'
  <1>1. Moves(e)
    BY EditorMoves DEF BaseInv
  <1>2. \A f \in Editors \ {e} : editing'[f] = editing[f]
    BY <1>1 DEF Moves
  <1>3. CASE Rests(e)
    <2>1. editing'[e].pc = "rest" /\ editing'[e].kind = "none"
      BY <1>3 DEF Rests, Resting
    <2>2. CASE WriteLink(e)
      <3>1. editing[e].kind = "link"
        BY <2>2 DEF WriteLink, OneLink
      <3>2. \A f \in Editors \ {e} : editing'[f].kind # "link"
        BY <1>2, <3>1 DEF OneLink
      <3>3. linked' /\ \A f \in Editors : editing'[f].kind # "link"
        BY <2>1, <2>2, <3>2 DEF WriteLink
      <3>4. \A f \in Editors : editing'[f].pc # "writeLink"
        BY <1>2, <2>1, <3>2 DEF OneLink
      <3>5. QED
        BY <3>3, <3>4 DEF OneLink
    <2>3. CASE ~WriteLink(e)
      <3>1. linked' = linked
        BY <2>3 DEF EditorStep, BeginEdit, FindRow, FindDuplicate, WriteRow, ReadSource,
                    WriteCopy, BeginLink, Abandon
      <3>2. QED
        BY <1>2, <2>1, <3>1 DEF OneLink
    <2>4. QED
      BY <2>2, <2>3
  <1>4. CASE ~Rests(e)
    <2>1. linked' = linked
      <3>1. ~WriteLink(e)
        BY <1>4, RestMoves DEF WriteLink, BaseInv
      <3>2. QED
        BY <3>1 DEF EditorStep, BeginEdit, FindRow, FindDuplicate, WriteRow, ReadSource,
                    WriteCopy, BeginLink, Abandon
    <2>2. CASE BeginsLink(e)
      <3>1. ~linked /\ \A f \in Editors : editing[f].kind # "link"
        BY <2>2 DEF BeginsLink, BeginLink
      <3>2. QED
        BY <1>2, <2>1, <2>2, <3>1 DEF OneLink, BeginsLink
    <2>3. CASE GoesOn(e) \/ Begins(e) \/ Reads(e)
      <3>1. /\ editing'[e].pc # "writeLink"
            /\ editing'[e].pc = "writeCopy" => linked
        <4>1. CASE GoesOn(e) \/ Begins(e)
          BY <4>1 DEF GoesOn, Begins
        <4>2. CASE Reads(e)
          <5>1. Synchronised
            BY <1>4, <4>2, RestMoves DEF Reads, ReadSource, BaseInv
          <5>2. QED
            BY <4>2, <5>1 DEF Reads, Synchronised
        <4>3. QED
          BY <2>3, <4>1, <4>2
      <3>2. editing'[e].kind # "link"
        <4>1. CASE Begins(e)
          BY <4>1 DEF Begins, FormOK, Edits
        <4>2. CASE GoesOn(e)
          BY <4>2 DEF GoesOn, OneLink
        <4>3. CASE Reads(e)
          BY <4>3 DEF Reads, ReadSource, OneLink
        <4>4. QED
          BY <2>3, <4>1, <4>2, <4>3
      <3>3. QED
        BY <1>2, <2>1, <3>1, <3>2 DEF OneLink
    <2>4. CASE editing' = editing
      BY <2>1, <2>4 DEF OneLink
    <2>5. QED
      BY <1>1, <1>4, <2>2, <2>3, <2>4 DEF Moves
  <1>5. QED
    BY <1>3, <1>4

(* A copy leaves exactly the voters of the list it was read from.          *)
LEMMA CopyReplaces ==
  ASSUME BaseInv, OneLink, ~linked => NothingYet, NEW e \in Editors,
         WriteCopy(e) \/ WriteLink(e)
  PROVE  /\ ActiveVoters' = editing[e].copy
         /\ registry' = Copied(editing[e].copy)
         /\ editing[e].copy \in SUBSET Voters
  <1>1. editing[e].copy \in SUBSET Voters
    BY DEF BaseInv, ManagedTypeOK, Editing
  <1>2. CASE WriteCopy(e)
    BY <1>1, <1>2 DEF WriteCopy, ActiveVoters
  <1>3. CASE WriteLink(e)
    <2>1. NothingYet
      BY <1>3 DEF WriteLink, OneLink
    <2>2. \A v \in Voters : invitations[v] = 0 /\ v \notin credentials
      BY <2>1 DEF NothingYet
    <2>3. \A v \in Voters : voters'[v] = IF v \in editing[e].copy THEN "active" ELSE "none"
      BY <1>3, <2>2 DEF WriteLink
    <2>4. QED
      BY <1>1, <1>3, <2>3 DEF WriteLink, ActiveVoters
  <1>4. QED
    BY <1>1, <1>2, <1>3

LEMMA ListKept ==
  ASSUME Operations \cap Bypassing = {}
  PROVE  ListInv /\ [ManagedNext]_allVars => ListInv'
  <1> SUFFICES ASSUME ListInv, [ManagedNext]_allVars PROVE ListInv'
    OBVIOUS
  <1>1. BaseInv /\ BaseInv'
    BY BaseKept DEF ListInv
  <1>2. CASE Next /\ UNCHANGED managed
    <2>1. AllFit' /\ UNCHANGED <<registry, voters>>
          /\ (~linked => UNCHANGED <<credentials, invitations>>)
      BY <1>1, <1>2, PreparationFit DEF ListInv
    <2>2. OneLink' /\ linked' = linked
      BY <1>2 DEF ListInv, OneLink, managed
    <2>3. (~linked => NothingYet)'
      BY <2>1, <2>2 DEF ListInv, NothingYet
    <2>4. CountsMatchCopy'
      BY <2>1, <2>2 DEF ListInv, CountsMatchCopy, ActiveVoters
    <2>5. QED
      BY <1>1, <2>1, <2>2, <2>3, <2>4 DEF ListInv
  <1>3. ASSUME NEW e \in Editors, EditorStep(e) PROVE ListInv'
    <2>1. OneLink'
      BY <1>1, <1>3, OneLinkKept DEF ListInv
    <2>2. work' = work
      BY <1>3 DEF EditorStep, BeginEdit, FindRow, FindDuplicate, WriteRow, ReadSource,
                  WriteCopy, BeginLink, WriteLink, Abandon, preparation
    <2>3. CASE WriteCopy(e) \/ WriteLink(e)
      <3>1. ActiveVoters' = editing[e].copy /\ registry' = Copied(editing[e].copy)
            /\ editing[e].copy \in SUBSET Voters
        BY <1>1, <2>3, CopyReplaces DEF ListInv
      <3>2. registry'.total = Cardinality(ActiveVoters')
        BY <3>1, CopiedType
      <3>4. CASE linked'
        <4>1. AllFit'
          <5>1. ASSUME NEW w \in Workers PROVE Fit(work[w], linked')
            BY <3>4 DEF ListInv, AllFit, Fit
          <5>2. QED
            BY <2>2, <5>1 DEF AllFit
        <4>2. CountsMatchCopy'
          BY <3>2 DEF CountsMatchCopy
        <4>3. QED
          BY <1>1, <2>1, <3>4, <4>1, <4>2 DEF ListInv
      <3>5. CASE ~linked'
        <4>1. WriteCopy(e) /\ ~linked
          BY <2>3, <3>5 DEF WriteCopy, WriteLink
        <4>2. QED
          BY <4>1 DEF ListInv, OneLink, WriteCopy
      <3>6. QED
        BY <3>4, <3>5
    <2>4. CASE ~(WriteCopy(e) \/ WriteLink(e))
      <3>1. UNCHANGED <<lists, linked>>
        BY <1>3, <2>4 DEF EditorStep, BeginEdit, FindRow, FindDuplicate, WriteRow, ReadSource,
                    BeginLink, Abandon, preparation
      <3>2. QED
        BY <1>1, <2>1, <2>2, <3>1 DEF ListInv, AllFit, NothingYet, CountsMatchCopy,
                                      ActiveVoters, lists
    <2>5. QED
      BY <2>3, <2>4
  <1>4. CASE UNCHANGED allVars
    BY <1>1, <1>4 DEF ListInv, AllFit, OneLink, NothingYet, CountsMatchCopy, ActiveVoters,
                      allVars, preparation, managed, lists
  <1>5. QED
    BY <1>2, <1>3, <1>4 DEF ManagedNext

LEMMA ListStarts == ManagedInit => ListInv
  <1> SUFFICES ASSUME ManagedInit PROVE ListInv
    OBVIOUS
  <1>1. BaseInv
    BY BaseStarts
  <1>2. AllFit
    BY IdleFit DEF ManagedInit, Init, AllFit
  <1>3. OneLink
    BY DEF ManagedInit, OneLink, Resting
  <1>4. NothingYet /\ CountsMatchCopy
    BY DEF ManagedInit, Init, NothingYet, CountsMatchCopy
  <1>5. QED
    BY <1>1, <1>2, <1>3, <1>4 DEF ListInv

(***************************************************************************)
(* While nothing imports or validates past the managed list, the count     *)
(* assertVoterRegistryReady judges a linked election by is that of its     *)
(* active voters, however the editors overlap, overtake each other or die: *)
(* each copy rewrites the rows and the counts in one transaction.          *)
(***************************************************************************)
THEOREM CountsCorrect ==
  ASSUME Operations \cap Bypassing = {}
  PROVE  ManagedSpec => []CountsMatchCopy
  <1>1. ListInv => CountsMatchCopy
    BY DEF ListInv
  <1>2. QED
    BY <1>1, ListStarts, ListKept, PTL DEF ManagedSpec

-----------------------------------------------------------------------------
(***************************************************************************)
(* The copy.  Sole is an editor's being alone; then what it has read is    *)
(* the list, and the copy is the list unless it is about to be made so.    *)
(***************************************************************************)
Sole == ~overlapped /\ crashes = 0

SoleInv ==
  Sole =>
    /\ \A e, f \in Editors : editing[e].pc # "rest" /\ editing[f].pc # "rest" => e = f
    /\ \A e \in Editors :
         editing[e].pc \in {"writeCopy", "writeLink"} => editing[e].copy = SourceVoters
    /\ (/\ Synchronised
        /\ \A e \in Editors : editing[e].pc \notin {"readSource", "writeCopy"})
       => ActiveVoters = SourceVoters

(* An election that has left the states of a draft does not come back.     *)
LEMMA NeverAgain ==
  ASSUME ListInv, Operations \cap Returning = {}, Operations \cap Bypassing = {},
         Next, UNCHANGED managed, Synchronised'
  PROVE  Synchronised
  <1>1. /\ \A w \in Workers : Fit(work[w], linked) /\ OnCourse(work[w], credentials)
        /\ UNCHANGED linked
    BY DEF ListInv, BaseInv, AllFit, WorkInv, managed
  <1>2. ASSUME NEW w \in Workers PROVE ~WriteEdit(w)
    BY <1>1 DEF WriteEdit, Fit, Returning
  <1>3. ASSUME NEW w \in Workers, WriteState(w) PROVE FALSE
    <2>1. work[w].kind \in {"open", "pause", "resume", "cancel"}
      BY <1>1, <1>3 DEF WriteState, OnCourse, Fit, StateWriters, Returning
    <2>2. election' \in {"open", "paused", "invalidated"}
      BY <1>3, <2>1 DEF WriteState, Target
    <2>3. QED
      BY <2>2 DEF Synchronised, PreStartStates
  <1>4. ASSUME NEW w \in Workers, SoftDelete(w) PROVE FALSE
    BY <1>4 DEF SoftDelete, Synchronised
  <1>5. ASSUME StartPasses PROVE FALSE
    BY <1>5 DEF StartPasses, Synchronised
  <1>6. ASSUME NEW w \in Workers, Step(w) \/ Crash(w), ~WriteEdit(w), ~WriteState(w),
               ~SoftDelete(w)
        PROVE  UNCHANGED record
    BY <1>6 DEF Step, Crash, GetRegistry, ReadRegistry, WriteCounts, ReadAgain, CheckRegistry,
                ListVoters, Find, CreateVoter, CreateCredential, CreateInvitation, MarkSent
  <1>7. ASSUME NEW w \in Workers, NEW kind \in Operations, Begin(w, kind)
        PROVE  UNCHANGED record
    BY <1>7 DEF Begin
  <1>8. UNCHANGED record
    BY <1>2, <1>3, <1>4, <1>5, <1>6, <1>7 DEF Next
  <1>9. QED
    BY <1>1, <1>8 DEF record, Synchronised

LEMMA SoleEditor ==
  ASSUME ListInv, SoleInv, NEW e \in Editors, EditorStep(e), NoteOverlap(e)
  PROVE  SoleInv'
  <1>1. ManagedTypeOK /\ Moves(e) /\ crashes \in Nat /\ BaseInv
    BY EditorMoves DEF ListInv, BaseInv, TypeOK
  <1>2. SUFFICES ASSUME Sole' PROVE SoleInv'
    BY DEF SoleInv
  <1>3. Sole
    <2>1. crashes' = crashes \/ crashes' = crashes + 1
      BY DEF EditorStep, BeginEdit, FindRow, FindDuplicate, WriteRow, ReadSource, WriteCopy,
             BeginLink, WriteLink, Abandon, preparation
    <2>2. crashes = 0
      BY <1>1, <1>2, <2>1 DEF Sole
    <2>3. ~overlapped
      BY <1>2 DEF NoteOverlap, Sole
    <2>4. QED
      BY <2>2, <2>3 DEF Sole
  <1>4. /\ \A f \in Editors \ {e} : editing[f].pc = "rest" /\ editing'[f].pc = "rest"
        /\ \A f \in Editors \ {e} : editing'[f] = editing[f]
    BY <1>1, <1>2 DEF NoteOverlap, Sole, Moves
  <1>5. ~Abandon(e) /\ UNCHANGED record
    <2>1. ~Abandon(e)
      BY <1>1, <1>2, <1>3 DEF Abandon, Sole
    <2>2. QED
      BY <2>1 DEF EditorStep, BeginEdit, FindRow, FindDuplicate, WriteRow, ReadSource,
             WriteCopy, BeginLink, WriteLink, preparation
  <1>6. \A f, g \in Editors : editing'[f].pc # "rest" /\ editing'[g].pc # "rest" => f = g
    BY <1>4
  <1>7. CASE WriteRow(e) /\ source' # source
    <2>1. editing'[e].pc = "readSource"
      <3>1. Proceed(e, "readSource")
        BY <1>7 DEF WriteRow
      <3>2. QED
        BY <1>1, <3>1, ProceedType DEF ManagedTypeOK
    <2>2. QED
      BY <1>4, <1>6, <2>1 DEF SoleInv
  <1>8. CASE WriteCopy(e) \/ WriteLink(e)
    <2>1. ActiveVoters' = editing[e].copy /\ Rests(e) /\ source' = source
      BY <1>1, <1>8, CopyReplaces, RestMoves DEF ListInv, WriteCopy, WriteLink
    <2>2. editing[e].copy = SourceVoters
      BY <1>3, <1>8 DEF SoleInv, WriteCopy, WriteLink
    <2>3. SourceVoters' = SourceVoters
      BY <2>1 DEF SourceVoters
    <2>4. \A f \in Editors : editing'[f].pc = "rest"
      BY <1>4, <2>1 DEF Rests, Resting
    <2>5. QED
      BY <1>6, <2>1, <2>2, <2>3, <2>4 DEF SoleInv
  <1>9. CASE /\ ~(WriteRow(e) /\ source' # source) /\ ~WriteCopy(e) /\ ~WriteLink(e)
    <2>1. UNCHANGED <<source, linked, voters>>
      BY <1>5, <1>9 DEF EditorStep, BeginEdit, FindRow, FindDuplicate, WriteRow, ReadSource,
             BeginLink, preparation, lists
    <2>2. /\ SourceVoters' = SourceVoters /\ ActiveVoters' = ActiveVoters
          /\ Synchronised' <=> Synchronised
      BY <1>5, <2>1 DEF SourceVoters, ActiveVoters, Synchronised, record
    <2>3. CASE Rests(e) \/ Begins(e) \/ GoesOn(e)
      <3>1. /\ editing'[e].pc \notin {"writeCopy", "writeLink"}
            /\ editing[e].pc # "writeCopy"
        <4>1. editing'[e].pc \notin {"writeCopy", "writeLink"}
          BY <2>3 DEF Rests, Begins, GoesOn, Resting
        <4>2. editing[e].pc # "writeCopy"
          BY <1>5, <1>9 DEF EditorStep, BeginEdit, FindRow, FindDuplicate, WriteRow,
                             ReadSource, BeginLink
        <4>3. QED
          BY <4>1, <4>2
      <3>2. \A f \in Editors : editing'[f].pc \notin {"writeCopy", "writeLink"}
        BY <1>4, <3>1
      <3>3. ASSUME Synchronised', \A f \in Editors : editing'[f].pc \notin {"readSource", "writeCopy"}
            PROVE  ActiveVoters' = SourceVoters'
        <4>1. editing[e].pc # "readSource"
          <5>1. CASE editing[e].pc = "readSource"
            <6>1. ReadSource(e)
              BY <1>5, <1>9, <5>1 DEF EditorStep, BeginEdit, FindRow, FindDuplicate,
                                      WriteRow, BeginLink
            <6>2. editing'[e].pc = "writeCopy"
              <7>1. editing' = [editing EXCEPT ![e].pc = "writeCopy", ![e].copy = SourceVoters]
                BY <2>2, <3>3, <6>1 DEF ReadSource
              <7>2. QED
                BY <1>1, <7>1 DEF ManagedTypeOK, Editing
            <6>3. QED
              BY <3>1, <6>2
          <5>2. QED
            BY <5>1
        <4>2. \A f \in Editors : editing[f].pc \notin {"readSource", "writeCopy"}
          BY <1>4, <3>1, <4>1
        <4>3. QED
          BY <1>3, <2>2, <3>3, <4>2 DEF SoleInv
      <3>4. QED
        BY <1>6, <3>2, <3>3 DEF SoleInv
    <2>4. CASE BeginsLink(e)
      <3>1. ~linked'
        BY <2>1, <2>4 DEF BeginsLink, BeginLink
      <3>2. ~Synchronised'
        BY <3>1 DEF Synchronised
      <3>3. editing'[e].copy = SourceVoters'
        BY <2>2, <2>4 DEF BeginsLink
      <3>4. QED
        BY <1>4, <1>6, <3>2, <3>3 DEF SoleInv
    <2>5. CASE Reads(e)
      <3>1. editing'[e].pc = "writeCopy" /\ editing'[e].copy = SourceVoters'
        BY <2>2, <2>5 DEF Reads
      <3>2. QED
        BY <1>4, <1>6, <3>1 DEF SoleInv
    <2>6. CASE editing' = editing
      BY <1>3, <1>6, <2>2, <2>6 DEF SoleInv
    <2>7. QED
      BY <1>1, <2>3, <2>4, <2>5, <2>6 DEF Moves
  <1>10. QED
    BY <1>7, <1>8, <1>9

LEMMA SoleKept ==
  ASSUME Operations \cap (Returning \cup Bypassing) = {}
  PROVE  ListInv /\ SoleInv /\ [ManagedNext]_allVars => SoleInv'
  <1> SUFFICES ASSUME ListInv, SoleInv, [ManagedNext]_allVars PROVE SoleInv'
    OBVIOUS
  <1>1. CASE Next /\ UNCHANGED managed
    <2>1. voters' = voters
      BY <1>1, PreparationFit DEF ListInv
    <2>2. Synchronised' => Synchronised
      BY <1>1, NeverAgain
    <2>3. Sole' => Sole
      <3>1. crashes' = crashes \/ crashes' = crashes + 1
        BY <1>1 DEF Next, Step, Begin, Crash, StartPasses, WriteEdit, SoftDelete, GetRegistry,
           ReadRegistry, WriteCounts, ReadAgain, CheckRegistry, ListVoters, Find, CreateVoter,
           CreateCredential, CreateInvitation, MarkSent, WriteState
      <3>2. QED
        BY <1>1, <3>1 DEF Sole, managed, ListInv, BaseInv, TypeOK
    <2>4. UNCHANGED <<SourceVoters, ActiveVoters, editing>>
      BY <1>1, <2>1 DEF managed, SourceVoters, ActiveVoters
    <2>5. QED
      BY <2>2, <2>3, <2>4 DEF SoleInv
  <1>2. ASSUME NEW e \in Editors, EditorStep(e), NoteOverlap(e) PROVE SoleInv'
    BY <1>2, SoleEditor
  <1>3. CASE UNCHANGED allVars
    BY <1>3 DEF SoleInv, Sole, Synchronised, SourceVoters, ActiveVoters, allVars, preparation,
                managed, record, lists
  <1>4. QED
    BY <1>1, <1>2, <1>3 DEF ManagedNext

LEMMA SoleStarts == ManagedInit => SoleInv
  BY DEF ManagedInit, SoleInv, Synchronised, Resting

(***************************************************************************)
(* While the election is not edited, reviewed, approved or scheduled, its  *)
(* voters are those of its list whenever no edit of the list is going on,  *)
(* unless two edits overlapped or an operation died: whatever is opened,   *)
(* resumed, cancelled or deleted between an edit and its synchronisation.  *)
(***************************************************************************)
THEOREM CopyCorrect ==
  ASSUME Operations \cap (Returning \cup Bypassing) = {}
  PROVE  ManagedSpec => []CopyIsCurrent
  <1>1. Operations \cap Bypassing = {}
    OBVIOUS
  <1>2. SoleInv => CopyIsCurrent
    BY DEF SoleInv, Sole, CopyIsCurrent
  <1>3. ListInv /\ [ManagedNext]_allVars => ListInv'
    BY <1>1, ListKept
  <1>4. ListInv /\ SoleInv /\ [ManagedNext]_allVars => SoleInv'
    BY SoleKept
  <1>5. QED
    BY <1>2, <1>3, <1>4, ListStarts, SoleStarts, PTL DEF ManagedSpec
===============================================================================
