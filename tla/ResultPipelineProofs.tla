------------------------- MODULE ResultPipelineProofs -------------------------
(***************************************************************************)
(* Proofs about ResultPipeline for any number of administrators whose      *)
(* operations overlap and die anywhere, and for any number of results,     *)
(* versions and corrections.                                               *)
(***************************************************************************)
EXTENDS ResultPipeline, SequenceTheorems, WellFoundedInduction, TLAPS

-----------------------------------------------------------------------------
(* Facts about the operators the steps are built from.                     *)

LEMMA GreatestOfSome ==
  ASSUME NEW n \in Nat, NEW T \in SUBSET (1..n), T # {}
  PROVE  \E i \in T : \A j \in T : j <= i
  <1> DEFINE D == {n - i : i \in T}
             R == OpToRel(<, Nat)
  <1>1. D \subseteq Nat /\ D # {}
    <2>1. \A i \in T : i \in 1..n
      OBVIOUS
    <2>2. \A i \in T : n - i \in Nat
      BY <2>1
    <2>3. QED
      BY <2>2
  <1>2. \A x, y \in Nat : x < y => <<x, y>> \in R
    BY DEF OpToRel
  <1>3. IsWellFoundedOn(R, Nat)
    BY NatLessThanWellFounded
  <1> HIDE DEF D, R
  <1>4. PICK x \in D : \A y \in D : ~(<<y, x>> \in R)
    BY <1>1, <1>3, WFMin
  <1>5. \A y \in D : x <= y
    <2>1. x \in Nat /\ \A y \in D : y \in Nat
      BY <1>1
    <2>2. \A y \in D : ~(y < x)
      BY <1>2, <1>4, <2>1
    <2>3. QED
      BY <2>1, <2>2
  <1>6. PICK i \in T : x = n - i
    BY <1>4 DEF D
  <1>7. \A j \in T : x <= n - j
    BY <1>5 DEF D
  <1>8. \A j \in T : j \in 1..n
    OBVIOUS
  <1>9. QED
    BY <1>6, <1>7, <1>8

LEMMA Tables ==
  ASSUME NEW kind \in Kinds
  PROVE  /\ FirstStep(kind) \in Steps \ {"writeHistory", "createResult", "approve",
              "readMaxVersion", "createVersion", "checkResult", "markPublished",
              "createCorrection", "createInvalidation"}
         /\ Target[kind] \in {"none"} \cup ElectionState
         /\ FirstStep(kind) = "writeState" =>
              Target[kind] \in {"paused", "open", "closed", "tallying"}
         /\ FirstStep(kind) = "findResult" => kind \in {"confirm", "approveCorrection"}
         /\ FirstStep(kind) = "findVersion" => Target[kind] = "published"
         /\ kind = "confirm" => Target[kind] = "confirmed"
         /\ kind = "invalidate" => Target[kind] = "invalidated"
  BY DEF Kinds, Transitions, FirstStep, Steps, Target, ElectionState, PreStartStates

-----------------------------------------------------------------------------
(* The inductive invariant.                                                *)

\* The rows a state announces.
RowsFor(state) ==
  /\ state \in {"pending_confirmation", "confirmed", "published"} => results > 0
  /\ state \in {"confirmed", "published"} => versions # <<>>
  /\ state = "published" => Published # {}
  /\ state = "invalidated" => invalidations # {}

\* What an operation may rely on at each of its calls, whatever the others
\* have written since it began.
Knows(o) ==
  /\ o.pc # "idle" => o.from \in ElectionState
  /\ o.pc \in {"writeState", "writeHistory"} => o.to \in ElectionState /\ RowsFor(o.to)
  /\ o.kind = "confirm" /\ o.pc \notin {"writeState", "writeHistory", "createResult"} =>
       o.to = "confirmed"
  /\ o.kind = "invalidate" /\ o.pc = "findPublished" => o.to = "invalidated"
  /\ o.pc = "createInvalidation" => o.to = "invalidated"
  /\ o.pc \in {"findVersion", "checkResult", "markPublished"} => o.to = "published"
  /\ o.pc \in {"approve", "readMaxVersion", "createVersion"} => results > 0
  /\ o.pc = "createVersion" => o.version \in 1..(Len(versions) + 1)
  /\ o.pc \in {"checkResult", "markPublished"} => o.version \in DOMAIN versions

RowsInv ==
  /\ TypeOK
  /\ VersionsNumberedInOrder
  /\ versions # <<>> => results > 0
  /\ StageHasItsRows
  /\ \A w \in Workers : Knows(work[w])

LEMMA IdleKnows == Idle \in Work /\ Knows(Idle)
  BY DEF Idle, Work, Knows

LEMMA Starts ==
  ASSUME Init
  PROVE  RowsInv
  <1>1. TypeOK
    BY IdleKnows DEF Init, TypeOK, ElectionState, PreStartStates, Version
  <1>2. VersionsNumberedInOrder /\ versions = <<>>
    BY DEF Init, VersionsNumberedInOrder
  <1>3. StageHasItsRows
    BY DEF Init, StageHasItsRows
  <1>4. \A w \in Workers : Knows(work[w])
    BY IdleKnows DEF Init
  <1>5. QED
    BY <1>1, <1>2, <1>3, <1>4 DEF RowsInv

\* Rows are added and marked, never taken away.
RowsGrow ==
  /\ results \in Nat /\ results' \in Nat /\ results <= results'
  /\ Len(versions) \in Nat /\ Len(versions') \in Nat /\ Len(versions) <= Len(versions')
  /\ versions # <<>> => versions' # <<>>
  /\ DOMAIN versions \subseteq DOMAIN versions'
  /\ Published \subseteq Published'
  /\ invalidations \subseteq invalidations'

LEMMA RowsStay ==
  ASSUME RowsGrow, NEW state, RowsFor(state)
  PROVE  RowsFor(state)'
  BY DEF RowsGrow, RowsFor

LEMMA OthersKnow ==
  ASSUME RowsGrow, NEW o, Knows(o)
  PROVE  Knows(o)'
  BY RowsStay DEF RowsGrow, Knows

-----------------------------------------------------------------------------
(* How a step is put together.                                             *)

Moved(w) ==
  /\ work' \in [Workers -> Work]
  /\ \A u \in Workers \ {w} : work'[u] = work[u]
  /\ Knows(work[w])'

LEMMA LeaveMoves ==
  ASSUME TypeOK, NEW w \in Workers, Leave(w)
  PROVE  Moved(w)
  <1>1. /\ work' \in [Workers -> Work] /\ work'[w] = Idle
        /\ \A u \in Workers \ {w} : work'[u] = work[u]
    BY IdleKnows DEF TypeOK, Leave
  <1>2. Idle.pc = "idle" /\ Idle.kind = "none"
    BY DEF Idle
  <1>3. Knows(work[w])'
    BY <1>1, <1>2 DEF Knows
  <1>4. QED
    BY <1>1, <1>3 DEF Moved

LEMMA PutIn ==
  ASSUME TypeOK, NEW w \in Workers, NEW new \in Work, work' = [work EXCEPT ![w] = new]
  PROVE  /\ work' \in [Workers -> Work]
         /\ \A u \in Workers \ {w} : work'[u] = work[u]
         /\ work'[w] = new
  BY DEF TypeOK

LEMMA GotoMoves ==
  ASSUME TypeOK, NEW w \in Workers, NEW pc \in Steps, Goto(w, pc)
  PROVE  /\ work' \in [Workers -> Work]
         /\ \A u \in Workers \ {w} : work'[u] = work[u]
         /\ work'[w].pc = pc /\ work'[w].kind = work[w].kind
         /\ work'[w].from = work[w].from /\ work'[w].to = work[w].to
         /\ work'[w].result = work[w].result /\ work'[w].version = work[w].version
  BY DEF TypeOK, Goto, Work

LEMMA SameRows ==
  ASSUME TypeOK, UNCHANGED <<results, versions, invalidations>>
  PROVE  RowsGrow
  <1>1. Len(versions) \in Nat
    BY LenProperties DEF TypeOK
  <1>2. QED
    BY <1>1 DEF TypeOK, RowsGrow, Published

\* A step of worker w, whatever it adds.
LEMMA StepDone ==
  ASSUME RowsInv, NEW w \in Workers, Moved(w), RowsGrow,
         election' \in ElectionState, RowsFor(election)',
         history' \subseteq ({"none"} \cup ElectionState) \X ({"none"} \cup ElectionState),
         versions' \in Seq(Version), VersionsNumberedInOrder',
         versions' # <<>> => results' > 0,
         corrections' \in Seq({"requested", "approved"}),
         invalidations' \subseteq Nat, crashes' \in Nat
  PROVE  RowsInv'
  <1>1. TypeOK'
    BY DEF Moved, RowsGrow, TypeOK
  <1>2. StageHasItsRows'
    BY DEF RowsFor, StageHasItsRows
  <1>3. ASSUME NEW u \in Workers PROVE Knows(work[u])'
    <2>1. CASE u = w
      BY <2>1 DEF Moved
    <2>2. CASE u # w
      <3>1. PICK o : o = work[u] /\ Knows(o)
        BY DEF RowsInv
      <3>2. Knows(o)'
        BY <3>1, OthersKnow
      <3>3. work'[u] = o
        BY <2>2, <3>1 DEF Moved
      <3>4. QED
        BY <3>2, <3>3
    <2>3. QED
      BY <2>1, <2>2
  <1>4. QED
    BY <1>1, <1>2, <1>3 DEF RowsInv

\* A step of worker w that adds no row.
LEMMA StepAddsNothing ==
  ASSUME RowsInv, NEW w \in Workers, Moved(w),
         UNCHANGED <<results, versions, invalidations>>,
         election' \in ElectionState, RowsFor(election)',
         history' \subseteq ({"none"} \cup ElectionState) \X ({"none"} \cup ElectionState),
         corrections' \in Seq({"requested", "approved"}), crashes' \in Nat
  PROVE  RowsInv'
  <1>1. RowsGrow
    BY SameRows DEF RowsInv
  <1>2. VersionsNumberedInOrder'
    BY DEF RowsInv, VersionsNumberedInOrder
  <1>3. versions' \in Seq(Version) /\ (versions' # <<>> => results' > 0) /\ invalidations' \subseteq Nat
    BY DEF RowsInv, TypeOK
  <1>4. QED
    BY <1>1, <1>2, <1>3, StepDone

LEMMA StepReads ==
  ASSUME RowsInv, NEW w \in Workers, Moved(w),
         UNCHANGED <<election, history, results, versions, corrections, invalidations>>,
         crashes' \in Nat
  PROVE  RowsInv'
  <1>1. RowsFor(election)'
    BY DEF RowsInv, StageHasItsRows, RowsFor, Published
  <1>2. QED
    BY <1>1, StepAddsNothing DEF RowsInv, TypeOK

LEMMA KnowsOwn ==
  ASSUME RowsInv, NEW w \in Workers
  PROVE  work[w] \in Work /\ Knows(work[w]) /\ TypeOK
  BY DEF RowsInv, TypeOK

\* The latest version is the last one.
LEMMA LatestIsLast ==
  ASSUME RowsInv, versions # <<>>
  PROVE  /\ LatestVersion = Len(versions) /\ LatestVersion \in DOMAIN versions
         /\ Len(versions) \in Nat \ {0} /\ versions[LatestVersion].no = Len(versions)
  <1>1. DOMAIN versions = 1..Len(versions) /\ Len(versions) \in Nat /\ Len(versions) # 0
    BY LenProperties, EmptySeq DEF RowsInv, TypeOK
  <1>2. \A i \in DOMAIN versions : versions[i].no = i
    BY DEF RowsInv, VersionsNumberedInOrder
  <1>3. LatestVersion = CHOOSE i \in 1..Len(versions) : \A j \in 1..Len(versions) : j <= i
    BY <1>1, <1>2, ZenonT(60) DEF LatestVersion
  <1>4. Len(versions) \in 1..Len(versions)
    BY <1>1
  <1>5. \A i \in 1..Len(versions) :
          (\A j \in 1..Len(versions) : j <= i) <=> i = Len(versions)
    <2> DEFINE n == Len(versions)
    <2>1. n \in Nat /\ n \in 1..n
      BY <1>4, <1>1
    <2> HIDE DEF n
    <2>2. ASSUME NEW i \in 1..n PROVE (\A j \in 1..n : j <= i) => i = n
      <3>1. SUFFICES ASSUME \A j \in 1..n : j <= i PROVE i = n
        OBVIOUS
      <3>2. n <= i
        BY <2>1, <3>1
      <3>3. QED
        BY <2>1, <3>2
    <2>3. \A j \in 1..n : j <= n
      BY <2>1
    <2>4. QED
      BY <2>2, <2>3 DEF n
  <1>6. LatestVersion = Len(versions)
    BY <1>3, <1>4, <1>5
  <1>7. QED
    BY <1>1, <1>2, <1>4, <1>6

LEMMA PublicVersionTyped ==
  ASSUME RowsInv
  PROVE  /\ PublicVersion \in {0} \cup DOMAIN versions
         /\ PublicVersion \in Nat
  <1>1. DOMAIN versions = 1..Len(versions) /\ Len(versions) \in Nat
    BY LenProperties DEF RowsInv, TypeOK
  <1>2. Published \in SUBSET (1..Len(versions))
    BY <1>1 DEF Published
  <1>3. CASE Published # {}
    <2>1. PICK i \in Published : \A j \in Published : j <= i
      BY <1>1, <1>2, <1>3, GreatestOfSome
    <2>2. \A j \in Published : versions[j].no <= versions[i].no
      BY <1>1, <1>2, <2>1 DEF RowsInv, VersionsNumberedInOrder
    <2>3. PublicVersion \in Published
      BY <1>3, <2>1, <2>2 DEF PublicVersion
    <2>4. QED
      BY <1>1, <1>2, <2>3
  <1>4. QED
    BY <1>3 DEF PublicVersion

-----------------------------------------------------------------------------
(* The steps of a worker.                                                  *)

LEMMA BeginKeeps ==
  ASSUME RowsInv, NEW w \in Workers, NEW kind \in Kinds, Begin(w, kind)
  PROVE  RowsInv'
  <1>1. PICK c \in (IF kind = "approveCorrection" THEN DOMAIN corrections ELSE {0}) :
          work' = [work EXCEPT ![w] =
                     [Idle EXCEPT !.pc = FirstStep(kind), !.kind = kind, !.from = election,
                                  !.to = Target[kind], !.correction = c]]
    BY DEF Begin
  <1> DEFINE new == [Idle EXCEPT !.pc = FirstStep(kind), !.kind = kind, !.from = election,
                                 !.to = Target[kind], !.correction = c]
  <1>2. c \in Nat
    <2>1. DOMAIN corrections = 1..Len(corrections) /\ Len(corrections) \in Nat
      BY LenProperties DEF RowsInv, TypeOK
    <2>2. QED
      BY <2>1
  <1>3. FirstStep(kind) \in Steps
    BY Tables
  <1>4. /\ new \in Work /\ new.pc = FirstStep(kind) /\ new.kind = kind
        /\ new.from = election /\ new.to = Target[kind]
    BY <1>2, <1>3, Tables DEF Idle, Work, RowsInv, TypeOK
  <1> HIDE DEF new
  <1>5. /\ work' \in [Workers -> Work]
        /\ \A u \in Workers \ {w} : work'[u] = work[u]
        /\ work'[w] = new
    BY <1>1, <1>4 DEF new, RowsInv, TypeOK
  <1>6. FirstStep(kind) = "writeState" => Target[kind] \in ElectionState
    BY Tables DEF ElectionState, PreStartStates
  <1>7. Knows(work[w])'
    <2>1. /\ work'[w].pc = FirstStep(kind) /\ work'[w].kind = kind
          /\ work'[w].from \in ElectionState /\ work'[w].to = Target[kind]
      BY <1>4, <1>5 DEF RowsInv, TypeOK
    <2>2. ASSUME work'[w].pc = "writeState" PROVE RowsFor(work[w].to)'
      <3>1. work'[w].to \in {"paused", "open", "closed", "tallying"}
        <4>1. FirstStep(kind) = "writeState"
          BY <2>1, <2>2
        <4>2. Target[kind] \in {"paused", "open", "closed", "tallying"}
          BY <4>1, Tables
        <4>3. QED
          BY <2>1, <4>2
      <3>2. QED
        BY <3>1 DEF RowsFor
    <2>3. QED
      BY <2>1, <2>2, <1>6, Tables DEF Knows
  <1>8. QED
    BY <1>5, <1>7, StepReads DEF Moved, Begin, RowsInv, TypeOK

LEMMA WriteStateKeeps ==
  ASSUME RowsInv, NEW w \in Workers, WriteState(w)
  PROVE  RowsInv'
  <1>1. /\ work' \in [Workers -> Work]
        /\ \A u \in Workers \ {w} : work'[u] = work[u]
        /\ work'[w].pc = "writeHistory" /\ work'[w].kind = work[w].kind
        /\ work'[w].from = work[w].from /\ work'[w].to = work[w].to
    BY KnowsOwn, GotoMoves DEF WriteState, Steps
  <1>2. work[w].to \in ElectionState /\ RowsFor(work[w].to) /\ work[w].from \in ElectionState
    BY KnowsOwn DEF WriteState, Knows
  <1>3. UNCHANGED <<results, versions, invalidations>>
    BY DEF WriteState
  <1>4. RowsFor(work[w].to)'
    BY <1>1, <1>2, <1>3 DEF RowsFor, Published
  <1>5. Knows(work[w])'
    BY <1>1, <1>2, <1>4 DEF Knows
  <1>6. RowsFor(election)'
    BY <1>2, <1>3 DEF WriteState, RowsFor, Published
  <1>7. QED
    BY <1>1, <1>2, <1>5, <1>6, StepAddsNothing DEF Moved, WriteState, RowsInv, TypeOK

LEMMA WriteHistoryKeeps ==
  ASSUME RowsInv, NEW w \in Workers, WriteHistory(w)
  PROVE  RowsInv'
  <1>1. work[w].to \in ElectionState /\ work[w].from \in ElectionState
    BY KnowsOwn DEF WriteHistory, Knows
  <1>2. history' \subseteq ({"none"} \cup ElectionState) \X ({"none"} \cup ElectionState)
    BY <1>1 DEF WriteHistory, RowsInv, TypeOK
  <1>3. Moved(w)
    <2>1. CASE Goto(w, "createResult")
      <3>1. /\ work' \in [Workers -> Work]
            /\ \A u \in Workers \ {w} : work'[u] = work[u]
            /\ work'[w].pc = "createResult" /\ work'[w].from = work[w].from
        BY <2>1, KnowsOwn, GotoMoves DEF Steps
      <3>2. Knows(work[w])'
        BY <1>1, <3>1 DEF Knows
      <3>3. QED
        BY <3>1, <3>2 DEF Moved
    <2>2. CASE Leave(w)
      BY <2>2, KnowsOwn, LeaveMoves
    <2>3. QED
      BY <2>1, <2>2 DEF WriteHistory
  <1>4. RowsFor(election)'
    BY DEF WriteHistory, RowsInv, StageHasItsRows, RowsFor, Published
  <1>5. QED
    BY <1>2, <1>3, <1>4, StepAddsNothing DEF WriteHistory, RowsInv, TypeOK

LEMMA CreateResultKeeps ==
  ASSUME RowsInv, NEW w \in Workers, CreateResult(w)
  PROVE  RowsInv'
  <1>1. /\ work' \in [Workers -> Work]
        /\ \A u \in Workers \ {w} : work'[u] = work[u]
        /\ work'[w].pc = "writeState" /\ work'[w].kind = work[w].kind
        /\ work'[w].from = "tallying" /\ work'[w].to = "pending_confirmation"
    <2> DEFINE new == [work[w] EXCEPT !.pc = "writeState", !.from = "tallying",
                                      !.to = "pending_confirmation"]
    <2>1. /\ new \in Work /\ new.pc = "writeState" /\ new.kind = work[w].kind
          /\ new.from = "tallying" /\ new.to = "pending_confirmation"
      BY KnowsOwn DEF Work, Steps, ElectionState, PreStartStates
    <2>2. work' = [work EXCEPT ![w] = new]
      BY KnowsOwn DEF CreateResult, TypeOK, Work
    <2> HIDE DEF new
    <2>3. QED
      BY <2>1, <2>2, KnowsOwn, PutIn
  <1>2. results \in Nat /\ results' = results + 1 /\ Len(versions) \in Nat
    BY KnowsOwn, LenProperties DEF CreateResult, TypeOK
  <1>3. RowsGrow
    BY <1>2 DEF CreateResult, RowsGrow, Published
  <1>4. Knows(work[w])'
    BY <1>1, <1>2 DEF Knows, RowsFor, ElectionState, PreStartStates
  <1>5. RowsFor(election)'
    BY <1>2 DEF CreateResult, RowsInv, StageHasItsRows, RowsFor, Published
  <1>6. VersionsNumberedInOrder'
    BY DEF CreateResult, RowsInv, VersionsNumberedInOrder
  <1>7. QED
    BY <1>1, <1>2, <1>3, <1>4, <1>5, <1>6, StepDone DEF Moved, CreateResult, RowsInv, TypeOK

LEMMA FindResultKeeps ==
  ASSUME RowsInv, NEW w \in Workers, FindResult(w)
  PROVE  RowsInv'
  <1>1. CASE results = 0
    BY <1>1, KnowsOwn, LeaveMoves, StepReads DEF FindResult, TypeOK
  <1>2. CASE results # 0
    <2>1. results \in Nat /\ results > 0 /\ UNCHANGED results
      BY <1>2, KnowsOwn DEF FindResult, TypeOK
    <2>2. /\ work' \in [Workers -> Work]
          /\ \A u \in Workers \ {w} : work'[u] = work[u]
          /\ work'[w].pc = IF work[w].kind = "confirm" THEN "readMaxVersion" ELSE "approve"
          /\ work'[w].kind = work[w].kind
          /\ work'[w].from = work[w].from /\ work'[w].to = work[w].to
      <3> DEFINE new == [work[w] EXCEPT !.result = results,
                           !.pc = IF work[w].kind = "confirm" THEN "readMaxVersion" ELSE "approve"]
      <3>1. /\ new \in Work /\ new.kind = work[w].kind
            /\ new.pc = IF work[w].kind = "confirm" THEN "readMaxVersion" ELSE "approve"
            /\ new.from = work[w].from /\ new.to = work[w].to
        BY <2>1, KnowsOwn DEF Work, Steps
      <3>2. work' = [work EXCEPT ![w] = new]
        BY <1>2, KnowsOwn DEF FindResult, TypeOK, Work
      <3> HIDE DEF new
      <3>3. QED
        BY <3>1, <3>2, KnowsOwn, PutIn
    <2>3. Knows(work[w])'
      BY <2>1, <2>2, KnowsOwn DEF FindResult, Knows
    <2>4. QED
      BY <2>2, <2>3, StepReads DEF Moved, FindResult, RowsInv, TypeOK
  <1>3. QED
    BY <1>1, <1>2

LEMMA ApproveKeeps ==
  ASSUME RowsInv, NEW w \in Workers, Approve(w)
  PROVE  RowsInv'
  <1>1. /\ work' \in [Workers -> Work]
        /\ \A u \in Workers \ {w} : work'[u] = work[u]
        /\ work'[w].pc = "readMaxVersion" /\ work'[w].kind = work[w].kind
        /\ work'[w].from = work[w].from /\ work'[w].to = work[w].to
    BY KnowsOwn, GotoMoves DEF Approve, Steps
  <1>2. Knows(work[w])'
    BY <1>1, KnowsOwn DEF Approve, Knows
  <1>3. corrections' \in Seq({"requested", "approved"})
    <2> DEFINE c == work[w].correction
    <2>1. corrections \in Seq({"requested", "approved"})
      BY KnowsOwn DEF TypeOK
    <2>2. corrections' = [corrections EXCEPT ![c] = "approved"]
      BY DEF Approve
    <2> HIDE DEF c
    <2>3. DOMAIN corrections = 1..Len(corrections)
      BY <2>1, LenProperties
    <2>4. CASE c \in DOMAIN corrections
      BY <2>1, <2>2, <2>3, <2>4, ExceptSeq
    <2>5. CASE c \notin DOMAIN corrections
      <3>1. corrections \in [1..Len(corrections) -> {"requested", "approved"}]
        BY <2>1, LenProperties
      <3>2. corrections' \in [1..Len(corrections) -> {"requested", "approved"}]
        BY <2>2, <3>1
      <3>3. QED
        BY <2>1, <3>2, LenProperties, SeqDef
    <2>6. QED
      BY <2>4, <2>5
  <1>4. RowsFor(election)'
    BY DEF Approve, RowsInv, StageHasItsRows, RowsFor, Published
  <1>5. QED
    BY <1>1, <1>2, <1>3, <1>4, StepAddsNothing DEF Moved, Approve, RowsInv, TypeOK

LEMMA ReadMaxVersionKeeps ==
  ASSUME RowsInv, NEW w \in Workers, ReadMaxVersion(w)
  PROVE  RowsInv'
  <1> DEFINE no == IF versions = <<>> THEN 1 ELSE versions[LatestVersion].no + 1
  <1>1. Len(versions) \in Nat
    BY KnowsOwn, LenProperties DEF TypeOK
  <1>2. no \in 1..(Len(versions) + 1) /\ no \in Nat
    BY <1>1, LatestIsLast
  <1> HIDE DEF no
  <1>3. /\ work' \in [Workers -> Work]
        /\ \A u \in Workers \ {w} : work'[u] = work[u]
        /\ work'[w].pc = "createVersion" /\ work'[w].kind = work[w].kind
        /\ work'[w].from = work[w].from /\ work'[w].to = work[w].to
        /\ work'[w].version = no
    <2> DEFINE new == [work[w] EXCEPT !.pc = "createVersion", !.version = no]
    <2>1. /\ new \in Work /\ new.pc = "createVersion" /\ new.kind = work[w].kind
          /\ new.from = work[w].from /\ new.to = work[w].to /\ new.version = no
      BY <1>2, KnowsOwn DEF Work, Steps
    <2>2. work' = [work EXCEPT ![w] = new]
      BY KnowsOwn DEF ReadMaxVersion, TypeOK, Work, no
    <2> HIDE DEF new
    <2>3. QED
      BY <2>1, <2>2, KnowsOwn, PutIn
  <1>4. UNCHANGED <<results, versions>>
    BY DEF ReadMaxVersion
  <1>5. Knows(work[w])'
    BY <1>2, <1>3, <1>4, KnowsOwn DEF ReadMaxVersion, Knows
  <1>6. QED
    BY <1>3, <1>5, StepReads DEF Moved, ReadMaxVersion, RowsInv, TypeOK

LEMMA NewVersionTyped ==
  ASSUME RowsInv, NEW w \in Workers
  PROVE  /\ NewVersion(w) \in Version
         /\ NewVersion(w).no = work[w].version /\ NewVersion(w).status = "confirmed"
  BY KnowsOwn DEF NewVersion, Version, Work

LEMMA CreateVersionKeeps ==
  ASSUME RowsInv, NEW w \in Workers, CreateVersion(w)
  PROVE  RowsInv'
  <1>1. CASE Leave(w) /\ UNCHANGED versions
    BY <1>1, KnowsOwn, LeaveMoves, StepReads DEF CreateVersion, TypeOK
  <1>2. CASE /\ work[w].version \notin {versions[i].no : i \in DOMAIN versions}
             /\ versions' = Append(versions, NewVersion(w)) /\ AfterVersion(w)
    <2> DEFINE new == NewVersion(w)
    <2>1. /\ Len(versions) \in Nat /\ versions \in Seq(Version) /\ results > 0
          /\ DOMAIN versions = 1..Len(versions)
          /\ work[w].version \in 1..(Len(versions) + 1)
      BY KnowsOwn, LenProperties DEF CreateVersion, Knows, TypeOK
    <2>2. \A i \in DOMAIN versions : versions[i].no = i
      BY DEF RowsInv, VersionsNumberedInOrder
    <2>3. work[w].version = Len(versions) + 1
      <3>1. work[w].version \notin 1..Len(versions)
        BY <1>2, <2>1, <2>2
      <3>2. QED
        BY <2>1, <3>1
    <2>4. new \in Version /\ new.no = Len(versions) + 1
      BY <2>3, NewVersionTyped
    <2>5. versions' = Append(versions, new)
      BY <1>2
    <2> HIDE DEF new
    <2>6. /\ versions' \in Seq(Version) /\ Len(versions') = Len(versions) + 1
          /\ DOMAIN versions' = 1..(Len(versions) + 1)
          /\ \A i \in 1..Len(versions) : versions'[i] = versions[i]
          /\ versions'[Len(versions) + 1] = new
      BY <2>1, <2>4, <2>5, AppendProperties, LenProperties
    <2>7. VersionsNumberedInOrder'
      BY <2>1, <2>2, <2>4, <2>6 DEF VersionsNumberedInOrder
    <2>8. versions' # <<>>
      BY <2>1, <2>6, EmptySeq
    <2>9. RowsGrow
      <3>1. Published \subseteq Published'
        BY <2>1, <2>6 DEF Published
      <3>2. results \in Nat /\ UNCHANGED <<results, invalidations>>
        BY KnowsOwn DEF CreateVersion, TypeOK
      <3>3. QED
        BY <2>1, <2>6, <2>8, <3>1, <3>2 DEF RowsGrow
    <2>10. Moved(w)
      <3>1. CASE Leave(w)
        BY <3>1, KnowsOwn, LeaveMoves
      <3>2. CASE work[w].kind = "confirm" /\ Goto(w, "writeState")
        <4>1. /\ work' \in [Workers -> Work]
              /\ \A u \in Workers \ {w} : work'[u] = work[u]
              /\ work'[w].pc = "writeState" /\ work'[w].kind = work[w].kind
              /\ work'[w].from = work[w].from /\ work'[w].to = work[w].to
          BY <3>2, KnowsOwn, GotoMoves DEF Steps
        <4>2. work[w].to = "confirmed" /\ work[w].from \in ElectionState
          BY <3>2, KnowsOwn DEF CreateVersion, Knows
        <4>3. RowsFor(work[w].to)'
          <5>1. work'[w].to = "confirmed" /\ results' > 0
            BY <2>1, <4>1, <4>2 DEF CreateVersion
          <5>2. QED
            BY <2>8, <5>1 DEF RowsFor
        <4>4. Knows(work[w])'
          BY <4>1, <4>2, <4>3 DEF Knows, ElectionState
        <4>5. QED
          BY <4>1, <4>4 DEF Moved
      <3>3. QED
        BY <1>2, <3>1, <3>2 DEF AfterVersion
    <2>11. RowsFor(election)'
      <3>1. RowsFor(election) /\ UNCHANGED election
        BY DEF CreateVersion, RowsInv, StageHasItsRows, RowsFor
      <3>2. PICK e : e = election /\ RowsFor(e)
        BY <3>1
      <3>3. RowsFor(e)'
        BY <2>9, <3>2, RowsStay
      <3>4. QED
        BY <3>1, <3>2, <3>3
    <2>12. results' > 0
      BY <2>1 DEF CreateVersion
    <2>13. QED
      BY <2>6, <2>7, <2>9, <2>10, <2>11, <2>12, StepDone DEF CreateVersion, RowsInv, TypeOK
  <1>3. QED
    BY <1>1, <1>2 DEF CreateVersion, Numbers

LEMMA FindVersionKeeps ==
  ASSUME RowsInv, NEW w \in Workers, FindVersion(w)
  PROVE  RowsInv'
  <1>1. CASE Leave(w)
    BY <1>1, KnowsOwn, LeaveMoves, StepReads DEF FindVersion, TypeOK
  <1>2. CASE /\ versions # <<>>
             /\ work' = [work EXCEPT ![w].pc = "checkResult", ![w].version = LatestVersion]
    <2> DEFINE new == [work[w] EXCEPT !.pc = "checkResult", !.version = LatestVersion]
    <2>1. LatestVersion \in DOMAIN versions /\ LatestVersion \in Nat
      BY <1>2, LatestIsLast
    <2>2. /\ new \in Work /\ new.pc = "checkResult" /\ new.kind = work[w].kind
          /\ new.from = work[w].from /\ new.to = work[w].to /\ new.version = LatestVersion
      BY <2>1, KnowsOwn DEF Work, Steps
    <2>3. work' = [work EXCEPT ![w] = new]
      BY <1>2, KnowsOwn DEF TypeOK, Work
    <2> HIDE DEF new
    <2>4. /\ work' \in [Workers -> Work]
          /\ \A u \in Workers \ {w} : work'[u] = work[u]
          /\ work'[w] = new
      BY <2>2, <2>3, KnowsOwn, PutIn
    <2>5. Knows(work[w])'
      <3>1. /\ work'[w].pc = "checkResult" /\ work'[w].from \in ElectionState
            /\ work'[w].to = "published" /\ work'[w].version \in DOMAIN versions'
            /\ work'[w].kind = work[w].kind
        BY <2>1, <2>2, <2>4, KnowsOwn DEF FindVersion, Knows
      <3>2. work[w].kind # "confirm"
        BY KnowsOwn DEF FindVersion, Knows
      <3>3. QED
        BY <3>1, <3>2 DEF Knows
    <2>6. QED
      BY <2>4, <2>5, StepReads DEF Moved, FindVersion, RowsInv, TypeOK
  <1>3. QED
    BY <1>1, <1>2 DEF FindVersion

LEMMA CheckResultKeeps ==
  ASSUME RowsInv, NEW w \in Workers, CheckResult(w)
  PROVE  RowsInv'
  <1>1. CASE Leave(w)
    BY <1>1, KnowsOwn, LeaveMoves, StepReads DEF CheckResult, TypeOK
  <1>2. CASE Goto(w, "markPublished")
    <2>1. /\ work' \in [Workers -> Work]
          /\ \A u \in Workers \ {w} : work'[u] = work[u]
          /\ work'[w].pc = "markPublished" /\ work'[w].kind = work[w].kind
          /\ work'[w].from = work[w].from /\ work'[w].to = work[w].to
          /\ work'[w].version = work[w].version
      BY <1>2, KnowsOwn, GotoMoves DEF Steps
    <2>2. Knows(work[w])'
      BY <2>1, KnowsOwn DEF CheckResult, Knows
    <2>3. QED
      BY <2>1, <2>2, StepReads DEF Moved, CheckResult, RowsInv, TypeOK
  <1>3. QED
    BY <1>1, <1>2 DEF CheckResult

\* The mark changes one row, and of that the status and the writes only.
LEMMA MarkedRow ==
  ASSUME RowsInv, NEW w \in Workers, MarkPublished(w)
  PROVE  /\ versions' \in Seq(Version) /\ Len(versions') = Len(versions)
         /\ work[w].version \in 1..Len(versions)
         /\ \A i \in 1..Len(versions) :
              /\ CountsOf(versions'[i]) = CountsOf(versions[i])
              /\ versions'[i].no = versions[i].no
              /\ versions'[i].status =
                   IF i = work[w].version THEN "published" ELSE versions[i].status
  <1> DEFINE n == work[w].version
             writes == versions[n].writes + 1
             new == [versions[n] EXCEPT !.status = "published", !.writes = writes]
  <1>1. /\ versions \in Seq(Version) /\ n \in 1..Len(versions)
        /\ versions \in [1..Len(versions) -> Version]
    BY KnowsOwn, LenProperties DEF MarkPublished, Knows, TypeOK
  <1>2. versions[n] \in Version /\ writes \in Nat
    BY <1>1 DEF Version
  <1>3. versions' = [versions EXCEPT ![n] = new]
    BY <1>1, <1>2 DEF MarkPublished, Version
  <1> HIDE DEF writes
  <1>4. /\ new \in Version /\ new.status = "published" /\ new.no = versions[n].no
        /\ new.type = versions[n].type /\ new.result = versions[n].result
    BY <1>2 DEF Version
  <1> HIDE DEF new, n
  <1>5. /\ versions' \in Seq(Version) /\ Len(versions') = Len(versions)
        /\ \A j \in 1..Len(versions) : versions'[j] = IF j = n THEN new ELSE versions[j]
    BY <1>1, <1>4, <1>3, ExceptSeq
  <1>6. QED
    BY <1>1, <1>4, <1>5 DEF CountsOf, n

LEMMA MarkPublishedKeeps ==
  ASSUME RowsInv, NEW w \in Workers, MarkPublished(w)
  PROVE  RowsInv'
  <1>1. /\ work' \in [Workers -> Work]
        /\ \A u \in Workers \ {w} : work'[u] = work[u]
        /\ work'[w].pc = "writeState" /\ work'[w].kind = work[w].kind
        /\ work'[w].from = work[w].from /\ work'[w].to = work[w].to
    BY KnowsOwn, GotoMoves DEF MarkPublished, Steps
  <1>2. /\ versions \in Seq(Version) /\ Len(versions) \in Nat
        /\ DOMAIN versions = 1..Len(versions) /\ DOMAIN versions' = 1..Len(versions)
    BY KnowsOwn, MarkedRow, LenProperties DEF TypeOK
  <1>3. work[w].version \in Published' /\ Published \subseteq Published'
    BY <1>2, MarkedRow DEF Published
  <1>4. versions # <<>> /\ versions' # <<>>
    <2>1. Len(versions) # 0 /\ Len(versions') # 0
      BY <1>2, MarkedRow
    <2>2. QED
      BY <2>1, EmptySeq
  <1>5. results \in Nat /\ results > 0 /\ UNCHANGED <<results, invalidations, election>>
    BY <1>4, KnowsOwn DEF MarkPublished, RowsInv, TypeOK
  <1>6. RowsGrow
    BY <1>2, <1>3, <1>4, <1>5, MarkedRow DEF RowsGrow
  <1>7. VersionsNumberedInOrder'
    BY <1>2, MarkedRow DEF RowsInv, VersionsNumberedInOrder
  <1>8. Knows(work[w])'
    <2>1. work'[w].to = "published" /\ work'[w].from \in ElectionState
      BY <1>1, KnowsOwn DEF MarkPublished, Knows
    <2>2. RowsFor(work[w].to)'
      BY <1>3, <1>4, <1>5, <2>1 DEF RowsFor
    <2>3. QED
      BY <1>1, <2>1, <2>2 DEF Knows, ElectionState
  <1>9. RowsFor(election)'
    <2>1. PICK e : e = election /\ RowsFor(e)
      BY DEF RowsInv, StageHasItsRows, RowsFor
    <2>2. RowsFor(e)'
      BY <1>6, <2>1, RowsStay
    <2>3. QED
      BY <1>5, <2>1, <2>2
  <1>10. QED
    BY <1>1, <1>5, <1>6, <1>7, <1>8, <1>9, MarkedRow, StepDone
       DEF Moved, MarkPublished, RowsInv, TypeOK

LEMMA FindPublishedKeeps ==
  ASSUME RowsInv, NEW w \in Workers, FindPublished(w)
  PROVE  RowsInv'
  <1>1. CASE Leave(w)
    BY <1>1, KnowsOwn, LeaveMoves, StepReads DEF FindPublished, TypeOK
  <1>2. CASE Goto(w, "createCorrection") /\ work[w].kind # "invalidate"
    <2>1. /\ work' \in [Workers -> Work]
          /\ \A u \in Workers \ {w} : work'[u] = work[u]
          /\ work'[w].pc = "createCorrection" /\ work'[w].kind = work[w].kind
          /\ work'[w].from = work[w].from /\ work'[w].to = work[w].to
      BY <1>2, KnowsOwn, GotoMoves DEF Steps
    <2>2. Knows(work[w])'
      BY <2>1, KnowsOwn DEF FindPublished, Knows
    <2>3. QED
      BY <2>1, <2>2, StepReads DEF Moved, FindPublished, RowsInv, TypeOK
  <1>3. CASE /\ work[w].kind = "invalidate"
             /\ work' = [work EXCEPT ![w].pc = "createInvalidation", ![w].version = PublicVersion]
    <2> DEFINE new == [work[w] EXCEPT !.pc = "createInvalidation", !.version = PublicVersion]
    <2>1. /\ new \in Work /\ new.pc = "createInvalidation" /\ new.kind = work[w].kind
          /\ new.from = work[w].from /\ new.to = work[w].to
      BY KnowsOwn, PublicVersionTyped DEF Work, Steps
    <2>2. work' = [work EXCEPT ![w] = new]
      BY <1>3, KnowsOwn DEF TypeOK, Work
    <2> HIDE DEF new
    <2>3. /\ work' \in [Workers -> Work]
          /\ \A u \in Workers \ {w} : work'[u] = work[u]
          /\ work'[w] = new
      BY <2>1, <2>2, KnowsOwn, PutIn
    <2>4. Knows(work[w])'
      <3>1. /\ work'[w].pc = "createInvalidation" /\ work'[w].from \in ElectionState
            /\ work'[w].to = "invalidated" /\ work'[w].kind = "invalidate"
        BY <1>3, <2>1, <2>3, KnowsOwn DEF FindPublished, Knows
      <3>2. QED
        BY <3>1 DEF Knows
    <2>5. QED
      BY <2>3, <2>4, StepReads DEF Moved, FindPublished, RowsInv, TypeOK
  <1>4. QED
    BY <1>1, <1>2, <1>3 DEF FindPublished

LEMMA CreateCorrectionKeeps ==
  ASSUME RowsInv, NEW w \in Workers, CreateCorrection(w)
  PROVE  RowsInv'
  <1>1. corrections' \in Seq({"requested", "approved"})
    BY KnowsOwn, AppendProperties DEF CreateCorrection, TypeOK
  <1>2. Moved(w)
    BY KnowsOwn, LeaveMoves DEF CreateCorrection
  <1>3. RowsFor(election)'
    BY DEF CreateCorrection, RowsInv, StageHasItsRows, RowsFor, Published
  <1>4. QED
    BY <1>1, <1>2, <1>3, StepAddsNothing DEF CreateCorrection, RowsInv, TypeOK

LEMMA CreateInvalidationKeeps ==
  ASSUME RowsInv, NEW w \in Workers, CreateInvalidation(w)
  PROVE  RowsInv'
  <1>1. /\ work' \in [Workers -> Work]
        /\ \A u \in Workers \ {w} : work'[u] = work[u]
        /\ work'[w].pc = "writeState" /\ work'[w].kind = work[w].kind
        /\ work'[w].from = work[w].from /\ work'[w].to = work[w].to
    BY KnowsOwn, GotoMoves DEF CreateInvalidation, Steps
  <1>2. /\ invalidations' \subseteq Nat /\ invalidations' # {}
        /\ invalidations \subseteq invalidations'
    BY KnowsOwn DEF CreateInvalidation, TypeOK, Work
  <1>3. RowsGrow
    <2>1. Len(versions) \in Nat /\ results \in Nat
      BY KnowsOwn, LenProperties DEF TypeOK
    <2>2. QED
      BY <1>2, <2>1 DEF CreateInvalidation, RowsGrow, Published
  <1>4. Knows(work[w])'
    <2>1. work'[w].to = "invalidated" /\ work'[w].from \in ElectionState
      BY <1>1, KnowsOwn DEF CreateInvalidation, Knows
    <2>2. RowsFor(work[w].to)'
      BY <1>2, <2>1 DEF RowsFor
    <2>3. work'[w].to \in ElectionState
      BY <2>1 DEF ElectionState
    <2>4. QED
      BY <1>1, <2>1, <2>2, <2>3 DEF Knows
  <1>5. RowsFor(election)'
    <2>1. PICK e : e = election /\ RowsFor(e)
      BY DEF RowsInv, StageHasItsRows, RowsFor
    <2>2. RowsFor(e)'
      BY <1>3, <2>1, RowsStay
    <2>3. QED
      BY <2>1, <2>2 DEF CreateInvalidation
  <1>6. VersionsNumberedInOrder'
    BY DEF CreateInvalidation, RowsInv, VersionsNumberedInOrder
  <1>7. QED
    BY <1>1, <1>2, <1>3, <1>4, <1>5, <1>6, StepDone DEF Moved, CreateInvalidation, RowsInv, TypeOK

LEMMA CrashKeeps ==
  ASSUME RowsInv, NEW w \in Workers, Crash(w)
  PROVE  RowsInv'
  BY KnowsOwn, LeaveMoves, StepReads DEF Crash, TypeOK

LEMMA Kept ==
  ASSUME RowsInv, [Next]_vars
  PROVE  RowsInv'
  <1>1. CASE UNCHANGED vars
    BY <1>1 DEF vars, RowsInv, TypeOK, VersionsNumberedInOrder, StageHasItsRows, Knows,
                RowsFor, Published
  <1>2. ASSUME NEW w \in Workers, Step(w) PROVE RowsInv'
    BY <1>2, WriteStateKeeps, WriteHistoryKeeps, CreateResultKeeps, FindResultKeeps,
       ApproveKeeps, ReadMaxVersionKeeps, CreateVersionKeeps, FindVersionKeeps,
       CheckResultKeeps, MarkPublishedKeeps, FindPublishedKeeps, CreateCorrectionKeeps,
       CreateInvalidationKeeps DEF Step
  <1>3. QED
    BY <1>1, <1>2, BeginKeeps, CrashKeeps DEF Next

-----------------------------------------------------------------------------
(***************************************************************************)
(* However many administrative operations overlap and wherever they die,   *)
(* every variable of ResultPipeline keeps its type.                        *)
(***************************************************************************)
THEOREM TypeCorrect == Spec => []TypeOK
  <1>1. Init => RowsInv
    BY Starts
  <1>2. RowsInv /\ [Next]_vars => RowsInv'
    BY Kept
  <1>3. RowsInv => TypeOK
    BY DEF RowsInv
  <1>4. QED
    BY <1>1, <1>2, <1>3, PTL DEF Spec

(***************************************************************************)
(* The state of the election never runs ahead of the rows it announces,    *)
(* although no write looks at the state it replaces.                       *)
(***************************************************************************)
THEOREM StageCorrect == Spec => []StageHasItsRows
  <1>1. Init => RowsInv
    BY Starts
  <1>2. RowsInv /\ [Next]_vars => RowsInv'
    BY Kept
  <1>3. RowsInv => StageHasItsRows
    BY DEF RowsInv
  <1>4. QED
    BY <1>1, <1>2, <1>3, PTL DEF Spec

(***************************************************************************)
(* Confirmations and approvals may read the same greatest number and write *)
(* in any order: the versions are numbered 1, 2, 3, ... as inserted.       *)
(***************************************************************************)
THEOREM NumberingCorrect == Spec => []VersionsNumberedInOrder
  <1>1. Init => RowsInv
    BY Starts
  <1>2. RowsInv /\ [Next]_vars => RowsInv'
    BY Kept
  <1>3. RowsInv => VersionsNumberedInOrder
    BY DEF RowsInv
  <1>4. QED
    BY <1>1, <1>2, <1>3, PTL DEF Spec

LEMMA PublishedStep ==
  ASSUME RowsInv, Next
  PROVE  \A i \in Published : /\ i \in Published'
                             /\ CountsOf(versions'[i]) = CountsOf(versions[i])
  <1> DEFINE Keep == \A i \in Published : /\ i \in Published'
                                           /\ CountsOf(versions'[i]) = CountsOf(versions[i])
  <1>1. UNCHANGED versions => Keep
    BY DEF Published
  <1>2. ASSUME NEW w \in Workers, CreateVersion(w) PROVE Keep
    <2>1. CASE UNCHANGED versions
      BY <1>1, <2>1
    <2>2. CASE versions' = Append(versions, NewVersion(w))
      <3>1. /\ DOMAIN versions = 1..Len(versions) /\ Len(versions) \in Nat
            /\ versions \in Seq(Version) /\ NewVersion(w) \in Version
        BY <1>2, NewVersionTyped, LenProperties DEF RowsInv, TypeOK
      <3>2. /\ versions' \in Seq(Version) /\ Len(versions') = Len(versions) + 1
            /\ \A i \in 1..Len(versions) : versions'[i] = versions[i]
        BY <2>2, <3>1, AppendProperties
      <3>3. DOMAIN versions' = 1..(Len(versions) + 1)
        BY <3>2, LenProperties
      <3>4. QED
        BY <3>1, <3>2, <3>3 DEF Published
    <2>3. QED
      BY <1>2, <2>1, <2>2 DEF CreateVersion
  <1>3. ASSUME NEW w \in Workers, MarkPublished(w) PROVE Keep
    <2>1. DOMAIN versions = 1..Len(versions) /\ DOMAIN versions' = 1..Len(versions)
      BY <1>3, MarkedRow, LenProperties DEF RowsInv, TypeOK
    <2>2. QED
      BY <1>3, <2>1, MarkedRow DEF Published
  <1>4. ASSUME NEW w \in Workers, Crash(w)
        PROVE  UNCHANGED versions
    BY <1>4 DEF Crash
  <1>5. ASSUME NEW w \in Workers, Step(w), ~CreateVersion(w), ~MarkPublished(w)
        PROVE  UNCHANGED versions
    BY <1>5 DEF Step, WriteState, WriteHistory, CreateResult, FindResult, Approve,
                ReadMaxVersion, FindVersion, CheckResult, FindPublished,
                CreateCorrection, CreateInvalidation
  <1>6. ASSUME NEW w \in Workers, NEW kind \in Kinds, Begin(w, kind) PROVE UNCHANGED versions
    BY <1>6 DEF Begin
  <1>7. QED
    BY <1>1, <1>2, <1>3, <1>4, <1>5, <1>6 DEF Next

(***************************************************************************)
(* INV-10 for the counts: a published version stays published and keeps    *)
(* its number, its type and the result it stands for.                      *)
(***************************************************************************)
THEOREM PublishedCorrect == Spec => PublishedCountsKept
  <1>1. Init => RowsInv
    BY Starts
  <1>2. RowsInv /\ [Next]_vars => RowsInv'
    BY Kept
  <1>3. RowsInv /\ [Next]_vars =>
          [\A i \in Published : /\ i \in Published'
                                /\ CountsOf(versions'[i]) = CountsOf(versions[i])]_vars
    BY PublishedStep
  <1>4. QED
    BY <1>1, <1>2, <1>3, PTL DEF Spec, PublishedCountsKept

-----------------------------------------------------------------------------
(* One operation at a time, wherever each of them dies.                    *)

Early == PreStartStates \cup {"open", "paused", "closed"}

Corrections == {"requestCorrection", "approveCorrection"}

LEMMA EarlyFirst ==
  ASSUME NEW from \in ElectionState, NEW to \in ElectionState, CanTransition(from, to)
  PROVE  /\ to \in Early => from \in Early
         /\ to = "tallying" => from = "closed" /\ from \in Early
  BY DEF CanTransition, AllowedTransitions, Early, PreStartStates, ElectionState

LEMMA AllowedMoves ==
  ASSUME NEW kind \in Kinds, NEW state \in ElectionState, Allowed(kind, state)
  PROVE  /\ kind \notin Corrections => CanTransition(state, Target[kind])
         /\ kind = "publish" => state = "confirmed"
  <1>1. kind \in Transitions \cup {"tally"} => CanTransition(state, Target[kind])
    BY DEF Kinds, Transitions, Allowed, Target
  <1>2. kind = "confirm" => state = "pending_confirmation" /\ Target[kind] = "confirmed"
    BY DEF Transitions, Allowed, Target, CanPerform, StatesAllowing
  <1>3. kind = "publish" => state = "confirmed" /\ Target[kind] = "published"
    BY DEF Transitions, Allowed, Target, CanPerform, StatesAllowing
  <1>4. kind = "invalidate" => state = "published" /\ Target[kind] = "invalidated"
    BY DEF Transitions, Allowed, Target, CanPerform, StatesAllowing
  <1>5. /\ CanTransition("pending_confirmation", "confirmed")
        /\ CanTransition("confirmed", "published") /\ CanTransition("published", "invalidated")
    BY DEF CanTransition, AllowedTransitions, PreStartStates, ElectionState
  <1>6. QED
    BY <1>1, <1>2, <1>3, <1>4, <1>5 DEF Kinds, Corrections

\* What has been counted, noted and written so far.
Books ==
  /\ results <= 1
  /\ election \in Early => results = 0
  /\ HistoryExplainsState
  /\ \A i \in DOMAIN versions :
       versions[i].writes <= 1 /\ (versions[i].status = "confirmed" => versions[i].writes = 0)

\* What an operation knows when nobody else writes.
KnowsAlone(o) ==
  /\ o.pc \notin {"idle", "writeHistory", "createResult"} => election = o.from
  /\ o.pc = "writeHistory" => election = o.to /\ (o.to = "tallying" => results = 0)
  /\ o.pc = "createResult" => election = "tallying" /\ results = 0
  /\ o.pc # "idle" /\ o.kind \notin Corrections => CanTransition(o.from, o.to)
  /\ o.pc \in {"writeState", "writeHistory", "createResult"} => o.kind \notin Corrections
  /\ o.pc = "createInvalidation" => o.kind = "invalidate"
  /\ o.pc \in {"findVersion", "checkResult", "markPublished"} =>
       o.kind = "publish" /\ o.from = "confirmed"
  /\ o.pc \in {"checkResult", "markPublished"} => versions[o.version].status = "confirmed"

AloneInv(w) == RowsInv /\ Books /\ KnowsAlone(work[w])

LEMMA AloneStarts ==
  ASSUME NEW w \in Workers, Init
  PROVE  AloneInv(w)
  <1>1. KnowsAlone(work[w])
    BY DEF Init, Idle, KnowsAlone
  <1>2. Books
    BY DEF Init, Books, HistoryExplainsState
  <1>3. QED
    BY <1>1, <1>2, Starts DEF AloneInv

LEMMA LeaveAlone ==
  ASSUME TypeOK, NEW w \in Workers, Leave(w)
  PROVE  KnowsAlone(work[w])'
  <1>1. work'[w].pc = "idle"
    BY DEF Leave, TypeOK, Idle
  <1>2. QED
    BY <1>1 DEF KnowsAlone

LEMMA BooksStay ==
  ASSUME NEW w \in Workers, Workers = {w}, Books, work[w].pc # "writeHistory",
         UNCHANGED <<election, history, results, versions, crashes>>
  PROVE  Books'
  BY DEF Books, HistoryExplainsState

LEMMA AloneBegins ==
  ASSUME NEW w \in Workers, Workers = {w}, AloneInv(w), NEW kind \in Kinds, Begin(w, kind)
  PROVE  Books' /\ KnowsAlone(work[w])'
  <1>1. Books'
    BY BooksStay DEF AloneInv, Begin
  <1>2. /\ work'[w].pc = FirstStep(kind) /\ work'[w].kind = kind
        /\ work'[w].from = election /\ work'[w].to = Target[kind]
    BY DEF Begin, AloneInv, RowsInv, TypeOK, Idle
  <1>3. /\ kind \notin Corrections => CanTransition(election, Target[kind])
        /\ kind = "publish" => election = "confirmed"
    BY AllowedMoves DEF Begin, AloneInv, RowsInv, TypeOK
  <1>4. /\ FirstStep(kind) = "writeState" => kind \notin Corrections
        /\ FirstStep(kind) = "findVersion" => kind = "publish"
    BY DEF FirstStep, Kinds, Transitions, Corrections
  <1>5. FirstStep(kind) \notin {"writeHistory", "createResult", "createInvalidation",
                                "checkResult", "markPublished"}
    BY Tables
  <1>6. UNCHANGED election
    BY DEF Begin
  <1>7. QED
    BY <1>1, <1>2, <1>3, <1>4, <1>5, <1>6 DEF KnowsAlone

LEMMA AloneTransits ==
  ASSUME NEW w \in Workers, Workers = {w}, AloneInv(w),
         WriteState(w) \/ WriteHistory(w) \/ CreateResult(w)
  PROVE  Books' /\ KnowsAlone(work[w])'
  <1> DEFINE o == work[w]
  <1>0. TypeOK /\ o \in Work /\ Knows(o) /\ Books /\ KnowsAlone(o) /\ results \in Nat
    BY KnowsOwn DEF AloneInv, TypeOK
  <1>1. CASE WriteState(w)
    <2>1. /\ o.from \in ElectionState /\ o.to \in ElectionState
          /\ election = o.from /\ o.kind \notin Corrections /\ CanTransition(o.from, o.to)
      BY <1>0, <1>1 DEF WriteState, Knows, KnowsAlone
    <2>2. /\ work'[w].pc = "writeHistory" /\ work'[w].kind = o.kind
          /\ work'[w].from = o.from /\ work'[w].to = o.to
      BY <1>0, <1>1, GotoMoves DEF WriteState, Steps
    <2>3. (o.to \in Early => results = 0) /\ (o.to = "tallying" => results = 0)
      BY <1>0, <2>1, EarlyFirst DEF Books
    <2>4. KnowsAlone(work[w])'
      BY <1>1, <2>1, <2>2, <2>3 DEF WriteState, KnowsAlone
    <2>5. Books'
      BY <1>0, <1>1, <2>2, <2>3 DEF WriteState, Books, HistoryExplainsState
    <2>6. QED
      BY <2>4, <2>5
  <1>2. CASE WriteHistory(w)
    <2>1. /\ o.from \in ElectionState /\ election = o.to /\ (o.to = "tallying" => results = 0)
          /\ o.kind \notin Corrections /\ CanTransition(o.from, o.to)
      BY <1>0, <1>2 DEF WriteHistory, Knows, KnowsAlone
    <2>2. <<o.from, election>> \in history' /\ UNCHANGED <<election, results, versions, crashes>>
      BY <1>2, <2>1 DEF WriteHistory
    <2>3. Books'
      BY <1>0, <2>1, <2>2 DEF Books, HistoryExplainsState
    <2>4. CASE o.to = "tallying"
      <3>1. Goto(w, "createResult")
        BY <1>2, <2>4 DEF WriteHistory
      <3>2. /\ work'[w].pc = "createResult" /\ work'[w].kind = o.kind
            /\ work'[w].from = o.from /\ work'[w].to = o.to
        BY <1>0, <3>1, GotoMoves DEF Steps
      <3>3. KnowsAlone(work[w])'
        BY <2>1, <2>2, <2>4, <3>2 DEF KnowsAlone
      <3>4. QED
        BY <2>3, <3>3
    <2>5. CASE o.to # "tallying"
      BY <1>0, <1>2, <2>3, <2>5, LeaveAlone DEF WriteHistory
    <2>6. QED
      BY <2>4, <2>5
  <1>3. CASE CreateResult(w)
    <2>1. election = "tallying" /\ results = 0 /\ o.kind \notin Corrections
      BY <1>0, <1>3 DEF CreateResult, KnowsAlone
    <2>2. /\ results' = 1 /\ o.pc = "createResult"
          /\ UNCHANGED <<election, history, versions, crashes>>
      BY <1>3, <2>1 DEF CreateResult
    <2>3. /\ work'[w].pc = "writeState" /\ work'[w].kind = o.kind
          /\ work'[w].from = "tallying" /\ work'[w].to = "pending_confirmation"
      BY <1>0, <1>3 DEF CreateResult, TypeOK, Work
    <2>4. CanTransition("tallying", "pending_confirmation")
      BY DEF CanTransition, AllowedTransitions
    <2>5. KnowsAlone(work[w])'
      BY <2>1, <2>2, <2>3, <2>4 DEF KnowsAlone
    <2>6. election \notin Early
      BY <2>1 DEF Early, PreStartStates
    <2>7. Books'
      BY <1>0, <2>2, <2>6 DEF Books, HistoryExplainsState
    <2>8. QED
      BY <2>5, <2>7
  <1>4. QED
    BY <1>1, <1>2, <1>3

\* An operation that goes on to the call pc.
GoesTo(w, pc) ==
  /\ work'[w].pc = pc /\ work'[w].kind = work[w].kind
  /\ work'[w].from = work[w].from /\ work'[w].to = work[w].to
  /\ UNCHANGED election

LEMMA AloneSearches ==
  ASSUME NEW w \in Workers, AloneInv(w),
         work[w].pc \notin {"idle", "writeState", "writeHistory", "createResult"},
         NEW pc \in {"approve", "readMaxVersion", "createVersion", "createCorrection"},
         GoesTo(w, pc)
  PROVE  KnowsAlone(work[w])'
  BY DEF AloneInv, KnowsAlone, GoesTo

LEMMA AloneInvalidates ==
  ASSUME NEW w \in Workers, AloneInv(w), work[w].pc = "findPublished",
         work[w].kind = "invalidate", GoesTo(w, "createInvalidation")
  PROVE  KnowsAlone(work[w])'
  BY DEF AloneInv, KnowsAlone, GoesTo

LEMMA AloneFinishes ==
  ASSUME NEW w \in Workers, AloneInv(w),
         work[w].pc \notin {"idle", "writeState", "writeHistory", "createResult"},
         work[w].kind \notin Corrections, GoesTo(w, "writeState")
  PROVE  KnowsAlone(work[w])'
  BY DEF AloneInv, KnowsAlone, GoesTo

LEMMA AlonePublishes ==
  ASSUME NEW w \in Workers, AloneInv(w), work[w].pc \in {"findVersion", "checkResult"},
         NEW pc \in {"checkResult", "markPublished"}, GoesTo(w, pc),
         versions'[work'[w].version].status = "confirmed"
  PROVE  KnowsAlone(work[w])'
  BY DEF AloneInv, KnowsAlone, GoesTo

LEMMA AloneLooksUp ==
  ASSUME NEW w \in Workers, Workers = {w}, AloneInv(w),
         FindResult(w) \/ Approve(w) \/ ReadMaxVersion(w) \/ FindVersion(w) \/ CheckResult(w)
           \/ FindPublished(w)
  PROVE  Books' /\ KnowsAlone(work[w])'
  <1> DEFINE o == work[w]
  <1>0. TypeOK /\ o \in Work /\ Books /\ KnowsAlone(o)
    BY KnowsOwn DEF AloneInv
  <1>1. Books'
    BY BooksStay DEF AloneInv, FindResult, Approve, ReadMaxVersion, FindVersion, CheckResult,
                     FindPublished
  <1>2. CASE Leave(w)
    BY <1>0, <1>1, <1>2, LeaveAlone
  <1>3. CASE Approve(w)
    <2>1. /\ work'[w].pc = "readMaxVersion" /\ work'[w].kind = o.kind
          /\ work'[w].from = o.from /\ work'[w].to = o.to
      BY <1>0, <1>3, GotoMoves DEF Approve, Steps
    <2>2. QED
      BY <1>1, <1>3, <2>1, AloneSearches DEF Approve, GoesTo
  <1>4. CASE FindResult(w) /\ ~Leave(w)
    <2>1. PICK pc \in {"readMaxVersion", "approve"} :
            work' = [work EXCEPT ![w].result = results, ![w].pc = pc]
      BY <1>4 DEF FindResult
    <2>2. /\ work'[w].pc = pc /\ work'[w].kind = o.kind
          /\ work'[w].from = o.from /\ work'[w].to = o.to
      BY <1>0, <2>1 DEF TypeOK, Work
    <2>3. QED
      BY <1>1, <1>4, <2>2, AloneSearches DEF FindResult, GoesTo
  <1>5. CASE ReadMaxVersion(w)
    <2>1. PICK no : work' = [work EXCEPT ![w].pc = "createVersion", ![w].version = no]
      BY <1>5 DEF ReadMaxVersion
    <2>2. /\ work'[w].pc = "createVersion" /\ work'[w].kind = o.kind
          /\ work'[w].from = o.from /\ work'[w].to = o.to
      BY <1>0, <2>1 DEF TypeOK, Work
    <2>3. QED
      BY <1>1, <1>5, <2>2, AloneSearches DEF ReadMaxVersion, GoesTo
  <1>6. CASE FindVersion(w) /\ ~Leave(w)
    <2>1. /\ work' = [work EXCEPT ![w].pc = "checkResult", ![w].version = LatestVersion]
          /\ versions[LatestVersion].status = "confirmed" /\ UNCHANGED <<versions, election>>
          /\ o.pc = "findVersion"
      BY <1>6 DEF FindVersion
    <2>2. /\ work'[w].pc = "checkResult" /\ work'[w].kind = o.kind
          /\ work'[w].from = o.from /\ work'[w].to = o.to /\ work'[w].version = LatestVersion
      BY <1>0, <2>1 DEF TypeOK, Work
    <2>3. QED
      BY <1>1, <2>1, <2>2, AlonePublishes DEF GoesTo
  <1>7. CASE CheckResult(w) /\ ~Leave(w)
    <2>1. /\ Goto(w, "markPublished") /\ o.pc = "checkResult" /\ UNCHANGED <<versions, election>>
      BY <1>7 DEF CheckResult
    <2>2. /\ work'[w].pc = "markPublished" /\ work'[w].kind = o.kind
          /\ work'[w].from = o.from /\ work'[w].to = o.to /\ work'[w].version = o.version
      BY <1>0, <2>1, GotoMoves DEF Steps
    <2>3. versions[o.version].status = "confirmed"
      BY <1>0, <2>1 DEF KnowsAlone
    <2>4. QED
      BY <1>1, <2>1, <2>2, <2>3, AlonePublishes DEF GoesTo
  <1>8. CASE FindPublished(w) /\ ~Leave(w)
    <2>1. CASE Goto(w, "createCorrection")
      <3>1. /\ work'[w].pc = "createCorrection" /\ work'[w].kind = o.kind
            /\ work'[w].from = o.from /\ work'[w].to = o.to
        BY <1>0, <2>1, GotoMoves DEF Steps
      <3>2. QED
        BY <1>1, <1>8, <3>1, AloneSearches DEF FindPublished, GoesTo
    <2>2. CASE /\ o.kind = "invalidate"
               /\ work' = [work EXCEPT ![w].pc = "createInvalidation", ![w].version = PublicVersion]
      <3>1. /\ work'[w].pc = "createInvalidation" /\ work'[w].kind = o.kind
            /\ work'[w].from = o.from /\ work'[w].to = o.to
        BY <1>0, <2>2 DEF TypeOK, Work
      <3>2. QED
        BY <1>1, <1>8, <2>2, <3>1, AloneInvalidates DEF FindPublished, GoesTo
    <2>3. QED
      BY <1>8, <2>1, <2>2 DEF FindPublished
  <1>9. QED
    BY <1>2, <1>3, <1>4, <1>5, <1>6, <1>7, <1>8

LEMMA AloneWrites ==
  ASSUME NEW w \in Workers, Workers = {w}, AloneInv(w),
         CreateVersion(w) \/ MarkPublished(w) \/ CreateCorrection(w) \/ CreateInvalidation(w)
           \/ Crash(w)
  PROVE  Books' /\ KnowsAlone(work[w])'
  <1> DEFINE o == work[w]
  <1>0. TypeOK /\ o \in Work /\ Books /\ KnowsAlone(o) /\ RowsInv
    BY KnowsOwn DEF AloneInv
  <1>1. /\ versions \in Seq(Version) /\ Len(versions) \in Nat
        /\ DOMAIN versions = 1..Len(versions)
    BY <1>0, LenProperties DEF TypeOK
  <1>2. CASE CreateVersion(w)
    <2>1. /\ UNCHANGED <<election, history, results, crashes>> /\ o.pc = "createVersion"
      BY <1>2 DEF CreateVersion
    <2>2. Books'
      <3>1. CASE UNCHANGED versions
        BY <2>1, <3>1, BooksStay DEF AloneInv
      <3>2. CASE versions' = Append(versions, NewVersion(w))
        <4>1. NewVersion(w) \in Version /\ NewVersion(w).writes = 0
          BY <1>0, NewVersionTyped DEF NewVersion
        <4>2. /\ versions' \in Seq(Version) /\ Len(versions') = Len(versions) + 1
              /\ \A i \in 1..Len(versions) : versions'[i] = versions[i]
              /\ versions'[Len(versions) + 1] = NewVersion(w)
          BY <1>1, <3>2, <4>1, AppendProperties
        <4>3. DOMAIN versions' = 1..(Len(versions) + 1)
          BY <4>2, LenProperties
        <4>4. \A i \in DOMAIN versions' :
                versions'[i].writes <= 1
                  /\ (versions'[i].status = "confirmed" => versions'[i].writes = 0)
          BY <1>0, <1>1, <4>1, <4>2, <4>3 DEF Books
        <4>5. QED
          BY <1>0, <2>1, <4>4 DEF Books, HistoryExplainsState
      <3>3. QED
        BY <1>2, <3>1, <3>2 DEF CreateVersion
    <2>3. CASE Leave(w)
      BY <1>0, <2>2, <2>3, LeaveAlone
    <2>4. CASE o.kind = "confirm" /\ Goto(w, "writeState")
      <3>1. /\ work'[w].pc = "writeState" /\ work'[w].kind = o.kind
            /\ work'[w].from = o.from /\ work'[w].to = o.to
        BY <1>0, <2>4, GotoMoves DEF Steps
      <3>2. o.kind \notin Corrections
        BY <2>4 DEF Corrections
      <3>3. QED
        BY <2>1, <2>2, <3>1, <3>2, AloneFinishes DEF GoesTo
    <2>5. QED
      BY <1>2, <2>3, <2>4 DEF CreateVersion, AfterVersion
  <1>3. CASE MarkPublished(w)
    <2>1. /\ UNCHANGED <<election, history, results, crashes>> /\ o.pc = "markPublished"
          /\ Goto(w, "writeState") /\ versions[o.version].status = "confirmed"
          /\ o.kind = "publish"
      BY <1>0, <1>3 DEF MarkPublished, KnowsAlone
    <2>2. /\ DOMAIN versions' = 1..Len(versions) /\ o.version \in 1..Len(versions)
          /\ \A i \in 1..Len(versions) : versions'[i].status =
               IF i = o.version THEN "published" ELSE versions[i].status
      BY <1>0, <1>3, MarkedRow, LenProperties
    <2>3. /\ \A i \in 1..Len(versions) : i # o.version => versions'[i] = versions[i]
          /\ versions'[o.version].writes = versions[o.version].writes + 1
      <3>1. versions[o.version] \in Version
        BY <1>1, <2>2, ElementOfSeq
      <3>2. QED
        BY <1>1, <1>3, <2>2, <3>1 DEF MarkPublished, Version
    <2>4. Books'
      <3>1. versions[o.version].writes = 0
        BY <1>0, <1>1, <2>1, <2>2 DEF Books
      <3>2. \A i \in DOMAIN versions' :
              versions'[i].writes <= 1
                /\ (versions'[i].status = "confirmed" => versions'[i].writes = 0)
        BY <1>0, <1>1, <2>2, <2>3, <3>1 DEF Books
      <3>3. QED
        BY <1>0, <2>1, <3>2 DEF Books, HistoryExplainsState
    <2>5. /\ work'[w].pc = "writeState" /\ work'[w].kind = o.kind
          /\ work'[w].from = o.from /\ work'[w].to = o.to
      BY <1>0, <2>1, GotoMoves DEF Steps
    <2>6. o.kind \notin Corrections
      BY <2>1 DEF Corrections
    <2>7. QED
      BY <2>1, <2>4, <2>5, <2>6, AloneFinishes DEF GoesTo
  <1>4. CASE CreateCorrection(w)
    BY <1>0, <1>4, BooksStay, LeaveAlone DEF AloneInv, CreateCorrection
  <1>5. CASE CreateInvalidation(w)
    <2>1. Books'
      BY <1>5, BooksStay DEF AloneInv, CreateInvalidation
    <2>2. /\ work'[w].pc = "writeState" /\ work'[w].kind = o.kind
          /\ work'[w].from = o.from /\ work'[w].to = o.to
      BY <1>0, <1>5, GotoMoves DEF CreateInvalidation, Steps
    <2>3. o.kind \notin Corrections
      BY <1>0, <1>5 DEF CreateInvalidation, KnowsAlone, Corrections
    <2>4. QED
      BY <1>5, <2>1, <2>2, <2>3, AloneFinishes DEF CreateInvalidation, GoesTo
  <1>6. CASE Crash(w)
    <2>1. crashes' > 0 /\ UNCHANGED <<election, results, versions>> /\ Leave(w)
      BY <1>0, <1>6 DEF Crash, TypeOK
    <2>2. Books'
      BY <1>0, <2>1 DEF Books, HistoryExplainsState
    <2>3. QED
      BY <1>0, <2>1, <2>2, LeaveAlone
  <1>7. QED
    BY <1>2, <1>3, <1>4, <1>5, <1>6

LEMMA AloneKept ==
  ASSUME NEW w \in Workers, Workers = {w}, AloneInv(w), [Next]_vars
  PROVE  AloneInv(w)'
  <1>1. RowsInv'
    BY Kept DEF AloneInv
  <1>2. CASE UNCHANGED vars
    <2>1. Books' /\ KnowsAlone(work[w])'
      BY <1>2 DEF vars, AloneInv, Books, HistoryExplainsState, KnowsAlone
    <2>2. QED
      BY <1>1, <2>1 DEF AloneInv
  <1>3. ASSUME NEW kind \in Kinds, Begin(w, kind) PROVE Books' /\ KnowsAlone(work[w])'
    BY <1>3, AloneBegins
  <1>4. ASSUME Step(w) PROVE Books' /\ KnowsAlone(work[w])'
    BY <1>4, AloneTransits, AloneLooksUp, AloneWrites DEF Step
  <1>5. ASSUME Crash(w) PROVE Books' /\ KnowsAlone(work[w])'
    BY <1>5, AloneWrites
  <1>6. QED
    BY <1>1, <1>2, <1>3, <1>4, <1>5 DEF Next, AloneInv

(***************************************************************************)
(* One operation at a time, dying anywhere and tried again: there is one   *)
(* tally, the history explains the state, and no version is published      *)
(* twice.                                                                  *)
(***************************************************************************)
THEOREM KeptAloneCorrect ==
  ASSUME NEW w \in Workers, Workers = {w}
  PROVE  Spec => []KeptAlone
  <1>1. Init => AloneInv(w)
    BY AloneStarts
  <1>2. AloneInv(w) /\ [Next]_vars => AloneInv(w)'
    BY AloneKept
  <1>3. AloneInv(w) => KeptAlone
    BY DEF AloneInv, Books, KeptAlone, OneTally, PublishedOnce
  <1>4. QED
    BY <1>1, <1>2, <1>3, PTL DEF Spec

LEMMA AloneOrder ==
  ASSUME NEW w \in Workers, Workers = {w}, AloneInv(w), Next
  PROVE  UNCHANGED election \/ CanTransition(election, election')
  <1>1. CASE WriteState(w)
    <2>1. /\ election = work[w].from /\ work[w].kind \notin Corrections
          /\ CanTransition(work[w].from, work[w].to)
      BY <1>1 DEF WriteState, AloneInv, KnowsAlone
    <2>2. QED
      BY <1>1, <2>1 DEF WriteState
  <1>2. CASE ~WriteState(w)
    BY <1>2 DEF Next, Step, Begin, WriteHistory, CreateResult, FindResult, Approve,
                ReadMaxVersion, CreateVersion, FindVersion, CheckResult, MarkPublished,
                FindPublished, CreateCorrection, CreateInvalidation, Crash
  <1>3. QED
    BY <1>1, <1>2

(***************************************************************************)
(* One operation at a time moves the state along the transition table,     *)
(* although the write asks nothing of the state it replaces.               *)
(***************************************************************************)
THEOREM OrderCorrect ==
  ASSUME NEW w \in Workers, Workers = {w}
  PROVE  Spec => LifecycleOrder
  <1>1. Init => AloneInv(w)
    BY AloneStarts
  <1>2. AloneInv(w) /\ [Next]_vars => AloneInv(w)'
    BY AloneKept
  <1>3. AloneInv(w) /\ [Next]_vars => [CanTransition(election, election')]_election
    BY AloneOrder DEF vars
  <1>4. QED
    BY <1>1, <1>2, <1>3, PTL DEF Spec, LifecycleOrder

LEMMA PublicStays ==
  ASSUME NEW w \in Workers, Workers = {w}, AloneInv(w), Next, election = "published"
  PROVE  PublicVersion' = PublicVersion
  <1>1. /\ versions \in Seq(Version) /\ Len(versions) \in Nat
        /\ DOMAIN versions = 1..Len(versions) /\ RowsInv
    BY LenProperties DEF AloneInv, RowsInv, TypeOK
  <1>2. ~MarkPublished(w)
    BY DEF AloneInv, KnowsAlone, MarkPublished
  <1>3. CASE UNCHANGED versions
    BY <1>3 DEF PublicVersion, Published
  <1>4. CASE versions' = Append(versions, NewVersion(w))
    <2>1. NewVersion(w) \in Version /\ NewVersion(w).status = "confirmed"
      BY <1>1, NewVersionTyped
    <2>2. /\ versions' \in Seq(Version) /\ Len(versions') = Len(versions) + 1
          /\ \A i \in 1..Len(versions) : versions'[i] = versions[i]
          /\ versions'[Len(versions) + 1] = NewVersion(w)
      BY <1>1, <1>4, <2>1, AppendProperties
    <2>3. DOMAIN versions' = 1..(Len(versions) + 1)
      BY <2>2, LenProperties
    <2>4. Published' = Published
      BY <1>1, <2>1, <2>2, <2>3 DEF Published
    <2>5. \A i \in Published : versions[i].no = i /\ versions'[i].no = i
      BY <1>1, <2>2 DEF RowsInv, VersionsNumberedInOrder, Published
    <2>6. CASE Published = {}
      BY <2>4, <2>6 DEF PublicVersion
    <2>7. CASE Published # {}
      <3>1. Published \subseteq 1..Len(versions)
        BY <1>1 DEF Published
      <3>2. PICK i \in Published : \A j \in Published : j <= i
        BY <1>1, <2>7, <3>1, GreatestOfSome
      <3>3. PublicVersion \in Published
        <4>1. \E k \in Published : \A j \in Published : versions[j].no <= versions[k].no
          BY <2>5, <3>2
        <4>2. QED
          BY <2>7, <4>1 DEF PublicVersion
      <3>4. \A j \in Published : versions[j].no <= versions[PublicVersion].no
        <4>1. \E k \in Published : \A j \in Published : versions[j].no <= versions[k].no
          BY <2>5, <3>2
        <4>2. QED
          BY <2>7, <4>1 DEF PublicVersion
      <3>5. PublicVersion = i
        <4>1. i \in Nat /\ PublicVersion \in Nat /\ PublicVersion <= i
          BY <1>1, <3>1, <3>2, <3>3
        <4>2. i <= PublicVersion
          <5>1. versions[i].no = i /\ versions[PublicVersion].no = PublicVersion
            BY <2>5, <3>2, <3>3
          <5>2. versions[i].no <= versions[PublicVersion].no
            BY <3>2, <3>4
          <5>3. QED
            BY <5>1, <5>2
        <4>3. QED
          BY <4>1, <4>2
      <3> DEFINE next == CHOOSE k \in Published :
                           \A j \in Published : versions'[j].no <= versions'[k].no
      <3>6. PublicVersion' = next
        BY <2>4, <2>7 DEF PublicVersion
      <3>7. next \in Published /\ \A j \in Published : versions'[j].no <= versions'[next].no
        <4>1. \E k \in Published : \A j \in Published : versions'[j].no <= versions'[k].no
          BY <2>5, <3>2
        <4>2. QED
          BY <4>1
      <3> HIDE DEF next
      <3>8. next = i
        <4>1. i \in Nat /\ next \in Nat /\ next <= i
          BY <1>1, <3>1, <3>2, <3>7
        <4>2. i <= next
          <5>1. versions'[i].no = i /\ versions'[next].no = next
            BY <2>5, <3>2, <3>7
          <5>2. versions'[i].no <= versions'[next].no
            BY <3>2, <3>7
          <5>3. QED
            BY <5>1, <5>2
        <4>3. QED
          BY <4>1, <4>2
      <3>9. QED
        BY <3>5, <3>6, <3>8
    <2>8. QED
      BY <2>6, <2>7
  <1>5. QED
    BY <1>2, <1>3, <1>4
       DEF Next, Step, Begin, WriteState, WriteHistory, CreateResult, FindResult, Approve,
           ReadMaxVersion, CreateVersion, FindVersion, CheckResult, FindPublished,
           CreateCorrection, CreateInvalidation, Crash

(***************************************************************************)
(* INV-10 for the public page: with one operation at a time the version it *)
(* shows is never replaced once the election is published, by corrections  *)
(* and their approval neither.                                             *)
(***************************************************************************)
THEOREM PublicCorrect ==
  ASSUME NEW w \in Workers, Workers = {w}
  PROVE  Spec => PublicResultFixed
  <1>1. Init => AloneInv(w)
    BY AloneStarts
  <1>2. AloneInv(w) /\ [Next]_vars => AloneInv(w)'
    BY AloneKept
  <1>3. AloneInv(w) /\ [Next]_vars =>
          [election = "published" => PublicVersion' = PublicVersion]_vars
    BY PublicStays
  <1>4. QED
    BY <1>1, <1>2, <1>3, PTL DEF Spec, PublicResultFixed
===============================================================================
