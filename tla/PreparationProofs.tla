--------------------------- MODULE PreparationProofs ---------------------------
(***************************************************************************)
(* Proofs about Preparation for any finite electorate, any number of       *)
(* concurrent operations and any number of crashes.                        *)
(***************************************************************************)
EXTENDS Preparation, FiniteSetTheorems, TLAPS

StateWriters == {"requestReview", "approve", "schedule", "open", "pause", "resume", "cancel"}

(***************************************************************************)
(* What a worker s may rely on while the credentials are c: only an        *)
(* operation with a target gets to write a state, a row is written for a   *)
(* voter, and the voters an opening has listed and done with have a        *)
(* credential.                                                             *)
(***************************************************************************)
OnCourse(s, c) ==
  /\ s.pc = "writeState" => s.kind \in StateWriters
  /\ s.pc = "write" => s.voter \in Voters
  /\ s.kind = "open" =>
       /\ \/ /\ s.phase = "credentials"
             /\ s.pc \in {"checkRegistry", "listVoters", "find", "write"}
          \/ s.phase = "opening" /\ s.pc = "writeState" /\ s.todo = {}
       /\ s.listed \ s.todo \subseteq c

WorkInv ==
  /\ work \in [Workers -> Work]
  /\ \A w \in Workers : OnCourse(work[w], credentials)

(* The inductive invariant.                                                *)
OpeningInv == TypeOK /\ WorkInv /\ opened \subseteq credentials

-----------------------------------------------------------------------------
(* Facts about the operators the steps are built from.                     *)

LEMMA PhaseTypes ==
  ASSUME NEW kind, NEW phase
  PROVE  /\ PhaseAfter(kind, phase) \in Phases
         /\ FirstPhase(kind) \in Phases
         /\ CallOf(phase) \in {"idle"} \cup Steps
         /\ FirstCall(kind) \in {"idle"} \cup Steps
  BY DEF PhaseAfter, FirstPhase, CallOf, FirstCall, Phases, Steps

LEMMA TargetType == \A kind \in StateWriters : Target[kind] \in ElectionState
  BY DEF StateWriters, Target, ElectionState, PreStartStates

LEMMA CountedType ==
  ASSUME NEW total \in Nat, NEW valid \in Nat
  PROVE  Counted(total, valid) \in Registry
  BY DEF Counted, Registry

LEMMA IdleOnCourse ==
  /\ Idle \in Work
  /\ \A c : OnCourse(Idle, c)
  BY DEF Idle, Work, OnCourse, Phases

(***************************************************************************)
(* Going on with the rest of a list keeps a worker on course, if the       *)
(* voters no longer on it have their credentials.                          *)
(***************************************************************************)
LEMMA ContinueOnCourse ==
  ASSUME NEW w \in Workers, work[w] \in Work, NEW todo \in SUBSET Voters, NEW c,
         NEW list \in SUBSET Voters,
         work[w].kind = "open" => work[w].phase = "credentials" /\ list \ todo \subseteq c
  PROVE  LET s == [Continue(w, todo) EXCEPT !.listed = list]
         IN  s \in Work /\ OnCourse(s, c)
  <1> DEFINE phase == PhaseAfter(work[w].kind, work[w].phase)
             s == [Continue(w, todo) EXCEPT !.listed = list]
  <1>1. CASE todo # {}
    <2>1. s = [work[w] EXCEPT !.pc = "find", !.todo = todo, !.voter = NoVoter, !.listed = list]
      BY <1>1 DEF Continue, Work
    <2>2. s \in Work
      BY <2>1 DEF Work, Steps
    <2>3. /\ s.pc = "find" /\ s.kind = work[w].kind /\ s.phase = work[w].phase
          /\ s.todo = todo /\ s.listed = list
      BY <2>1 DEF Work
    <2>4. QED
      BY <2>2, <2>3 DEF OnCourse
  <1>2. CASE todo = {} /\ phase = "none"
    <2>1. s = [Idle EXCEPT !.listed = list]
      BY <1>2 DEF Continue
    <2>2. QED
      BY <2>1 DEF Idle, Work, OnCourse, Phases
  <1>3. CASE todo = {} /\ phase # "none"
    <2>1. s = [work[w] EXCEPT !.pc = CallOf(phase), !.phase = phase, !.todo = {},
                              !.voter = NoVoter, !.listed = list]
      BY <1>3 DEF Continue, Work
    <2>2. s \in Work
      <3>1. CallOf(phase) \in {"idle"} \cup Steps /\ phase \in Phases
        BY PhaseTypes
      <3> HIDE DEF phase
      <3>2. QED
        BY <2>1, <3>1 DEF Work
    <2>3. /\ s.pc = CallOf(phase) /\ s.kind = work[w].kind /\ s.phase = phase
          /\ s.todo = {} /\ s.listed = list
      BY <2>1 DEF Work
    <2>4. s.pc # "write" /\ (s.pc = "writeState" => s.kind = "open")
      BY <2>3 DEF CallOf, PhaseAfter
    <2>5. s.kind = "open" => s.phase = "opening" /\ s.pc = "writeState"
      BY <2>3 DEF CallOf, PhaseAfter
    <2>6. QED
      BY <1>3, <2>2, <2>3, <2>4, <2>5 DEF OnCourse, StateWriters
  <1>4. QED
    BY <1>1, <1>2, <1>3

(* The same for a worker that keeps its list.                              *)
LEMMA AdvanceOnCourse ==
  ASSUME NEW w \in Workers, work[w] \in Work, OnCourse(work[w], credentials),
         work[w].pc \in {"find", "write"}, NEW todo \in SUBSET Voters, NEW c,
         work[w].kind = "open" => work[w].listed \ todo \subseteq c
  PROVE  Continue(w, todo) \in Work /\ OnCourse(Continue(w, todo), c)
  <1> DEFINE phase == PhaseAfter(work[w].kind, work[w].phase)
             s == Continue(w, todo)
             t == [s EXCEPT !.listed = work[w].listed]
  <1>1. t \in Work /\ OnCourse(t, c)
    <2>1. work[w].listed \in SUBSET Voters
      BY DEF Work
    <2>2. work[w].kind = "open" => work[w].phase = "credentials"
      BY DEF OnCourse
    <2>3. QED
      BY <2>1, <2>2, ContinueOnCourse
  <1>2. CASE s = Idle
    BY <1>2, IdleOnCourse
  <1>3. CASE s # Idle
    <2>1. \/ s = [work[w] EXCEPT !.pc = "find", !.todo = todo, !.voter = NoVoter]
          \/ s = [work[w] EXCEPT !.pc = CallOf(phase), !.phase = phase,
                                 !.todo = {}, !.voter = NoVoter]
      BY <1>3 DEF Continue
    <2>2. t = s
      BY <2>1 DEF Work
    <2>3. QED
      BY <1>1, <2>2
  <1>4. QED
    BY <1>2, <1>3

(* A step of one worker leaves the others on course: credentials only grow.*)
LEMMA OthersStayOnCourse ==
  ASSUME WorkInv, NEW w \in Workers, NEW s \in Work,
         work' = [work EXCEPT ![w] = s],
         credentials \subseteq credentials', OnCourse(s, credentials')
  PROVE  WorkInv'
  <1>1. work' \in [Workers -> Work]
    BY DEF WorkInv
  <1>2. ASSUME NEW u \in Workers PROVE OnCourse(work'[u], credentials')
    <2>1. CASE u = w
      BY <2>1 DEF WorkInv
    <2>2. CASE u # w
      BY <2>2 DEF WorkInv, OnCourse
    <2>3. QED
      BY <2>1, <2>2
  <1>3. QED
    BY <1>1, <1>2 DEF WorkInv

LEMMA LeaveOnCourse ==
  ASSUME WorkInv, NEW w \in Workers, Leave(w), credentials \subseteq credentials'
  PROVE  WorkInv'
  BY IdleOnCourse, OthersStayOnCourse DEF Leave

-----------------------------------------------------------------------------
(* The operations, one lemma each for those that move a worker.            *)

LEMMA BeginKeeps ==
  ASSUME WorkInv, NEW w \in Workers, NEW kind \in Operations, Begin(w, kind)
  PROVE  WorkInv'
  <1> DEFINE s == [Idle EXCEPT !.pc = FirstCall(kind), !.kind = kind,
                               !.phase = FirstPhase(kind)]
  <1>1. s \in Work
    <2>1. /\ FirstCall(kind) \in {"idle"} \cup Steps /\ FirstPhase(kind) \in Phases
          /\ kind \in Kinds
      BY PhaseTypes, PreparationAssumption
    <2>2. QED
      BY <2>1, IdleOnCourse DEF Idle, Work
  <1>2. OnCourse(s, credentials')
    <2>1. s.pc = FirstCall(kind) /\ s.kind = kind /\ s.phase = FirstPhase(kind)
          /\ s.listed = {}
      BY DEF Idle
    <2>2. /\ FirstCall(kind) # "write"
          /\ FirstCall(kind) = "writeState" => kind \in StateWriters
      BY PreparationAssumption DEF FirstCall, FirstPhase, CallOf, Kinds, StateWriters
    <2>3. kind = "open" => FirstCall(kind) = "checkRegistry" /\ FirstPhase(kind) = "credentials"
      BY DEF FirstCall, FirstPhase, CallOf
    <2>4. QED
      BY <2>1, <2>2, <2>3 DEF OnCourse
  <1>3. QED
    BY <1>1, <1>2, OthersStayOnCourse DEF Begin, lists

(* Steps that only move the program counter or the counts.                 *)
LEMMA MovesKeep ==
  ASSUME TypeOK, WorkInv, NEW w \in Workers,
         GetRegistry(w) \/ ReadRegistry(w) \/ ReadAgain(w) \/ CheckRegistry(w)
  PROVE  WorkInv'
  <1>1. work[w] \in Work /\ OnCourse(work[w], credentials)
    BY DEF WorkInv
  <1>2. CASE GetRegistry(w)
    <2>1. PICK rows \in (SUBSET Voters) \ {{}}, repeated \in 0..MaxDuplicates :
            work' = [work EXCEPT ![w].pc = "find", ![w].todo = rows,
                                 ![w].total = Cardinality(rows) + repeated]
      BY <1>2 DEF GetRegistry
    <2> DEFINE s == [work[w] EXCEPT !.pc = "find", !.todo = rows,
                                    !.total = Cardinality(rows) + repeated]
    <2>2. Cardinality(rows) + repeated \in Nat
      BY PreparationAssumption, FS_Subset, FS_CardinalityType
    <2>3. s \in Work
      BY <1>1, <2>2 DEF Work, Steps
    <2>4. s.pc = "find" /\ s.kind = work[w].kind
      BY <1>1 DEF Work
    <2>5. work[w].kind # "open"
      BY <1>1, <1>2 DEF OnCourse, GetRegistry
    <2>6. OnCourse(s, credentials')
      BY <2>4, <2>5 DEF OnCourse
    <2>7. work' = [work EXCEPT ![w] = s]
      BY <2>1
    <2>8. QED
      BY <1>2, <2>3, <2>6, <2>7, OthersStayOnCourse DEF GetRegistry
  <1>3. ASSUME NEW pc \in {"idle"} \cup Steps, Goto(w, pc), UNCHANGED credentials,
               pc \notin {"write", "writeState"},
               work[w].kind = "open" => pc = "listVoters" /\ work[w].pc = "checkRegistry"
        PROVE  WorkInv'
    <2> DEFINE s == [work[w] EXCEPT !.pc = pc]
    <2>1. s \in Work
      BY <1>1 DEF Work
    <2>2. OnCourse(s, credentials')
      BY <1>1, <1>3 DEF OnCourse, Work
    <2>3. QED
      BY <1>3, <2>1, <2>2, OthersStayOnCourse DEF Goto
  <1>4. CASE ReadRegistry(w)
    <2>1. work[w].kind # "open"
      BY <1>1, <1>4 DEF OnCourse, ReadRegistry
    <2>2. CASE Leave(w)
      BY <1>4, <2>2, LeaveOnCourse DEF ReadRegistry, lists
    <2>3. CASE ~Leave(w)
      <3> DEFINE s == [work[w] EXCEPT !.pc = "writeCounts", !.total = registry.total,
                                      !.valid = registry.valid]
      <3>1. work' = [work EXCEPT ![w] = s]
        BY <1>4, <2>3 DEF ReadRegistry
      <3>2. s \in Work
        BY <1>1 DEF Work, Steps, TypeOK, Registry
      <3>3. s.pc = "writeCounts" /\ s.kind = work[w].kind
        BY <1>1 DEF Work
      <3>4. QED
        BY <1>4, <2>1, <3>1, <3>2, <3>3, OthersStayOnCourse DEF OnCourse, ReadRegistry, lists
    <2>4. QED
      BY <2>2, <2>3
  <1>5. CASE ReadAgain(w)
    <2>1. CASE Leave(w)
      BY <1>5, <2>1, LeaveOnCourse DEF ReadAgain, lists
    <2>2. CASE Goto(w, "checkRegistry")
      BY <1>1, <1>3, <1>5, <2>2 DEF ReadAgain, OnCourse, Steps, lists
    <2>3. QED
      BY <1>5, <2>1, <2>2 DEF ReadAgain, CallOf
  <1>6. CASE CheckRegistry(w)
    <2>1. CASE Leave(w)
      BY <1>6, <2>1, LeaveOnCourse DEF CheckRegistry, lists
    <2>2. CASE Goto(w, "listVoters")
      BY <1>1, <1>3, <1>6, <2>2 DEF CheckRegistry, OnCourse, Steps, lists
    <2>3. QED
      BY <1>6, <2>1, <2>2 DEF CheckRegistry
  <1>7. QED
    BY <1>2, <1>4, <1>5, <1>6

LEMMA ListVotersKeeps ==
  ASSUME WorkInv, NEW w \in Workers, ListVoters(w)
  PROVE  WorkInv'
  <1>1. work[w] \in Work /\ OnCourse(work[w], credentials) /\ UNCHANGED credentials
    BY DEF WorkInv, ListVoters, lists
  <1>2. PICK list \in {ActiveVoters} \cup
                   (IF work[w].kind = "resend" THEN {{v} : v \in ActiveVoters} ELSE {}) :
          work' = [work EXCEPT ![w] = [Continue(w, list) EXCEPT
                     !.listed = IF work[w].kind = "open" THEN list ELSE {}]]
    BY DEF ListVoters
  <1>3. list \in SUBSET Voters
    BY DEF ActiveVoters
  <1> DEFINE listed == IF work[w].kind = "open" THEN list ELSE {}
             s == [Continue(w, list) EXCEPT !.listed = listed]
  <1>4. s \in Work /\ OnCourse(s, credentials)
    <2>1. work[w].kind = "open" => work[w].phase = "credentials"
      BY <1>1 DEF OnCourse, ListVoters
    <2>2. listed \in SUBSET Voters /\ listed \ list = {}
      BY <1>3
    <2> HIDE DEF listed
    <2>3. QED
      BY <1>1, <1>3, <2>1, <2>2, ContinueOnCourse
  <1>5. QED
    BY <1>1, <1>2, <1>4, OthersStayOnCourse

(* A worker past some voter of its list, who has a credential if the       *)
(* worker is opening the election.                                         *)
LEMMA PastVoter ==
  ASSUME WorkInv, NEW w \in Workers, work[w].pc \in {"find", "write"},
         NEW v, work[w].kind = "open" => v \in credentials',
         credentials \subseteq credentials'
  PROVE  /\ Continue(w, work[w].todo \ {v}) \in Work
         /\ OnCourse(Continue(w, work[w].todo \ {v}), credentials')
  <1>1. work[w] \in Work /\ OnCourse(work[w], credentials)
    BY DEF WorkInv
  <1>2. work[w].todo \ {v} \in SUBSET Voters
    BY <1>1 DEF Work
  <1>3. work[w].kind = "open" => work[w].listed \ (work[w].todo \ {v}) \subseteq credentials'
    BY <1>1 DEF OnCourse
  <1>4. QED
    BY <1>1, <1>2, <1>3, AdvanceOnCourse

LEMMA FindKeeps ==
  ASSUME WorkInv, NEW w \in Workers, Find(w)
  PROVE  WorkInv'
  <1>1. work[w] \in Work /\ OnCourse(work[w], credentials) /\ UNCHANGED credentials
    BY DEF WorkInv, Find, lists
  <1>2. PICK v \in work[w].todo :
          work' = IF (work[w].phase = "sending") = Found(work[w].phase, v)
                    THEN [work EXCEPT ![w].pc = "write", ![w].voter = v]
                    ELSE [work EXCEPT ![w] = Continue(w, work[w].todo \ {v})]
    BY DEF Find
  <1>3. CASE (work[w].phase = "sending") = Found(work[w].phase, v)
    <2> DEFINE s == [work[w] EXCEPT !.pc = "write", !.voter = v]
    <2>1. work' = [work EXCEPT ![w] = s]
      BY <1>2, <1>3
    <2>2. s \in Work
      BY <1>1 DEF Work, Steps
    <2>3. /\ s.pc = "write" /\ s.kind = work[w].kind /\ s.phase = work[w].phase
          /\ s.listed = work[w].listed /\ s.todo = work[w].todo /\ s.voter \in Voters
      BY <1>1 DEF Work
    <2>4. OnCourse(s, credentials')
      BY <1>1, <2>3 DEF OnCourse, Find
    <2>5. QED
      BY <1>1, <2>1, <2>2, <2>4, OthersStayOnCourse
  <1>4. CASE (work[w].phase = "sending") # Found(work[w].phase, v)
    <2>1. work[w].kind = "open" => v \in credentials
      BY <1>1, <1>4 DEF OnCourse, Found, Find
    <2>2. QED
      BY <1>1, <1>2, <1>4, <2>1, PastVoter, OthersStayOnCourse DEF Find
  <1>5. QED
    BY <1>3, <1>4

LEMMA WritesKeep ==
  ASSUME WorkInv, NEW w \in Workers,
         CreateVoter(w) \/ CreateCredential(w) \/ CreateInvitation(w) \/ MarkSent(w)
  PROVE  WorkInv'
  <1>1. /\ work[w] \in Work /\ OnCourse(work[w], credentials)
        /\ work[w].pc = "write" /\ credentials \subseteq credentials'
    BY DEF WorkInv, Writes, CreateVoter, CreateCredential, CreateInvitation, MarkSent
  <1>2. ASSUME Advance(w), work[w].kind = "open" => work[w].voter \in credentials'
        PROVE  WorkInv'
    BY <1>1, <1>2, PastVoter, OthersStayOnCourse DEF Advance
  <1>3. CASE Leave(w)
    BY <1>1, <1>3, LeaveOnCourse
  <1>4. ASSUME CreateVoter(w), ~Leave(w) PROVE WorkInv'
    <2>1. work[w].kind # "open"
      BY <1>1, <1>4 DEF CreateVoter, Writes, OnCourse
    <2> DEFINE c == Continue(w, work[w].todo \ {work[w].voter})
               s == [c EXCEPT !.valid = work[w].valid + 1]
    <2>2. c \in Work /\ OnCourse(c, credentials')
      BY <1>1, <2>1, PastVoter
    <2> HIDE DEF c
    <2>3. s \in Work
      <3>1. \A n \in Nat, x \in Work : [x EXCEPT !.valid = n] \in Work
        BY DEF Work
      <3>2. work[w].valid + 1 \in Nat
        BY <1>1 DEF Work
      <3>3. QED
        BY <2>2, <3>1, <3>2
    <2>4. /\ s.pc = c.pc /\ s.kind = c.kind /\ s.phase = c.phase
          /\ s.listed = c.listed /\ s.todo = c.todo /\ s.voter = c.voter
      BY <2>2 DEF Work
    <2>5. work' = [work EXCEPT ![w] = s]
      BY <1>4 DEF CreateVoter, c
    <2>6. QED
      BY <1>1, <2>2, <2>3, <2>4, <2>5, OthersStayOnCourse DEF OnCourse
  <1>5. ASSUME CreateCredential(w), ~Leave(w) PROVE WorkInv'
    BY <1>2, <1>5 DEF CreateCredential
  <1>6. ASSUME CreateInvitation(w) \/ MarkSent(w), ~Leave(w) PROVE WorkInv'
    <2>1. work[w].kind # "open"
      BY <1>1, <1>6 DEF CreateInvitation, MarkSent, Writes, OnCourse
    <2>2. QED
      BY <1>2, <1>6, <2>1 DEF CreateInvitation, MarkSent
  <1>7. QED
    BY <1>3, <1>4, <1>5, <1>6

(* The steps that end an operation, and those that touch no worker.        *)
LEMMA LastStepsKeep ==
  ASSUME WorkInv, NEW w \in Workers,
         WriteEdit(w) \/ SoftDelete(w) \/ WriteCounts(w) \/ WriteState(w) \/ Crash(w)
  PROVE  WorkInv'
  BY LeaveOnCourse
  DEF WriteEdit, SoftDelete, WriteCounts, WriteState, Crash, lists

LEMMA WorkInvStep == TypeOK /\ WorkInv /\ [Next]_vars => WorkInv'
  <1> SUFFICES ASSUME TypeOK, WorkInv, [Next]_vars PROVE WorkInv'
    OBVIOUS
  <1>1. ASSUME NEW w \in Workers, NEW kind \in Operations, Begin(w, kind) PROVE WorkInv'
    BY <1>1, BeginKeeps
  <1>2. ASSUME NEW w \in Workers, Step(w) \/ Crash(w) PROVE WorkInv'
    BY <1>2, MovesKeep, ListVotersKeeps, FindKeeps, WritesKeep, LastStepsKeep DEF Step
  <1>3. CASE StartPasses \/ UNCHANGED vars
    BY <1>3 DEF StartPasses, WorkInv, lists, vars
  <1>4. QED
    BY <1>1, <1>2, <1>3 DEF Next

-----------------------------------------------------------------------------
(***************************************************************************)
(* Typing.                                                                 *)
(***************************************************************************)
LEMMA InitInv == Init => OpeningInv
  <1> SUFFICES ASSUME Init PROVE OpeningInv
    OBVIOUS
  <1>1. work \in [Workers -> Work] /\ WorkInv
    BY IdleOnCourse DEF Init, WorkInv
  <1>2. TypeOK
    BY <1>1 DEF Init, TypeOK, ElectionState, PreStartStates, NoRegistry, Registry
  <1>3. QED
    BY <1>1, <1>2 DEF Init, OpeningInv

LEMMA TypeStep == TypeOK /\ WorkInv /\ [Next]_vars => TypeOK'
  <1> SUFFICES ASSUME TypeOK, WorkInv, [Next]_vars PROVE TypeOK'
    OBVIOUS
  <1>1. work' \in [Workers -> Work]
    BY WorkInvStep DEF WorkInv
  <1> USE <1>1 DEF TypeOK, record, lists
  <1>2. ASSUME NEW w \in Workers, Step(w) PROVE TypeOK'
    <2>1. work[w] \in Work /\ OnCourse(work[w], credentials)
      BY DEF WorkInv
    <2>2. CASE WriteEdit(w)
      BY <2>2 DEF WriteEdit
    <2>3. CASE SoftDelete(w)
      BY <2>3 DEF SoftDelete
    <2>4. CASE GetRegistry(w)
      BY <2>4 DEF GetRegistry, DraftRegistry, Registry
    <2>5. CASE WriteCounts(w)
      <3>1. work[w].total \in Nat /\ work[w].valid \in Nat
        BY <2>1 DEF Work
      <3>2. QED
        BY <2>5, <3>1, CountedType DEF WriteCounts
    <2>6. CASE ReadRegistry(w) \/ ReadAgain(w) \/ CheckRegistry(w) \/ ListVoters(w) \/ Find(w)
      BY <2>6 DEF ReadRegistry, ReadAgain, CheckRegistry, ListVoters, Find
    <2>7. CASE CreateVoter(w)
      BY <2>7 DEF CreateVoter
    <2>8. CASE CreateCredential(w)
      BY <2>1, <2>8 DEF CreateCredential, OnCourse, Writes
    <2>9. CASE CreateInvitation(w)
      BY <2>9 DEF CreateInvitation
    <2>10. CASE MarkSent(w)
      BY <2>1, <2>10 DEF MarkSent, OnCourse, Writes
    <2>11. CASE WriteState(w)
      BY <2>1, <2>11, TargetType DEF WriteState, OnCourse, Work
    <2>12. QED
      BY <1>2, <2>2, <2>3, <2>4, <2>5, <2>6, <2>7, <2>8, <2>9, <2>10, <2>11 DEF Step
  <1>3. ASSUME NEW w \in Workers, Crash(w) PROVE TypeOK'
    BY <1>3 DEF Crash
  <1>4. ASSUME NEW w \in Workers, NEW kind \in Operations, Begin(w, kind) PROVE TypeOK'
    BY <1>4 DEF Begin
  <1>5. CASE StartPasses
    BY <1>5 DEF StartPasses
  <1>6. CASE UNCHANGED vars
    BY <1>6 DEF vars
  <1>7. QED
    BY <1>2, <1>3, <1>4, <1>5, <1>6 DEF Next

(***************************************************************************)
(* Every variable keeps its type, the locals of every operation included:  *)
(* an operation that writes a state has a state to write, one that writes  *)
(* a row a voter to write it for.                                          *)
(***************************************************************************)
THEOREM TypeCorrect == Spec => []TypeOK
  <1>1. Init => TypeOK /\ WorkInv
    BY InitInv DEF OpeningInv
  <1>2. TypeOK /\ WorkInv /\ [Next]_vars => (TypeOK /\ WorkInv)'
    BY TypeStep, WorkInvStep
  <1>3. QED
    BY <1>1, <1>2, PTL DEF Spec

-----------------------------------------------------------------------------
(***************************************************************************)
(* Openings.                                                               *)
(***************************************************************************)
LEMMA OpenedStep == OpeningInv /\ [Next]_vars => opened' \subseteq credentials'
  <1> SUFFICES ASSUME OpeningInv, [Next]_vars PROVE opened' \subseteq credentials'
    OBVIOUS
  <1>1. ASSUME NEW w \in Workers, WriteState(w) PROVE opened' \subseteq credentials'
    <2>1. work[w].kind = "open" => work[w].todo = {} /\ work[w].listed \subseteq credentials
      BY <1>1 DEF OpeningInv, WorkInv, OnCourse, WriteState
    <2>2. QED
      BY <1>1, <2>1 DEF OpeningInv, WriteState, lists
  <1>2. ASSUME NEW w \in Workers, Step(w), ~WriteState(w)
        PROVE  opened' = opened /\ credentials \subseteq credentials'
    BY <1>2 DEF Step, WriteEdit, SoftDelete, GetRegistry, ReadRegistry, WriteCounts,
       ReadAgain, CheckRegistry, ListVoters, Find, CreateVoter, CreateCredential,
       CreateInvitation, MarkSent, lists
  <1>3. ASSUME NEW w \in Workers, NEW kind \in Operations, Begin(w, kind)
        PROVE  UNCHANGED <<opened, credentials>>
    BY <1>3 DEF Begin, lists
  <1>4. ASSUME NEW w \in Workers, Crash(w) PROVE UNCHANGED <<opened, credentials>>
    BY <1>4 DEF Crash, lists
  <1>5. CASE StartPasses \/ UNCHANGED vars
    BY <1>5 DEF StartPasses, vars, lists, OpeningInv
  <1>6. QED
    BY <1>1, <1>2, <1>3, <1>4, <1>5 DEF Next, OpeningInv

(***************************************************************************)
(* Whatever operations overlap, and wherever they die, every voter for     *)
(* whom openElection wrote "open" has a voting credential, for good.       *)
(***************************************************************************)
THEOREM OpenedCorrect == Spec => []OpenedVotersHaveCredentials
  <1>1. Init => OpeningInv
    BY InitInv
  <1>2. OpeningInv /\ [Next]_vars => OpeningInv'
    BY TypeStep, WorkInvStep, OpenedStep DEF OpeningInv
  <1>3. OpeningInv => OpenedVotersHaveCredentials
    BY DEF OpeningInv, OpenedVotersHaveCredentials
  <1>4. QED
    BY <1>1, <1>2, <1>3, PTL DEF Spec

(***************************************************************************)
(* A registry that reads "validated" has only valid rows: the imports and  *)
(* validations that overlap replace status and counts in one write.        *)
(***************************************************************************)
THEOREM ValidatedCorrect == Spec => []ValidatedMeansValid
  <1>1. Init => ValidatedMeansValid
    BY DEF Init, ValidatedMeansValid, NoRegistry
  <1>2. ValidatedMeansValid /\ [Next]_vars => ValidatedMeansValid'
    <2> SUFFICES ASSUME ValidatedMeansValid, [Next]_vars PROVE ValidatedMeansValid'
      OBVIOUS
    <2>1. ASSUME NEW w \in Workers, GetRegistry(w) PROVE ValidatedMeansValid'
      BY <2>1 DEF GetRegistry, DraftRegistry, ValidatedMeansValid
    <2>2. ASSUME NEW w \in Workers, WriteCounts(w) PROVE ValidatedMeansValid'
      BY <2>2 DEF WriteCounts, Counted, ValidatedMeansValid
    <2>3. ASSUME NEW w \in Workers, Step(w), ~GetRegistry(w), ~WriteCounts(w)
          PROVE  registry' = registry
      BY <2>3 DEF Step, WriteEdit, SoftDelete, ReadRegistry, ReadAgain, CheckRegistry,
         ListVoters, Find, CreateVoter, CreateCredential, CreateInvitation, MarkSent,
         WriteState, lists
    <2>4. ASSUME NEW w \in Workers, NEW kind \in Operations, Begin(w, kind)
          PROVE  registry' = registry
      BY <2>4 DEF Begin, lists
    <2>5. ASSUME NEW w \in Workers, Crash(w) PROVE registry' = registry
      BY <2>5 DEF Crash, lists
    <2>6. CASE StartPasses \/ UNCHANGED vars
      BY <2>6 DEF StartPasses, vars, lists, ValidatedMeansValid
    <2>7. QED
      BY <2>1, <2>2, <2>3, <2>4, <2>5, <2>6 DEF Next, ValidatedMeansValid
  <1>3. QED
    BY <1>1, <1>2, PTL DEF Spec

-----------------------------------------------------------------------------
(***************************************************************************)
(* One operation at a time.  What is new against OpeningInv is that an     *)
(* opening's list stays the list of the active voters, and that once a     *)
(* vote was opened no operation gets past its check that would write a     *)
(* voter or lead back before the start.                                    *)
(***************************************************************************)
Reverting == {"import", "requestReview", "approve", "schedule"}

SerialInv(w) ==
  /\ work[w].phase = "rows" => work[w].kind = "import"
  /\ work[w].kind = "open" /\ work[w].pc \in {"find", "write", "writeState"}
       => work[w].listed = ActiveVoters
  /\ opened # {} => /\ election \in {"open", "paused", "invalidated"}
                    /\ ActiveVoters \subseteq credentials
                    /\ work[w].kind \notin Reverting

LEMMA NoWayBack ==
  ASSUME election \in {"open", "paused", "invalidated"}, NEW kind \in Reverting
  PROVE  ~Accepts(kind)
  <1>1. ~CanPerform(election, "editVoterRegistry")
    BY DEF CanPerform, StatesAllowing
  <1>2. \A to \in {"ready_for_review", "approved", "scheduled"} : ~CanTransition(election, to)
    BY DEF CanTransition, AllowedTransitions, PreStartStates, ElectionState
  <1>3. QED
    BY <1>1, <1>2 DEF Reverting, Accepts, AllowedNow, Target

LEMMA ContinueType ==
  ASSUME NEW w \in Workers, work[w] \in Work, NEW todo \in SUBSET Voters
  PROVE  Continue(w, todo) \in Work
  <1> DEFINE phase == PhaseAfter(work[w].kind, work[w].phase)
             s == [work[w] EXCEPT !.pc = CallOf(phase), !.phase = phase,
                                  !.todo = {}, !.voter = NoVoter]
  <1>1. [work[w] EXCEPT !.pc = "find", !.todo = todo, !.voter = NoVoter] \in Work
    BY DEF Work, Steps
  <1>2. s \in Work
    <2>1. CallOf(phase) \in {"idle"} \cup Steps /\ phase \in Phases
      BY PhaseTypes
    <2> HIDE DEF phase
    <2>2. QED
      BY <2>1 DEF Work
  <1>3. QED
    BY <1>1, <1>2, IdleOnCourse DEF Continue

LEMMA ContinueKeepsKind ==
  ASSUME NEW w \in Workers, work[w] \in Work, NEW todo
  PROVE  LET c == Continue(w, todo)
         IN  \/ c = Idle
             \/ /\ c.kind = work[w].kind /\ c.listed = work[w].listed
                /\ c.phase = "rows" => work[w].phase = "rows"
  <1> DEFINE c == Continue(w, todo)
             phase == PhaseAfter(work[w].kind, work[w].phase)
  <1>1. CASE todo # {}
    <2>1. c = [work[w] EXCEPT !.pc = "find", !.todo = todo, !.voter = NoVoter]
      BY <1>1 DEF Continue
    <2>2. QED
      BY <2>1 DEF Work
  <1>2. CASE todo = {} /\ phase # "none"
    <2>1. c = [work[w] EXCEPT !.pc = CallOf(phase), !.phase = phase,
                              !.todo = {}, !.voter = NoVoter]
      BY <1>2 DEF Continue
    <2>2. phase # "rows"
      BY DEF PhaseAfter
    <2>3. QED
      BY <2>1, <2>2 DEF Work
  <1>3. CASE todo = {} /\ phase = "none"
    BY <1>3 DEF Continue
  <1>4. QED
    BY <1>1, <1>2, <1>3

(* What is left of a worker after a step through its list.                 *)
Follows(c, s) ==
  \/ c.kind = "none" /\ c.phase = "none"
  \/ /\ c.kind = s.kind /\ c.listed = s.listed
     /\ c.phase = "rows" => s.phase = "rows"

(* A worker that goes on with its list writes no state and lists nobody.   *)
LEMMA SerialAdvance ==
  ASSUME NEW w \in Workers, TypeOK, SerialInv(w), NEW c \in Work,
         work[w].pc \in {"find", "write"},
         work' = [work EXCEPT ![w] = c], Follows(c, work[w]),
         UNCHANGED <<election, opened>>, credentials \subseteq credentials',
         voters' = voters \/ work[w].kind = "import"
  PROVE  SerialInv(w)'
  <1>1. work[w] \in Work /\ work'[w] = c
    BY DEF TypeOK
  <1>3. CASE voters' = voters
    BY <1>1, <1>3 DEF Follows, SerialInv, ActiveVoters, Reverting
  <1>4. CASE work[w].kind = "import"
    BY <1>1, <1>4 DEF Follows, SerialInv, Reverting
  <1>5. QED
    BY <1>3, <1>4

(* The same for an operation that ends.                                    *)
LEMMA SerialLeave ==
  ASSUME NEW w \in Workers, TypeOK, SerialInv(w), Leave(w),
         UNCHANGED <<election, opened>>, credentials \subseteq credentials',
         voters' = voters \/ work[w].kind = "import"
  PROVE  SerialInv(w)'
  <1>1. work'[w] = Idle
    BY DEF Leave, TypeOK
  <1>2. opened # {} => voters' = voters
    BY DEF SerialInv, Reverting
  <1>3. QED
    BY <1>1, <1>2 DEF SerialInv, Idle, ActiveVoters, Reverting

LEMMA SerialStep ==
  ASSUME NEW w \in Workers, OpeningInv, SerialInv(w), Step(w)
  PROVE  SerialInv(w)'
  <1>1. /\ TypeOK /\ work[w] \in Work /\ OnCourse(work[w], credentials)
        /\ WorkInv
    BY DEF OpeningInv, WorkInv
  <1>2. CASE WriteEdit(w) \/ SoftDelete(w) \/ WriteCounts(w)
    BY <1>1, <1>2, SerialLeave DEF WriteEdit, SoftDelete, WriteCounts, record, lists
  <1>3. CASE GetRegistry(w)
    <2>1. /\ work'[w].kind = work[w].kind /\ work'[w].phase = work[w].phase
          /\ UNCHANGED <<election, opened, voters, credentials>>
      BY <1>1, <1>3 DEF GetRegistry, TypeOK, Work, record
    <2>2. work[w].kind # "open"
      BY <1>1, <1>3 DEF OnCourse, GetRegistry
    <2>3. QED
      BY <2>1, <2>2 DEF SerialInv, ActiveVoters, Reverting
  <1>4. CASE ReadRegistry(w) \/ ReadAgain(w) \/ CheckRegistry(w)
    <2>1. UNCHANGED <<election, opened, voters, credentials>>
      BY <1>4 DEF ReadRegistry, ReadAgain, CheckRegistry, lists, record
    <2>2. CASE Leave(w)
      BY <1>1, <2>1, <2>2, SerialLeave
    <2>3. CASE ~Leave(w)
      <3>1. /\ work'[w].kind = work[w].kind /\ work'[w].phase = work[w].phase
            /\ work'[w].listed = work[w].listed
            /\ work'[w].pc \in {"writeCounts", "checkRegistry", "listVoters"}
        BY <1>1, <1>4, <2>3 DEF ReadRegistry, ReadAgain, CheckRegistry, Goto, CallOf, TypeOK, Work
      <3>2. QED
        BY <2>1, <3>1 DEF SerialInv, ActiveVoters, Reverting
    <2>4. QED
      BY <2>2, <2>3
  <1>5. CASE ListVoters(w)
    <2>1. UNCHANGED <<election, opened, voters, credentials>>
      BY <1>5 DEF ListVoters, lists, record
    <2>2. PICK list \in SUBSET Voters :
            /\ work[w].kind = "open" => list = ActiveVoters
            /\ work' = [work EXCEPT ![w] = [Continue(w, list) EXCEPT
                 !.listed = IF work[w].kind = "open" THEN list ELSE {}]]
      BY <1>5 DEF ListVoters, ActiveVoters
    <2> DEFINE c == Continue(w, list)
               s == [c EXCEPT !.listed = IF work[w].kind = "open" THEN list ELSE {}]
    <2>3. s \in Work /\ work'[w] = s
      <3>1. s \in Work
        <4>1. work'[w] = s
          BY <1>1, <2>2 DEF TypeOK
        <4>2. work' \in [Workers -> Work]
          BY <1>1, <1>5, ListVotersKeeps DEF WorkInv
        <4>3. QED
          BY <4>1, <4>2
      <3>2. QED
        BY <1>1, <2>2, <3>1 DEF TypeOK
    <2>4. /\ s.kind = c.kind /\ s.phase = c.phase
          /\ work[w].kind = "open" => s.listed = ActiveVoters
      BY <1>1, <2>2, ContinueType DEF Work
    <2>5. Follows(c, work[w])
      BY <1>1, ContinueKeepsKind DEF Follows, Idle
    <2> HIDE DEF c
    <2>6. QED
      BY <2>1, <2>3, <2>4, <2>5 DEF Follows, SerialInv, ActiveVoters, Reverting
  <1>6. CASE Find(w)
    <2>1. UNCHANGED <<election, opened, voters, credentials>>
      BY <1>6 DEF Find, lists, record
    <2>2. PICK v \in work[w].todo :
            \/ work' = [work EXCEPT ![w].pc = "write", ![w].voter = v]
            \/ work' = [work EXCEPT ![w] = Continue(w, work[w].todo \ {v})]
      BY <1>6 DEF Find
    <2>3. CASE work' = [work EXCEPT ![w].pc = "write", ![w].voter = v]
      <3>1. /\ work'[w].kind = work[w].kind /\ work'[w].phase = work[w].phase
            /\ work'[w].listed = work[w].listed
        BY <1>1, <2>3 DEF TypeOK, Work
      <3>2. QED
        BY <1>6, <2>1, <3>1 DEF SerialInv, ActiveVoters, Find
    <2>4. CASE work' = [work EXCEPT ![w] = Continue(w, work[w].todo \ {v})]
      <3> DEFINE todo == work[w].todo \ {v}
                 c == Continue(w, todo)
      <3>1. c \in Work
        BY <1>1, ContinueType DEF Work
      <3>2. work[w].pc \in {"find", "write"} /\ work' = [work EXCEPT ![w] = c]
        BY <1>6, <2>4 DEF Find
      <3>3. Follows(c, work[w])
        BY <1>1, ContinueKeepsKind DEF Follows, Idle
      <3> HIDE DEF c
      <3>4. QED
        BY <1>1, <2>1, <3>1, <3>2, <3>3, SerialAdvance
    <2>5. QED
      BY <2>2, <2>3, <2>4
  <1>7. CASE CreateVoter(w) \/ CreateCredential(w) \/ CreateInvitation(w) \/ MarkSent(w)
    <2>1. /\ work[w].pc = "write" /\ credentials \subseteq credentials'
          /\ UNCHANGED <<election, opened>>
          /\ voters' = voters \/ work[w].kind = "import"
      BY <1>7 DEF CreateVoter, CreateCredential, CreateInvitation, MarkSent, Writes,
         record, lists, SerialInv
    <2>2. CASE Leave(w)
      BY <1>1, <2>1, <2>2, SerialLeave
    <2>3. CASE ~Leave(w)
      <3> DEFINE todo == work[w].todo \ {work[w].voter}
                 c == Continue(w, todo)
                 d == [c EXCEPT !.valid = work[w].valid + 1]
      <3>1. \E s \in {c, d} : work' = [work EXCEPT ![w] = s]
        BY <1>7, <2>3 DEF CreateVoter, CreateCredential, CreateInvitation, MarkSent, Advance
      <3>2. c \in Work
        BY <1>1, ContinueType DEF Work
      <3> HIDE DEF c, todo
      <3>3. \A s \in {c, d} : s.kind = c.kind /\ s.phase = c.phase /\ s.listed = c.listed
        BY <3>2 DEF Work
      <3>4. d \in Work
        <4>1. \A n \in Nat, x \in Work : [x EXCEPT !.valid = n] \in Work
          BY DEF Work
        <4>2. work[w].valid + 1 \in Nat
          BY <1>1 DEF Work
        <4>3. QED
          BY <3>2, <4>1, <4>2
      <3> HIDE DEF d
      <3>5. PICK s \in Work : work' = [work EXCEPT ![w] = s] /\ Follows(s, work[w])
        <4>1. Follows(c, work[w])
          BY <1>1, ContinueKeepsKind DEF Follows, Idle, c
        <4>2. QED
          BY <3>1, <3>2, <3>3, <3>4, <4>1 DEF Follows
      <3>6. QED
        BY <1>1, <2>1, <3>5, SerialAdvance
    <2>4. QED
      BY <2>2, <2>3
  <1>8. CASE WriteState(w)
    <2>1. /\ work[w].kind \in StateWriters /\ work'[w] = Idle
          /\ UNCHANGED <<voters, credentials>>
      BY <1>1, <1>8 DEF WriteState, Leave, OnCourse, TypeOK, lists
    <2>2. CASE work[w].kind = "open"
      <3>1. ActiveVoters \subseteq credentials /\ election' = "open"
        BY <1>1, <1>8, <2>2 DEF WriteState, OnCourse, SerialInv, Target
      <3>2. QED
        BY <2>1, <3>1 DEF SerialInv, ActiveVoters, Idle, Reverting
    <2>3. CASE work[w].kind # "open"
      <3>1. opened' = opened
        BY <1>8, <2>3 DEF WriteState
      <3>2. work[w].kind \in Reverting \/ election' \in {"open", "paused", "invalidated"}
        BY <1>8, <2>1, <2>3 DEF StateWriters, WriteState, Target, Reverting
      <3>3. QED
        BY <2>1, <3>1, <3>2 DEF SerialInv, ActiveVoters, Idle, Reverting
    <2>4. QED
      BY <2>2, <2>3
  <1>9. QED
    BY <1>2, <1>3, <1>4, <1>5, <1>6, <1>7, <1>8 DEF Step

(***************************************************************************)
(* With one operation at a time, once openElection has opened the vote     *)
(* every active voter has a credential, and no later operation adds one    *)
(* who has not, whatever died before.                                      *)
(***************************************************************************)
THEOREM OpeningCompleteAlone ==
  ASSUME NEW w \in Workers, Workers = {w}
  PROVE  Spec => []OpeningIsComplete
  <1>1. Init => OpeningInv /\ SerialInv(w)
    <2> SUFFICES ASSUME Init PROVE SerialInv(w)
      BY InitInv
    <2>1. work[w] = Idle /\ opened = {}
      BY DEF Init
    <2>2. QED
      BY <2>1 DEF SerialInv, Idle
  <1>2. OpeningInv /\ SerialInv(w) /\ [Next]_vars => (OpeningInv /\ SerialInv(w))'
    <2> SUFFICES ASSUME OpeningInv, SerialInv(w), [Next]_vars PROVE SerialInv(w)'
      BY TypeStep, WorkInvStep, OpenedStep DEF OpeningInv
    <2>1. ASSUME NEW kind \in Operations, Begin(w, kind) PROVE SerialInv(w)'
      <3>1. /\ work'[w].kind = kind /\ work'[w].phase = FirstPhase(kind)
            /\ work'[w].pc = FirstCall(kind)
            /\ UNCHANGED <<election, opened, voters, credentials>>
        BY <2>1 DEF Begin, OpeningInv, TypeOK, Idle, lists, record
      <3>2. /\ FirstPhase(kind) = "rows" => kind = "import"
            /\ kind = "open" => FirstCall(kind) = "checkRegistry"
        BY DEF FirstPhase, FirstCall, CallOf
      <3>3. opened # {} => kind \notin Reverting
        BY <2>1, NoWayBack DEF Begin, SerialInv
      <3>4. QED
        BY <3>1, <3>2, <3>3 DEF SerialInv, ActiveVoters
    <2>2. CASE Step(w)
      BY <2>2, SerialStep
    <2>3. CASE Crash(w)
      BY <2>3, SerialLeave DEF Crash, OpeningInv, record, lists
    <2>4. CASE StartPasses \/ UNCHANGED vars
      BY <2>4 DEF StartPasses, vars, lists, SerialInv, ActiveVoters, record
    <2>5. QED
      BY <2>1, <2>2, <2>3, <2>4 DEF Next
  <1>3. SerialInv(w) => OpeningIsComplete
    BY DEF SerialInv, OpeningIsComplete
  <1>4. QED
    BY <1>1, <1>2, <1>3, PTL DEF Spec

-----------------------------------------------------------------------------
(***************************************************************************)
(* One operation at a time, on any finite electorate and with any number   *)
(* of crashes: what the preparation keeps although every operation may die *)
(* between any two calls and is then tried again.                          *)
(***************************************************************************)

(* The calls of a worker s, by operation and phase.                        *)
Stage(s) ==
  \/ /\ s.phase = "none"
     /\ s.pc \notin {"getRegistry", "readAgain", "checkRegistry", "listVoters", "find", "write"}
  \/ /\ s.kind = "import" /\ s.phase = "rows"
     /\ s.pc \in {"getRegistry", "find", "write"}
  \/ s.kind = "import" /\ s.phase = "counting" /\ s.pc = "writeCounts"
  \/ /\ s.kind \in {"prepare", "issue"} /\ s.phase = "invitations"
     /\ s.pc \in {"readAgain", "checkRegistry", "listVoters", "find", "write"}
  \/ /\ s.kind \in {"open", "prepare", "issue"} /\ s.phase = "credentials"
     /\ s.pc \in {"checkRegistry", "listVoters", "find", "write"}
  \/ s.kind = "open" /\ s.phase = "opening" /\ s.pc = "writeState"
  \/ /\ s.kind \in {"issue", "resend"} /\ s.phase = "sending"
     /\ s.pc \in {"listVoters", "find", "write"}

Invited == {v \in Voters : invitations[v] > 0}

(***************************************************************************)
(* The voters whom a preparation still owes a credential: all of them      *)
(* while it invites and until it has listed them again, then those who are *)
(* left of the list.                                                       *)
(***************************************************************************)
Owed(s) ==
  IF s.kind \notin {"prepare", "issue"} THEN {}
  ELSE IF s.phase = "invitations" /\ s.pc \in {"find", "write"} THEN ActiveVoters
  ELSE IF s.phase = "credentials" /\ s.pc \in {"checkRegistry", "listVoters"} THEN ActiveVoters
  ELSE IF s.phase = "credentials" THEN s.todo
  ELSE {}

(* A preparation that has found the registry ready will find it so again.  *)
Prepared(s) ==
  \/ s.phase = "invitations" /\ s.pc \in {"listVoters", "find", "write"}
  \/ s.phase = "credentials" /\ s.kind # "open"

(* What it has listed is there, what it has looked up is still so.         *)
Listing(s) ==
  s.phase \in {"invitations", "credentials"} /\ s.pc \in {"find", "write"} =>
    /\ s.todo \subseteq ActiveVoters
    /\ s.pc = "write" => s.voter \in ActiveVoters

Looked(s) ==
  s.pc = "write" =>
    /\ s.phase = "invitations" => invitations[s.voter] = 0
    /\ s.phase = "credentials" => s.voter \notin credentials
    /\ s.phase = "sending" => s.voter \in Invited

Undeleted(s) ==
  /\ deleted => election \in PreStartStates /\ s.pc = "idle"
  /\ s.pc = "softDelete" => election \in PreStartStates

(* What holds of the only worker.                                          *)
KeptBy(s) ==
  /\ Stage(s) /\ Listing(s) /\ Looked(s) /\ Undeleted(s)
  /\ Prepared(s) => Ready(registry)
  /\ crashes = 0 => Invited \subseteq credentials \cup Owed(s)

(* The inductive invariant.                                                *)
KeptInv(w) ==
  /\ OpeningInv /\ KeptBy(work[w])
  /\ OneInvitationEach /\ SentInvitationsWork

-----------------------------------------------------------------------------
LEMMA IdleStage == Stage(Idle) /\ ~Prepared(Idle) /\ Owed(Idle) = {}
  BY DEF Stage, Prepared, Owed, Idle

(* Where a worker goes on from its list.                                   *)
Onward(s, c, todo) ==
  \/ /\ todo # {} /\ c.pc = "find" /\ c.kind = s.kind /\ c.phase = s.phase /\ c.todo = todo
  \/ /\ todo = {} /\ c = Idle
     /\ s.phase = "sending" \/ (s.kind = "prepare" /\ s.phase = "credentials")
  \/ /\ todo = {} /\ s.phase = "rows"
     /\ c.pc = "writeCounts" /\ c.kind = s.kind /\ c.phase = "counting"
  \/ /\ todo = {} /\ s.phase = "invitations"
     /\ c.pc = "checkRegistry" /\ c.kind = s.kind /\ c.phase = "credentials"
  \/ /\ todo = {} /\ s.phase = "credentials" /\ s.kind = "open"
     /\ c.pc = "writeState" /\ c.kind = s.kind /\ c.phase = "opening"
  \/ /\ todo = {} /\ s.phase = "credentials" /\ s.kind = "issue"
     /\ c.pc = "listVoters" /\ c.kind = s.kind /\ c.phase = "sending"

LEMMA ContinueStage ==
  ASSUME NEW w \in Workers, work[w] \in Work, Stage(work[w]), NEW todo,
         work[w].pc \in {"listVoters", "find", "write"}
  PROVE  /\ Onward(work[w], Continue(w, todo), todo)
         /\ Stage(Continue(w, todo))
  <1> DEFINE phase == PhaseAfter(work[w].kind, work[w].phase)
             c == Continue(w, todo)
  <1>1. Onward(work[w], c, todo)
    <2>1. CASE todo # {}
      <3>1. c = [work[w] EXCEPT !.pc = "find", !.todo = todo, !.voter = NoVoter]
        BY <2>1 DEF Continue
      <3> HIDE DEF c
      <3>2. QED
        BY <2>1, <3>1 DEF Work, Onward
    <2>2. CASE todo = {} /\ phase = "none"
      <3>1. c = Idle
        BY <2>2 DEF Continue
      <3>2. work[w].phase = "sending" \/ (work[w].kind = "prepare" /\ work[w].phase = "credentials")
        BY <2>2 DEF Stage, PhaseAfter
      <3> HIDE DEF c
      <3>3. QED
        BY <2>2, <3>1, <3>2 DEF Onward
    <2>3. CASE todo = {} /\ phase # "none"
      <3>1. c = [work[w] EXCEPT !.pc = CallOf(phase), !.phase = phase,
                                !.todo = {}, !.voter = NoVoter]
        BY <2>3 DEF Continue
      <3>2. c.pc = CallOf(phase) /\ c.kind = work[w].kind /\ c.phase = phase
        BY <3>1 DEF Work
      <3>3. \/ work[w].phase = "rows" /\ phase = "counting"
            \/ work[w].phase = "invitations" /\ phase = "credentials"
            \/ work[w].phase = "credentials" /\ work[w].kind = "open" /\ phase = "opening"
            \/ work[w].phase = "credentials" /\ work[w].kind = "issue" /\ phase = "sending"
        BY <2>3 DEF PhaseAfter
      <3> HIDE DEF c, phase
      <3>4. QED
        BY <2>3, <3>2, <3>3 DEF CallOf, Onward
    <2>4. QED
      BY <2>1, <2>2, <2>3
  <1> HIDE DEF c
  <1>2. Stage(c)
    BY <1>1, IdleStage DEF Onward, Stage
  <1>3. QED
    BY <1>1, <1>2 DEF c

-----------------------------------------------------------------------------
(* The worker after a step, and the state around it.                       *)

LEMMA OnlyWorker ==
  ASSUME NEW w \in Workers, TypeOK, NEW s, work' = [work EXCEPT ![w] = s]
  PROVE  work'[w] = s
  BY DEF TypeOK

(* An operation ends, or dies: with no death it owes nobody a credential.  *)
LEMMA AloneLeave ==
  ASSUME NEW w \in Workers, KeptInv(w), OpeningInv', Leave(w),
         UNCHANGED <<credentials, invitations, sent>>,
         crashes' = 0 => crashes = 0 /\ Owed(work[w]) = {},
         deleted' => election' \in PreStartStates
  PROVE  KeptInv(w)'
  <1>1. work'[w] = Idle
    BY OnlyWorker DEF KeptInv, OpeningInv, Leave
  <1>2. Invited' = Invited
    BY DEF Invited
  <1>3. OneInvitationEach' /\ SentInvitationsWork'
    BY DEF KeptInv, OneInvitationEach, SentInvitationsWork
  <1>4. crashes' = 0 => Invited' \subseteq credentials'
    BY <1>2 DEF KeptInv, KeptBy
  <1>5. KeptBy(Idle)'
    BY <1>4, IdleStage DEF KeptBy, Stage, Listing, Looked, Undeleted, Prepared, Idle
  <1>6. QED
    BY <1>1, <1>3, <1>5 DEF KeptInv

LEMMA AloneBegin ==
  ASSUME NEW w \in Workers, KeptInv(w), OpeningInv',
         NEW kind \in Operations, Begin(w, kind)
  PROVE  KeptInv(w)'
  <1> DEFINE s == [Idle EXCEPT !.pc = FirstCall(kind), !.kind = kind,
                               !.phase = FirstPhase(kind)]
  <1>1. work'[w] = s
    BY OnlyWorker DEF KeptInv, OpeningInv, Begin
  <1>2. s.pc = FirstCall(kind) /\ s.kind = kind /\ s.phase = FirstPhase(kind)
    BY DEF Idle
  <1> HIDE DEF s
  <1>3. UNCHANGED <<record, lists, crashes>> /\ Accepts(kind) /\ work[w].pc = "idle"
    BY DEF Begin
  <1>4. kind \in Kinds
    BY PreparationAssumption
  <1>5. Stage(s) /\ ~Prepared(s) /\ s.pc \notin {"find", "write"}
    BY <1>2, <1>4 DEF Kinds, FirstCall, FirstPhase, CallOf, Stage, Prepared
  <1>6. Undeleted(s)'
    <2>1. s.pc = "softDelete" => kind = "delete"
      BY <1>2, <1>4 DEF Kinds, FirstCall, FirstPhase, CallOf
    <2>2. kind = "delete" => election \in PreStartStates
      BY <1>3 DEF Accepts, AllowedNow
    <2>3. QED
      BY <1>3, <2>1, <2>2 DEF Undeleted, Accepts, record
  <1>7. crashes' = 0 => Invited' \subseteq credentials'
    <2>1. work[w].kind \notin {"prepare", "issue"} \/ work[w].phase = "none"
      BY <1>3 DEF KeptInv, KeptBy, Stage
    <2>2. Owed(work[w]) = {}
      BY <2>1 DEF Owed
    <2>3. QED
      BY <1>3, <2>2 DEF KeptInv, KeptBy, Invited, lists
  <1>8. KeptBy(s)'
    BY <1>5, <1>6, <1>7 DEF KeptBy, Stage, Listing, Looked, Prepared
  <1>9. OneInvitationEach' /\ SentInvitationsWork'
    BY <1>3 DEF KeptInv, OneInvitationEach, SentInvitationsWork, lists
  <1>10. QED
    BY <1>1, <1>8, <1>9 DEF KeptInv

(***************************************************************************)
(* A step that leaves the lists, but for those of an import, and moves the *)
(* worker to s.                                                            *)
(***************************************************************************)
LEMMA AloneMove ==
  ASSUME NEW w \in Workers, KeptInv(w), OpeningInv', NEW s \in Work,
         work' = [work EXCEPT ![w] = s], work[w].pc \notin {"idle", "softDelete"},
         UNCHANGED <<record, credentials, invitations, sent, crashes>>,
         Stage(s), Listing(s)', Looked(s)', s.pc # "softDelete",
         Prepared(s) => Ready(registry)',
         Invited \subseteq credentials \cup Owed(work[w]) =>
           Invited \subseteq credentials \cup Owed(s)'
  PROVE  KeptInv(w)'
  <1>1. work'[w] = s
    BY OnlyWorker DEF KeptInv, OpeningInv
  <1>2. Undeleted(s)'
    BY DEF KeptInv, KeptBy, Undeleted, record
  <1>3. Invited' = Invited
    BY DEF Invited
  <1>4. KeptBy(s)'
    BY <1>2, <1>3 DEF KeptBy, KeptInv, Stage, Prepared
  <1>5. OneInvitationEach' /\ SentInvitationsWork'
    BY DEF KeptInv, OneInvitationEach, SentInvitationsWork
  <1>6. QED
    BY <1>1, <1>4, <1>5 DEF KeptInv

-----------------------------------------------------------------------------
(* The calls, one after the other.                                         *)

LEMMA AloneEnds ==
  ASSUME NEW w \in Workers, KeptInv(w), OpeningInv',
         WriteEdit(w) \/ SoftDelete(w) \/ WriteCounts(w) \/ WriteState(w) \/ Crash(w)
  PROVE  KeptInv(w)'
  <1>1. Stage(work[w]) /\ Undeleted(work[w]) /\ crashes \in Nat
    BY DEF KeptInv, KeptBy, OpeningInv, TypeOK
  <1>2. CASE Crash(w)
    BY <1>1, <1>2, AloneLeave DEF Crash, Undeleted, record, lists
  <1>3. CASE ~Crash(w)
    <2>1. work[w].pc \in {"writeEdit", "softDelete", "writeCounts", "writeState"}
      BY <1>3 DEF WriteEdit, SoftDelete, WriteCounts, WriteState
    <2>2. Owed(work[w]) = {}
      BY <1>1, <2>1 DEF Stage, Owed
    <2>3. deleted' => election' \in PreStartStates
      BY <1>1, <1>3 DEF WriteEdit, SoftDelete, WriteCounts, WriteState, Undeleted, record
    <2>4. Leave(w) /\ UNCHANGED <<credentials, invitations, sent, crashes>>
      BY <1>3 DEF WriteEdit, SoftDelete, WriteCounts, WriteState, lists
    <2>5. QED
      BY <2>2, <2>3, <2>4, AloneLeave
  <1>4. QED
    BY <1>2, <1>3

LEMMA AloneReads ==
  ASSUME NEW w \in Workers, KeptInv(w), OpeningInv',
         GetRegistry(w) \/ ReadRegistry(w) \/ ReadAgain(w) \/ CheckRegistry(w)
  PROVE  KeptInv(w)'
  <1>1. /\ Stage(work[w]) /\ Undeleted(work[w]) /\ work[w] \in Work
        /\ TypeOK
    BY DEF KeptInv, KeptBy, OpeningInv, TypeOK
  <1>2. /\ UNCHANGED <<record, credentials, invitations, sent, crashes>>
        /\ work[w].pc \in {"getRegistry", "readRegistry", "readAgain", "checkRegistry"}
    BY DEF GetRegistry, ReadRegistry, ReadAgain, CheckRegistry, lists
  <1>3. work' \in [Workers -> Work]
    BY DEF OpeningInv, TypeOK
  <1>4. CASE Leave(w)
    <2>1. Owed(work[w]) = {}
      <3>1. CASE CheckRegistry(w)
        <4>1. ~Ready(registry)
          BY <1>1, <1>4, <3>1 DEF CheckRegistry, Goto, Leave, Work, Idle, TypeOK
        <4>2. QED
          BY <3>1, <4>1 DEF KeptInv, KeptBy, Prepared, Stage, Owed, CheckRegistry
      <3>2. CASE ~CheckRegistry(w)
        <4>1. work[w].pc \in {"getRegistry", "readRegistry", "readAgain"}
          BY <3>2 DEF GetRegistry, ReadRegistry, ReadAgain
        <4>2. QED
          BY <1>1, <4>1 DEF Stage, Owed
      <3>3. QED
        BY <3>1, <3>2
    <2>2. QED
      BY <1>1, <1>2, <1>4, <2>1, AloneLeave DEF Undeleted, record
  <1>5. CASE ~Leave(w) /\ (GetRegistry(w) \/ ReadRegistry(w))
    <2>1. PICK s : work' = [work EXCEPT ![w] = s]
                   /\ s.kind = work[w].kind /\ s.phase = work[w].phase
                   /\ s.pc = IF work[w].pc = "getRegistry" THEN "find" ELSE "writeCounts"
      <3>1. CASE GetRegistry(w)
        <4>1. PICK rows, repeated :
                work' = [work EXCEPT ![w].pc = "find", ![w].todo = rows,
                                     ![w].total = Cardinality(rows) + repeated]
          BY <3>1 DEF GetRegistry
        <4> DEFINE t == [work[w] EXCEPT !.pc = "find", !.todo = rows,
                                        !.total = Cardinality(rows) + repeated]
        <4>2. t.kind = work[w].kind /\ t.phase = work[w].phase /\ t.pc = "find"
          BY <1>1 DEF Work
        <4>3. work' = [work EXCEPT ![w] = t]
          BY <4>1
        <4>4. work[w].pc = "getRegistry"
          BY <3>1 DEF GetRegistry
        <4> HIDE DEF t
        <4>5. QED
          BY <4>2, <4>3, <4>4
      <3>2. CASE ReadRegistry(w)
        <4> DEFINE t == [work[w] EXCEPT !.pc = "writeCounts", !.total = registry.total,
                                        !.valid = registry.valid]
        <4>1. t.kind = work[w].kind /\ t.phase = work[w].phase /\ t.pc = "writeCounts"
          BY <1>1 DEF Work
        <4>2. work' = [work EXCEPT ![w] = t] /\ work[w].pc = "readRegistry"
          BY <1>5, <3>2 DEF ReadRegistry
        <4> HIDE DEF t
        <4>3. QED
          BY <4>1, <4>2
      <3>3. QED
        BY <1>5, <3>1, <3>2
    <2>2. s \in Work
      BY <1>1, <1>3, <2>1, OnlyWorker
    <2>3. work[w].pc \in {"getRegistry", "readRegistry"}
      BY <1>5 DEF GetRegistry, ReadRegistry
    <2>4. /\ Stage(s) /\ ~Prepared(s) /\ Owed(work[w]) = {}
          /\ s.phase \notin {"invitations", "credentials"}
      BY <1>1, <2>1, <2>3 DEF Stage, Prepared, Owed
    <2>5. Listing(s)' /\ Looked(s)'
      BY <2>1, <2>4 DEF Listing, Looked
    <2>6. s.pc # "softDelete"
      BY <2>1
    <2>7. Invited \subseteq credentials \cup Owed(work[w]) =>
            Invited \subseteq credentials \cup Owed(s)'
      BY <2>4
    <2>8. work[w].pc \notin {"idle", "softDelete"}
      BY <2>3
    <2>9. QED
      BY <1>2, <2>1, <2>2, <2>4, <2>5, <2>6, <2>7, <2>8, AloneMove
  <1>6. ASSUME NEW pc, Goto(w, pc), ReadAgain(w) \/ CheckRegistry(w),
               pc = IF work[w].pc = "readAgain" THEN "checkRegistry" ELSE "listVoters",
               CheckRegistry(w) => Ready(registry)
        PROVE  KeptInv(w)'
    <2>1. PICK s : /\ s.pc = pc /\ s.kind = work[w].kind /\ s.phase = work[w].phase
                   /\ s = [work[w] EXCEPT !.pc = pc]
      BY <1>1 DEF Work
    <2>2. work' = [work EXCEPT ![w] = s]
      BY <1>6, <2>1 DEF Goto
    <2>3. s \in Work
      BY <1>1, <1>3, <2>2, OnlyWorker
    <2>4. work[w].pc \in {"readAgain", "checkRegistry"} /\ UNCHANGED <<voters, registry>>
      BY <1>6 DEF ReadAgain, CheckRegistry, lists
    <2>5. Stage(s)
      BY <1>1, <1>6, <2>1, <2>4 DEF Stage
    <2>6. Listing(s)' /\ Looked(s)' /\ s.pc # "softDelete"
      BY <1>6, <2>1 DEF Listing, Looked
    <2>7. Prepared(s) => Ready(registry)'
      BY <1>1, <1>6, <2>1, <2>4 DEF Prepared, Stage, ReadAgain
    <2>8. Owed(s)' = Owed(work[w])
      <3>1. ActiveVoters' = ActiveVoters
        BY <2>4 DEF ActiveVoters
      <3>2. s.pc \in {"checkRegistry", "listVoters"}
        BY <1>6, <2>1
      <3>3. s.phase = "credentials" => work[w].pc = "checkRegistry"
        BY <1>1, <2>1, <2>4 DEF Stage
      <3>4. QED
        BY <2>1, <2>4, <3>1, <3>2, <3>3 DEF Owed
    <2>9. QED
      BY <1>2, <2>2, <2>3, <2>4, <2>5, <2>6, <2>7, <2>8, AloneMove
  <1>7. CASE ~Leave(w) /\ (ReadAgain(w) \/ CheckRegistry(w))
    BY <1>6, <1>7 DEF ReadAgain, CheckRegistry, CallOf
  <1>8. QED
    BY <1>4, <1>5, <1>7

(***************************************************************************)
(* Going on past a voter v, who has a credential in cred if v was owed     *)
(* one, leaves nobody else without what was owed.                          *)
(***************************************************************************)
LEMMA OwedOnward ==
  ASSUME NEW s, NEW c, NEW v, NEW cred, Stage(s), Listing(s), s.pc \in {"find", "write"},
         Onward(s, c, s.todo \ {v}),
         s.phase = "credentials" /\ s.kind # "open" => v \in cred
  PROVE  /\ Owed(s) \subseteq cred \cup Owed(c)
         /\ Prepared(c) => Prepared(s)
         /\ Listing(c) /\ c.pc \notin {"write", "softDelete"}
  <1>1. CASE s.todo \ {v} # {}
    <2>1. c.pc = "find" /\ c.kind = s.kind /\ c.phase = s.phase /\ c.todo = s.todo \ {v}
      BY <1>1 DEF Onward
    <2>2. Owed(s) \subseteq cred \cup Owed(c)
      BY <2>1 DEF Owed
    <2>3. QED
      BY <2>1, <2>2 DEF Listing, Prepared
  <1>2. CASE s.todo \ {v} = {}
    <2>1. CASE c = Idle
      <3>1. s.phase = "sending" \/ (s.kind = "prepare" /\ s.phase = "credentials")
        BY <1>2, <2>1 DEF Onward, Idle
      <3>2. Owed(s) \subseteq cred
        BY <1>2, <3>1 DEF Owed
      <3>3. QED
        BY <2>1, <3>2, IdleStage DEF Listing, Idle
    <2>2. CASE c # Idle
      <3>1. \/ /\ s.phase = "rows"
               /\ c.pc = "writeCounts" /\ c.kind = s.kind /\ c.phase = "counting"
            \/ /\ s.phase = "invitations"
               /\ c.pc = "checkRegistry" /\ c.kind = s.kind /\ c.phase = "credentials"
            \/ /\ s.phase = "credentials" /\ s.kind = "open"
               /\ c.pc = "writeState" /\ c.kind = s.kind /\ c.phase = "opening"
            \/ /\ s.phase = "credentials" /\ s.kind = "issue"
               /\ c.pc = "listVoters" /\ c.kind = s.kind /\ c.phase = "sending"
        BY <1>2, <2>2 DEF Onward
      <3>2. Owed(s) \subseteq cred \cup Owed(c)
        BY <1>2, <3>1 DEF Owed
      <3>3. Prepared(c) => Prepared(s)
        BY <3>1 DEF Prepared
      <3>4. QED
        BY <3>1, <3>2, <3>3 DEF Listing
    <2>3. QED
      BY <2>1, <2>2
  <1>3. QED
    BY <1>1, <1>2

LEMMA AloneFind ==
  ASSUME NEW w \in Workers, KeptInv(w), OpeningInv', Find(w)
  PROVE  KeptInv(w)'
  <1>1. /\ Stage(work[w]) /\ Listing(work[w]) /\ work[w] \in Work /\ TypeOK
        /\ work[w].pc = "find" /\ UNCHANGED <<record, lists, crashes>>
        /\ Prepared(work[w]) => Ready(registry)
    BY DEF KeptInv, KeptBy, OpeningInv, TypeOK, Find
  <1>2. PICK v \in work[w].todo :
          work' = IF (work[w].phase = "sending") = Found(work[w].phase, v)
                    THEN [work EXCEPT ![w].pc = "write", ![w].voter = v]
                    ELSE [work EXCEPT ![w] = Continue(w, work[w].todo \ {v})]
    BY <1>1 DEF Find
  <1>3. v \in Voters /\ invitations[v] \in Nat
    BY <1>1 DEF Work, TypeOK
  <1>4. work' \in [Workers -> Work]
    BY DEF OpeningInv, TypeOK
  <1>5. /\ ActiveVoters' = ActiveVoters /\ Invited' = Invited
        /\ UNCHANGED <<invitations, credentials, sent, registry>>
    BY <1>1 DEF ActiveVoters, Invited, lists
  <1>6. CASE (work[w].phase = "sending") = Found(work[w].phase, v)
    <2>1. PICK s : /\ s = [work[w] EXCEPT !.pc = "write", !.voter = v]
                   /\ s.pc = "write" /\ s.voter = v /\ s.todo = work[w].todo
                   /\ s.kind = work[w].kind /\ s.phase = work[w].phase
      <3> DEFINE t == [work[w] EXCEPT !.pc = "write", !.voter = v]
      <3>1. /\ t.pc = "write" /\ t.voter = v /\ t.todo = work[w].todo
            /\ t.kind = work[w].kind /\ t.phase = work[w].phase
        BY <1>1 DEF Work
      <3>2. QED
        BY <3>1
    <2>2. work' = [work EXCEPT ![w] = s]
      BY <1>2, <1>6, <2>1
    <2>3. s \in Work
      BY <1>1, <1>4, <2>2, OnlyWorker
    <2>4. Stage(s) /\ (Prepared(s) => Ready(registry))
      BY <1>1, <2>1 DEF Stage, Prepared
    <2>5. Listing(s)'
      BY <1>1, <1>5, <2>1 DEF Listing
    <2>6. Looked(s)'
      <3>1. /\ s.phase = "invitations" => invitations[v] = 0
            /\ s.phase = "credentials" => v \notin credentials
            /\ s.phase = "sending" => v \in Invited
        BY <1>3, <1>6, <2>1 DEF Found, Invited
      <3>2. QED
        BY <1>5, <2>1, <3>1 DEF Looked
    <2>7. Owed(s)' = Owed(work[w])
      BY <1>1, <1>5, <2>1 DEF Owed
    <2>8. QED
      BY <1>1, <1>5, <2>1, <2>2, <2>3, <2>4, <2>5, <2>6, <2>7, AloneMove
  <1>7. CASE (work[w].phase = "sending") # Found(work[w].phase, v)
    <2> DEFINE todo == work[w].todo \ {v}
    <2>1. PICK s : s = Continue(w, todo)
      OBVIOUS
    <2>2. work' = [work EXCEPT ![w] = s]
      BY <1>2, <1>7, <2>1
    <2>3. s \in Work
      BY <1>1, <1>4, <2>2, OnlyWorker
    <2>4. Onward(work[w], s, todo) /\ Stage(s)
      BY <1>1, <2>1, ContinueStage
    <2>5. work[w].phase = "credentials" => v \in credentials
      BY <1>7 DEF Found
    <2>6. /\ Owed(work[w]) \subseteq credentials \cup Owed(s)
          /\ Prepared(s) => Ready(registry)
          /\ Listing(s) /\ s.pc \notin {"write", "softDelete"}
      BY <1>1, <2>4, <2>5, OwedOnward
    <2>7. Listing(s)' /\ Looked(s)' /\ Owed(s)' = Owed(s)
      BY <1>5, <2>6 DEF Listing, Looked, Owed
    <2>8. QED
      BY <1>1, <1>5, <2>2, <2>3, <2>4, <2>6, <2>7, AloneMove
  <1>8. QED
    BY <1>6, <1>7

LEMMA AloneList ==
  ASSUME NEW w \in Workers, KeptInv(w), OpeningInv', ListVoters(w)
  PROVE  KeptInv(w)'
  <1>1. /\ Stage(work[w]) /\ work[w] \in Work /\ TypeOK
        /\ work[w].pc = "listVoters" /\ UNCHANGED <<record, lists, crashes>>
        /\ Prepared(work[w]) => Ready(registry)
    BY DEF KeptInv, KeptBy, OpeningInv, TypeOK, ListVoters
  <1>2. PICK list \in {ActiveVoters} \cup
                   (IF work[w].kind = "resend" THEN {{v} : v \in ActiveVoters} ELSE {}) :
          work' = [work EXCEPT ![w] = [Continue(w, list) EXCEPT
                     !.listed = IF work[w].kind = "open" THEN list ELSE {}]]
    BY DEF ListVoters
  <1>3. list \subseteq ActiveVoters /\ (work[w].kind # "resend" => list = ActiveVoters)
    BY <1>2
  <1>4. PICK c : c = Continue(w, list)
    OBVIOUS
  <1>5. c \in Work /\ Onward(work[w], c, list) /\ Stage(c)
    <2>1. list \in SUBSET Voters
      BY <1>3 DEF ActiveVoters
    <2>2. QED
      BY <1>1, <1>4, <2>1, ContinueType, ContinueStage
  <1>6. PICK s : /\ s = [c EXCEPT !.listed = IF work[w].kind = "open" THEN list ELSE {}]
                 /\ s.pc = c.pc /\ s.kind = c.kind /\ s.phase = c.phase /\ s.todo = c.todo
    <2> DEFINE t == [c EXCEPT !.listed = IF work[w].kind = "open" THEN list ELSE {}]
    <2>1. t.pc = c.pc /\ t.kind = c.kind /\ t.phase = c.phase /\ t.todo = c.todo
      BY <1>5 DEF Work
    <2>2. QED
      BY <2>1
  <1>7. work' = [work EXCEPT ![w] = s]
    BY <1>2, <1>4, <1>6
  <1>8. s \in Work
    BY <1>1, <1>7, OnlyWorker DEF OpeningInv, TypeOK
  <1>9. ActiveVoters' = ActiveVoters /\ UNCHANGED <<invitations, credentials, sent, registry>>
    BY <1>1 DEF ActiveVoters, lists
  <1>10. /\ s.pc \notin {"write", "softDelete"}
         /\ Prepared(s) => Ready(registry)
         /\ s.pc = "find" => s.todo = list
    BY <1>1, <1>5, <1>6 DEF Onward, Prepared, Idle
  <1>11. Stage(s) /\ Listing(s)' /\ Looked(s)'
    BY <1>3, <1>5, <1>6, <1>9, <1>10 DEF Stage, Listing, Looked
  <1>12. Owed(work[w]) \subseteq Owed(s)'
    <2>1. CASE /\ work[w].phase = "credentials" /\ work[w].kind \in {"prepare", "issue"}
      <3>1. Owed(work[w]) = ActiveVoters /\ list = ActiveVoters
        BY <1>1, <1>3, <2>1 DEF Owed
      <3>2. CASE list = {}
        BY <3>1, <3>2
      <3>3. CASE list # {}
        <4>1. s.pc = "find" /\ s.kind = work[w].kind /\ s.phase = "credentials" /\ s.todo = list
          BY <1>5, <1>6, <2>1, <3>3 DEF Onward
        <4>2. QED
          BY <2>1, <3>1, <4>1 DEF Owed
      <3>4. QED
        BY <3>2, <3>3
    <2>2. CASE ~(work[w].phase = "credentials" /\ work[w].kind \in {"prepare", "issue"})
      BY <1>1, <2>2 DEF Owed
    <2>3. QED
      BY <2>1, <2>2
  <1>13. QED
    BY <1>1, <1>7, <1>8, <1>9, <1>10, <1>11, <1>12, AloneMove

(* A write has succeeded.                                                  *)
LEMMA AloneAdvance ==
  ASSUME NEW w \in Workers, KeptInv(w), OpeningInv', work[w].pc = "write", Advance(w),
         UNCHANGED <<record, registry, voters, crashes>>, credentials \subseteq credentials',
         work[w].phase = "credentials" => work[w].voter \in credentials',
         crashes = 0 => Invited' \subseteq credentials' \cup Owed(work[w]),
         OneInvitationEach', SentInvitationsWork'
  PROVE  KeptInv(w)'
  <1>1. /\ Stage(work[w]) /\ Listing(work[w]) /\ work[w] \in Work /\ TypeOK
        /\ Prepared(work[w]) => Ready(registry)
        /\ Undeleted(work[w])
    BY DEF KeptInv, KeptBy, OpeningInv, TypeOK
  <1> DEFINE v == work[w].voter
             todo == work[w].todo \ {v}
  <1>2. PICK s : s = Continue(w, todo)
    OBVIOUS
  <1>3. work' = [work EXCEPT ![w] = s]
    BY <1>2 DEF Advance
  <1>4. work'[w] = s
    BY <1>1, <1>3, OnlyWorker
  <1>5. Onward(work[w], s, todo) /\ Stage(s)
    BY <1>1, <1>2, ContinueStage
  <1>6. /\ Owed(work[w]) \subseteq credentials' \cup Owed(s)
        /\ Prepared(s) => Ready(registry)
        /\ Listing(s) /\ s.pc \notin {"write", "softDelete"}
    BY <1>1, <1>5, OwedOnward
  <1>7. ActiveVoters' = ActiveVoters
    BY DEF ActiveVoters
  <1>8. Listing(s)' /\ Looked(s)' /\ Owed(s)' = Owed(s)
    BY <1>6, <1>7 DEF Listing, Looked, Owed
  <1>9. Undeleted(s)'
    BY <1>1, <1>6 DEF Undeleted, record
  <1>10. crashes' = 0 => Invited' \subseteq credentials' \cup Owed(s)'
    BY <1>6, <1>8
  <1>11. KeptBy(s)'
    BY <1>5, <1>6, <1>8, <1>9, <1>10 DEF KeptBy, Stage, Prepared
  <1>12. QED
    BY <1>4, <1>11 DEF KeptInv

LEMMA AloneVoter ==
  ASSUME NEW w \in Workers, KeptInv(w), OpeningInv', CreateVoter(w)
  PROVE  KeptInv(w)'
  <1>1. /\ Stage(work[w]) /\ work[w] \in Work /\ TypeOK /\ Undeleted(work[w])
        /\ work[w].pc = "write" /\ work[w].phase = "rows"
        /\ UNCHANGED <<record, registry, credentials, invitations, sent, crashes>>
    BY DEF KeptInv, KeptBy, OpeningInv, TypeOK, CreateVoter, Writes
  <1>2. Owed(work[w]) = {}
    BY <1>1 DEF Owed
  <1>3. CASE Leave(w)
    BY <1>1, <1>2, <1>3, AloneLeave DEF Undeleted, record
  <1>4. CASE ~Leave(w)
    <2> DEFINE todo == work[w].todo \ {work[w].voter}
    <2>1. PICK c : c = Continue(w, todo)
      OBVIOUS
    <2>2. c \in Work /\ Onward(work[w], c, todo) /\ Stage(c)
      BY <1>1, <2>1, ContinueType, ContinueStage DEF Work
    <2>3. PICK s : /\ s = [c EXCEPT !.valid = work[w].valid + 1]
                   /\ s.pc = c.pc /\ s.kind = c.kind /\ s.phase = c.phase
      <3> DEFINE t == [c EXCEPT !.valid = work[w].valid + 1]
      <3>1. t.pc = c.pc /\ t.kind = c.kind /\ t.phase = c.phase
        BY <2>2 DEF Work
      <3>2. QED
        BY <3>1
    <2>4. work' = [work EXCEPT ![w] = s]
      BY <1>4, <2>1, <2>3 DEF CreateVoter
    <2>5. s \in Work
      BY <1>1, <2>4, OnlyWorker DEF OpeningInv, TypeOK
    <2>6. /\ s.phase \in {"rows", "counting"} /\ s.pc \in {"find", "writeCounts"}
      BY <1>1, <2>2, <2>3 DEF Onward
    <2>7. Stage(s) /\ Listing(s)' /\ Looked(s)' /\ ~Prepared(s)
      BY <2>2, <2>3, <2>6 DEF Stage, Listing, Looked, Prepared
    <2>8. QED
      BY <1>1, <1>2, <2>4, <2>5, <2>6, <2>7, AloneMove
  <1>5. QED
    BY <1>3, <1>4

LEMMA AloneWrites ==
  ASSUME NEW w \in Workers, KeptInv(w), OpeningInv',
         CreateCredential(w) \/ CreateInvitation(w) \/ MarkSent(w)
  PROVE  KeptInv(w)'
  <1>1. /\ Stage(work[w]) /\ Listing(work[w]) /\ Looked(work[w]) /\ work[w] \in Work
        /\ TypeOK /\ work[w].pc = "write" /\ work[w].voter \in Voters
    BY DEF KeptInv, KeptBy, OpeningInv, TypeOK, WorkInv, OnCourse, CreateCredential,
           CreateInvitation, MarkSent, Writes
  <1>2. crashes = 0 => Invited \subseteq credentials \cup Owed(work[w])
    BY DEF KeptInv, KeptBy
  <1>3. OneInvitationEach /\ SentInvitationsWork
    BY DEF KeptInv
  <1>4. CASE CreateCredential(w)
    <2>1. work[w].phase = "credentials" /\ work[w].voter \notin credentials
          /\ voters[work[w].voter] # "none"
      BY <1>1, <1>4 DEF CreateCredential, Writes, Listing, Looked, ActiveVoters
    <2>2. /\ credentials' = credentials \cup {work[w].voter} /\ Advance(w)
          /\ UNCHANGED <<record, registry, voters, invitations, sent, crashes>>
      BY <1>4, <2>1 DEF CreateCredential
    <2>3. Invited' = Invited
      BY <2>2 DEF Invited
    <2>4. OneInvitationEach' /\ SentInvitationsWork'
      BY <1>3, <2>2 DEF OneInvitationEach, SentInvitationsWork
    <2>5. QED
      BY <1>1, <1>2, <2>2, <2>3, <2>4, AloneAdvance
  <1>5. CASE CreateInvitation(w)
    <2>1. /\ work[w].phase = "invitations" /\ invitations[work[w].voter] = 0
          /\ work[w].voter \in ActiveVoters /\ voters[work[w].voter] # "none"
      BY <1>1, <1>5 DEF CreateInvitation, Writes, Listing, Looked, ActiveVoters
    <2>2. /\ invitations' = [invitations EXCEPT ![work[w].voter] = 1] /\ Advance(w)
          /\ UNCHANGED <<record, registry, voters, credentials, sent, crashes>>
      BY <1>5, <2>1 DEF CreateInvitation
    <2>3. Owed(work[w]) = ActiveVoters
      BY <1>1, <2>1 DEF Owed, Stage
    <2>4. Invited' = Invited \cup {work[w].voter}
      BY <1>1, <2>2 DEF Invited, TypeOK
    <2>5. OneInvitationEach'
      BY <1>1, <1>3, <2>2 DEF OneInvitationEach, TypeOK
    <2>6. SentInvitationsWork'
      BY <1>3, <2>2 DEF SentInvitationsWork
    <2>7. QED
      BY <1>1, <1>2, <2>1, <2>2, <2>3, <2>4, <2>5, <2>6, AloneAdvance
  <1>6. CASE MarkSent(w)
    <2>1. work[w].phase = "sending" /\ work[w].voter \in Invited
      BY <1>1, <1>6 DEF MarkSent, Writes, Looked
    <2>2. /\ sent' = sent \cup {work[w].voter} /\ Advance(w)
          /\ UNCHANGED <<record, registry, voters, credentials, invitations, crashes>>
      BY <1>6 DEF MarkSent
    <2>3. Owed(work[w]) = {}
      BY <2>1 DEF Owed
    <2>4. SentInvitationsWork'
      BY <1>2, <1>3, <2>1, <2>2, <2>3 DEF SentInvitationsWork
    <2>5. Invited' = Invited /\ OneInvitationEach'
      BY <1>3, <2>2 DEF Invited, OneInvitationEach
    <2>6. QED
      BY <1>1, <1>2, <2>1, <2>2, <2>4, <2>5, AloneAdvance
  <1>7. QED
    BY <1>4, <1>5, <1>6

-----------------------------------------------------------------------------
LEMMA KeptStep ==
  ASSUME NEW w \in Workers, Workers = {w}, KeptInv(w), [Next]_vars
  PROVE  KeptInv(w)'
  <1>1. OpeningInv'
    BY TypeStep, WorkInvStep, OpenedStep DEF KeptInv, OpeningInv
  <1>2. ASSUME NEW kind \in Operations, Begin(w, kind) PROVE KeptInv(w)'
    BY <1>1, <1>2, AloneBegin
  <1>3. ASSUME Step(w) \/ Crash(w) PROVE KeptInv(w)'
    BY <1>1, <1>3, AloneEnds, AloneReads, AloneList, AloneFind, AloneVoter, AloneWrites DEF Step
  <1>4. CASE StartPasses \/ UNCHANGED vars
    <2>1. UNCHANGED <<election, deleted, lists, work, crashes>>
      BY <1>4 DEF StartPasses, vars, record
    <2>2. /\ ActiveVoters' = ActiveVoters /\ Invited' = Invited
          /\ UNCHANGED <<registry, invitations, credentials, sent>>
      BY <2>1 DEF ActiveVoters, Invited, lists
    <2>3. PICK s : s = work[w]
      OBVIOUS
    <2>4. KeptBy(s)'
      BY <2>1, <2>2, <2>3 DEF KeptInv, KeptBy, Stage, Listing, Looked, Undeleted, Prepared, Owed
    <2>5. QED
      BY <1>1, <2>1, <2>2, <2>3, <2>4 DEF KeptInv, OneInvitationEach, SentInvitationsWork
  <1>5. QED
    BY <1>2, <1>3, <1>4 DEF Next

LEMMA KeptStarts ==
  ASSUME NEW w \in Workers, Init
  PROVE  KeptInv(w)
  <1>1. OpeningInv /\ work[w] = Idle
    BY InitInv DEF Init
  <1>2. KeptBy(Idle)
    BY IdleStage DEF Init, KeptBy, Listing, Looked, Undeleted, Invited, Idle
  <1>3. OneInvitationEach /\ SentInvitationsWork
    BY DEF Init, OneInvitationEach, SentInvitationsWork
  <1>4. QED
    BY <1>1, <1>2, <1>3 DEF KeptInv

(***************************************************************************)
(* With one operation at a time, wherever it dies and is tried again: no   *)
(* preparation or issue invites anyone twice, no deleted election is open, *)
(* and while nothing has died every invitation that was sent gives its     *)
(* voter access.                                                           *)
(***************************************************************************)
THEOREM KeptAloneCorrect ==
  ASSUME NEW w \in Workers, Workers = {w}
  PROVE  Spec => []KeptAlone
  <1>1. Init => KeptInv(w)
    BY KeptStarts
  <1>2. KeptInv(w) /\ [Next]_vars => KeptInv(w)'
    BY KeptStep
  <1>3. KeptInv(w) => KeptAlone
    <2>1. KeptInv(w) => DeletedNeverOpen
      BY DEF KeptInv, KeptBy, Undeleted, DeletedNeverOpen, PreStartStates
    <2>2. QED
      BY <2>1 DEF KeptInv, KeptAlone
  <1>4. QED
    BY <1>1, <1>2, <1>3, PTL DEF Spec
=============================================================================
