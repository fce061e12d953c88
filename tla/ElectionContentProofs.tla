------------------------- MODULE ElectionContentProofs -------------------------
(***************************************************************************)
(* Proofs about ElectionContent for any number of elections, requests,     *)
(* options, questions and forms, and for files of any length.              *)
(***************************************************************************)
EXTENDS ElectionContent, FiniteSetTheorems, WellFoundedInduction, TLAPS

-----------------------------------------------------------------------------
(* Types                                                                   *)

Before(n) == 0..(n - 1)

Choices == UNION {[Before(n) -> Option] : n \in 0..Places}

Question == [by: {"wizard", "quick"}, options: Choices]

Sheets == UNION {[S -> Question] : S \in SUBSET Before(Questions)}

\* The texts a request brings, if any
Imported == ImportableTexts \cup {<<>>}

AllPeople == UNION {NamedBy[text] : text \in Imported}

Counts == {0} \cup {Cardinality(P) : P \in SUBSET AllPeople}

\* Voters are those of texts, text by text.
Registries == {UNION {NamedBy[text] : text \in T} : T \in SUBSET Imported}

ElectionRow ==
  [state: {"none"} \cup ElectionState, startsAt: Nat, endsAt: Nat, policy: BOOLEAN,
   total: Counts, valid: Counts, people: Registries,
   listedBy: {"none", "wizard", "page"}]

Request ==
  [kind: {"none"} \cup Kinds, pc: Steps, election: Elections \cup {NoElection},
   rows: Seq(Row), file: Imported, times: Nat \X Nat, shown: Sheets,
   stale: SUBSET Before(Questions), place: Nat, next: Nat, added: Nat]

Wizard == [step: 0..2, info: BOOLEAN, rows: {<<>>} \cup Forms,
           file: FormTexts \cup {<<>>}]

ContentTypeOK ==
  /\ now \in 0..MaxTime
  /\ elections \in [Elections -> ElectionRow]
  /\ questions \in [Elections -> Sheets]
  /\ wizard \in Wizard
  /\ requests \in [Requests -> Request]
  /\ sent \in 0..MaxSent /\ failures \in 0..MaxFailures
  /\ overlapped \in BOOLEAN

-----------------------------------------------------------------------------
(* What a chain of calls knows of the rows it writes, whoever else writes: *)
(* of the questions there, and of the elections that exist                 *)

\* The steps of the chains of each kind
StepsOf ==
  [none |-> {"rest"}, wizard |-> {"draft", "policy", "question", "option", "voters"},
   quick |-> {"question", "option"}, edit |-> {"form", "question", "option", "append"},
   import |-> {"voters"}, review |-> {"write"}]

InStep(q) == q.kind \in DOMAIN StepsOf /\ q.pc \in StepsOf[q.kind]

InElection(q, existing) == q.pc \notin {"rest", "draft"} => q.election \in existing

WizardFits(q) ==
  q.kind = "wizard" =>
    /\ Len(q.rows) <= Places /\ Cardinality(Filled(q.rows)) >= 2
    /\ Distinct(LabelsOf(q.rows))
    /\ q.place = 0

QuickFits(q) ==
  q.kind = "quick" => Len(q.rows) <= Places /\ q.place \in Before(Questions)

\* A chain that creates a question has written the options before the next
CreationFits(q, there) ==
  q.kind \in {"wizard", "quick"} =>
    /\ q.pc \in {"draft", "policy", "question"} => q.next = 0
    /\ q.pc = "option" =>
         /\ q.place \in DOMAIN there
         /\ there[q.place].by = q.kind
         /\ Before(q.next) \subseteq DOMAIN there[q.place].options
         /\ q.next <= Len(OptionsOf(q.rows))

\* Before its last call the wizard has written two options
VotersFit(q, there) ==
  (q.kind = "wizard" /\ q.pc = "voters") =>
    0 \in DOMAIN there /\ {0, 1} \subseteq DOMAIN there[0].options

\* What a form of edits shows is still there
ShownFits(q, there) ==
  q.kind = "edit" =>
    /\ \A o \in DOMAIN q.shown :
         o \in DOMAIN there /\ DOMAIN q.shown[o].options \subseteq DOMAIN there[o].options
    /\ q.pc \in {"option", "append"} => q.place \in DOMAIN q.shown
    /\ q.pc = "option" => Before(q.next) \subseteq DOMAIN q.shown[q.place].options

RequestFits(q, there, existing) ==
  /\ InStep(q) /\ InElection(q, existing)
  /\ WizardFits(q) /\ QuickFits(q)
  /\ CreationFits(q, there) /\ VotersFit(q, there) /\ ShownFits(q, there)

RequestsFit ==
  \A r \in Requests : RequestFits(requests[r], questions[requests[r].election], Existing)

ContentInv == ContentTypeOK /\ RequestsFit /\ VotersComeLast

-----------------------------------------------------------------------------
(* As long as no request ran while another was going on                    *)

Idle(q) == q.pc \in {"rest", "form"}

Answerable(there) ==
  DOMAIN there # {} /\ \A o \in DOMAIN there : DOMAIN there[o].options # {}

ReviewLooked(q, there) == q.pc = "write" => Answerable(there)

\* The chains that write questions hold their draft
DraftHeld(q, election) ==
  (q.kind \in {"wizard", "edit"} /\ q.pc \notin {"form", "draft"}) => election.state = "draft"

\* The wizard's options so far
WizardInStep(q, there) ==
  (q.kind = "wizard" /\ q.pc = "option") =>
    /\ DOMAIN there[0].options = Before(q.next)
    /\ \A i \in Before(q.next) : there[0].options[i].label = OptionsOf(q.rows)[i + 1].label

\* The options of the questions that the edit has not come to, and the
\* titles of those of the question at hand
EditInStep(q, there) ==
  (q.kind = "edit" /\ q.pc # "form") =>
    /\ \A o \in DOMAIN q.shown \ q.stale :
         q.place <= o => DOMAIN q.shown[o].options = DOMAIN there[o].options
    /\ q.pc \in {"option", "append"} => q.place \notin q.stale /\ QuestionValid(q)
    /\ q.pc = "option" =>
         \A i \in Before(q.next) :
           there[q.place].options[i].label = q.shown[q.place].options[i].label
    /\ q.pc = "append" =>
         \A i \in DOMAIN q.shown[q.place].options :
           there[q.place].options[i].label = q.shown[q.place].options[i].label

ChainInStep(q, election, there) ==
  /\ ReviewLooked(q, there) /\ DraftHeld(q, election)
  /\ WizardInStep(q, there) /\ EditInStep(q, there)

\* q is writing the options of question o of e.
InHand(q, e, o, kinds) ==
  q.kind \in kinds /\ q.pc = "option" /\ q.election = e /\ q.place = o

Enough(options) == Cardinality(DOMAIN options) >= 2

Different(options) ==
  \A i, j \in DOMAIN options : options[i].label = options[j].label => i = j

\* A question of the wizard is sound, or the wizard or an edit is at it.
SoundOrInHand(q, e, o, question) ==
  question.by = "wizard" =>
    /\ Enough(question.options) \/ InHand(q, e, o, {"wizard"})
    /\ Different(question.options) \/ InHand(q, e, o, {"wizard", "edit"})

Reviewed ==
  \A e \in Elections :
    elections[e].state = "ready_for_review" => Answerable(questions[e])

\* What a request knows when it is the only one that is going on
SoloFor(r) ==
  /\ ChainInStep(requests[r], elections[requests[r].election], questions[requests[r].election])
  /\ failures = 0 =>
       \A e \in Elections : \A o \in DOMAIN questions[e] :
         SoundOrInHand(requests[r], e, o, questions[e][o])
  /\ Reviewed

SoloInv ==
  ~overlapped =>
    \E r \in Requests : (\A s \in Requests \ {r} : Idle(requests[s])) /\ SoloFor(r)

-----------------------------------------------------------------------------
(* Places of a sequence, one after the other                               *)

LEMMA LeastNumber ==
  ASSUME NEW T, T \subseteq Nat, T # {}
  PROVE  \E m \in T : \A y \in T : ~(y < m)
  <1> DEFINE R == OpToRel(<, Nat)
  <1>1. IsWellFoundedOn(R, Nat)
    BY NatLessThanWellFounded
  <1>2. \A x, y \in Nat : x < y => <<x, y>> \in R
    BY Zenon DEF OpToRel
  <1> HIDE DEF R
  <1>3. PICK m \in T : \A y \in T : <<y, m>> \notin R
    BY <1>1, WFMin
  <1>4. QED
    BY <1>2, <1>3

\* How many places there are up to i
LEMMA PlacesUpTo ==
  ASSUME NEW n \in Nat, NEW S \in SUBSET (1..n)
  PROVE  /\ IsFiniteSet(S) /\ Cardinality(S) \in 0..n
         /\ \A i \in Nat : /\ IsFiniteSet({j \in S : j <= i})
                           /\ Cardinality({j \in S : j <= i}) \in 0..Cardinality(S)
  <1>1. IsFiniteSet(1..n) /\ Cardinality(1..n) = n
    BY FS_Interval
  <1>2. IsFiniteSet(S) /\ Cardinality(S) <= n
    BY <1>1, FS_Subset
  <1>3. Cardinality(S) \in Nat
    BY <1>2, FS_CardinalityType
  <1>4. ASSUME NEW i \in Nat
        PROVE  /\ IsFiniteSet({j \in S : j <= i})
               /\ Cardinality({j \in S : j <= i}) \in 0..Cardinality(S)
    <2>1. {j \in S : j <= i} \subseteq S
      OBVIOUS
    <2>2. IsFiniteSet({j \in S : j <= i}) /\ Cardinality({j \in S : j <= i}) <= Cardinality(S)
      BY <1>2, <2>1, FS_Subset
    <2>3. Cardinality({j \in S : j <= i}) \in Nat
      BY <2>2, FS_CardinalityType
    <2>4. QED
      BY <1>3, <2>2, <2>3
  <1>5. QED
    BY <1>2, <1>3, <1>4

\* The k-th of a set of places is one of them and has k - 1 before it.
LEMMA NthFacts ==
  ASSUME NEW n \in Nat, NEW S \in SUBSET (1..n), NEW k \in 1..Cardinality(S)
  PROVE  Nth(S, k) \in S /\ Cardinality({j \in S : j <= Nth(S, k)}) = k
  <1> DEFINE C(m) == Cardinality({j \in S : j <= m})
             T    == {m \in Nat : k <= C(m)}
  <1>0. IsFiniteSet(S) /\ Cardinality(S) \in Nat /\ k \in Nat /\ k >= 1 /\ k <= Cardinality(S)
    BY PlacesUpTo
  <1>0a. \A i \in S : i \in Nat /\ i >= 1 /\ i <= n
    OBVIOUS
  <1>1. \A m \in Nat : IsFiniteSet({j \in S : j <= m}) /\ C(m) \in Nat
    BY PlacesUpTo
  <1>2. T # {}
    <2>1. {j \in S : j <= n} = S
      BY <1>0a
    <2>2. C(n) = Cardinality(S)
      BY <2>1
    <2>3. n \in T
      BY <1>0, <2>2
    <2>4. QED
      BY <2>3
  <1>3. PICK m \in T : \A y \in T : ~(y < m)
    BY <1>2, LeastNumber
  <1>4. ASSUME m = 0 PROVE FALSE
    <2>1. {j \in S : j <= m} = {}
      <3>1. \A j \in S : ~(j <= 0)
        BY <1>0a
      <3>2. QED
        BY <1>4, <3>1
    <2>2. C(m) = 0
      BY <2>1, FS_EmptySet
    <2>3. k <= C(m)
      BY <1>3
    <2>4. QED
      BY <2>2, <2>3, <1>0
  <1>5. m \in Nat /\ m - 1 \in Nat /\ C(m - 1) < k
    <2>1. m \in Nat /\ m - 1 \in Nat /\ m - 1 < m
      BY <1>3, <1>4
    <2>2. m - 1 \notin T
      BY <2>1, <1>3
    <2>3. ~(k <= C(m - 1))
      BY <2>1, <2>2
    <2>4. C(m - 1) \in Nat
      BY <2>1, <1>1
    <2>5. QED
      BY <2>1, <2>3, <2>4, <1>0
  <1>6. m \in S /\ C(m) = C(m - 1) + 1
    <2>1. CASE m \in S
      <3>1. {j \in S : j <= m} = {j \in S : j <= m - 1} \cup {m}
        <4>1. \A j \in S : j <= m <=> (j <= m - 1 \/ j = m)
          BY <1>0a, <1>5
        <4>2. m \in S
          BY <2>1
        <4> HIDE DEF T
        <4>3. QED
          BY <4>1, <4>2
      <3>2. m \notin {j \in S : j <= m - 1}
        BY <1>5
      <3>3. QED
        BY <2>1, <3>1, <3>2, <1>1, <1>5, FS_AddElement
    <2>2. CASE m \notin S
      <3>1. {j \in S : j <= m} = {j \in S : j <= m - 1}
        <4>1. \A j \in S : j # m
          BY <2>2
        <4>2. \A j \in S : j <= m <=> j <= m - 1
          BY <1>0a, <1>5, <4>1
        <4> HIDE DEF T
        <4>3. QED
          BY <4>2
      <3>2. C(m) = C(m - 1) /\ k <= C(m)
        BY <3>1, <1>3
      <3>3. C(m - 1) \in Nat
        BY <1>1, <1>5
      <3>4. QED
        BY <3>2, <3>3, <1>5, <1>0
    <2>3. QED
      BY <2>1, <2>2
  <1>7. C(m) = k
    <2>1. k <= C(m) /\ C(m - 1) \in Nat
      BY <1>1, <1>3, <1>5
    <2>2. ASSUME NEW x \in Nat, NEW y, y = x + 1, x < k, k <= y PROVE y = k
      BY <1>0, <2>2
    <2>3. QED
      BY <2>1, <2>2, <1>5, <1>6
  <1>8. QED
    BY <1>6, <1>7 DEF Nth

\* And it is the only one.
LEMMA NthIs ==
  ASSUME NEW n \in Nat, NEW S \in SUBSET (1..n), NEW i \in S
  PROVE  /\ Cardinality({j \in S : j <= i}) \in 1..Cardinality(S)
         /\ Nth(S, Cardinality({j \in S : j <= i})) = i
  <1> DEFINE C(m) == Cardinality({j \in S : j <= m})
  <1>0a. \A m \in S : m \in Nat
    OBVIOUS
  <1>1. \A m \in S : m \in Nat /\ IsFiniteSet({j \in S : j <= m}) /\ C(m) \in 0..Cardinality(S)
    BY <1>0a, PlacesUpTo
  <1>2. ASSUME NEW x \in S, NEW y \in S, x < y PROVE C(x) # C(y)
    <2>1. {j \in S : j <= x} \subseteq {j \in S : j <= y}
      <3>1. \A j \in S : j <= x => j <= y
        BY <1>0a, <1>2
      <3>2. QED
        BY <3>1
    <2>2. y \in {j \in S : j <= y} /\ y \notin {j \in S : j <= x}
      BY <1>1, <1>2
    <2>3. {j \in S : j <= x} # {j \in S : j <= y}
      BY <2>2
    <2>4. QED
      BY <1>1, <2>1, <2>3, FS_Subset
  <1>3. C(i) # 0
    <2>1. i \in {j \in S : j <= i}
      BY <1>1
    <2>2. QED
      BY <1>1, <2>1, FS_EmptySet
  <1>4. C(i) \in 1..Cardinality(S)
    BY <1>1, <1>3, PlacesUpTo
  <1>5. Nth(S, C(i)) \in S /\ C(Nth(S, C(i))) = C(i)
    BY <1>4, NthFacts
  <1> DEFINE l == Nth(S, C(i))
  <1>6. l \in Nat /\ i \in Nat /\ (l < i \/ i < l \/ i = l)
    <2>1. l \in Nat /\ i \in Nat
      BY <1>0a, <1>5
    <2> HIDE DEF l
    <2>2. QED
      BY <2>1
  <1>7. QED
    <2> HIDE DEF l, C
    <2>1. ~(l < i)
      BY <1>2, <1>5 DEF l
    <2>2. ~(i < l)
      BY <1>2, <1>5 DEF l
    <2>3. i = l
      BY <1>6, <2>1, <2>2
    <2>4. QED
      BY <1>4, <2>3 DEF l, C

LEMMA PickFacts ==
  ASSUME NEW X, NEW s \in Seq(X), NEW S \in SUBSET (1..Len(s))
  PROVE  /\ Pick(s, S) \in Seq(X) /\ Len(Pick(s, S)) = Cardinality(S)
         /\ Cardinality(S) \in Nat /\ DOMAIN Pick(s, S) = 1..Cardinality(S)
         /\ \A k \in 1..Cardinality(S) : \E i \in S : Pick(s, S)[k] = s[i]
  <1>1. Cardinality(S) \in Nat /\ Len(s) \in Nat
    BY PlacesUpTo
  <1>2. \A k \in 1..Cardinality(S) : Nth(S, k) \in S
    BY <1>1, NthFacts
  <1>3. \A i \in S : s[i] \in X
    OBVIOUS
  <1> DEFINE N == Cardinality(S)
  <1>4. Pick(s, S) = [k \in 1..N |-> s[Nth(S, k)]]
    BY DEF Pick
  <1>5. \A k \in 1..N : s[Nth(S, k)] \in X
    BY <1>2, <1>3
  <1> HIDE DEF N
  <1>6. Pick(s, S) \in Seq(X) /\ Len(Pick(s, S)) = N /\ DOMAIN Pick(s, S) = 1..N
    BY <1>1, <1>4, <1>5 DEF N
  <1>7. \A k \in 1..N : \E i \in S : Pick(s, S)[k] = s[i]
    BY <1>2, <1>4 DEF N
  <1>8. QED
    BY <1>1, <1>6, <1>7 DEF N

\* What is picked begins with the first of the places and ends with the last.
LEMMA PickEnds ==
  ASSUME NEW X, NEW s \in Seq(X), NEW S \in SUBSET (1..Len(s)), S # {}
  PROVE  \E a, b \in S :
           /\ \A i \in S : a <= i /\ i <= b
           /\ Len(Pick(s, S)) >= 1
           /\ Pick(s, S)[1] = s[a] /\ Pick(s, S)[Len(Pick(s, S))] = s[b]
  <1>1. IsFiniteSet(S) /\ Cardinality(S) \in Nat /\ Len(s) \in Nat
    BY PlacesUpTo
  <1>2. Cardinality(S) >= 1
    BY <1>1, FS_EmptySet
  <1> DEFINE N == Cardinality(S)
             a == Nth(S, 1)
             b == Nth(S, N)
             C(m) == Cardinality({j \in S : j <= m})
  <1>3. a \in S /\ C(a) = 1 /\ b \in S /\ C(b) = N
    <2>1. 1 \in 1..Cardinality(S) /\ N \in 1..Cardinality(S)
      BY <1>1, <1>2
    <2>2. QED
      BY <1>1, <2>1, NthFacts
  <1>4. \A i \in S : i \in Nat
    OBVIOUS
  <1>5. ASSUME NEW i \in S PROVE a <= i
    <2>0. a \in Nat /\ i \in Nat /\ a \in S /\ C(a) = 1
      BY <1>3, <1>4
    <2> HIDE DEF a
    <2>1. SUFFICES ASSUME i < a PROVE FALSE
      BY <2>0
    <2>2. {i, a} \subseteq {j \in S : j <= a}
      BY <2>0, <2>1
    <2>3. i # a
      BY <2>0, <2>1
    <2>4. IsFiniteSet({j \in S : j <= a})
      BY <1>1, <2>0, PlacesUpTo
    <2>5. PICK x : {j \in S : j <= a} = {x}
      BY <2>0, <2>4, FS_Singleton
    <2>6. QED
      BY <2>2, <2>3, <2>5
  <1>6. ASSUME NEW i \in S PROVE i <= b
    <2>1. {j \in S : j <= b} \subseteq S
      OBVIOUS
    <2>2. {j \in S : j <= b} = S
      BY <1>1, <1>3, <2>1, FS_Subset
    <2>3. QED
      BY <2>2
  <1>7. Len(Pick(s, S)) = N /\ Pick(s, S)[1] = s[a] /\ Pick(s, S)[N] = s[b]
    BY <1>1, <1>2, PickFacts DEF Pick
  <1> HIDE DEF N, a, b
  <1>8. QED
    BY <1>2, <1>3, <1>5, <1>6, <1>7 DEF N

\* Picking a run of places is cutting it out.
LEMMA PickRun ==
  ASSUME NEW X, NEW s \in Seq(X), NEW t \in Seq(X), NEW p \in Nat,
         p + Len(t) <= Len(s), \A k \in 1..Len(t) : s[p + k] = t[k],
         NEW S, S = (p + 1)..(p + Len(t))
  PROVE  Pick(s, S) = t
  <1>1. Len(s) \in Nat /\ Len(t) \in Nat /\ S \in SUBSET (1..Len(s))
    OBVIOUS
  <1>2. Cardinality(S) = Len(t)
    <2> DEFINE lo == p + 1
               hi == p + Len(t)
    <2>1. lo \in Int /\ hi \in Int /\ (IF lo > hi THEN 0 ELSE hi - lo + 1) = Len(t)
      BY <1>1
    <2>2. S = lo..hi
      OBVIOUS
    <2> HIDE DEF lo, hi
    <2>3. QED
      BY <2>1, <2>2, FS_Interval
  <1>3. ASSUME NEW k \in 1..Len(t) PROVE Nth(S, k) = p + k
    <2>1. p + k \in S
      BY <1>1
    <2>2. {j \in S : j <= p + k} = (p + 1)..(p + k)
      BY <1>1
    <2>3. Cardinality((p + 1)..(p + k)) = k
      BY <1>1, FS_Interval
    <2>4. Nth(S, Cardinality({j \in S : j <= p + k})) = p + k
      BY <1>1, <2>1, NthIs
    <2>5. QED
      BY <2>2, <2>3, <2>4
  <1>4. Pick(s, S) = [k \in 1..Len(t) |-> t[k]]
    BY <1>2, <1>3 DEF Pick
  <1>5. QED
    BY <1>4

-----------------------------------------------------------------------------
\* A cell as it comes out of a line: without spaces at its ends
Cell == {x \in Seq(Characters) : x # <<>> => x[1] \notin Spaces /\ x[Len(x)] \notin Spaces}

\* A cell the text of the form keeps together
Whole == {x \in Cell : \A i \in 1..Len(x) : x[i] \notin Separators \cup {"quote"}}

LEMMA TrimmedRun ==
  ASSUME NEW X, NEW s \in Seq(X), NEW p \in Nat, NEW n \in Nat, p + n <= Len(s),
         n > 0 => s[p + 1] \notin Spaces /\ s[p + n] \notin Spaces
  PROVE  Trimmed(s, (p + 1)..(p + n)) = (p + 1)..(p + n)
  <1> DEFINE S == (p + 1)..(p + n)
  <1>1. ASSUME NEW i \in S
        PROVE  \E j, k \in S : s[j] \notin Spaces /\ s[k] \notin Spaces /\ j <= i /\ i <= k
    <2>1. p + 1 \in S /\ p + n \in S /\ n > 0 /\ p + 1 <= i /\ i <= p + n
      OBVIOUS
    <2>2. s[p + 1] \notin Spaces /\ s[p + n] \notin Spaces
      BY <2>1
    <2> HIDE DEF S
    <2>3. QED
      BY <2>1, <2>2
  <1> HIDE DEF S
  <1>2. Trimmed(s, S) = S
    BY <1>1 DEF Trimmed
  <1>3. QED
    BY <1>2 DEF S

LEMMA TrimCell ==
  ASSUME NEW x \in Cell
  PROVE  Trim(x) = x
  <1> DEFINE n == Len(x)
  <1>1. x \in Seq(Characters) /\ n \in Nat /\ DOMAIN x = (0 + 1)..(0 + n)
    BY DEF Cell
  <1>2. n > 0 => x[0 + 1] \notin Spaces /\ x[0 + n] \notin Spaces
    BY <1>1 DEF Cell
  <1> HIDE DEF n
  <1>3. Trimmed(x, (0 + 1)..(0 + n)) = (0 + 1)..(0 + n)
    <2>1. 0 \in Nat /\ 0 + n <= Len(x)
      BY <1>1 DEF n
    <2>2. QED
      BY <1>1, <1>2, <2>1, TrimmedRun
  <1>4. Pick(x, (0 + 1)..(0 + n)) = x
    BY <1>1, PickRun DEF n
  <1>5. QED
    BY <1>1, <1>3, <1>4 DEF Trim

LEMMA TrimmedIsCell ==
  ASSUME NEW s \in Seq(Characters), NEW S \in SUBSET (1..Len(s))
  PROVE  Pick(s, Trimmed(s, S)) \in Cell
  <1> DEFINE T == Trimmed(s, S)
  <1>1. T \in SUBSET (1..Len(s))
    BY DEF Trimmed
  <1>2. \A i \in S : i \in Nat
    OBVIOUS
  <1>3. \A i \in T : \E j, k \in T : /\ s[j] \notin Spaces /\ s[k] \notin Spaces
                                     /\ j <= i /\ i <= k
    BY <1>2 DEF Trimmed
  <1> HIDE DEF T
  <1>4. Pick(s, T) \in Seq(Characters)
    BY <1>1, PickFacts
  <1>5. ASSUME Pick(s, T) # <<>>
        PROVE  Pick(s, T)[1] \notin Spaces /\ Pick(s, T)[Len(Pick(s, T))] \notin Spaces
    <2>1. T # {}
      <3>1. Len(Pick(s, T)) = Cardinality(T) /\ Len(Pick(s, T)) # 0
        BY <1>1, <1>4, <1>5, PickFacts
      <3>2. QED
        BY <3>1, FS_EmptySet
    <2>2. PICK a, b \in T :
            /\ \A i \in T : a <= i /\ i <= b
            /\ Pick(s, T)[1] = s[a] /\ Pick(s, T)[Len(Pick(s, T))] = s[b]
      BY <1>1, <2>1, PickEnds
    <2>3. \A i \in T : i \in Nat
      BY <1>1
    <2>4. PICK j \in T : s[j] \notin Spaces /\ j <= a
      BY <1>3
    <2>5. PICK k \in T : s[k] \notin Spaces /\ b <= k
      BY <1>3
    <2>6. j = a /\ k = b
      BY <2>2, <2>3, <2>4, <2>5
    <2>7. QED
      BY <2>2, <2>4, <2>5, <2>6
  <1>6. QED
    BY <1>4, <1>5 DEF Cell, T

\* t stands in s behind the place p.
Within(s, p, t) == p + Len(t) <= Len(s) /\ \A k \in 1..Len(t) : s[p + k] = t[k]

LEMMA JoinedWithin ==
  ASSUME NEW X, NEW s \in Seq(X), NEW t \in Seq(X)
  PROVE  /\ s \o t \in Seq(X) /\ Len(s \o t) = Len(s) + Len(t)
         /\ Within(s \o t, Len(s), t)
         /\ \A p \in Nat : \A u \in Seq(X) : Within(s, p, u) => Within(s \o t, p, u)
  <1> DEFINE line == s \o t
  <1>1. line \in Seq(X) /\ Len(line) = Len(s) + Len(t) /\ Len(s) \in Nat /\ Len(t) \in Nat
    OBVIOUS
  <1>2. \A i \in 1..Len(s) : line[i] = s[i]
    OBVIOUS
  <1>3. \A i \in 1..Len(t) : line[Len(s) + i] = t[i]
    OBVIOUS
  <1> HIDE DEF line
  <1>4. Within(line, Len(s), t)
    BY <1>1, <1>3 DEF Within
  <1>5. ASSUME NEW p \in Nat, NEW u \in Seq(X), Within(s, p, u)
        PROVE  Within(line, p, u)
    <2>1. Len(u) \in Nat /\ p + Len(u) <= Len(s)
      BY <1>5 DEF Within
    <2>2. ASSUME NEW k \in 1..Len(u) PROVE line[p + k] = u[k]
      <3>1. p + k \in 1..Len(s)
        BY <1>1, <2>1
      <3>2. s[p + k] = u[k]
        BY <1>5 DEF Within
      <3>3. QED
        BY <1>2, <3>1, <3>2
    <2>3. QED
      BY <1>1, <2>1, <2>2 DEF Within
  <1>6. QED
    BY <1>1, <1>4, <1>5 DEF line

LineOf(a, b, c, d) == a \o Comma \o b \o Comma \o c \o Comma \o d

LEMMA CommaFacts == Comma \in Seq(Characters) /\ Len(Comma) = 1 /\ Comma[1] = "comma"
  <1>1. "comma" \in Characters
    BY DEF Characters, Marks, Separators
  <1> HIDE DEF Characters
  <1>2. QED
    BY <1>1 DEF Comma

\* A line and one cell more
LEMMA JoinedCell ==
  ASSUME NEW s \in Seq(Characters), NEW t \in Seq(Characters), NEW n \in Nat, Len(s) = n
  PROVE  LET line == s \o Comma \o t
         IN  /\ line \in Seq(Characters) /\ Len(line) = (n + 1) + Len(t)
             /\ line[n + 1] = "comma" /\ Within(line, n + 1, t)
             /\ \A p \in Nat : \A u \in Seq(Characters) : Within(s, p, u) => Within(line, p, u)
  <1> DEFINE u == s \o Comma
             line == u \o t
  <1>1. /\ u \in Seq(Characters) /\ Len(u) = n + 1 /\ Within(u, n, Comma)
        /\ \A p \in Nat : \A v \in Seq(Characters) : Within(s, p, v) => Within(u, p, v)
    BY CommaFacts, JoinedWithin
  <1> HIDE DEF u
  <1>2. /\ line \in Seq(Characters) /\ Len(line) = Len(u) + Len(t) /\ Within(line, Len(u), t)
        /\ \A p \in Nat : \A v \in Seq(Characters) : Within(u, p, v) => Within(line, p, v)
    BY <1>1, JoinedWithin
  <1> HIDE DEF line
  <1>3. Within(line, n, Comma)
    BY <1>1, <1>2, CommaFacts
  <1>4. line[n + 1] = "comma"
    <2>1. 1 \in 1..Len(Comma) /\ Comma[1] = "comma"
      BY CommaFacts
    <2>2. QED
      BY <1>3, <2>1 DEF Within
  <1>5. \A p \in Nat : \A v \in Seq(Characters) : Within(s, p, v) => Within(line, p, v)
    BY <1>1, <1>2
  <1>6. QED
    BY <1>1, <1>2, <1>4, <1>5 DEF line, u

LEMMA StillThere ==
  ASSUME NEW s, NEW t, NEW p \in Nat, NEW i \in 1..p,
         \A u \in Seq(Characters) : Within(s, i - 1, u) => Within(t, i - 1, u),
         s[i] = "comma", p <= Len(s)
  PROVE  t[i] = "comma"
  <1>1. i - 1 \in Nat /\ (i - 1) + 1 = i /\ 1 \in 1..1
    OBVIOUS
  <1>2. Within(s, i - 1, Comma)
    BY <1>1, CommaFacts DEF Within
  <1>3. Within(t, i - 1, Comma)
    BY <1>2, CommaFacts
  <1>4. QED
    BY <1>1, <1>3, CommaFacts DEF Within

\* The line's cells and the commas between them, at p, q and r
LaidOut(line, a, b, c, d, p, q, r) ==
  /\ line \in Seq(Characters) /\ Len(line) = r + Len(d)
  /\ line[p] = "comma" /\ line[q] = "comma" /\ line[r] = "comma"
  /\ Within(line, 0, a) /\ Within(line, p, b) /\ Within(line, q, c) /\ Within(line, r, d)

LEMMA LineParts ==
  ASSUME NEW a \in Seq(Characters), NEW b \in Seq(Characters), NEW c \in Seq(Characters),
         NEW d \in Seq(Characters)
  PROVE  LaidOut(LineOf(a, b, c, d), a, b, c, d, Len(a) + 1, Len(a) + 1 + Len(b) + 1,
                 Len(a) + 1 + Len(b) + 1 + Len(c) + 1)
  <1> DEFINE s == a \o Comma \o b
             t == s \o Comma \o c
             full == t \o Comma \o d
             p == Len(a) + 1
             q == p + Len(b) + 1
             r == q + Len(c) + 1
  <1>1. /\ Len(a) \in Nat /\ Len(b) \in Nat /\ Len(c) \in Nat /\ Len(d) \in Nat
        /\ p - 1 \in Nat /\ q - 1 \in Nat /\ r - 1 \in Nat /\ 0 \in Nat
        /\ p - 1 = Len(a) /\ q - 1 = p + Len(b) /\ r - 1 = q + Len(c)
        /\ (p - 1) + 1 = p /\ (q - 1) + 1 = q /\ (r - 1) + 1 = r
        /\ p \in Nat /\ q \in Nat /\ r \in Nat
    OBVIOUS
  <1> HIDE DEF p, q, r
  <1>2. Within(a, 0, a)
    BY <1>1 DEF Within
  <1>3. /\ s \in Seq(Characters) /\ Len(s) = q - 1 /\ s[p] = "comma" /\ Within(s, p, b)
        /\ Within(s, 0, a)
    <2>1. /\ s \in Seq(Characters) /\ Len(s) = ((p - 1) + 1) + Len(b)
          /\ s[(p - 1) + 1] = "comma" /\ Within(s, (p - 1) + 1, b)
          /\ \A x \in Nat : \A u \in Seq(Characters) : Within(a, x, u) => Within(s, x, u)
      BY <1>1, JoinedCell
    <2> HIDE DEF s
    <2>2. QED
      BY <1>1, <1>2, <2>1
  <1> HIDE DEF s
  <1>4. /\ t \in Seq(Characters) /\ Len(t) = r - 1 /\ t[q] = "comma" /\ Within(t, q, c)
        /\ \A x \in Nat : \A u \in Seq(Characters) : Within(s, x, u) => Within(t, x, u)
    <2>1. /\ t \in Seq(Characters) /\ Len(t) = ((q - 1) + 1) + Len(c)
          /\ t[(q - 1) + 1] = "comma" /\ Within(t, (q - 1) + 1, c)
          /\ \A x \in Nat : \A u \in Seq(Characters) : Within(s, x, u) => Within(t, x, u)
      BY <1>1, <1>3, JoinedCell
    <2> HIDE DEF t
    <2>2. QED
      BY <1>1, <2>1
  <1>5. t[p] = "comma" /\ Within(t, p, b) /\ Within(t, 0, a)
    <2>1. p \in 1..p /\ p <= Len(s)
      BY <1>1, <1>3
    <2> HIDE DEF t
    <2>2. t[p] = "comma"
      BY <1>1, <1>3, <1>4, <2>1, StillThere
    <2>3. QED
      BY <1>1, <1>3, <1>4, <2>2
  <1> HIDE DEF t
  <1>6. /\ full \in Seq(Characters) /\ Len(full) = r + Len(d) /\ full[r] = "comma"
        /\ Within(full, r, d)
        /\ \A x \in Nat : \A u \in Seq(Characters) : Within(t, x, u) => Within(full, x, u)
    <2>1. /\ full \in Seq(Characters) /\ Len(full) = ((r - 1) + 1) + Len(d)
          /\ full[(r - 1) + 1] = "comma" /\ Within(full, (r - 1) + 1, d)
          /\ \A x \in Nat : \A u \in Seq(Characters) : Within(t, x, u) => Within(full, x, u)
      BY <1>1, <1>4, JoinedCell
    <2> HIDE DEF full
    <2>2. QED
      BY <1>1, <2>1
  <1>7. full[p] = "comma" /\ full[q] = "comma"
    <2>1. p \in 1..p /\ p <= Len(t) /\ q \in 1..q /\ q <= Len(t)
      BY <1>1, <1>4
    <2> HIDE DEF full
    <2>2. full[p] = "comma"
      BY <1>1, <1>5, <1>6, <2>1, StillThere
    <2>3. full[q] = "comma"
      <3>1. \A u \in Seq(Characters) : Within(t, q - 1, u) => Within(full, q - 1, u)
        BY <1>1, <1>6
      <3>2. t[q] = "comma" /\ q <= Len(t) /\ q \in 1..q
        BY <1>4, <2>1
      <3>3. QED
        BY <1>1, <3>1, <3>2, StillThere
    <2>4. QED
      BY <2>2, <2>3
  <1>8. Within(full, 0, a) /\ Within(full, p, b) /\ Within(full, q, c)
    BY <1>1, <1>4, <1>5, <1>6
  <1>9. full = LineOf(a, b, c, d)
    BY DEF LineOf, s, t
  <1> HIDE DEF full
  <1>10. LaidOut(LineOf(a, b, c, d), a, b, c, d, p, q, r)
    BY <1>6, <1>7, <1>8, <1>9 DEF LaidOut
  <1>11. QED
    BY <1>10 DEF p, q, r

LEMMA WholePiece ==
  ASSUME NEW line \in Seq(Characters), NEW x \in Whole, NEW p \in Nat, Within(line, p, x),
         NEW S, S = (p + 1)..(p + Len(x))
  PROVE  Pick(line, Trimmed(line, S)) = x
  <1> DEFINE n == Len(x)
  <1>1. x \in Seq(Characters) /\ x \in Cell /\ n \in Nat
    BY DEF Whole, Cell
  <1>2. p + n <= Len(line) /\ \A k \in 1..n : line[p + k] = x[k]
    BY DEF Within
  <1>3. n > 0 => line[p + 1] \notin Spaces /\ line[p + n] \notin Spaces
    <2>1. SUFFICES ASSUME n > 0 PROVE line[p + 1] \notin Spaces /\ line[p + n] \notin Spaces
      OBVIOUS
    <2>2. 1 \in 1..n /\ n \in 1..n /\ x # <<>>
      BY <1>1, <2>1
    <2>3. x[1] \notin Spaces /\ x[n] \notin Spaces
      BY <1>1, <2>2 DEF Cell
    <2>4. QED
      BY <1>2, <2>2, <2>3
  <1> HIDE DEF n
  <1>4. Trimmed(line, (p + 1)..(p + n)) = (p + 1)..(p + n)
    BY <1>1, <1>2, <1>3, TrimmedRun
  <1>5. Pick(line, (p + 1)..(p + n)) = x
    BY <1>1, <1>2, PickRun DEF n
  <1>6. QED
    BY <1>4, <1>5 DEF n

\* A line of four whole cells comes apart at its commas.
LEMMA SplitLine ==
  ASSUME NEW a \in Whole, NEW b \in Whole, NEW c \in Whole, NEW d \in Whole
  PROVE  LET line == LineOf(a, b, c, d)
         IN  line \in Cell /\ Split(line) = <<a, b, c, d>>
  <1> DEFINE line == LineOf(a, b, c, d)
             p == Len(a) + 1
             q == p + Len(b) + 1
             r == q + Len(c) + 1
             n == r + Len(d)
  <1>1. /\ a \in Seq(Characters) /\ b \in Seq(Characters)
        /\ c \in Seq(Characters) /\ d \in Seq(Characters)
    BY DEF Whole, Cell
  <1>2. /\ p \in Nat /\ q \in Nat /\ r \in Nat /\ n \in Nat
        /\ 1 <= p /\ p < q /\ q < r /\ r <= n
        /\ p = 0 + Len(a) + 1 /\ p = Len(a) + 1 /\ q = p + Len(b) + 1
        /\ r = q + Len(c) + 1 /\ n = r + Len(d)
        /\ Len(a) \in Nat /\ Len(b) \in Nat /\ Len(c) \in Nat /\ Len(d) \in Nat
    BY <1>1
  <1>2a. LaidOut(line, a, b, c, d, p, q, r)
    BY <1>1, LineParts
  <1> HIDE DEF line, n
  <1> HIDE DEF p, q, r
  <1>3. /\ line \in Seq(Characters) /\ Len(line) = n
        /\ line[p] = "comma" /\ line[q] = "comma" /\ line[r] = "comma"
        /\ Within(line, 0, a) /\ Within(line, p, b) /\ Within(line, q, c) /\ Within(line, r, d)
    BY <1>2, <1>2a DEF LaidOut
  <1>4. DOMAIN line = 1..n
    BY <1>2, <1>3
  <1> HIDE DEF line
  <1>5. \A i \in 1..n : \/ i \in {p, q, r}
                        \/ i < p \/ (p < i /\ i < q) \/ (q < i /\ i < r) \/ r < i
    BY <1>2
  \* No character of a cell is a separator or a quotation mark.
  <1>6. ASSUME NEW x \in Whole, NEW s \in Nat, Within(line, s, x),
               NEW i \in (s + 1)..(s + Len(x))
        PROVE  line[i] \notin Separators \cup {"quote"}
    <2>1. Len(x) \in Nat
      BY DEF Whole, Cell
    <2>2. i - s \in 1..Len(x) /\ s + (i - s) = i
      BY <2>1
    <2>3. x[i - s] \notin Separators \cup {"quote"}
      BY <2>2 DEF Whole
    <2>4. QED
      BY <1>6, <2>2, <2>3 DEF Within
  <1>7. ASSUME NEW i \in 1..n, i \notin {p, q, r}
        PROVE  line[i] \notin Separators \cup {"quote"}
    <2>1. CASE i < p
      <3>1. i \in (0 + 1)..(0 + Len(a))
        BY <1>2, <2>1
      <3>2. QED
        BY <1>3, <1>6, <3>1
    <2>2. CASE p < i /\ i < q
      <3>1. i \in (p + 1)..(p + Len(b))
        BY <1>2, <2>2
      <3>2. QED
        BY <1>2, <1>3, <1>6, <3>1
    <2>3. CASE q < i /\ i < r
      <3>1. i \in (q + 1)..(q + Len(c))
        BY <1>2, <2>3
      <3>2. QED
        BY <1>2, <1>3, <1>6, <3>1
    <2>4. CASE r < i
      <3>1. i \in (r + 1)..(r + Len(d))
        BY <1>2, <2>4
      <3>2. QED
        BY <1>2, <1>3, <1>6, <3>1
    <2>5. QED
      BY <1>5, <1>7, <2>1, <2>2, <2>3, <2>4
  <1>8. \A i \in 1..n : line[i] # "quote"
    <2>1. ASSUME NEW i \in 1..n PROVE line[i] # "quote"
      <3>1. CASE i \in {p, q, r}
        BY <1>3, <3>1
      <3>2. CASE i \notin {p, q, r}
        BY <1>7, <3>2
      <3>3. QED
        BY <3>1, <3>2
    <2>2. QED
      BY <2>1
  <1>9. \A i \in 1..n : ~Quoted(line, i)
    <2>1. ASSUME NEW i \in 1..n PROVE ~Quoted(line, i)
      <3>1. {j \in DOMAIN line : j < i /\ line[j] = "quote"} = {}
        BY <1>4, <1>8
      <3>2. Cardinality({j \in DOMAIN line : j < i /\ line[j] = "quote"}) = 0
        BY <3>1, FS_EmptySet
      <3>3. QED
        BY <3>2 DEF Quoted
    <2>2. QED
      BY <2>1
  <1>10. Cuts(line) = {p, q, r}
    <2>1. {p, q, r} \subseteq 1..n
      BY <1>2
    <2>2. \A i \in {p, q, r} : line[i] \in Separators
      BY <1>3 DEF Separators
    <2>3. \A i \in 1..n : line[i] \in Separators <=> i \in {p, q, r}
      BY <1>7, <2>2
    <2>4. QED
      BY <1>4, <1>9, <2>1, <2>3 DEF Cuts
  <1>11. CellPlaces(line) = (1..n) \ {p, q, r}
    BY <1>4, <1>8, <1>10 DEF CellPlaces
  <1>12. /\ Cardinality({p, q, r}) = 3
         /\ Cardinality({p}) = 1 /\ Cardinality({p, q}) = 2
    <2>1. p # q /\ p # r /\ q # r
      BY <1>2
    <2>2. IsFiniteSet({p}) /\ Cardinality({p}) = 1
      BY FS_Singleton
    <2>3. IsFiniteSet({p} \cup {q}) /\ Cardinality({p} \cup {q}) = 1 + 1
      BY <2>1, <2>2, FS_AddElement
    <2>4. r \notin {p} \cup {q}
      BY <2>1
    <2>5. Cardinality(({p} \cup {q}) \cup {r}) = 1 + 1 + 1
      BY <2>3, <2>4, FS_AddElement
    <2>6. ({p} \cup {q}) \cup {r} = {p, q, r} /\ {p} \cup {q} = {p, q}
      OBVIOUS
    <2>7. QED
      BY <2>2, <2>3, <2>5, <2>6
  <1> DEFINE C(i) == Cardinality({x \in Cuts(line) : x < i})
             P(k) == {i \in CellPlaces(line) : C(i) = k - 1}
  <1>13. \A i \in CellPlaces(line) :
           /\ i < p => C(i) = 0
           /\ p < i /\ i < q => C(i) = 1
           /\ q < i /\ i < r => C(i) = 2
           /\ r < i => C(i) = 3
    <2>1. ASSUME NEW i \in CellPlaces(line)
          PROVE  /\ i < p => {x \in {p, q, r} : x < i} = {}
                 /\ p < i /\ i < q => {x \in {p, q, r} : x < i} = {p}
                 /\ q < i /\ i < r => {x \in {p, q, r} : x < i} = {p, q}
                 /\ r < i => {x \in {p, q, r} : x < i} = {p, q, r}
      <3>1. i \in Nat
        BY <1>2, <1>11
      <3>2. QED
        BY <1>2, <3>1
    <2>2. Cardinality({}) = 0 /\ Cardinality({p}) = 1 /\ Cardinality({p, q}) = 2
      BY <1>12, FS_EmptySet
    <2>3. ASSUME NEW i \in CellPlaces(line)
          PROVE  /\ i < p => C(i) = 0
                 /\ p < i /\ i < q => C(i) = 1
                 /\ q < i /\ i < r => C(i) = 2
                 /\ r < i => C(i) = 3
      <3>1. C(i) = Cardinality({x \in {p, q, r} : x < i})
        BY <1>10
      <3> HIDE DEF C
      <3>2. QED
        BY <1>12, <2>1, <2>2, <3>1
    <2> HIDE DEF C
    <2>4. QED
      BY <2>3
  <1>14. /\ P(1) = (0 + 1)..(0 + Len(a)) /\ P(2) = (p + 1)..(p + Len(b))
         /\ P(3) = (q + 1)..(q + Len(c)) /\ P(4) = (r + 1)..(r + Len(d))
    <2>1. \A i \in CellPlaces(line) : i \in Nat /\ i \in 1..n /\ i \notin {p, q, r}
      BY <1>2, <1>11
    <2>2. \A i \in CellPlaces(line) :
            \/ i < p /\ C(i) = 0
            \/ p < i /\ i < q /\ C(i) = 1
            \/ q < i /\ i < r /\ C(i) = 2
            \/ r < i /\ C(i) = 3
      BY <1>5, <1>13, <2>1
    <2> HIDE DEF C
    <2>3. P(1) = (0 + 1)..(0 + Len(a))
      <3>1. \A i \in P(1) : i \in CellPlaces(line) /\ C(i) = 0
        OBVIOUS
      <3>2. P(1) \subseteq (0 + 1)..(0 + Len(a))
        BY <1>2, <2>1, <2>2, <3>1
      <3>3. \A i \in (0 + 1)..(0 + Len(a)) : i \in CellPlaces(line) /\ i < p
        BY <1>2, <1>11
      <3>4. \A i \in (0 + 1)..(0 + Len(a)) : i \in CellPlaces(line) /\ C(i) = 1 - 1
        BY <1>2, <2>1, <2>2, <3>3
      <3>5. QED
        BY <3>2, <3>4
    <2>4. P(2) = (p + 1)..(p + Len(b))
      <3>1. \A i \in P(2) : i \in CellPlaces(line) /\ C(i) = 1
        OBVIOUS
      <3>2. P(2) \subseteq (p + 1)..(p + Len(b))
        BY <1>2, <2>1, <2>2, <3>1
      <3>3. \A i \in (p + 1)..(p + Len(b)) : i \in CellPlaces(line) /\ p < i /\ i < q
        BY <1>2, <1>11
      <3>4. \A i \in (p + 1)..(p + Len(b)) : i \in CellPlaces(line) /\ C(i) = 2 - 1
        BY <1>2, <2>1, <2>2, <3>3
      <3>5. QED
        BY <3>2, <3>4
    <2>5. P(3) = (q + 1)..(q + Len(c))
      <3>1. \A i \in P(3) : i \in CellPlaces(line) /\ C(i) = 2
        OBVIOUS
      <3>2. P(3) \subseteq (q + 1)..(q + Len(c))
        BY <1>2, <2>1, <2>2, <3>1
      <3>3. \A i \in (q + 1)..(q + Len(c)) : i \in CellPlaces(line) /\ q < i /\ i < r
        BY <1>2, <1>11
      <3>4. \A i \in (q + 1)..(q + Len(c)) : i \in CellPlaces(line) /\ C(i) = 3 - 1
        BY <1>2, <2>1, <2>2, <3>3
      <3>5. QED
        BY <3>2, <3>4
    <2>6. P(4) = (r + 1)..(r + Len(d))
      <3>1. \A i \in P(4) : i \in CellPlaces(line) /\ C(i) = 3
        OBVIOUS
      <3>2. P(4) \subseteq (r + 1)..(r + Len(d))
        BY <1>2, <2>1, <2>2, <3>1
      <3>3. \A i \in (r + 1)..(r + Len(d)) : i \in CellPlaces(line) /\ r < i
        BY <1>2, <1>11
      <3>4. \A i \in (r + 1)..(r + Len(d)) : i \in CellPlaces(line) /\ C(i) = 4 - 1
        BY <1>2, <2>1, <2>2, <3>3
      <3>5. QED
        BY <3>2, <3>4
    <2>7. QED
      BY <2>3, <2>4, <2>5, <2>6
  <1> DEFINE cells == [k \in 1..4 |-> Pick(line, Trimmed(line, P(k)))]
  <1>15. Split(line) = cells
    <2>1. Cardinality(Cuts(line)) + 1 = 4
      BY <1>10, <1>12
    <2>2. QED
      BY <2>1 DEF Split
  <1> HIDE DEF P
  <1>16. cells[1] = a /\ cells[2] = b /\ cells[3] = c /\ cells[4] = d
    <2>1. Pick(line, Trimmed(line, P(1))) = a
      BY <1>3, <1>14, WholePiece
    <2>2. Pick(line, Trimmed(line, P(2))) = b
      <3>1. line \in Seq(Characters) /\ b \in Whole /\ p \in Nat /\ Within(line, p, b)
        BY <1>2, <1>3
      <3>2. P(2) = (p + 1)..(p + Len(b))
        BY <1>14
      <3>3. QED
        BY ONLY <3>1, <3>2, WholePiece
    <2>3. Pick(line, Trimmed(line, P(3))) = c
      <3>1. line \in Seq(Characters) /\ c \in Whole /\ q \in Nat /\ Within(line, q, c)
        BY <1>2, <1>3
      <3>2. P(3) = (q + 1)..(q + Len(c))
        BY <1>14
      <3>3. QED
        BY ONLY <3>1, <3>2, WholePiece
    <2>4. Pick(line, Trimmed(line, P(4))) = d
      <3>1. line \in Seq(Characters) /\ d \in Whole /\ r \in Nat /\ Within(line, r, d)
        BY <1>2, <1>3
      <3>2. P(4) = (r + 1)..(r + Len(d))
        BY <1>14
      <3>3. QED
        BY ONLY <3>1, <3>2, WholePiece
    <2>5. QED
      BY <2>1, <2>2, <2>3, <2>4
  <1>17. cells = <<a, b, c, d>>
    BY <1>16
  <1>18. line \in Cell
    <2>1. line[1] \notin Spaces
      <3>1. CASE Len(a) = 0
        BY <1>2, <1>3, <3>1 DEF Spaces
      <3>2. CASE Len(a) # 0
        <4>1. 1 \in 1..Len(a) /\ 0 + 1 = 1
          BY <1>2, <3>2
        <4>2. line[1] = a[1]
          BY <1>3, <4>1 DEF Within
        <4>3. a # <<>> /\ a \in Cell
          BY <3>2 DEF Whole
        <4>4. QED
          BY <4>2, <4>3 DEF Cell
      <3>3. QED
        BY <3>1, <3>2
    <2>2. line[n] \notin Spaces
      <3>1. CASE Len(d) = 0
        BY <1>2, <1>3, <3>1 DEF Spaces
      <3>2. CASE Len(d) # 0
        <4>1. Len(d) \in 1..Len(d) /\ r + Len(d) = n
          BY <1>2, <3>2
        <4>2. line[n] = d[Len(d)]
          BY <1>3, <4>1 DEF Within
        <4>3. d # <<>> /\ d \in Cell
          BY <3>2 DEF Whole
        <4>4. QED
          BY <4>2, <4>3 DEF Cell
      <3>3. QED
        BY <3>1, <3>2
    <2>3. QED
      BY <1>3, <2>1, <2>2 DEF Cell
  <1>19. QED
    BY <1>15, <1>17, <1>18 DEF line

-----------------------------------------------------------------------------
LEMMA PickAll ==
  ASSUME NEW X, NEW s \in Seq(X)
  PROVE  Pick(s, DOMAIN s) = s
  <1>1. DOMAIN s = (0 + 1)..(0 + Len(s)) /\ 0 + Len(s) <= Len(s)
    OBVIOUS
  <1>2. \A k \in 1..Len(s) : s[0 + k] = s[k]
    OBVIOUS
  <1>3. Pick(s, (0 + 1)..(0 + Len(s))) = s
    <2>1. 0 \in Nat /\ 0 + Len(s) <= Len(s)
      BY <1>1
    <2>2. QED
      BY <1>2, <2>1, PickRun
  <1>4. QED
    BY <1>1, <1>3

\* The header the form writes comes apart into the four headings.
LEMMA HeadingIsWhole ==
  ASSUME NEW c \in Columns
  PROVE  /\ <<c>> \in Whole /\ c \notin Spaces /\ WithoutSpaces(<<c>>) = <<c>>
  <1>1. c \in Words /\ c \notin Marks
    BY VoterRowsAssumption
  <1>2. c \in Characters /\ c \notin Spaces /\ c \notin Separators \cup {"quote"}
    BY <1>1 DEF Characters, Marks
  <1> DEFINE x == <<c>>
  <1>3. x \in Seq(Characters) /\ Len(x) = 1 /\ x[1] = c /\ DOMAIN x = 1..1
    BY <1>2
  <1> HIDE DEF x
  <1>4. x \in Whole
    <2>1. x[Len(x)] = c /\ \A i \in 1..Len(x) : x[i] = c
      BY <1>3
    <2>2. x \in Cell
      BY <1>2, <1>3, <2>1 DEF Cell
    <2>3. QED
      BY <1>2, <2>1, <2>2 DEF Whole
  <1>5. {i \in DOMAIN x : x[i] \notin Spaces} = DOMAIN x
    BY <1>2, <1>3
  <1>6. WithoutSpaces(x) = x
    BY <1>3, <1>5, PickAll DEF WithoutSpaces
  <1>7. QED
    BY <1>2, <1>4, <1>6 DEF x

LEMMA HeaderCells ==
  /\ Split(Trim(HeaderLine)) = StandardHeader
  /\ IsHeader(StandardHeader) /\ Headings(StandardHeader) = StandardHeader
  <1> DEFINE line == LineOf(<<"householdNumber">>, <<"name">>, <<"identifierLast4">>,
                            <<"birthDate6">>)
  <1>1. HeaderLine = line
    BY DEF HeaderLine, Joined, LineOf, Columns
  <1>2. \A c \in Columns : <<c>> \in Whole /\ WithoutSpaces(<<c>>) = <<c>>
    BY HeadingIsWhole
  <1>3. {"householdNumber", "name", "identifierLast4", "birthDate6"} = Columns
    BY DEF Columns
  <1>4. /\ line \in Cell
        /\ Split(line) = <<<<"householdNumber">>, <<"name">>, <<"identifierLast4">>,
                           <<"birthDate6">>>>
    <2>1. /\ <<"householdNumber">> \in Whole /\ <<"name">> \in Whole
          /\ <<"identifierLast4">> \in Whole /\ <<"birthDate6">> \in Whole
      BY <1>2, <1>3
    <2>2. QED
      BY <2>1, SplitLine
  <1>5. <<<<"householdNumber">>, <<"name">>, <<"identifierLast4">>, <<"birthDate6">>>>
          = StandardHeader
    BY DEF StandardHeader, StandardOrder
  <1> HIDE DEF line
  <1>6. Split(Trim(HeaderLine)) = StandardHeader
    BY <1>1, <1>4, <1>5, TrimCell
  <1>7. \A i \in 1..4 : StandardOrder[i] \in Columns
    BY DEF StandardOrder, Columns
  <1>8. \A i \in 1..4 : WithoutSpaces(StandardHeader[i]) = StandardHeader[i]
    BY <1>2, <1>7 DEF StandardHeader
  <1>9. Headings(StandardHeader) = StandardHeader
    BY <1>8 DEF Headings, StandardHeader
  <1>10. StandardHeader[2] = <<"name">> /\ 2 \in DOMAIN StandardHeader /\ "name" \in Columns
    BY <1>3 DEF StandardHeader, StandardOrder
  <1>11. IsHeader(StandardHeader)
    BY <1>9, <1>10 DEF IsHeader
  <1>12. QED
    BY <1>6, <1>9, <1>11

\* Rows read from the text of the form
ReadAgain(row) ==
  [c \in Columns |-> CellOf(Split(Trim(Joined(Normalized(row)))), StandardHeader, c)]

LEMMA ParsedText ==
  ASSUME NEW rows, NEW n \in Nat, DOMAIN rows = 1..n
  PROVE  Parsed(Formatted(rows)) = [r \in 1..n |-> ReadAgain(rows[r])]
  <1> DEFINE written == [r \in 1..n |-> Joined(Normalized(rows[r]))]
             X == {HeaderLine} \cup {Joined(Normalized(rows[r])) : r \in 1..n}
             text == <<HeaderLine>> \o written
             lines == [r \in DOMAIN text |-> Split(Trim(text[r]))]
  <1>1. Formatted(rows) = text
    BY DEF Formatted
  <1>2. written \in Seq(X) /\ <<HeaderLine>> \in Seq(X) /\ Len(written) = n
    OBVIOUS
  <1>3. /\ text \in Seq(X) /\ Len(text) = n + 1 /\ text[1] = HeaderLine
        /\ \A r \in 1..n : text[r + 1] = written[r]
    BY <1>2
  <1>4. DOMAIN text = 1..(n + 1)
    BY <1>3
  <1> HIDE DEF text
  <1>5. /\ DOMAIN lines = 1..(n + 1) /\ lines[1] = StandardHeader /\ lines # <<>>
        /\ \A r \in 1..n : lines[r + 1] = Split(Trim(written[r]))
    BY <1>3, <1>4, HeaderCells
  <1> DEFINE Y == {lines[r] : r \in 1..(n + 1)}
  <1>6. lines \in Seq(Y) /\ Len(lines) = n + 1
    BY <1>4
  <1> HIDE DEF lines, Y
  <1>7. /\ DOMAIN Tail(lines) = 1..n
        /\ \A r \in 1..n : Tail(lines)[r] = lines[r + 1]
    BY <1>5, <1>6
  <1>8. Parsed(text) =
          [r \in DOMAIN Tail(lines) |->
             [c \in Columns |-> CellOf(Tail(lines)[r], StandardHeader, c)]]
    BY <1>5, HeaderCells DEF Parsed, lines
  <1>9. \A r \in 1..n :
          [c \in Columns |-> CellOf(Tail(lines)[r], StandardHeader, c)] = ReadAgain(rows[r])
    BY <1>5, <1>7 DEF ReadAgain
  <1>10. QED
    BY <1>1, <1>7, <1>8, <1>9

-----------------------------------------------------------------------------
Cells == [Columns -> Cell]

LEMMA SplitIsCells ==
  ASSUME NEW line \in Seq(Characters)
  PROVE  /\ DOMAIN Split(line) = 1..(Cardinality(Cuts(line)) + 1)
         /\ Cardinality(Cuts(line)) \in Nat
         /\ \A k \in DOMAIN Split(line) : Split(line)[k] \in Cell
  <1>1. /\ Cuts(line) \in SUBSET (1..Len(line)) /\ CellPlaces(line) \subseteq 1..Len(line)
        /\ Len(line) \in Nat
    BY DEF Cuts, CellPlaces
  <1>2. Cardinality(Cuts(line)) \in Nat
    BY <1>1, PlacesUpTo
  <1>3. ASSUME NEW S \in SUBSET CellPlaces(line) PROVE Pick(line, Trimmed(line, S)) \in Cell
    <2>1. S \in SUBSET (1..Len(line))
      BY <1>1
    <2>2. QED
      BY <2>1, TrimmedIsCell
  <1>4. QED
    BY <1>2, <1>3 DEF Split

LEMMA ParsedFacts ==
  ASSUME NEW file \in Seq(Seq(Characters))
  PROVE  \E n \in Nat : /\ DOMAIN Parsed(file) = 1..n
                        /\ \A r \in 1..n : Parsed(file)[r] \in Cells
  <1> DEFINE IsCells(x) == DOMAIN x \subseteq Nat /\ \A k \in DOMAIN x : x[k] \in Cell
             lines == [r \in DOMAIN file |-> Split(Trim(file[r]))]
             headed == lines # <<>> /\ IsHeader(lines[1])
             header == IF headed THEN Headings(lines[1]) ELSE StandardHeader
             body == IF headed THEN Tail(lines) ELSE lines
             Z == {lines[r] : r \in DOMAIN file}
  <1>1. /\ DOMAIN file = 1..Len(file) /\ Len(file) \in Nat
        /\ \A r \in DOMAIN file : file[r] \in Seq(Characters)
    OBVIOUS
  <1>2. ASSUME NEW s \in Seq(Characters) PROVE Trim(s) \in Seq(Characters)
    <2>1. DOMAIN s = 1..Len(s) /\ Trimmed(s, DOMAIN s) \in SUBSET (1..Len(s))
      BY DEF Trimmed
    <2>2. QED
      BY <2>1, PickFacts DEF Trim
  <1>3. \A x \in Z : IsCells(x)
    <2>1. ASSUME NEW s \in Seq(Characters) PROVE IsCells(Split(s))
      <3>1. DOMAIN Split(s) = 1..(Cardinality(Cuts(s)) + 1) /\ Cardinality(Cuts(s)) \in Nat
        BY SplitIsCells
      <3>2. DOMAIN Split(s) \subseteq Nat
        BY <3>1
      <3>3. QED
        BY <3>2, SplitIsCells
    <2>2. \A r \in DOMAIN file : IsCells(Split(Trim(file[r])))
      BY <1>1, <1>2, <2>1
    <2> HIDE DEF IsCells
    <2>3. QED
      BY <2>2
  <1>4. lines \in Seq(Z) /\ Len(lines) = Len(file)
    BY <1>1
  <1> HIDE DEF Z, lines
  <1>5. body \in Seq(Z)
    BY <1>4
  <1>6. \A r \in DOMAIN body : IsCells(body[r])
    <2> HIDE DEF body, IsCells
    <2>1. \A r \in DOMAIN body : body[r] \in Z
      BY <1>5
    <2>2. QED
      BY <1>3, <2>1
  <1>7. <<>> \in Cell
    BY DEF Cell
  <1>8. \A x : IsCells(x) => \A h : DOMAIN h \subseteq Nat => \A c : CellOf(x, h, c) \in Cell
    <2>1. ASSUME NEW x, IsCells(x), NEW h, DOMAIN h \subseteq Nat, NEW c
          PROVE  CellOf(x, h, c) \in Cell
      <3> DEFINE named == {i \in DOMAIN h : h[i] = <<c>>}
                 last == CHOOSE i \in named : \A j \in named : j <= i
      <3>1. CASE \E i \in named : i \in DOMAIN x /\ \A j \in named : j <= i
        <4>1. PICK i \in named : i \in DOMAIN x /\ \A j \in named : j <= i
          BY <3>1
        <4>2. CellOf(x, h, c) = x[last]
          BY <3>1 DEF CellOf
        <4>3. \A j, k \in named : j <= k /\ k <= j => j = k
          BY <2>1
        <4>4. last = i
          <5> HIDE DEF named
          <5>1. \A l \in named : (\A j \in named : j <= l) => l = i
            BY <4>1, <4>3
          <5>2. last \in named /\ \A j \in named : j <= last
            BY <4>1
          <5>3. QED
            BY <5>1, <5>2
        <4>5. QED
          BY <2>1, <4>1, <4>2, <4>4
      <3>2. CASE ~\E i \in named : i \in DOMAIN x /\ \A j \in named : j <= i
        BY <1>7, <3>2 DEF CellOf, Missing
      <3>3. QED
        BY <3>1, <3>2
    <2>2. QED
      BY <2>1
  <1>9. Parsed(file) = [r \in DOMAIN body |-> [c \in Columns |-> CellOf(body[r], header, c)]]
    BY DEF Parsed, lines
  <1>9a. DOMAIN header \subseteq Nat
    <2>1. CASE headed
      <3>1. IsCells(lines[1])
        <4>1. lines[1] \in Z
          BY <1>4, <2>1
        <4> HIDE DEF IsCells
        <4>2. QED
          BY <1>3, <4>1
      <3>2. header = Headings(lines[1])
        BY <2>1
      <3>3. DOMAIN Headings(lines[1]) = DOMAIN lines[1]
        BY DEF Headings
      <3> HIDE DEF header
      <3>4. QED
        BY <3>1, <3>2, <3>3
    <2>2. CASE ~headed
      BY <2>2 DEF StandardHeader
    <2>3. QED
      BY <2>1, <2>2
  <1> HIDE DEF body, header, IsCells
  <1>10. \A r \in DOMAIN body : [c \in Columns |-> CellOf(body[r], header, c)] \in Cells
    BY <1>6, <1>8, <1>9a DEF Cells
  <1>11. DOMAIN body = 1..Len(body) /\ Len(body) \in Nat
    BY <1>5
  <1>12. QED
    BY <1>9, <1>10, <1>11

-----------------------------------------------------------------------------
\* Blanks and zeros in front are taken out once and for all.
LEMMA WithoutSpacesFacts ==
  ASSUME NEW s \in Seq(Characters)
  PROVE  WithoutSpaces(s) \in Cell /\ WithoutSpaces(WithoutSpaces(s)) = WithoutSpaces(s)
  <1> DEFINE S == {i \in DOMAIN s : s[i] \notin Spaces}
             t == WithoutSpaces(s)
  <1>1. S \in SUBSET (1..Len(s)) /\ t = Pick(s, S)
    BY DEF WithoutSpaces
  <1>2. \A i \in S : s[i] \notin Spaces
    OBVIOUS
  <1> HIDE DEF S, t
  <1>3. t \in Seq(Characters) /\ \A k \in DOMAIN t : t[k] \notin Spaces
    BY <1>1, <1>2, PickFacts
  <1>4. t # <<>> => 1 \in DOMAIN t /\ Len(t) \in DOMAIN t
    BY <1>3
  <1>5. t \in Cell
    BY <1>3, <1>4 DEF Cell
  <1>6. {i \in DOMAIN t : t[i] \notin Spaces} = DOMAIN t
    BY <1>3
  <1>7. WithoutSpaces(t) = t
    BY <1>3, <1>6, PickAll DEF WithoutSpaces
  <1>8. QED
    BY <1>5, <1>7 DEF t

LEMMA WithoutZerosFacts ==
  ASSUME NEW s \in Seq(Characters), IsNumber(s)
  PROVE  /\ WithoutZeros(s) \in Cell /\ IsNumber(WithoutZeros(s))
         /\ WithoutZeros(WithoutZeros(s)) = WithoutZeros(s)
  <1> DEFINE S == {i \in DOMAIN s : i = Len(s) \/ \E j \in 1..i : s[j] # Zero}
             t == WithoutZeros(s)
  <1>1. S \in SUBSET (1..Len(s)) /\ t = Pick(s, S) /\ DOMAIN s = 1..Len(s) /\ Len(s) \in Nat
    BY DEF WithoutZeros
  <1>2. s # <<>> /\ \A i \in DOMAIN s : s[i] \in Words /\ Digits[s[i]] > 0
    BY DEF IsNumber
  <1>3. Len(s) \in S
    BY <1>1, <1>2
  <1>4. \A i, j \in DOMAIN s : (j <= i /\ s[j] # Zero) => i \in S
    BY <1>1
  <1>5. \A i \in S : i = Len(s) \/ \E j \in 1..i : s[j] # Zero
    OBVIOUS
  <1> HIDE DEF S, t
  <1>6. /\ t \in Seq(Characters) /\ DOMAIN t = 1..Cardinality(S) /\ Len(t) = Cardinality(S)
        /\ Cardinality(S) \in Nat
        /\ \A k \in DOMAIN t : t[k] \in Words /\ Digits[t[k]] > 0
    <2>1. /\ t \in Seq(Characters) /\ DOMAIN t = 1..Cardinality(S) /\ Len(t) = Cardinality(S)
          /\ Cardinality(S) \in Nat
      BY <1>1, PickFacts
    <2>2. \A k \in 1..Cardinality(S) : \E i \in S : t[k] = s[i]
      BY <1>1, PickFacts
    <2>3. \A i \in S : s[i] \in Words /\ Digits[s[i]] > 0
      BY <1>1, <1>2
    <2>4. \A k \in DOMAIN t : t[k] \in Words /\ Digits[t[k]] > 0
      BY <2>1, <2>2, <2>3
    <2>5. QED
      BY <2>1, <2>4
  <1>7. PICK a, b \in S : /\ \A i \in S : a <= i /\ i <= b
                          /\ Len(t) >= 1 /\ t[1] = s[a]
    BY <1>1, <1>3, PickEnds
  <1>8. IsNumber(t)
    BY <1>6, <1>7 DEF IsNumber
  <1>9. t \in Cell
    <2>1. \A k \in DOMAIN t : t[k] \notin Spaces
      <3>1. Words \cap Spaces = {}
        BY VoterRowsAssumption DEF Marks
      <3>2. QED
        BY <1>6, <3>1
    <2>2. 1 \in DOMAIN t /\ Len(t) \in DOMAIN t
      BY <1>6, <1>7
    <2>3. QED
      BY <1>6, <2>1, <2>2 DEF Cell
  <1>10. \A k \in DOMAIN t : k = Len(t) \/ \E j \in 1..k : t[j] # Zero
    <2>1. CASE s[a] # Zero
      <3>1. t[1] # Zero
        BY <1>7, <2>1
      <3>2. \A k \in DOMAIN t : 1 \in 1..k
        BY <1>6
      <3>3. QED
        BY <3>1, <3>2
    <2>2. CASE s[a] = Zero
      <3>1. a = Len(s)
        <4>1. SUFFICES ASSUME NEW j \in 1..a, s[j] # Zero PROVE FALSE
          BY <1>5, <1>7
        <4>2. a \in DOMAIN s /\ j \in DOMAIN s /\ j <= j /\ a \in Nat
          BY <1>1, <1>7
        <4>3. j \in S
          BY <1>4, <4>1, <4>2
        <4>4. a <= j
          BY <1>7, <4>3
        <4>5. j = a
          BY <4>2, <4>4
        <4>6. QED
          BY <2>2, <4>1, <4>5
      <3>2. \A i \in S : i = a
        <4>1. \A i \in S : i \in Nat /\ a \in Nat /\ a <= i /\ i <= Len(s)
          BY <1>1, <1>7
        <4>2. QED
          BY <3>1, <4>1
      <3>3. S = {a}
        BY <3>2
      <3>4. Cardinality(S) = 1
        BY <3>3, FS_Singleton
      <3>5. QED
        BY <1>6, <3>4
    <2>3. QED
      BY <2>1, <2>2
  <1>11. {i \in DOMAIN t : i = Len(t) \/ \E j \in 1..i : t[j] # Zero} = DOMAIN t
    BY <1>10
  <1>12. WithoutZeros(t) = t
    BY <1>6, <1>11, PickAll DEF WithoutZeros
  <1>13. QED
    BY <1>8, <1>9, <1>12 DEF t

LEMMA NormalizedFacts ==
  ASSUME NEW row \in Cells
  PROVE  Normalized(row) \in Cells /\ Normalized(Normalized(row)) = Normalized(row)
  <1> DEFINE n == Normalized(row)
             number == row["householdNumber"]
  <1>1. /\ "householdNumber" \in Columns /\ "name" \in Columns
        /\ "householdNumber" # "name"
    BY DEF Columns
  <1>2. \A c \in Columns : row[c] \in Cell /\ row[c] \in Seq(Characters)
    BY DEF Cells, Cell
  <1>3. /\ n \in [Columns -> {n[c] : c \in Columns}]
        /\ n["name"] = WithoutSpaces(row["name"])
        /\ n["householdNumber"] = (IF IsNumber(number) THEN WithoutZeros(number) ELSE number)
        /\ \A c \in Columns \ {"name", "householdNumber"} : n[c] = row[c]
    BY <1>1 DEF Normalized, Cells
  <1> HIDE DEF n
  <1>4. \A c \in Columns : n[c] \in Cell
    <2>1. n["name"] \in Cell
      BY <1>1, <1>2, <1>3, WithoutSpacesFacts
    <2>2. n["householdNumber"] \in Cell
      BY <1>1, <1>2, <1>3, WithoutZerosFacts
    <2>3. QED
      BY <1>2, <1>3, <2>1, <2>2
  <1>5. n \in Cells
    BY <1>3, <1>4 DEF Cells
  <1>6. WithoutSpaces(n["name"]) = n["name"]
    BY <1>1, <1>2, <1>3, WithoutSpacesFacts
  <1>7. (IF IsNumber(n["householdNumber"]) THEN WithoutZeros(n["householdNumber"])
                                           ELSE n["householdNumber"]) = n["householdNumber"]
    <2>1. CASE IsNumber(number)
      <3>1. /\ n["householdNumber"] = WithoutZeros(number)
            /\ WithoutZeros(WithoutZeros(number)) = WithoutZeros(number)
        BY <1>1, <1>2, <1>3, <2>1, WithoutZerosFacts
      <3>2. QED
        BY <3>1
    <2>2. CASE ~IsNumber(number)
      BY <1>3, <2>2
    <2>3. QED
      BY <2>1, <2>2
  <1>8. Normalized(n) = n
    <2>1. \A c \in Columns : Normalized(n)[c] = n[c]
      BY <1>1, <1>5, <1>6, <1>7 DEF Normalized, Cells
    <2>2. DOMAIN Normalized(n) = Columns /\ DOMAIN n = Columns
      BY <1>5 DEF Normalized, Cells
    <2>3. Normalized(n) = [c \in Columns |-> Normalized(n)[c]]
      BY <2>2 DEF Normalized
    <2>4. n = [c \in Columns |-> n[c]]
      BY <1>5 DEF Cells
    <2>5. QED
      BY <2>1, <2>3, <2>4
  <1>9. QED
    BY <1>5, <1>8 DEF n

LEMMA StandardCells ==
  ASSUME NEW x, DOMAIN x = 1..4
  PROVE  /\ CellOf(x, StandardHeader, "householdNumber") = x[1]
         /\ CellOf(x, StandardHeader, "name") = x[2]
         /\ CellOf(x, StandardHeader, "identifierLast4") = x[3]
         /\ CellOf(x, StandardHeader, "birthDate6") = x[4]
  <1>1. /\ {i \in DOMAIN StandardHeader : StandardHeader[i] = <<"householdNumber">>} = {1}
        /\ {i \in DOMAIN StandardHeader : StandardHeader[i] = <<"name">>} = {2}
        /\ {i \in DOMAIN StandardHeader : StandardHeader[i] = <<"identifierLast4">>} = {3}
        /\ {i \in DOMAIN StandardHeader : StandardHeader[i] = <<"birthDate6">>} = {4}
    BY DEF StandardHeader, StandardOrder
  <1>2. ASSUME NEW c, NEW k \in 1..4,
               {i \in DOMAIN StandardHeader : StandardHeader[i] = <<c>>} = {k}
        PROVE  CellOf(x, StandardHeader, c) = x[k]
    <2>1. k \in DOMAIN x /\ k <= k
      OBVIOUS
    <2> DEFINE named == {i \in DOMAIN StandardHeader : StandardHeader[i] = <<c>>}
    <2>2. CellOf(x, StandardHeader, c) =
            IF \E i \in named : i \in DOMAIN x /\ \A j \in named : j <= i
              THEN x[CHOOSE i \in named : \A j \in named : j <= i] ELSE Missing
      BY DEF CellOf
    <2>2a. named = {k}
      BY <1>2
    <2> HIDE DEF named
    <2>3. \E i \in named : i \in DOMAIN x /\ \A j \in named : j <= i
      BY <2>1, <2>2a
    <2>4. (CHOOSE i \in named : \A j \in named : j <= i) = k
      BY <2>1, <2>2a
    <2>5. QED
      BY <2>2, <2>3, <2>4
  <1>3. 1 \in 1..4 /\ 2 \in 1..4 /\ 3 \in 1..4 /\ 4 \in 1..4
    OBVIOUS
  <1>4. CellOf(x, StandardHeader, "householdNumber") = x[1]
    BY <1>1, <1>2, <1>3
  <1>5. CellOf(x, StandardHeader, "name") = x[2]
    BY <1>1, <1>2, <1>3
  <1>6. CellOf(x, StandardHeader, "identifierLast4") = x[3]
    BY <1>1, <1>2, <1>3
  <1>7. CellOf(x, StandardHeader, "birthDate6") = x[4]
    BY <1>1, <1>2, <1>3
  <1>8. QED
    BY <1>4, <1>5, <1>6, <1>7

\* Without marks in its fields a row comes back as it was written.
LEMMA UnmarkedAgain ==
  ASSUME NEW row \in Cells, ~IsMarked(row)
  PROVE  ReadAgain(row) = Normalized(row)
  <1> DEFINE n == Normalized(row)
             a == n["householdNumber"]
             b == n["name"]
             c == n["identifierLast4"]
             d == n["birthDate6"]
             line == LineOf(a, b, c, d)
  <1>1. n \in Cells
    BY NormalizedFacts
  <1>2. /\ "householdNumber" \in Columns /\ "name" \in Columns
        /\ "identifierLast4" \in Columns /\ "birthDate6" \in Columns
        /\ \A x \in Columns : x \in {"householdNumber", "name", "identifierLast4", "birthDate6"}
    BY DEF Columns
  <1>3. Joined(n) = line
    <2> HIDE DEF n
    <2>1. QED
      BY DEF Joined, LineOf
  <1>4. \A x \in Columns : \A i \in DOMAIN n[x] : n[x][i] \notin Separators \cup {"quote"}
    BY DEF IsMarked
  <1> HIDE DEF n
  <1>5. ASSUME NEW x \in Columns PROVE n[x] \in Whole
    <2>1. n[x] \in Cell /\ DOMAIN n[x] = 1..Len(n[x])
      BY <1>1 DEF Cells, Cell
    <2>2. \A i \in DOMAIN n[x] : n[x][i] \notin Separators \cup {"quote"}
      BY <1>4
    <2>3. QED
      BY <2>1, <2>2 DEF Whole
  <1>6. a \in Whole /\ b \in Whole /\ c \in Whole /\ d \in Whole
    BY <1>2, <1>5
  <1> HIDE DEF a, b, c, d
  <1>7. line \in Cell /\ Split(line) = <<a, b, c, d>>
    BY <1>6, SplitLine
  <1> HIDE DEF line
  <1>8. Split(Trim(Joined(n))) = <<a, b, c, d>>
    BY <1>3, <1>7, TrimCell
  <1> DEFINE x == <<a, b, c, d>>
  <1>9. /\ CellOf(x, StandardHeader, "householdNumber") = a
        /\ CellOf(x, StandardHeader, "name") = b
        /\ CellOf(x, StandardHeader, "identifierLast4") = c
        /\ CellOf(x, StandardHeader, "birthDate6") = d
    <2>1. DOMAIN x = 1..4 /\ x[1] = a /\ x[2] = b /\ x[3] = c /\ x[4] = d
      OBVIOUS
    <2> HIDE DEF x
    <2>2. QED
      BY <2>1, StandardCells
  <1> HIDE DEF x
  <1>10. \A y \in Columns : CellOf(x, StandardHeader, y) = n[y]
    BY <1>2, <1>9 DEF a, b, c, d
  <1>11. ReadAgain(row) = [y \in Columns |-> CellOf(x, StandardHeader, y)]
    BY <1>8 DEF ReadAgain, n, x
  <1>12. n = [y \in Columns |-> n[y]]
    BY <1>1 DEF Cells
  <1>13. QED
    BY <1>10, <1>11, <1>12 DEF n

LEMMA NormalizedAgain ==
  ASSUME NEW row \in Cells
  PROVE  /\ ValidRow(Normalized(row)) <=> ValidRow(row)
         /\ Identity(Normalized(row)) = Identity(row)
  <1>1. Normalized(Normalized(row)) = Normalized(row)
    BY NormalizedFacts
  <1>2. QED
    BY <1>1 DEF ValidRow, Identity

\* A file that the server takes from the form: its rows are in order, as far
\* as they come through the form as they are, and so are the people.
LEMMA FileThroughForm ==
  ASSUME NEW file \in Files, Importable(Formatted(Parsed(file)))
  PROVE  file \in SoundFiles /\ PeopleOf(Formatted(Parsed(file))) = VotersOf[file]
  <1> DEFINE rows == Parsed(file)
             text == Formatted(rows)
             voter(row) == Identity(IF IsMarked(row) THEN Reread(row) ELSE row)
  <1>1. PICK n \in Nat : DOMAIN rows = 1..n /\ \A r \in 1..n : rows[r] \in Cells
    BY ParsedFacts, ElectionContentAssumption
  <1>2. Parsed(text) = [r \in 1..n |-> ReadAgain(rows[r])]
    BY <1>1, ParsedText
  <1>3. ASSUME NEW row PROVE Reread(row) = ReadAgain(row)
    <2>1. DOMAIN <<row>> = 1..1 /\ <<row>>[1] = row /\ 1 \in Nat /\ 1 \in 1..1
      OBVIOUS
    <2> DEFINE one == <<row>>
    <2> HIDE DEF one
    <2>2. Parsed(Formatted(one)) = [r \in 1..1 |-> ReadAgain(one[r])]
      BY <2>1, ParsedText DEF one
    <2>3. Parsed(Formatted(one))[1] = ReadAgain(one[1])
      BY <2>1, <2>2
    <2>4. QED
      BY <2>1, <2>3 DEF Reread, one
  <1>4. ValidRows(text) = 1..n
    BY <1>2 DEF Importable
  <1>5. ASSUME NEW r \in 1..n
        PROVE  /\ ValidRow(rows[r]) \/ IsMarked(rows[r])
               /\ Identity(Parsed(text)[r]) = voter(rows[r])
    <2>1. Parsed(text)[r] = ReadAgain(rows[r]) /\ ValidRow(Parsed(text)[r]) /\ rows[r] \in Cells
      BY <1>1, <1>2, <1>4 DEF ValidRows
    <2> HIDE DEF rows, text
    <2>2. CASE IsMarked(rows[r])
      BY <1>3, <2>1, <2>2
    <2>3. CASE ~IsMarked(rows[r])
      <3>1. Parsed(text)[r] = Normalized(rows[r])
        BY <2>1, <2>3, UnmarkedAgain
      <3>2. QED
        BY <2>1, <2>3, <3>1, NormalizedAgain
    <2>4. QED
      BY <2>2, <2>3
  <1>6. RowsOf(file) = {rows[r] : r \in 1..n}
    BY <1>1 DEF RowsOf
  <1>7. PeopleOf(text) = {Identity(Parsed(text)[r]) : r \in 1..n}
    BY <1>4 DEF PeopleOf
  <1>8. VotersOf[file] = {voter(row) : row \in RowsOf(file)}
    BY DEF VotersOf
  <1> HIDE DEF rows, text, voter
  <1>9. PeopleOf(text) = VotersOf[file]
    BY <1>5, <1>6, <1>7, <1>8
  <1>10. file \in SoundFiles
    BY <1>5, <1>6 DEF SoundFiles
  <1>11. QED
    BY <1>9, <1>10 DEF rows, text

\* An empty form names nobody.
LEMMA NobodyYet == PeopleOf(<<>>) = {}
  <1>1. Parsed(<<>>) = <<>>
    BY DEF Parsed
  <1>2. ValidRows(<<>>) = {}
    BY <1>1 DEF ValidRows
  <1>3. QED
    BY <1>2 DEF PeopleOf

-----------------------------------------------------------------------------
(* The rows of a form and the options made of them                         *)

LEMMA Numbers ==
  ASSUME NEW n \in Nat
  PROVE  /\ IsFiniteSet(1..n) /\ Cardinality(1..n) = n
         /\ IsFiniteSet(Before(n)) /\ Cardinality(Before(n)) = n
  BY FS_Interval DEF Before

LEMMA FilledFacts ==
  ASSUME NEW rows \in Seq(Row)
  PROVE  /\ IsFiniteSet(Filled(rows)) /\ Cardinality(Filled(rows)) \in 0..Len(rows)
         /\ Filled(rows) \subseteq 1..Len(rows)
         /\ \A i \in Filled(rows) : rows[i].title \in Labels
         /\ \A i \in 1..Len(rows) : rows[i] \in Row
  <1>1. Filled(rows) \subseteq 1..Len(rows) /\ Len(rows) \in Nat
    BY DEF Filled
  <1>2. IsFiniteSet(1..Len(rows)) /\ Cardinality(1..Len(rows)) = Len(rows)
    BY <1>1, Numbers
  <1>3. IsFiniteSet(Filled(rows)) /\ Cardinality(Filled(rows)) <= Len(rows)
    BY <1>1, <1>2, FS_Subset
  <1>4. Cardinality(Filled(rows)) \in Nat
    BY <1>3, FS_CardinalityType
  <1>5. \A i \in 1..Len(rows) : rows[i] \in Row
    OBVIOUS
  <1>6. \A i \in Filled(rows) : rows[i].title \in Labels
    BY <1>1, <1>5 DEF Filled, Row
  <1>7. QED
    BY <1>1, <1>3, <1>4, <1>5, <1>6

LEMMA FilledRowFacts ==
  ASSUME NEW rows \in Seq(Row), NEW k \in 1..Cardinality(Filled(rows))
  PROVE  /\ FilledRow(rows, k) \in Filled(rows)
         /\ Cardinality({j \in Filled(rows) : j <= FilledRow(rows, k)}) = k
  <1>1. Len(rows) \in Nat /\ Filled(rows) \in SUBSET (1..Len(rows))
    BY FilledFacts
  <1>2. QED
    BY <1>1, NthFacts DEF FilledRow

LEMMA OptionsOfFacts ==
  ASSUME NEW rows \in Seq(Row)
  PROVE  /\ OptionsOf(rows) \in Seq(Option)
         /\ Len(OptionsOf(rows)) = Cardinality(Filled(rows))
         /\ DOMAIN OptionsOf(rows) = 1..Cardinality(Filled(rows))
         /\ Len(OptionsOf(rows)) \in 0..Len(rows)
         /\ \A k \in 1..Cardinality(Filled(rows)) :
              OptionsOf(rows)[k] \in Option
                /\ OptionsOf(rows)[k].label = rows[FilledRow(rows, k)].title
  <1>1. Cardinality(Filled(rows)) \in 0..Len(rows)
    BY FilledFacts
  <1>2. ASSUME NEW k \in 1..Cardinality(Filled(rows))
        PROVE  [label |-> rows[FilledRow(rows, k)].title,
                about |-> IF rows[k].described THEN rows[k].title ELSE NoText] \in Option
    <2>1. rows[FilledRow(rows, k)].title \in Labels
      BY FilledFacts, FilledRowFacts
    <2>2. k \in 1..Len(rows)
      BY <1>1
    <2>3. rows[k].title \in Labels \cup {Blank}
      BY <2>2, FilledFacts DEF Row
    <2>4. QED
      BY <2>1, <2>3 DEF Option
  <1>3. QED
    BY <1>1, <1>2 DEF OptionsOf

LEMMA OptionsDiffer ==
  ASSUME NEW rows \in Seq(Row), Distinct(LabelsOf(rows)),
         NEW k \in 1..Cardinality(Filled(rows)), NEW l \in 1..Cardinality(Filled(rows)),
         OptionsOf(rows)[k].label = OptionsOf(rows)[l].label
  PROVE  k = l
  <1>1. FilledRow(rows, k) \in Filled(rows) /\ FilledRow(rows, l) \in Filled(rows)
    BY FilledRowFacts
  <1>2. rows[FilledRow(rows, k)].title = rows[FilledRow(rows, l)].title
    BY OptionsOfFacts
  <1>3. FilledRow(rows, k) = FilledRow(rows, l)
    BY <1>1, <1>2 DEF Distinct, LabelsOf
  <1>4. QED
    BY <1>3, FilledRowFacts

-----------------------------------------------------------------------------
(* What is written to the questions                                        *)

LEMMA ChoicesFacts ==
  ASSUME NEW options \in Choices
  PROVE  \E n \in 0..Places : /\ options \in [Before(n) -> Option]
                              /\ DOMAIN options = Before(n)
                              /\ Cardinality(DOMAIN options) = n
  <1>1. PICK n \in 0..Places : options \in [Before(n) -> Option]
    BY DEF Choices
  <1>2. n \in Nat
    BY <1>1, ElectionContentAssumption
  <1>3. Cardinality(Before(n)) = n
    BY <1>2, Numbers
  <1>4. QED
    BY <1>1, <1>3

\* An option is changed, or put behind those that are there.
LEMMA OptionPut ==
  ASSUME NEW options \in Choices, NEW order \in Nat, NEW option \in Option,
         order \in DOMAIN options \/ (order < Places /\ Before(order) \subseteq DOMAIN options),
         NEW more, more = [o \in {order} \cup DOMAIN options |->
                             IF o = order THEN option ELSE options[o]]
  PROVE  more \in Choices
  <1>1. PICK n \in 0..Places : options \in [Before(n) -> Option] /\ DOMAIN options = Before(n)
    BY ChoicesFacts
  <1>2. n \in Nat /\ Places \in Nat /\ n <= Places
    BY ElectionContentAssumption
  <1>3. CASE order \in Before(n)
    <2>1. {order} \cup Before(n) = Before(n)
      BY <1>3
    <2>2. more \in [Before(n) -> Option]
      BY <1>1, <2>1
    <2>3. QED
      BY <1>2, <2>2 DEF Choices
  <1>4. CASE order \notin Before(n)
    <2>1. order < Places /\ Before(order) \subseteq Before(n)
      BY <1>1, <1>4
    <2>2. order = n
      <3>1. ~(order < n)
        BY <1>2, <1>4 DEF Before
      <3>2. ASSUME n < order PROVE FALSE
        <4>1. n \in Before(order) /\ n \notin Before(n)
          BY <1>2, <3>2 DEF Before
        <4>2. QED
          BY <2>1, <4>1
      <3>3. QED
        BY <1>2, <3>1, <3>2
    <2>3. {order} \cup Before(n) = Before(n + 1)
      BY <1>2, <2>2 DEF Before
    <2>4. more \in [Before(n + 1) -> Option]
      BY <1>1, <2>3
    <2>5. n + 1 \in 0..Places
      BY <1>2, <2>1, <2>2
    <2>6. QED
      BY <2>4, <2>5 DEF Choices
  <1>5. QED
    BY <1>3, <1>4

LEMMA SheetFacts ==
  ASSUME NEW there \in Sheets
  PROVE  /\ DOMAIN there \subseteq Before(Questions)
         /\ there \in [DOMAIN there -> Question]
         /\ \A o \in DOMAIN there :
              /\ there[o] \in Question /\ there[o].by \in {"wizard", "quick"}
              /\ there[o].options \in Choices
  <1>1. PICK S \in SUBSET Before(Questions) : there \in [S -> Question]
    BY DEF Sheets
  <1>2. QED
    BY <1>1 DEF Question

\* Nothing that is there goes away.
Grown(there, more) ==
  \A o \in DOMAIN there :
    /\ o \in DOMAIN more /\ more[o].by = there[o].by
    /\ DOMAIN there[o].options \subseteq DOMAIN more[o].options

\* All that PutOption does
PutFacts(e, place, order, option) ==
  /\ questions' \in [Elections -> Sheets]
  /\ \A f \in Elections \ {e} : questions'[f] = questions[f]
  /\ DOMAIN questions'[e] = DOMAIN questions[e]
  /\ \A o \in DOMAIN questions[e] \ {place} : questions'[e][o] = questions[e][o]
  /\ questions'[e][place].by = questions[e][place].by
  /\ DOMAIN questions'[e][place].options = {order} \cup DOMAIN questions[e][place].options
  /\ questions'[e][place].options[order] = option
  /\ \A i \in DOMAIN questions[e][place].options \ {order} :
       questions'[e][place].options[i] = questions[e][place].options[i]

LEMMA PutOptionFacts ==
  ASSUME questions \in [Elections -> Sheets], NEW e \in Elections,
         NEW place \in DOMAIN questions[e], NEW order \in Nat, NEW option \in Option,
         \/ order \in DOMAIN questions[e][place].options
         \/ order < Places /\ Before(order) \subseteq DOMAIN questions[e][place].options,
         PutOption(e, place, order, option)
  PROVE  PutFacts(e, place, order, option)
  <1> DEFINE there   == questions[e]
             options == there[place].options
             more    == [o \in {order} \cup DOMAIN options |->
                           IF o = order THEN option ELSE options[o]]
             written == [there EXCEPT ![place] = [there[place] EXCEPT !.options = more]]
  <1>1. there \in Sheets /\ there \in [DOMAIN there -> Question] /\ options \in Choices
        /\ there[place] \in Question /\ DOMAIN there \subseteq Before(Questions)
    BY SheetFacts
  <1>2. more \in Choices
    BY <1>1, OptionPut
  <1>3. questions' = [questions EXCEPT ![e] = written]
    BY DEF PutOption
  <1>4. /\ [there[place] EXCEPT !.options = more] \in Question
        /\ [there[place] EXCEPT !.options = more].by = there[place].by
        /\ [there[place] EXCEPT !.options = more].options = more
    BY <1>1, <1>2 DEF Question
  <1> HIDE DEF more
  <1>5. written \in [DOMAIN there -> Question]
    BY <1>1, <1>4
  <1>6. written \in Sheets
    BY <1>1, <1>5 DEF Sheets
  <1>7. /\ \A o \in DOMAIN there \ {place} : written[o] = there[o]
        /\ written[place].by = there[place].by /\ written[place].options = more
        /\ DOMAIN written = DOMAIN there
    BY <1>4
  <1>8. /\ questions' \in [Elections -> Sheets] /\ questions'[e] = written
        /\ \A f \in Elections \ {e} : questions'[f] = questions[f]
    BY <1>3, <1>6
  <1> HIDE DEF written
  <1>9. /\ DOMAIN more = {order} \cup DOMAIN options /\ more[order] = option
        /\ \A i \in DOMAIN options \ {order} : more[i] = options[i]
    BY DEF more
  <1>10. /\ DOMAIN questions'[e] = DOMAIN questions[e]
         /\ \A o \in DOMAIN questions[e] \ {place} : questions'[e][o] = questions[e][o]
         /\ questions'[e][place].by = questions[e][place].by
         /\ questions'[e][place].options = more
    BY <1>7, <1>8
  <1>11. /\ DOMAIN more = {order} \cup DOMAIN questions[e][place].options
         /\ \A i \in DOMAIN questions[e][place].options \ {order} :
              more[i] = questions[e][place].options[i]
    BY <1>9
  <1>12. QED
    BY <1>8, <1>9, <1>10, <1>11 DEF PutFacts

\* A question is added with nothing to choose.
NewFacts(e, place, by) ==
  /\ questions' \in [Elections -> Sheets]
  /\ \A f \in Elections \ {e} : questions'[f] = questions[f]
  /\ DOMAIN questions'[e] = {place} \cup DOMAIN questions[e]
  /\ \A o \in DOMAIN questions[e] \ {place} : questions'[e][o] = questions[e][o]
  /\ questions'[e][place].by = by /\ questions'[e][place].options = <<>>

LEMMA NewQuestionFacts ==
  ASSUME questions \in [Elections -> Sheets], NEW e \in Elections,
         NEW place \in Before(Questions), NEW by \in {"wizard", "quick"},
         questions' = [questions EXCEPT ![e] =
                         [o \in {place} \cup DOMAIN @ |->
                            IF o = place THEN [by |-> by, options |-> <<>>] ELSE @[o]]]
  PROVE  NewFacts(e, place, by)
  <1> DEFINE there == questions[e]
             more  == [o \in {place} \cup DOMAIN there |->
                         IF o = place THEN [by |-> by, options |-> <<>>] ELSE there[o]]
  <1>1. there \in Sheets /\ there \in [DOMAIN there -> Question]
        /\ DOMAIN there \subseteq Before(Questions)
    BY SheetFacts
  <1>2. <<>> \in Choices
    <2>1. Before(0) = {} /\ 0 \in 0..Places
      BY ElectionContentAssumption DEF Before
    <2>2. <<>> \in [Before(0) -> Option]
      BY <2>1
    <2>3. QED
      BY <2>1, <2>2 DEF Choices
  <1>3. [by |-> by, options |-> <<>>] \in Question
    BY <1>2 DEF Question
  <1>4. more \in [{place} \cup DOMAIN there -> Question]
    BY <1>1, <1>3
  <1>5. more \in Sheets
    <2>1. {place} \cup DOMAIN there \in SUBSET Before(Questions)
      BY <1>1
    <2> HIDE DEF more
    <2>2. QED
      BY <1>4, <2>1 DEF Sheets
  <1>6. questions' = [questions EXCEPT ![e] = more]
    OBVIOUS
  <1> HIDE DEF more
  <1>7. /\ questions' \in [Elections -> Sheets] /\ questions'[e] = more
        /\ \A f \in Elections \ {e} : questions'[f] = questions[f]
    BY <1>5, <1>6
  <1>8. /\ DOMAIN more = {place} \cup DOMAIN there
        /\ \A o \in DOMAIN there \ {place} : more[o] = there[o]
        /\ more[place].by = by /\ more[place].options = <<>>
    BY DEF more
  <1>9. /\ DOMAIN more = {place} \cup DOMAIN questions[e]
        /\ \A o \in DOMAIN questions[e] \ {place} : more[o] = questions[e][o]
    BY <1>8
  <1>10. QED
    BY <1>7, <1>8, <1>9 DEF NewFacts

-----------------------------------------------------------------------------
(* What a step of a request has to keep                                    *)

Growing ==
  \A e \in Elections :
    /\ Grown(questions[e], questions'[e])
    /\ \A o \in DOMAIN questions'[e] \ DOMAIN questions[e] : questions'[e][o].options = <<>>

RowsTyped ==
  /\ elections \in [Elections -> ElectionRow] /\ questions \in [Elections -> Sheets]
  /\ wizard \in Wizard /\ requests \in [Requests -> Request]

Kept(r) ==
  /\ RowsTyped'
  /\ \A s \in Requests \ {r} : requests'[s] = requests[s]
  /\ Growing
  /\ Existing \subseteq Existing'
  /\ RequestFits(requests'[r], questions'[requests'[r].election], Existing')
  /\ VotersComeLast'

LEMMA RestFits ==
  ASSUME NEW there, NEW existing
  PROVE  Rest \in Request /\ RequestFits(Rest, there, existing)
  <1>1. Rest \in Request
    <2>1. <<>> \in Seq(Row) /\ <<>> \in Imported /\ <<0, 0>> \in Nat \X Nat
      BY DEF Imported
    <2>2. <<>> \in Sheets
      <3>1. <<>> \in [{} -> Question] /\ {} \in SUBSET Before(Questions)
        OBVIOUS
      <3>2. QED
        BY <3>1 DEF Sheets
    <2>3. QED
      BY <2>1, <2>2 DEF Rest, Request, Steps
  <1>2. RequestFits(Rest, there, existing)
    BY DEF Rest, RequestFits, InStep, StepsOf, InElection, WizardFits, QuickFits, CreationFits,
           VotersFit, ShownFits
  <1>3. QED
    BY <1>1, <1>2

\* A request that does not write to the questions of others fits after them.
LEMMA FitsAfterwards ==
  ASSUME NEW q, NEW there, NEW more, NEW existing, NEW later,
         q.pc \notin {"rest", "draft"} => Grown(there, more),
         existing \subseteq later, RequestFits(q, there, existing)
  PROVE  RequestFits(q, more, later)
  <1>1. InStep(q) /\ InElection(q, later) /\ WizardFits(q) /\ QuickFits(q)
    BY DEF RequestFits, InElection
  <1>2. CreationFits(q, more)
    BY DEF RequestFits, CreationFits, Grown
  <1>3. VotersFit(q, more)
    BY DEF RequestFits, VotersFit, Grown
  <1>4. ShownFits(q, more)
    <2>1. q.kind = "edit" => q.pc \in {"form", "question", "option", "append"}
      BY <1>1 DEF InStep, StepsOf
    <2>2. QED
      BY <2>1 DEF RequestFits, ShownFits, Grown
  <1>5. QED
    BY <1>1, <1>2, <1>3, <1>4 DEF RequestFits

LEMMA EnoughFacts ==
  ASSUME NEW options \in Choices
  PROVE  Enough(options) <=> {0, 1} \subseteq DOMAIN options
  <1>1. PICK n \in 0..Places : DOMAIN options = Before(n) /\ Cardinality(DOMAIN options) = n
    BY ChoicesFacts
  <1>2. n \in Nat
    BY ElectionContentAssumption
  <1>3. QED
    BY <1>1, <1>2 DEF Enough, Before

LEMMA VotersStay ==
  ASSUME VotersComeLast, RowsTyped, RowsTyped', Growing,
         \A e \in Existing' : elections'[e].listedBy = "wizard" =>
           \/ e \in Existing /\ elections[e].listedBy = "wizard"
           \/ 0 \in DOMAIN questions[e] /\ {0, 1} \subseteq DOMAIN questions[e][0].options
  PROVE  VotersComeLast'
  <1>1. SUFFICES ASSUME NEW e \in Existing', elections'[e].listedBy = "wizard"
                 PROVE  \E o \in DOMAIN questions'[e] : Enough(questions'[e][o].options)
    BY DEF VotersComeLast, Enough
  <1>2. e \in Elections
    BY <1>1 DEF Existing
  <1>3. questions[e] \in Sheets /\ questions'[e] \in Sheets
    BY <1>2 DEF RowsTyped
  <1>4. PICK o \in DOMAIN questions[e] : {0, 1} \subseteq DOMAIN questions[e][o].options
    <2>1. CASE e \in Existing /\ elections[e].listedBy = "wizard"
      <3>1. PICK o \in DOMAIN questions[e] : Enough(questions[e][o].options)
        BY <2>1 DEF VotersComeLast, Enough
      <3>2. QED
        BY <3>1, <1>3, SheetFacts, EnoughFacts
    <2>2. QED
      BY <2>1, <1>1
  <1>5. o \in DOMAIN questions'[e] /\ {0, 1} \subseteq DOMAIN questions'[e][o].options
    BY <1>2, <1>4 DEF Growing, Grown
  <1>6. QED
    BY <1>3, <1>5, SheetFacts, EnoughFacts

LEMMA FitsKept ==
  ASSUME ContentInv, NEW r \in Requests, Kept(r)
  PROVE  RequestsFit'
  <1>1. ASSUME NEW s \in Requests \ {r}
        PROVE  RequestFits(requests'[s], questions'[requests'[s].election], Existing')
    <2>1. PICK q : q = requests[s]
      OBVIOUS
    <2>2. RequestFits(q, questions[q.election], Existing) /\ requests'[s] = q
      BY <2>1 DEF ContentInv, RequestsFit, Kept
    <2>3. q.pc \notin {"rest", "draft"} => q.election \in Elections
      BY <2>2 DEF RequestFits, InElection, Existing
    <2>4. q.pc \notin {"rest", "draft"} =>
            Grown(questions[q.election], questions'[q.election])
      BY <2>3 DEF Kept, Growing
    <2>5. Existing \subseteq Existing'
      BY DEF Kept
    <2>6. RequestFits(q, questions'[q.election], Existing')
      BY <2>2, <2>4, <2>5, FitsAfterwards
    <2>7. QED
      BY <2>2, <2>6
  <1>2. RequestFits(requests'[r], questions'[requests'[r].election], Existing')
    BY DEF Kept
  <1>3. QED
    BY <1>1, <1>2 DEF RequestsFit

LEMMA GrownSame ==
  ASSUME UNCHANGED questions
  PROVE  Growing
  BY DEF Growing, Grown

\* A step that writes to the request only
LEMMA RequestMoves ==
  ASSUME ContentInv, NEW r \in Requests, NEW q \in Request,
         requests' = [requests EXCEPT ![r] = q],
         UNCHANGED <<elections, questions>>, wizard' \in Wizard,
         RequestFits(q, questions[q.election], Existing)
  PROVE  Kept(r)
  <1>1. RowsTyped /\ RowsTyped'
    BY DEF ContentInv, ContentTypeOK, RowsTyped
  <1>2. requests'[r] = q /\ \A s \in Requests \ {r} : requests'[s] = requests[s]
    BY <1>1 DEF RowsTyped
  <1>3. Growing /\ Existing' = Existing
    BY GrownSame DEF Existing
  <1>4. VotersComeLast'
    BY <1>1, <1>3, VotersStay DEF ContentInv
  <1>5. QED
    BY <1>1, <1>2, <1>3, <1>4 DEF Kept

LEMMA RequestEnds ==
  ASSUME ContentInv, NEW r \in Requests, Finish(r),
         UNCHANGED <<elections, questions>>, wizard' \in Wizard
  PROVE  Kept(r)
  BY RestFits, RequestMoves DEF Finish

\* A step that writes an election's row
LEMMA RequestWrites ==
  ASSUME ContentInv, NEW r \in Requests, NEW q \in Request,
         requests' = [requests EXCEPT ![r] = q],
         NEW e \in Elections, NEW row \in ElectionRow,
         elections' = [elections EXCEPT ![e] = row], row.state # "none",
         row.listedBy = "wizard" =>
           \/ e \in Existing /\ elections[e].listedBy = "wizard"
           \/ 0 \in DOMAIN questions[e] /\ {0, 1} \subseteq DOMAIN questions[e][0].options,
         UNCHANGED questions, wizard' \in Wizard,
         RequestFits(q, questions[q.election], Existing \cup {e})
  PROVE  Kept(r)
  <1>1. RowsTyped /\ Growing
    BY GrownSame DEF ContentInv, ContentTypeOK, RowsTyped
  <1>2. /\ elections' \in [Elections -> ElectionRow]
        /\ elections'[e] = row /\ \A f \in Elections \ {e} : elections'[f] = elections[f]
    BY <1>1 DEF RowsTyped
  <1>3. Existing' = Existing \cup {e}
    BY <1>2 DEF Existing
  <1>4. RowsTyped'
    BY <1>1, <1>2 DEF RowsTyped
  <1>5. VotersComeLast'
    <2>1. ASSUME NEW f \in Existing', elections'[f].listedBy = "wizard"
          PROVE  \/ f \in Existing /\ elections[f].listedBy = "wizard"
                 \/ /\ 0 \in DOMAIN questions[f]
                    /\ {0, 1} \subseteq DOMAIN questions[f][0].options
      BY <1>2, <2>1 DEF Existing
    <2>2. QED
      BY <1>1, <1>4, <2>1, VotersStay DEF ContentInv
  <1>6. requests'[r] = q /\ \A s \in Requests \ {r} : requests'[s] = requests[s]
    BY <1>1 DEF RowsTyped
  <1>7. RequestFits(requests'[r], questions'[requests'[r].election], Existing')
    BY <1>3, <1>6
  <1>8. QED
    BY <1>1, <1>3, <1>4, <1>5, <1>6, <1>7 DEF Kept

\* A step that does not touch the requests
LEMMA RequestStays ==
  ASSUME ContentInv, NEW r \in Requests, UNCHANGED <<questions, wizard, requests>>,
         elections' \in [Elections -> ElectionRow], Existing \subseteq Existing',
         \A e \in Existing' : elections'[e].listedBy = "wizard" =>
                                 e \in Existing /\ elections[e].listedBy = "wizard"
  PROVE  Kept(r)
  <1>1. RowsTyped /\ RowsTyped' /\ Growing
    BY GrownSame DEF ContentInv, ContentTypeOK, RowsTyped
  <1>2. VotersComeLast'
    BY <1>1, VotersStay DEF ContentInv
  <1>3. RequestFits(requests'[r], questions'[requests'[r].election], Existing')
    <2>1. PICK q : q = requests[r]
      OBVIOUS
    <2>2. RequestFits(q, questions[q.election], Existing)
      BY <2>1 DEF ContentInv, RequestsFit
    <2>3. Grown(questions[q.election], questions[q.election])
      BY DEF Grown
    <2>4. RequestFits(q, questions[q.election], Existing')
      BY <2>2, <2>3, FitsAfterwards
    <2>5. QED
      BY <2>1, <2>4
  <1>4. QED
    BY <1>1, <1>2, <1>3 DEF Kept

\* A step that writes an option
LEMMA RequestPuts ==
  ASSUME ContentInv, NEW r \in Requests, NEW q \in Request,
         requests' = [requests EXCEPT ![r] = q], UNCHANGED <<elections, wizard>>,
         NEW e \in Elections, NEW place \in DOMAIN questions[e], NEW order, NEW option,
         PutFacts(e, place, order, option),
         RequestFits(q, questions'[q.election], Existing)
  PROVE  Kept(r)
  <1>1. RowsTyped /\ RowsTyped'
    BY DEF ContentInv, ContentTypeOK, RowsTyped, PutFacts
  <1>2. requests'[r] = q /\ \A s \in Requests \ {r} : requests'[s] = requests[s]
    BY <1>1 DEF RowsTyped
  <1>3. Growing
    <2>1. ASSUME NEW f \in Elections, NEW o \in DOMAIN questions[f]
          PROVE  /\ o \in DOMAIN questions'[f] /\ questions'[f][o].by = questions[f][o].by
                 /\ DOMAIN questions[f][o].options \subseteq DOMAIN questions'[f][o].options
      <3>1. CASE f # e \/ o # place
        <4>1. o \in DOMAIN questions'[f] /\ questions'[f][o] = questions[f][o]
          BY <3>1 DEF PutFacts
        <4>2. QED
          BY <4>1
      <3>2. CASE f = e /\ o = place
        BY <3>2 DEF PutFacts
      <3>3. QED
        BY <3>1, <3>2
    <2>2. \A f \in Elections : DOMAIN questions'[f] = DOMAIN questions[f]
      BY DEF PutFacts
    <2>3. QED
      BY <2>1, <2>2 DEF Growing, Grown
  <1>4. Existing' = Existing
    BY DEF Existing
  <1>5. VotersComeLast'
    BY <1>1, <1>3, <1>4, VotersStay DEF ContentInv
  <1>6. QED
    BY <1>1, <1>2, <1>3, <1>4, <1>5 DEF Kept

\* A step that adds a question
LEMMA RequestAdds ==
  ASSUME ContentInv, NEW r \in Requests, NEW q \in Request,
         requests' = [requests EXCEPT ![r] = q], UNCHANGED <<elections, wizard>>,
         NEW e \in Elections, NEW place, place \notin DOMAIN questions[e], NEW by,
         NewFacts(e, place, by),
         RequestFits(q, questions'[q.election], Existing)
  PROVE  Kept(r)
  <1>1. RowsTyped /\ RowsTyped'
    BY DEF ContentInv, ContentTypeOK, RowsTyped, NewFacts
  <1>2. requests'[r] = q /\ \A s \in Requests \ {r} : requests'[s] = requests[s]
    BY <1>1 DEF RowsTyped
  <1>3. Growing
    <2>1. ASSUME NEW f \in Elections, NEW o \in DOMAIN questions[f]
          PROVE  o \in DOMAIN questions'[f] /\ questions'[f][o] = questions[f][o]
      BY DEF NewFacts
    <2>2. ASSUME NEW f \in Elections, NEW o \in DOMAIN questions'[f] \ DOMAIN questions[f]
          PROVE  questions'[f][o].options = <<>>
      BY DEF NewFacts
    <2>3. QED
      BY <2>1, <2>2 DEF Growing, Grown
  <1>4. Existing' = Existing
    BY DEF Existing
  <1>5. VotersComeLast'
    BY <1>1, <1>3, <1>4, VotersStay DEF ContentInv
  <1>6. QED
    BY <1>1, <1>2, <1>3, <1>4, <1>5 DEF Kept

-----------------------------------------------------------------------------
(* The wizard, step by step                                                *)

LEMMA RequestTyped ==
  ASSUME ContentInv, NEW r \in Requests
  PROVE  /\ requests[r] \in Request
         /\ RequestFits(requests[r], questions[requests[r].election], Existing)
         /\ requests[r].pc \notin {"rest", "draft"} =>
              /\ requests[r].election \in Elections /\ requests[r].election \in Existing
              /\ elections[requests[r].election] \in ElectionRow
              /\ questions[requests[r].election] \in Sheets
  <1>1. requests[r] \in Request
    BY DEF ContentInv, ContentTypeOK
  <1>2. RequestFits(requests[r], questions[requests[r].election], Existing)
    BY DEF ContentInv, RequestsFit
  <1>3. requests[r].pc \notin {"rest", "draft"} =>
          requests[r].election \in Elections /\ requests[r].election \in Existing
    BY <1>2 DEF RequestFits, InElection, Existing
  <1>4. QED
    BY <1>1, <1>2, <1>3 DEF ContentInv, ContentTypeOK

LEMMA NextCounts ==
  ASSUME NEW q \in Request, NEW n \in Nat, n = q.next
  PROVE  /\ [q EXCEPT !.next = @ + 1] \in Request
         /\ [q EXCEPT !.next = @ + 1].next = n + 1
         /\ \A f \in DOMAIN q \ {"next"} : [q EXCEPT !.next = @ + 1][f] = q[f]
  <1> DEFINE m == n + 1
             more == [q EXCEPT !.next = m]
  <1>1. [q EXCEPT !.next = @ + 1] = more
    OBVIOUS
  <1>2. m \in Nat
    OBVIOUS
  <1> HIDE DEF m
  <1>3. more \in Request /\ more.next = m
    BY <1>2 DEF Request
  <1>4. QED
    BY <1>1, <1>3 DEF m

LEMMA FormsTyped ==
  ASSUME NEW rows \in {<<>>} \cup Forms
  PROVE  rows \in Seq(Row) /\ Len(rows) <= Places
  <1>1. CASE rows = <<>>
    <2>1. Len(<<>>) = 0 /\ <<>> \in Seq(Row) /\ Places \in Nat
      BY ElectionContentAssumption
    <2>2. QED
      BY <1>1, <2>1
  <1>2. CASE rows \in Forms
    BY <1>2, ElectionContentAssumption
  <1>3. QED
    BY <1>1, <1>2

LEMMA NoVoters == {} \in Registries
  <1>1. {} \in SUBSET Imported /\ UNION {NamedBy[text] : text \in {}} = {}
    OBVIOUS
  <1>2. QED
    BY <1>1 DEF Registries

LEMMA SubmitWizardKept ==
  ASSUME ContentInv, NEW r \in Requests, SubmitWizard(r)
  PROVE  Kept(r)
  <1> USE DEF SubmitWizard
  <1>1. wizard \in Wizard
    BY DEF ContentInv, ContentTypeOK
  <1>2. CASE WizardInputValid(wizard.rows, wizard.file) /\ Existing # Elections
    <2> DEFINE q == [Rest EXCEPT !.kind = "wizard", !.pc = "draft", !.rows = wizard.rows,
                                 !.file = wizard.file, !.times = <<1, 2>>]
    <2>1. requests' = [requests EXCEPT ![r] = q]
      BY <1>2
    <2>2. wizard.rows \in Seq(Row) /\ Len(wizard.rows) <= Places /\ wizard.file \in Imported
      BY <1>1, <1>2, FormsTyped DEF Wizard, WizardInputValid, Imported
    <2>3. q \in Request
      <3>1. Rest \in Request
        BY RestFits
      <3>2. <<1, 2>> \in Nat \X Nat
        OBVIOUS
      <3>3. QED
        BY <2>2, <3>1, <3>2 DEF Request, Kinds, Steps
    <2>4. /\ q.kind = "wizard" /\ q.pc = "draft" /\ q.rows = wizard.rows
          /\ q.place = 0 /\ q.next = 0
      BY DEF Rest
    <2> HIDE DEF q
    <2>5. RequestFits(q, questions[q.election], Existing)
      BY <2>2, <2>4, <1>2
      DEF RequestFits, InStep, StepsOf, InElection, WizardFits, QuickFits, CreationFits,
          VotersFit, ShownFits, WizardInputValid
    <2>6. QED
      BY <2>1, <2>3, <2>5, <1>1, RequestMoves
  <1>3. CASE ~(WizardInputValid(wizard.rows, wizard.file) /\ Existing # Elections)
    <2>1. UNCHANGED <<elections, questions, wizard, requests>>
      BY <1>3
    <2>2. QED
      BY <2>1, RequestStays DEF ContentInv, ContentTypeOK, Existing
  <1>4. QED
    BY <1>2, <1>3

LEMMA CreateDraftKept ==
  ASSUME ContentInv, NEW r \in Requests, CreateDraft(r)
  PROVE  Kept(r)
  <1> USE DEF CreateDraft
  <1>1. /\ requests[r] \in Request /\ requests[r].pc = "draft"
        /\ RequestFits(requests[r], questions[requests[r].election], Existing)
    BY RequestTyped
  <1>2. PICK e \in Elections \ Existing :
          /\ elections' = [elections EXCEPT ![e] =
               [NoRow EXCEPT !.state = "draft", !.startsAt = requests[r].times[1],
                             !.endsAt = requests[r].times[2]]]
          /\ requests' = [requests EXCEPT ![r].election = e, ![r].pc = "policy"]
    OBVIOUS
  <1> DEFINE q   == [requests[r] EXCEPT !.election = e, !.pc = "policy"]
             row == [NoRow EXCEPT !.state = "draft", !.startsAt = requests[r].times[1],
                                  !.endsAt = requests[r].times[2]]
  <1>3. requests' = [requests EXCEPT ![r] = q] /\ elections' = [elections EXCEPT ![e] = row]
    BY <1>2, ZenonT(60)
  <1>4. row \in ElectionRow /\ row.state = "draft" /\ row.listedBy = "none"
    <2>1. requests[r].times[1] \in Nat /\ requests[r].times[2] \in Nat
      BY <1>1 DEF Request
    <2>2. QED
      BY <2>1, NoVoters DEF ElectionRow, NoRow, Counts, ElectionState, PreStartStates
  <1>5. q \in Request /\ q.pc = "policy" /\ q.election = e
    BY <1>1 DEF Request, Steps
  <1>6. RequestFits(q, questions[q.election], Existing \cup {e})
    <2>1. requests[r].kind = "wizard"
      BY <1>1 DEF RequestFits, InStep, StepsOf
    <2>2. QED
      BY <1>1, <2>1
      DEF RequestFits, InStep, StepsOf, InElection, WizardFits, QuickFits, CreationFits,
          VotersFit, ShownFits, Request
  <1>7. wizard' \in Wizard /\ UNCHANGED questions
    BY DEF ContentInv, ContentTypeOK
  <1> HIDE DEF q, row
  <1>8. QED
    BY <1>3, <1>4, <1>5, <1>6, <1>7, RequestWrites

LEMMA CreatePolicyKept ==
  ASSUME ContentInv, NEW r \in Requests, CreatePolicy(r)
  PROVE  Kept(r)
  <1> USE DEF CreatePolicy
  <1> DEFINE e   == requests[r].election
             q   == [requests[r] EXCEPT !.pc = "question"]
             row == [elections[e] EXCEPT !.policy = TRUE]
  <1>1. /\ requests[r] \in Request /\ requests[r].pc = "policy"
        /\ RequestFits(requests[r], questions[e], Existing)
        /\ e \in Elections /\ e \in Existing /\ elections[e] \in ElectionRow
    BY RequestTyped
  <1>2. requests' = [requests EXCEPT ![r] = q] /\ elections' = [elections EXCEPT ![e] = row]
    BY DEF Proceed
  <1>3. q \in Request /\ q.election = e /\ q.pc = "question"
    BY <1>1 DEF Request, Steps
  <1>4. RequestFits(q, questions[q.election], Existing \cup {e})
    <2>1. requests[r].kind = "wizard"
      BY <1>1 DEF RequestFits, InStep, StepsOf
    <2>2. QED
      BY <1>1, <2>1
      DEF RequestFits, InStep, StepsOf, InElection, WizardFits, QuickFits, CreationFits,
          VotersFit, ShownFits, Request
  <1>5. /\ row \in ElectionRow /\ row.state = elections[e].state
        /\ row.listedBy = elections[e].listedBy
    BY <1>1 DEF ElectionRow
  <1>6. row.state # "none"
    BY <1>1, <1>5 DEF Existing
  <1>7. wizard' \in Wizard /\ UNCHANGED questions
    BY DEF ContentInv, ContentTypeOK
  <1>8. row.listedBy = "wizard" => e \in Existing /\ elections[e].listedBy = "wizard"
    BY <1>1, <1>5
  <1> HIDE DEF q, row, e, CreatePolicy
  <1>9. QED
    BY <1>1, <1>2, <1>3, <1>4, <1>5, <1>6, <1>7, <1>8, RequestWrites

LEMMA CreateQuestionKept ==
  ASSUME ContentInv, NEW r \in Requests, CreateQuestion(r)
  PROVE  Kept(r)
  <1> DEFINE e  == requests[r].election
             q0 == requests[r]
             q  == [requests[r] EXCEPT !.pc = "option"]
  <1>1. /\ q0 \in Request /\ q0.pc = "question" /\ q0.kind \in {"wizard", "quick"}
        /\ RequestFits(q0, questions[e], Existing)
        /\ e \in Elections /\ e \in Existing /\ questions[e] \in Sheets
    BY RequestTyped DEF CreateQuestion
  <1>2. wizard' \in Wizard /\ UNCHANGED <<elections, wizard>>
    BY DEF CreateQuestion, ContentInv, ContentTypeOK
  <1>3. CASE MayEdit(e, "editQuestions", FALSE) /\ q0.place \notin DOMAIN questions[e]
    <2>1. /\ questions' = [questions EXCEPT ![e] =
               [o \in {q0.place} \cup DOMAIN @ |->
                  IF o = q0.place THEN [by |-> q0.kind, options |-> <<>>] ELSE @[o]]]
          /\ requests' = [requests EXCEPT ![r] = q]
      BY <1>3 DEF CreateQuestion, Proceed
    <2>2. q0.place \in Before(Questions)
      <3>1. 0 \in Before(Questions)
        BY ElectionContentAssumption DEF Before
      <3>2. QED
        BY <1>1, <3>1 DEF RequestFits, WizardFits, QuickFits
    <2>3. NewFacts(e, q0.place, q0.kind)
      <3>1. questions \in [Elections -> Sheets]
        BY DEF ContentInv, ContentTypeOK
      <3> HIDE DEF q0, e
      <3>2. QED
        BY <1>1, <2>1, <2>2, <3>1, NewQuestionFacts
    <2>4. q \in Request /\ q.election = e /\ q.pc = "option" /\ q.next = 0
      BY <1>1 DEF Request, Steps, RequestFits, CreationFits
    <2>5. RequestFits(q, questions'[e], Existing)
      <3>1. Before(0) = {} /\ 0 <= Len(OptionsOf(q0.rows))
        <4>1. q0.rows \in Seq(Row)
          BY <1>1 DEF Request
        <4>2. QED
          BY <4>1, OptionsOfFacts DEF Before
      <3>2. CreationFits(q, questions'[e])
        BY <1>1, <2>3, <2>4, <3>1 DEF CreationFits, NewFacts, Request
      <3>3. QED
        BY <1>1, <3>2
        DEF RequestFits, InStep, StepsOf, InElection, WizardFits, QuickFits, VotersFit,
            ShownFits, Request
    <2> HIDE DEF q, q0, e
    <2>6. QED
      BY <1>1, <1>2, <1>3, <2>1, <2>3, <2>4, <2>5, RequestAdds
  <1>4. CASE ~(MayEdit(e, "editQuestions", FALSE) /\ q0.place \notin DOMAIN questions[e])
    <2>1. Finish(r) /\ UNCHANGED <<elections, questions>>
      BY <1>4 DEF CreateQuestion
    <2>2. QED
      BY <1>2, <2>1, RequestEnds
  <1>5. QED
    BY <1>3, <1>4

LEMMA CreateOptionKept ==
  ASSUME ContentInv, NEW r \in Requests, CreateOption(r)
  PROVE  Kept(r)
  <1> DEFINE e  == requests[r].election
             q0 == requests[r]
  <1>1. /\ q0 \in Request /\ q0.pc = "option" /\ q0.kind \in {"wizard", "quick"}
        /\ RequestFits(q0, questions[e], Existing)
        /\ e \in Elections /\ e \in Existing /\ questions[e] \in Sheets
    BY RequestTyped DEF CreateOption
  <1>2. wizard' \in Wizard /\ UNCHANGED <<elections, wizard>>
    BY DEF CreateOption, ContentInv, ContentTypeOK
  <1>3. /\ q0.rows \in Seq(Row) /\ q0.place \in Nat /\ q0.next \in Nat
        /\ Len(q0.rows) <= Places /\ q0.place \in DOMAIN questions[e]
        /\ questions[e][q0.place].by = q0.kind
        /\ Before(q0.next) \subseteq DOMAIN questions[e][q0.place].options
        /\ q0.next <= Len(OptionsOf(q0.rows))
    BY <1>1 DEF Request, RequestFits, WizardFits, QuickFits, CreationFits
  <1>4. CASE q0.next = Len(OptionsOf(q0.rows))
    <2>1. UNCHANGED <<elections, questions>>
      BY <1>2, <1>4 DEF CreateOption
    <2>2. CASE q0.kind = "wizard"
      <3> DEFINE q == [requests[r] EXCEPT !.pc = "voters"]
      <3>1. requests' = [requests EXCEPT ![r] = q]
        BY <1>4, <2>2 DEF CreateOption, Proceed
      <3>2. q \in Request /\ q.election = e /\ q.pc = "voters" /\ q.place = 0
        BY <1>1, <2>2 DEF Request, Steps, RequestFits, WizardFits
      <3>3. {0, 1} \subseteq Before(q0.next)
        <4>1. Cardinality(Filled(q0.rows)) >= 2
          BY <1>1, <2>2 DEF RequestFits, WizardFits
        <4>2. q0.next >= 2
          BY <1>3, <1>4, <4>1, OptionsOfFacts
        <4>3. QED
          BY <1>3, <4>2 DEF Before
      <3>4. VotersFit(q, questions[e])
        BY <1>1, <1>3, <3>2, <3>3 DEF VotersFit, Request
      <3>5. RequestFits(q, questions[e], Existing)
        BY <1>1, <2>2, <3>4
        DEF RequestFits, InStep, StepsOf, InElection, WizardFits, QuickFits, CreationFits,
            ShownFits, Request
      <3> HIDE DEF q, e, q0
      <3>6. QED
        BY <1>2, <2>1, <3>1, <3>2, <3>5, RequestMoves
    <2>3. CASE q0.kind # "wizard"
      <3>1. Finish(r)
        BY <1>4, <2>3 DEF CreateOption
      <3>2. QED
        BY <1>2, <2>1, <3>1, RequestEnds
    <2>4. QED
      BY <2>2, <2>3
  <1>5. CASE /\ q0.next # Len(OptionsOf(q0.rows)) /\ MayEdit(e, "editOptions", FALSE)
             /\ q0.next \notin DOMAIN questions[e][q0.place].options
    <2> DEFINE q      == [requests[r] EXCEPT !.next = @ + 1]
               option == OptionsOf(q0.rows)[q0.next + 1]
    <2>1. requests' = [requests EXCEPT ![r] = q] /\ PutOption(e, q0.place, q0.next, option)
      BY <1>5 DEF CreateOption
    <2>2. /\ Len(OptionsOf(q0.rows)) \in Nat /\ Len(OptionsOf(q0.rows)) <= Len(q0.rows)
          /\ q0.next + 1 \in 1..Len(OptionsOf(q0.rows)) /\ q0.next < Places
      BY <1>3, <1>5, OptionsOfFacts, ElectionContentAssumption, SMTT(30)
    <2>3. option \in Option
      BY <1>3, <2>2, OptionsOfFacts
    <2>4. PutFacts(e, q0.place, q0.next, option)
      <3>1. questions \in [Elections -> Sheets]
        BY DEF ContentInv, ContentTypeOK
      <3> HIDE DEF e, q0, option
      <3>2. QED
        BY <1>1, <1>3, <2>1, <2>2, <2>3, <3>1, PutOptionFacts
    <2>5. q \in Request /\ q.election = e /\ q.pc = "option" /\ q.next = q0.next + 1
      BY ONLY <1>1, <1>3, NextCounts
    <2>6. RequestFits(q, questions'[e], Existing)
      <3>1. Before(q0.next + 1) = Before(q0.next) \cup {q0.next}
        BY <1>3 DEF Before
      <3>2. /\ q0.place \in DOMAIN questions'[e]
            /\ questions'[e][q0.place].by = q0.kind
            /\ Before(q0.next + 1) \subseteq DOMAIN questions'[e][q0.place].options
        BY <1>3, <2>4, <3>1 DEF PutFacts
      <3>3. q0.next + 1 <= Len(OptionsOf(q0.rows))
        BY <2>2
      <3>4. CreationFits(q, questions'[e])
        BY <1>1, <2>5, <3>2, <3>3 DEF CreationFits, Request
      <3>5. QED
        BY <1>1, <3>4
        DEF RequestFits, InStep, StepsOf, InElection, WizardFits, QuickFits, VotersFit,
            ShownFits, Request
    <2> HIDE DEF q, q0, e, option
    <2>7. QED
      BY <1>1, <1>2, <1>3, <2>1, <2>4, <2>5, <2>6, RequestPuts
  <1>6. CASE /\ q0.next # Len(OptionsOf(q0.rows))
             /\ ~(/\ MayEdit(e, "editOptions", FALSE)
                  /\ q0.next \notin DOMAIN questions[e][q0.place].options)
    <2>1. Finish(r) /\ UNCHANGED <<elections, questions>>
      BY <1>6 DEF CreateOption
    <2>2. QED
      BY <1>2, <2>1, RequestEnds
  <1>7. QED
    BY <1>4, <1>5, <1>6

LEMMA TextsTyped ==
  ASSUME NEW text \in Imported, NEW P \in Registries
  PROVE  /\ P \cup (NamedBy[text] \ P) \in Registries
         /\ Cardinality(NamedBy[text]) \in Counts
         /\ Cardinality(NamedBy[text] \ P) \in Counts
  <1>1. NamedBy[text] \subseteq AllPeople
    BY DEF AllPeople
  <1>2. PICK T \in SUBSET Imported : P = UNION {NamedBy[t] : t \in T}
    BY DEF Registries
  <1> HIDE DEF AllPeople
  <1>3. P \cup (NamedBy[text] \ P) = UNION {NamedBy[t] : t \in T \cup {text}}
    BY <1>2
  <1>4. T \cup {text} \in SUBSET Imported
    OBVIOUS
  <1>5. QED
    BY <1>1, <1>3, <1>4 DEF Counts, Registries

LEMMA ImportVotersKept ==
  ASSUME ContentInv, NEW r \in Requests, ImportVoters(r)
  PROVE  Kept(r)
  <1> DEFINE e   == requests[r].election
             q   == requests[r]
             new == NamedBy[q.file] \ elections[e].people
             row == [elections[e] EXCEPT
                       !.people = @ \cup new, !.total = Cardinality(NamedBy[q.file]),
                       !.valid = Cardinality(new),
                       !.listedBy = IF q.kind = "wizard" THEN "wizard" ELSE "page"]
  <1>1. /\ q \in Request /\ q.pc = "voters" /\ RequestFits(q, questions[e], Existing)
        /\ e \in Elections /\ e \in Existing /\ elections[e] \in ElectionRow
    BY RequestTyped DEF ImportVoters
  <1>2. wizard' \in Wizard /\ UNCHANGED questions /\ Finish(r)
    <2>1. EmptyWizard \in Wizard
      BY DEF EmptyWizard, Wizard
    <2>2. QED
      BY <2>1 DEF ImportVoters, ContentInv, ContentTypeOK
  <1>3. CASE ~MayEdit(e, "editVoterRegistry", TRUE)
    <2>1. UNCHANGED <<elections, questions>>
      BY <1>2, <1>3 DEF ImportVoters
    <2>2. QED
      BY <1>2, <2>1, RequestEnds
  <1>4. CASE MayEdit(e, "editVoterRegistry", TRUE)
    <2>1. elections' = [elections EXCEPT ![e] = row]
      BY <1>4 DEF ImportVoters
    <2>2. /\ elections[e].people \cup new \in Registries
          /\ Cardinality(NamedBy[q.file]) \in Counts /\ Cardinality(new) \in Counts
      <3>1. q.file \in Imported /\ elections[e].people \in Registries
        BY <1>1 DEF Request, ElectionRow
      <3>2. QED
        BY <3>1, TextsTyped
    <2>3. /\ row \in ElectionRow /\ row.state = elections[e].state
          /\ row.listedBy = IF q.kind = "wizard" THEN "wizard" ELSE "page"
      <3> DEFINE people == elections[e].people \cup new
                 by     == IF q.kind = "wizard" THEN "wizard" ELSE "page"
                 all    == Cardinality(NamedBy[q.file])
                 valid  == Cardinality(new)
      <3>1. people \in Registries /\ by \in {"none", "wizard", "page"}
        BY <1>1, <2>2 DEF ElectionRow
      <3>2. all \in Counts /\ valid \in Counts
        BY <2>2
      <3>3. row = [elections[e] EXCEPT !.people = people, !.total = all, !.valid = valid,
                                       !.listedBy = by]
        OBVIOUS
      <3> HIDE DEF people, by, all, valid, q, e, row
      <3>4. row \in ElectionRow /\ row.state = elections[e].state /\ row.listedBy = by
        BY <1>1, <3>1, <3>2, <3>3 DEF ElectionRow
      <3>5. QED
        BY <3>4 DEF by
    <2>4. row.state # "none"
      BY <1>1, <2>3 DEF Existing
    <2>5. row.listedBy = "wizard" =>
            0 \in DOMAIN questions[e] /\ {0, 1} \subseteq DOMAIN questions[e][0].options
      <3>1. row.listedBy = "wizard" => q.kind = "wizard"
        BY <2>3
      <3>2. QED
        BY <1>1, <3>1 DEF RequestFits, VotersFit
    <2>6. Rest \in Request /\ RequestFits(Rest, questions[Rest.election], Existing \cup {e})
      BY RestFits
    <2>7. requests' = [requests EXCEPT ![r] = Rest]
      BY <1>2 DEF Finish
    <2> HIDE DEF row, e
    <2>8. QED
      BY <1>1, <1>2, <2>1, <2>3, <2>4, <2>5, <2>6, <2>7, RequestWrites
  <1>5. QED
    BY <1>3, <1>4

LEMMA SubmitImportKept ==
  ASSUME ContentInv, NEW r \in Requests, SubmitImport(r)
  PROVE  Kept(r)
  <1>1. UNCHANGED <<elections, questions, wizard>> /\ wizard' \in Wizard
    BY DEF SubmitImport, ContentInv, ContentTypeOK
  <1>2. PICK e \in Existing, text \in FormTexts :
          IF text \in ImportableTexts
            THEN requests' = [requests EXCEPT ![r] =
                   [Rest EXCEPT !.kind = "import", !.pc = "voters", !.election = e,
                                !.file = text]]
            ELSE UNCHANGED requests
    BY DEF SubmitImport
  <1>3. CASE text \in ImportableTexts
    <2> DEFINE q == [Rest EXCEPT !.kind = "import", !.pc = "voters", !.election = e,
                                 !.file = text]
    <2>1. requests' = [requests EXCEPT ![r] = q]
      BY <1>2, <1>3
    <2>2. text \in Imported /\ e \in Elections
      BY <1>3 DEF Imported, Existing
    <2>3. q \in Request /\ q.kind = "import" /\ q.pc = "voters" /\ q.election = e
      BY <2>2, RestFits DEF Rest, Request, Steps, Kinds
    <2> HIDE DEF q
    <2>4. RequestFits(q, questions[q.election], Existing)
      BY <2>3
      DEF RequestFits, InStep, StepsOf, InElection, WizardFits, QuickFits, CreationFits,
          VotersFit, ShownFits
    <2>5. QED
      BY <1>1, <2>1, <2>3, <2>4, RequestMoves
  <1>4. CASE text \notin ImportableTexts
    <2>1. UNCHANGED <<elections, questions, wizard, requests>>
      BY <1>1, <1>2, <1>4
    <2>2. QED
      BY <2>1, RequestStays DEF ContentInv, ContentTypeOK, Existing
  <1>5. QED
    BY <1>3, <1>4

-----------------------------------------------------------------------------
(* The edit forms, step by step                                            *)

LEMMA OpenEditFormKept ==
  ASSUME ContentInv, NEW r \in Requests, OpenEditForm(r)
  PROVE  Kept(r)
  <1>1. UNCHANGED <<elections, questions>> /\ wizard' \in Wizard
    BY DEF OpenEditForm, ContentInv, ContentTypeOK
  <1>2. PICK e \in Existing :
          requests' = [requests EXCEPT ![r] =
            [Rest EXCEPT !.kind = "edit", !.pc = "form", !.election = e,
                         !.shown = questions[e]]]
    BY DEF OpenEditForm
  <1> DEFINE q == [Rest EXCEPT !.kind = "edit", !.pc = "form", !.election = e,
                               !.shown = questions[e]]
  <1>3. e \in Elections /\ questions[e] \in Sheets
    BY DEF Existing, ContentInv, ContentTypeOK
  <1>4. /\ q \in Request /\ q.kind = "edit" /\ q.pc = "form" /\ q.election = e
        /\ q.shown = questions[e]
    BY <1>3, RestFits DEF Rest, Request, Steps, Kinds
  <1>5. requests' = [requests EXCEPT ![r] = q]
    BY <1>2
  <1> HIDE DEF q
  <1>6. RequestFits(q, questions[q.election], Existing)
    BY <1>4
    DEF RequestFits, InStep, StepsOf, InElection, WizardFits, QuickFits, CreationFits,
        VotersFit, ShownFits
  <1>7. QED
    BY <1>1, <1>4, <1>5, <1>6, RequestMoves

\* What the form sends has the places of what it shows.
LEMMA EditedFacts ==
  ASSUME NEW shown \in Sheets, NEW edit \in EditsOf(shown)
  PROVE  /\ Edited(shown, edit) \in Sheets
         /\ DOMAIN Edited(shown, edit) = DOMAIN shown
         /\ \A o \in DOMAIN shown :
              DOMAIN Edited(shown, edit)[o].options = DOMAIN shown[o].options
  <1>1. CASE edit.option = Places
    BY <1>1 DEF Edited
  <1>2. CASE edit.option # Places
    <2> DEFINE place   == edit.place
               order   == edit.option
               options == shown[place].options
               option  == [label |-> edit.label,
                           about |-> IF options[order].about = NoText THEN NoText
                                     ELSE edit.label]
               more    == [options EXCEPT ![order] = option]
               written == [shown EXCEPT ![place] = [shown[place] EXCEPT !.options = more]]
    <2>1. place \in DOMAIN shown /\ order \in DOMAIN options /\ edit.label \in Labels
      BY <1>2 DEF EditsOf
    <2>2. /\ DOMAIN shown \subseteq Before(Questions) /\ shown \in [DOMAIN shown -> Question]
          /\ shown[place] \in Question /\ options \in Choices
      BY <2>1, SheetFacts
    <2>3. option \in Option
      BY <2>1 DEF Option
    <2>4. Edited(shown, edit) = written
      BY <1>2 DEF Edited
    <2> HIDE DEF option
    <2>5. more \in Choices /\ DOMAIN more = DOMAIN options
      <3>1. PICK n \in 0..Places : options \in [Before(n) -> Option]
        BY <2>2, ChoicesFacts
      <3>2. more \in [Before(n) -> Option]
        BY <2>3, <3>1
      <3>3. QED
        BY <3>1, <3>2 DEF Choices
    <2> HIDE DEF more
    <2>6. /\ [shown[place] EXCEPT !.options = more] \in Question
          /\ [shown[place] EXCEPT !.options = more].options = more
      BY <2>2, <2>5 DEF Question
    <2>7. /\ written \in [DOMAIN shown -> Question]
          /\ \A o \in DOMAIN shown : DOMAIN written[o].options = DOMAIN shown[o].options
      BY <2>2, <2>5, <2>6
    <2>8. written \in Sheets
      BY <2>2, <2>7 DEF Sheets
    <2>9. QED
      BY <2>4, <2>7, <2>8
  <1>3. QED
    BY <1>1, <1>2

LEMMA SubmitEditKept ==
  ASSUME ContentInv, NEW r \in Requests, SubmitEdit(r)
  PROVE  Kept(r)
  <1> DEFINE e  == requests[r].election
             q0 == requests[r]
  <1>1. /\ q0 \in Request /\ q0.pc = "form" /\ RequestFits(q0, questions[e], Existing)
        /\ e \in Elections /\ e \in Existing /\ questions[e] \in Sheets
    BY RequestTyped DEF SubmitEdit
  <1>2. UNCHANGED <<elections, questions>> /\ wizard' \in Wizard
    BY DEF SubmitEdit, ContentInv, ContentTypeOK
  <1>3. PICK edit \in EditsOf(q0.shown) :
          IF Editable(e) /\ DOMAIN q0.shown = DOMAIN questions[e]
            THEN requests' = [requests EXCEPT
                   ![r].pc = "question", ![r].shown = Edited(q0.shown, edit),
                   ![r].stale = StaleOptions(q0.shown, questions[e]),
                   ![r].rows = <<[title |-> edit.more, described |-> FALSE]>>,
                   ![r].added = edit.place]
            ELSE Finish(r)
    BY DEF SubmitEdit
  <1>4. CASE Editable(e) /\ DOMAIN q0.shown = DOMAIN questions[e]
    <2> DEFINE shown == Edited(q0.shown, edit)
               stale == StaleOptions(q0.shown, questions[e])
               rows  == <<[title |-> edit.more, described |-> FALSE]>>
               added == edit.place
               q     == [requests[r] EXCEPT !.pc = "question", !.shown = shown,
                                            !.stale = stale, !.rows = rows, !.added = added]
    <2>1. requests' = [requests EXCEPT ![r] = q]
      BY <1>3, <1>4
    <2>2. /\ shown \in Sheets /\ DOMAIN shown = DOMAIN q0.shown
          /\ \A o \in DOMAIN shown : DOMAIN shown[o].options = DOMAIN q0.shown[o].options
      <3>1. q0.shown \in Sheets
        BY <1>1 DEF Request
      <3>2. QED
        BY <1>3, <3>1, EditedFacts
    <2>3. stale \in SUBSET Before(Questions)
      BY <1>1, SheetFacts DEF StaleOptions
    <2>4. rows \in Seq(Row)
      <3>1. edit.more \in Labels \cup {Blank}
        BY <1>3 DEF EditsOf
      <3>2. [title |-> edit.more, described |-> FALSE] \in Row
        BY <3>1 DEF Row
      <3>3. QED
        BY <3>2
    <2>5. added \in Nat
      <3>1. added \in DOMAIN q0.shown /\ q0.shown \in Sheets
        BY <1>1, <1>3 DEF EditsOf, Request
      <3>2. added \in Before(Questions)
        BY <3>1, SheetFacts
      <3>3. QED
        BY <3>2, ElectionContentAssumption DEF Before
    <2> HIDE DEF shown, stale, rows, added
    <2>6. /\ q \in Request /\ q.kind = q0.kind /\ q.pc = "question" /\ q.election = e
          /\ q.shown = shown
      BY <1>1, <2>2, <2>3, <2>4, <2>5 DEF Request, Steps
    <2> HIDE DEF q
    <2>7. q0.kind = "edit"
      BY <1>1 DEF RequestFits, InStep, StepsOf
    <2>8. ShownFits(q, questions[e])
      BY <1>1, <2>2, <2>6, <2>7 DEF RequestFits, ShownFits
    <2>9. RequestFits(q, questions[e], Existing)
      BY <1>1, <2>6, <2>7, <2>8
      DEF RequestFits, InStep, StepsOf, InElection, WizardFits, QuickFits, CreationFits,
          VotersFit
    <2> HIDE DEF q0, e
    <2>10. QED
      BY <1>2, <2>1, <2>6, <2>9, RequestMoves
  <1>5. CASE ~(Editable(e) /\ DOMAIN q0.shown = DOMAIN questions[e])
    <2>1. Finish(r)
      BY <1>3, <1>5
    <2>2. QED
      BY <1>2, <2>1, RequestEnds
  <1>6. QED
    BY <1>4, <1>5

LEMMA UpdateQuestionKept ==
  ASSUME ContentInv, NEW r \in Requests, UpdateQuestion(r)
  PROVE  Kept(r)
  <1> DEFINE e  == requests[r].election
             q0 == requests[r]
             q  == [requests[r] EXCEPT !.pc = "option", !.next = 0]
  <1>1. /\ q0 \in Request /\ q0.pc = "question" /\ q0.kind = "edit"
        /\ RequestFits(q0, questions[e], Existing)
    BY RequestTyped DEF UpdateQuestion
  <1>2. UNCHANGED <<elections, questions>> /\ wizard' \in Wizard
    BY DEF UpdateQuestion, ContentInv, ContentTypeOK
  <1>3. CASE q0.place \in DOMAIN q0.shown /\ requests' = [requests EXCEPT ![r] = q]
    <2>1. /\ q \in Request /\ q.pc = "option" /\ q.next = 0 /\ q.kind = "edit"
          /\ q.election = e /\ q.place = q0.place /\ q.shown = q0.shown
      BY <1>1 DEF Request, Steps
    <2>2. Before(0) = {}
      BY DEF Before
    <2>3. ShownFits(q, questions[e])
      BY <1>1, <1>3, <2>1, <2>2 DEF RequestFits, ShownFits
    <2> HIDE DEF q
    <2>4. RequestFits(q, questions[e], Existing)
      BY <1>1, <2>1, <2>3
      DEF RequestFits, InStep, StepsOf, InElection, WizardFits, QuickFits, CreationFits,
          VotersFit
    <2> HIDE DEF q0, e
    <2>5. QED
      BY <1>2, <1>3, <2>1, <2>4, RequestMoves
  <1>4. CASE Finish(r)
    BY <1>2, <1>4, RequestEnds
  <1>5. QED
    BY <1>3, <1>4 DEF UpdateQuestion

LEMMA UpdateOptionKept ==
  ASSUME ContentInv, NEW r \in Requests, UpdateOption(r)
  PROVE  Kept(r)
  <1> DEFINE e  == requests[r].election
             q0 == requests[r]
  <1>1. /\ q0 \in Request /\ q0.pc = "option" /\ q0.kind = "edit"
        /\ RequestFits(q0, questions[e], Existing)
        /\ e \in Elections /\ e \in Existing /\ questions[e] \in Sheets
    BY RequestTyped DEF UpdateOption
  <1>2. wizard' \in Wizard /\ UNCHANGED <<elections, wizard>>
    BY DEF UpdateOption, ContentInv, ContentTypeOK
  <1>3. /\ q0.place \in DOMAIN questions[e] /\ q0.place \in DOMAIN q0.shown
        /\ q0.shown \in Sheets /\ q0.next \in Nat /\ q0.place \in Nat
        /\ DOMAIN q0.shown[q0.place].options \subseteq DOMAIN questions[e][q0.place].options
        /\ Before(q0.next) \subseteq DOMAIN q0.shown[q0.place].options
    BY <1>1 DEF Request, RequestFits, ShownFits
  <1>4. CASE q0.next \notin DOMAIN q0.shown[q0.place].options
    <2> DEFINE q == [requests[r] EXCEPT !.pc = "append"]
    <2>1. requests' = [requests EXCEPT ![r] = q] /\ UNCHANGED <<elections, questions>>
      BY <1>2, <1>4 DEF UpdateOption, Proceed
    <2>2. /\ q \in Request /\ q.pc = "append" /\ q.kind = "edit" /\ q.election = e
          /\ q.place = q0.place /\ q.shown = q0.shown
      BY <1>1 DEF Request, Steps
    <2> HIDE DEF q
    <2>3. RequestFits(q, questions[e], Existing)
      BY <1>1, <2>2
      DEF RequestFits, InStep, StepsOf, InElection, WizardFits, QuickFits, CreationFits,
          VotersFit, ShownFits
    <2> HIDE DEF q0, e
    <2>4. QED
      BY <1>2, <2>1, <2>2, <2>3, RequestMoves
  <1>5. CASE /\ q0.next \in DOMAIN q0.shown[q0.place].options
             /\ MayEdit(e, "editOptions", TRUE)
    <2> DEFINE q      == [requests[r] EXCEPT !.next = @ + 1]
               option == q0.shown[q0.place].options[q0.next]
    <2>1. requests' = [requests EXCEPT ![r] = q] /\ PutOption(e, q0.place, q0.next, option)
      BY <1>5 DEF UpdateOption
    <2>2. option \in Option
      <3>1. q0.shown[q0.place].options \in Choices
        BY <1>3, SheetFacts
      <3>2. QED
        BY <3>1, <1>5, ChoicesFacts
    <2>3. PutFacts(e, q0.place, q0.next, option)
      <3>1. questions \in [Elections -> Sheets]
        BY DEF ContentInv, ContentTypeOK
      <3> HIDE DEF e, q0, option
      <3>2. QED
        BY <1>1, <1>3, <1>5, <2>1, <2>2, <3>1, PutOptionFacts
    <2>4. /\ q \in Request /\ q.next = q0.next + 1
          /\ q.election = e /\ q.pc = "option" /\ q.kind = "edit" /\ q.place = q0.place
          /\ q.shown = q0.shown
      <3>1. /\ q \in Request /\ q.next = q0.next + 1
            /\ \A f \in DOMAIN q0 \ {"next"} : q[f] = q0[f]
        BY ONLY <1>1, <1>3, NextCounts
      <3>2. {"election", "pc", "kind", "place", "shown"} \subseteq DOMAIN q0 \ {"next"}
        BY <1>1 DEF Request
      <3> HIDE DEF q
      <3>3. QED
        BY <1>1, <3>1, <3>2
    <2>5. ShownFits(q, questions'[e])
      <3>1. Before(q0.next + 1) \subseteq DOMAIN q0.shown[q0.place].options
        BY <1>3, <1>5 DEF Before
      <3>2. \A o \in DOMAIN questions[e] :
              /\ o \in DOMAIN questions'[e]
              /\ DOMAIN questions[e][o].options \subseteq DOMAIN questions'[e][o].options
        BY <2>3 DEF PutFacts
      <3> HIDE DEF q, option
      <3>3. QED
        BY <1>1, <1>3, <2>4, <3>1, <3>2 DEF RequestFits, ShownFits
    <2> HIDE DEF q
    <2>6. RequestFits(q, questions'[e], Existing)
      BY <1>1, <2>4, <2>5
      DEF RequestFits, InStep, StepsOf, InElection, WizardFits, QuickFits, CreationFits,
          VotersFit
    <2> HIDE DEF q0, e, option
    <2>7. QED
      BY <1>1, <1>2, <1>3, <2>1, <2>3, <2>4, <2>6, RequestPuts
  <1>6. CASE /\ q0.next \in DOMAIN q0.shown[q0.place].options
             /\ ~MayEdit(e, "editOptions", TRUE)
    <2>1. Finish(r) /\ UNCHANGED <<elections, questions>>
      BY <1>2, <1>6 DEF UpdateOption
    <2>2. QED
      BY <1>2, <2>1, RequestEnds
  <1>7. QED
    BY <1>4, <1>5, <1>6

\* The next place is the first that is free.
LEMMA NextDisplayOrderFacts ==
  ASSUME NEW options \in Choices
  PROVE  /\ NextDisplayOrder(options) \in 0..Places
         /\ DOMAIN options = Before(NextDisplayOrder(options))
  <1>1. PICK n \in 0..Places : DOMAIN options = Before(n)
    BY ChoicesFacts
  <1>2. n \in Nat /\ Places \in Nat
    BY ElectionContentAssumption
  <1>3. NextDisplayOrder(options) = n
    <2>1. CASE n = 0
      <3>1. DOMAIN options = {}
        BY <1>1, <2>1 DEF Before
      <3>2. QED
        BY <2>1, <3>1 DEF NextDisplayOrder
    <2>2. CASE n > 0
      <3>1. n - 1 \in Before(n) /\ \A p \in Before(n) : p <= n - 1
        BY <1>2, <2>2 DEF Before
      <3>2. \A o \in Before(n) : (\A p \in Before(n) : p <= o) => o = n - 1
        BY <1>2, <3>1 DEF Before
      <3>3. (CHOOSE o \in Before(n) : \A p \in Before(n) : p <= o) = n - 1
        BY <3>1, <3>2
      <3>4. DOMAIN options # {}
        BY <1>1, <3>1
      <3>5. NextDisplayOrder(options) = 1 + (n - 1)
        BY <1>1, <3>3, <3>4 DEF NextDisplayOrder
      <3>6. QED
        BY <1>2, <3>5
    <2>3. QED
      BY <1>2, <2>1, <2>2
  <1>4. QED
    BY <1>1, <1>3

LEMMA PlaceCounts ==
  ASSUME NEW q \in Request, NEW n \in Nat, n = q.place, NEW pc \in Steps
  PROVE  [q EXCEPT !.pc = pc, !.place = @ + 1] \in Request
  <1> DEFINE m == n + 1
             more == [q EXCEPT !.pc = pc, !.place = m]
  <1>1. [q EXCEPT !.pc = pc, !.place = @ + 1] = more
    OBVIOUS
  <1>2. m \in Nat
    OBVIOUS
  <1> HIDE DEF m
  <1>3. more \in Request
    BY <1>2 DEF Request
  <1>4. QED
    BY <1>1, <1>3 DEF m

\* The titles that are added are options.
LEMMA AppendedFacts ==
  ASSUME NEW q \in Request
  PROVE  /\ Appended(q) \in Seq(Option)
         /\ DOMAIN Appended(q) = 1..Len(Appended(q)) /\ Len(Appended(q)) \in Nat
         /\ Appended(q) # <<>> => 1 \in DOMAIN Appended(q) /\ Appended(q)[1] \in Option
  <1>1. q.rows \in Seq(Row)
    BY DEF Request
  <1>2. Appended(q) \in Seq(Option)
    BY <1>1, OptionsOfFacts DEF Appended
  <1> HIDE DEF Appended
  <1>3. QED
    BY <1>2

LEMMA AppendOptionsKept ==
  ASSUME ContentInv, NEW r \in Requests, AppendOptions(r)
  PROVE  Kept(r)
  <1> DEFINE e     == requests[r].election
             q0    == requests[r]
             order == NextDisplayOrder(q0.shown[q0.place].options)
             q     == [requests[r] EXCEPT !.pc = "question", !.place = @ + 1]
  <1>1. /\ q0 \in Request /\ q0.pc = "append" /\ q0.kind = "edit"
        /\ RequestFits(q0, questions[e], Existing)
        /\ e \in Elections /\ e \in Existing /\ questions[e] \in Sheets
    BY RequestTyped DEF AppendOptions, RequestFits, InStep, StepsOf
  <1>2. wizard' \in Wizard /\ UNCHANGED <<elections, wizard>>
    BY DEF AppendOptions, ContentInv, ContentTypeOK
  <1>3. /\ q0.place \in DOMAIN questions[e] /\ q0.place \in DOMAIN q0.shown
        /\ q0.shown \in Sheets /\ q0.place \in Nat
        /\ DOMAIN q0.shown[q0.place].options \subseteq DOMAIN questions[e][q0.place].options
    BY <1>1 DEF Request, RequestFits, ShownFits
  <1>4. /\ q \in Request /\ q.pc = "question" /\ q.kind = "edit" /\ q.election = e
        /\ q.shown = q0.shown
    <2>1. "question" \in Steps
      BY DEF Steps
    <2>2. q \in Request
      BY ONLY <1>1, <1>3, <2>1, PlaceCounts
    <2>3. /\ q.pc = "question" /\ q.kind = q0.kind /\ q.election = e
          /\ q.shown = q0.shown
      BY <1>1 DEF Request
    <2> HIDE DEF q
    <2>4. QED
      BY <1>1, <2>2, <2>3
  <1> HIDE DEF q
  <1>5. ASSUME NEW more, \A o \in DOMAIN questions[e] :
                 /\ o \in DOMAIN more
                 /\ DOMAIN questions[e][o].options \subseteq DOMAIN more[o].options
        PROVE  RequestFits(q, more, Existing)
    <2>1. ShownFits(q, more)
      BY <1>1, <1>4, <1>5 DEF RequestFits, ShownFits
    <2>2. QED
      BY <1>1, <1>4, <2>1
      DEF RequestFits, InStep, StepsOf, InElection, WizardFits, QuickFits, CreationFits,
          VotersFit
  <1>6. CASE Appended(q0) = <<>>
    <2>1. requests' = [requests EXCEPT ![r] = q] /\ UNCHANGED <<elections, questions>>
      BY <1>2, <1>6 DEF AppendOptions, q
    <2>2. RequestFits(q, questions[q.election], Existing)
      BY <1>4, <1>5
    <2> HIDE DEF q0, e, order
    <2>3. QED
      BY <1>2, <1>4, <2>1, <2>2, RequestMoves
  <1>7. CASE /\ Appended(q0) # <<>> /\ MayEdit(e, "editOptions", FALSE) /\ order \in Orders
             /\ order \notin DOMAIN questions[e][q0.place].options
    <2> DEFINE option == Appended(q0)[1]
    <2>1. requests' = [requests EXCEPT ![r] = q] /\ PutOption(e, q0.place, order, option)
      BY <1>7 DEF AppendOptions, q
    <2>2. /\ order \in Nat /\ order < Places
          /\ Before(order) \subseteq DOMAIN questions[e][q0.place].options
      <3>1. q0.shown[q0.place].options \in Choices
        BY <1>3, SheetFacts
      <3>2. DOMAIN q0.shown[q0.place].options = Before(order)
        BY <3>1, NextDisplayOrderFacts
      <3> HIDE DEF order
      <3>3. order \in Nat /\ order < Places
        BY <1>7, ElectionContentAssumption DEF Orders
      <3>4. QED
        BY <1>3, <3>2, <3>3
    <2>3. option \in Option
      BY <1>1, <1>7, AppendedFacts
    <2>4. PutFacts(e, q0.place, order, option)
      <3>1. questions \in [Elections -> Sheets]
        BY DEF ContentInv, ContentTypeOK
      <3> HIDE DEF e, q0, order, option
      <3>2. QED
        BY <1>1, <1>3, <2>1, <2>2, <2>3, <3>1, PutOptionFacts
    <2> HIDE DEF order, option
    <2>5. \A o \in DOMAIN questions[e] :
            /\ o \in DOMAIN questions'[e]
            /\ DOMAIN questions[e][o].options \subseteq DOMAIN questions'[e][o].options
      BY <2>4 DEF PutFacts
    <2>6. RequestFits(q, questions'[q.election], Existing)
      BY <1>4, <1>5, <2>5
    <2> HIDE DEF q0, e
    <2>7. QED
      BY <1>1, <1>2, <1>3, <1>4, <2>1, <2>4, <2>6, RequestPuts
  <1>8. CASE /\ Appended(q0) # <<>>
             /\ ~(/\ MayEdit(e, "editOptions", FALSE) /\ order \in Orders
                  /\ order \notin DOMAIN questions[e][q0.place].options)
    <2>1. Finish(r) /\ UNCHANGED <<elections, questions>>
      BY <1>2, <1>8 DEF AppendOptions
    <2>2. QED
      BY <1>2, <2>1, RequestEnds
  <1>9. QED
    BY <1>6, <1>7, <1>8

LEMMA SubmitQuestionKept ==
  ASSUME ContentInv, NEW r \in Requests, SubmitQuestion(r)
  PROVE  Kept(r)
  <1>1. UNCHANGED <<elections, questions>> /\ wizard' \in Wizard
    BY DEF SubmitQuestion, ContentInv, ContentTypeOK
  <1>2. PICK e \in Existing, rows \in QuickForms :
          /\ Cardinality(DOMAIN questions[e]) < Questions
          /\ requests' = [requests EXCEPT ![r] =
               [Rest EXCEPT !.kind = "quick", !.pc = "question", !.election = e,
                            !.rows = rows, !.place = Cardinality(DOMAIN questions[e])]]
    BY DEF SubmitQuestion
  <1> DEFINE place == Cardinality(DOMAIN questions[e])
             q     == [Rest EXCEPT !.kind = "quick", !.pc = "question", !.election = e,
                                   !.rows = rows, !.place = place]
  <1>3. e \in Elections /\ questions[e] \in Sheets
    BY DEF Existing, ContentInv, ContentTypeOK
  <1>4. place \in Nat
    <2>1. DOMAIN questions[e] \subseteq Before(Questions)
      BY <1>3, SheetFacts
    <2>2. IsFiniteSet(Before(Questions))
      BY Numbers, ElectionContentAssumption
    <2>3. QED
      BY <2>1, <2>2, FS_Subset, FS_CardinalityType
  <1>5. place \in Before(Questions)
    BY <1>2, <1>4, ElectionContentAssumption DEF Before
  <1>6. rows \in Seq(Row) /\ Len(rows) <= Places
    BY FormsTyped DEF QuickForms
  <1>7. requests' = [requests EXCEPT ![r] = q]
    BY <1>2
  <1> HIDE DEF place
  <1>8. /\ q \in Request /\ q.kind = "quick" /\ q.pc = "question" /\ q.election = e
        /\ q.rows = rows /\ q.place = place /\ q.next = 0
    BY <1>3, <1>4, <1>6, RestFits DEF Rest, Request, Steps, Kinds
  <1> HIDE DEF q
  <1>9. RequestFits(q, questions[q.election], Existing)
    BY <1>5, <1>6, <1>8
    DEF RequestFits, InStep, StepsOf, InElection, WizardFits, QuickFits, CreationFits,
        VotersFit, ShownFits
  <1>10. QED
    BY <1>1, <1>7, <1>8, <1>9, RequestMoves

-----------------------------------------------------------------------------
(* The actions of a single call, the review and the opening                *)

\* A step that writes the row of an election that is there
LEMMA RowWritten ==
  ASSUME ContentInv, NEW r \in Requests, UNCHANGED <<questions, wizard, requests>>,
         NEW e \in Existing, NEW row \in ElectionRow, row.state # "none",
         row.listedBy = elections[e].listedBy,
         elections' = [elections EXCEPT ![e] = row]
  PROVE  Kept(r)
  <1>1. elections \in [Elections -> ElectionRow] /\ e \in Elections
    BY DEF ContentInv, ContentTypeOK, Existing
  <1>2. /\ elections' \in [Elections -> ElectionRow] /\ elections'[e] = row
        /\ \A f \in Elections \ {e} : elections'[f] = elections[f]
    BY <1>1
  <1>3. Existing' = Existing
    BY <1>1, <1>2 DEF Existing
  <1>4. \A f \in Existing' : elections'[f].listedBy = elections[f].listedBy
    BY <1>2, <1>3 DEF Existing
  <1>5. QED
    BY <1>2, <1>3, <1>4, RequestStays

LEMMA UpdateInfoKept ==
  ASSUME ContentInv, NEW r \in Requests, UpdateInfo(r)
  PROVE  Kept(r)
  <1>1. PICK e \in Existing, times \in TimesInOrder :
          elections' = [elections EXCEPT ![e].startsAt = times[1], ![e].endsAt = times[2]]
    BY DEF UpdateInfo
  <1> DEFINE row == [elections[e] EXCEPT !.startsAt = times[1], !.endsAt = times[2]]
  <1>2. elections[e] \in ElectionRow /\ elections[e].state # "none"
    BY DEF ContentInv, ContentTypeOK, Existing
  <1>3. times[1] \in Nat /\ times[2] \in Nat
    BY DEF TimesInOrder
  <1>4. /\ row \in ElectionRow /\ row.state # "none"
        /\ row.listedBy = elections[e].listedBy
    BY <1>2, <1>3 DEF ElectionRow
  <1>5. elections' = [elections EXCEPT ![e] = row]
    BY <1>1
  <1>6. UNCHANGED <<questions, wizard, requests>>
    BY DEF UpdateInfo
  <1> HIDE DEF row
  <1>7. QED
    BY <1>4, <1>5, <1>6, RowWritten

LEMMA WritePolicyKept ==
  ASSUME ContentInv, NEW r \in Requests, UNCHANGED <<questions, wizard, requests>>,
         NEW e \in Existing, WritePolicy(e)
  PROVE  Kept(r)
  <1> DEFINE row == [elections[e] EXCEPT !.policy = TRUE]
  <1>1. elections[e] \in ElectionRow /\ elections[e].state # "none"
    BY DEF ContentInv, ContentTypeOK, Existing
  <1>2. /\ row \in ElectionRow /\ row.state # "none"
        /\ row.listedBy = elections[e].listedBy
    BY <1>1 DEF ElectionRow
  <1>3. elections' = [elections EXCEPT ![e] = row]
    BY DEF WritePolicy
  <1> HIDE DEF row
  <1>4. QED
    BY <1>2, <1>3, RowWritten

LEMMA PoliciesKept ==
  ASSUME ContentInv, NEW r \in Requests, UpdatePolicy(r) \/ ConfigurePolicy(r)
  PROVE  Kept(r)
  <1>1. PICK e \in Existing : WritePolicy(e)
    BY DEF UpdatePolicy, ConfigurePolicy
  <1>2. UNCHANGED <<questions, wizard, requests>>
    BY DEF UpdatePolicy, ConfigurePolicy
  <1>3. QED
    BY <1>1, <1>2, WritePolicyKept

LEMMA OpenElectionKept ==
  ASSUME ContentInv, NEW r \in Requests, OpenElection(r)
  PROVE  Kept(r)
  <1>1. PICK e \in Existing :
          elections' = [elections EXCEPT ![e].state = "open", ![e].startsAt = now]
    BY DEF OpenElection
  <1> DEFINE row == [elections[e] EXCEPT !.state = "open", !.startsAt = now]
  <1>2. elections[e] \in ElectionRow /\ now \in Nat
    BY ElectionContentAssumption DEF ContentInv, ContentTypeOK, Existing
  <1>3. /\ row \in ElectionRow /\ row.state # "none"
        /\ row.listedBy = elections[e].listedBy
    BY <1>2 DEF ElectionRow, ElectionState
  <1>4. elections' = [elections EXCEPT ![e] = row]
    BY <1>1
  <1>5. UNCHANGED <<questions, wizard, requests>>
    BY DEF OpenElection
  <1> HIDE DEF row
  <1>6. QED
    BY <1>3, <1>4, <1>5, RowWritten

LEMMA SubmitReviewKept ==
  ASSUME ContentInv, NEW r \in Requests, SubmitReview(r)
  PROVE  Kept(r)
  <1>1. UNCHANGED <<elections, questions>> /\ wizard' \in Wizard
    BY DEF SubmitReview, ContentInv, ContentTypeOK
  <1>2. PICK e \in Existing :
          requests' = [requests EXCEPT ![r] =
            [Rest EXCEPT !.kind = "review", !.pc = "write", !.election = e]]
    BY DEF SubmitReview
  <1> DEFINE q == [Rest EXCEPT !.kind = "review", !.pc = "write", !.election = e]
  <1>3. e \in Elections
    BY DEF Existing
  <1>4. q \in Request /\ q.kind = "review" /\ q.pc = "write" /\ q.election = e
    BY <1>3, RestFits DEF Rest, Request, Steps, Kinds
  <1>5. requests' = [requests EXCEPT ![r] = q]
    BY <1>2
  <1> HIDE DEF q
  <1>6. RequestFits(q, questions[q.election], Existing)
    BY <1>4
    DEF RequestFits, InStep, StepsOf, InElection, WizardFits, QuickFits, CreationFits,
        VotersFit, ShownFits
  <1>7. QED
    BY <1>1, <1>4, <1>5, <1>6, RequestMoves

LEMMA RequestReviewKept ==
  ASSUME ContentInv, NEW r \in Requests, RequestReview(r)
  PROVE  Kept(r)
  <1> DEFINE e   == requests[r].election
             row == [elections[e] EXCEPT !.state = "ready_for_review"]
  <1>1. e \in Elections /\ e \in Existing /\ elections[e] \in ElectionRow
    BY RequestTyped DEF RequestReview
  <1>2. Finish(r) /\ UNCHANGED questions /\ wizard' \in Wizard
    BY DEF RequestReview, ContentInv, ContentTypeOK
  <1>3. CASE CanTransition(elections[e].state, "ready_for_review")
    <2>1. elections' = [elections EXCEPT ![e] = row]
      BY <1>3 DEF RequestReview
    <2>2. /\ row \in ElectionRow /\ row.state # "none"
          /\ row.listedBy = elections[e].listedBy
      BY <1>1 DEF ElectionRow, ElectionState, PreStartStates
    <2>3. Rest \in Request /\ RequestFits(Rest, questions[Rest.election], Existing \cup {e})
      BY RestFits
    <2>4. requests' = [requests EXCEPT ![r] = Rest]
      BY <1>2 DEF Finish
    <2>5. row.listedBy = "wizard" => e \in Existing /\ elections[e].listedBy = "wizard"
      BY <1>1, <2>2
    <2> HIDE DEF row, e
    <2>6. QED
      BY <1>1, <1>2, <2>1, <2>2, <2>3, <2>4, <2>5, RequestWrites
  <1>4. CASE ~CanTransition(elections[e].state, "ready_for_review")
    <2>1. UNCHANGED <<elections, questions>>
      BY <1>2, <1>4 DEF RequestReview
    <2>2. QED
      BY <1>2, <2>1, RequestEnds
  <1>5. QED
    BY <1>3, <1>4

LEMMA FailKept ==
  ASSUME ContentInv, NEW r \in Requests, Fail(r)
  PROVE  Kept(r)
  <1>1. UNCHANGED <<elections, questions>> /\ wizard' \in Wizard /\ Finish(r)
    BY DEF Fail, ContentInv, ContentTypeOK
  <1>2. QED
    BY <1>1, RequestEnds

LEMMA StepKept ==
  ASSUME ContentInv, NEW r \in Requests, RequestStep(r)
  PROVE  Kept(r)
  <1>1. CASE SubmitWizard(r)
    BY <1>1, SubmitWizardKept
  <1>2. CASE CreateDraft(r)
    BY <1>2, CreateDraftKept
  <1>3. CASE CreatePolicy(r)
    BY <1>3, CreatePolicyKept
  <1>4. CASE CreateQuestion(r)
    BY <1>4, CreateQuestionKept
  <1>5. CASE CreateOption(r)
    BY <1>5, CreateOptionKept
  <1>6. CASE ImportVoters(r)
    BY <1>6, ImportVotersKept
  <1>7. CASE OpenEditForm(r)
    BY <1>7, OpenEditFormKept
  <1>8. CASE SubmitEdit(r)
    BY <1>8, SubmitEditKept
  <1>9. CASE UpdateQuestion(r)
    BY <1>9, UpdateQuestionKept
  <1>10. CASE UpdateOption(r)
    BY <1>10, UpdateOptionKept
  <1>11. CASE AppendOptions(r)
    BY <1>11, AppendOptionsKept
  <1>12. CASE SubmitImport(r)
    BY <1>12, SubmitImportKept
  <1>13. CASE SubmitQuestion(r)
    BY <1>13, SubmitQuestionKept
  <1>14. CASE UpdateInfo(r)
    BY <1>14, UpdateInfoKept
  <1>15. CASE UpdatePolicy(r) \/ ConfigurePolicy(r)
    BY <1>15, PoliciesKept
  <1>16. CASE SubmitReview(r)
    BY <1>16, SubmitReviewKept
  <1>17. CASE RequestReview(r)
    BY <1>17, RequestReviewKept
  <1>18. CASE OpenElection(r)
    BY <1>18, OpenElectionKept
  <1>19. CASE Fail(r)
    BY <1>19, FailKept
  <1>20. QED
    BY <1>1, <1>2, <1>3, <1>4, <1>5, <1>6, <1>7, <1>8, <1>9, <1>10, <1>11, <1>12, <1>13,
       <1>14, <1>15, <1>16, <1>17, <1>18, <1>19 DEF RequestStep

-----------------------------------------------------------------------------
(* The browser, the clock and the counters                                 *)

CountersOK ==
  now \in 0..MaxTime /\ sent \in 0..MaxSent /\ failures \in 0..MaxFailures

LEMMA CountersKept ==
  ASSUME CountersOK, NEW r \in Requests, RequestStep(r)
  PROVE  CountersOK'
  <1>1. CASE UNCHANGED <<now, sent, failures>>
    BY <1>1 DEF CountersOK
  <1>2. CASE Send /\ UNCHANGED <<now, failures>>
    BY <1>2, ElectionContentAssumption DEF CountersOK, Send
  <1>3. CASE failures < MaxFailures /\ failures' = failures + 1 /\ UNCHANGED <<now, sent>>
    BY <1>3, ElectionContentAssumption DEF CountersOK
  <1>4. CASE \/ SubmitWizard(r) \/ CreateDraft(r) \/ CreatePolicy(r)
             \/ CreateQuestion(r) \/ CreateOption(r) \/ ImportVoters(r)
    BY <1>1, <1>4
    DEF SubmitWizard, CreateDraft, CreatePolicy, CreateQuestion, CreateOption, ImportVoters
  <1>5. CASE SubmitEdit(r) \/ UpdateQuestion(r) \/ UpdateOption(r) \/ AppendOptions(r)
    BY <1>1, <1>5 DEF SubmitEdit, UpdateQuestion, UpdateOption, AppendOptions
  <1>6. CASE \/ UpdateInfo(r) \/ UpdatePolicy(r) \/ ConfigurePolicy(r) \/ SubmitReview(r)
             \/ RequestReview(r) \/ OpenElection(r)
    BY <1>1, <1>6
    DEF UpdateInfo, UpdatePolicy, ConfigurePolicy, SubmitReview, RequestReview, OpenElection
  <1>7. CASE OpenEditForm(r) \/ SubmitImport(r) \/ SubmitQuestion(r)
    BY <1>2, <1>7 DEF OpenEditForm, SubmitImport, SubmitQuestion
  <1>8. CASE Fail(r)
    BY <1>3, <1>8 DEF Fail
  <1>9. QED
    BY <1>4, <1>5, <1>6, <1>7, <1>8 DEF RequestStep

BrowserStep == FillInfo \/ FillOptions \/ LoadFile \/ GoNext \/ GoBack

LEMMA BrowserKept ==
  ASSUME wizard \in Wizard, BrowserStep
  PROVE  wizard' \in Wizard
  <1>1. CASE FillInfo
    BY <1>1 DEF FillInfo, Wizard
  <1>2. CASE FillOptions
    BY <1>2 DEF FillOptions, Wizard
  <1>3. CASE LoadFile
    <2>1. PICK text \in FormTexts : wizard' = [wizard EXCEPT !.file = text]
      BY <1>3 DEF LoadFile
    <2>2. QED
      BY <2>1 DEF Wizard
  <1>4. CASE GoNext
    BY <1>4 DEF GoNext, Wizard
  <1>5. CASE GoBack
    BY <1>5 DEF GoBack, Wizard
  <1>6. QED
    BY <1>1, <1>2, <1>3, <1>4, <1>5 DEF BrowserStep

LEMMA SameRows ==
  ASSUME ContentInv, UNCHANGED <<elections, questions, requests>>
  PROVE  RequestsFit' /\ VotersComeLast'
  BY DEF ContentInv, RequestsFit, VotersComeLast, Existing

LEMMA ContentInit ==
  ASSUME Init
  PROVE  ContentInv
  <1>1. ContentTypeOK
    <2>1. NoRow \in ElectionRow
      BY NoVoters DEF NoRow, ElectionRow, Counts
    <2>2. EmptyWizard \in Wizard
      BY DEF EmptyWizard, Wizard
    <2>3. Rest \in Request
      BY RestFits
    <2>4. <<>> \in Sheets
      <3>1. <<>> \in [{} -> Question] /\ {} \in SUBSET Before(Questions)
        OBVIOUS
      <3>2. QED
        BY <3>1 DEF Sheets
    <2>5. 0 \in 0..MaxTime /\ 0 \in 0..MaxSent /\ 0 \in 0..MaxFailures
      BY ElectionContentAssumption
    <2>6. now \in 0..MaxTime /\ sent \in 0..MaxSent /\ failures \in 0..MaxFailures
      BY <2>5 DEF Init
    <2>7. /\ elections \in [Elections -> ElectionRow] /\ questions \in [Elections -> Sheets]
          /\ requests \in [Requests -> Request]
      BY <2>1, <2>3, <2>4 DEF Init
    <2>8. wizard \in Wizard /\ overlapped \in BOOLEAN
      BY <2>2 DEF Init
    <2>9. QED
      BY <2>6, <2>7, <2>8 DEF ContentTypeOK
  <1>2. RequestsFit
    BY RestFits DEF Init, RequestsFit
  <1>3. VotersComeLast
    BY DEF Init, VotersComeLast, Existing, NoRow
  <1>4. QED
    BY <1>1, <1>2, <1>3 DEF ContentInv

LEMMA ContentStep ==
  ASSUME ContentInv, [Next]_vars
  PROVE  ContentInv'
  <1>1. CASE UNCHANGED vars
    BY <1>1, SameRows DEF vars, ContentInv, ContentTypeOK
  <1>2. CASE BrowserStep
    <2>1. Keep
      BY <1>2 DEF BrowserStep, FillInfo, FillOptions, LoadFile, GoNext, GoBack
    <2>2. wizard' \in Wizard
      BY <1>2, BrowserKept DEF ContentInv, ContentTypeOK
    <2>3. RequestsFit' /\ VotersComeLast'
      BY <2>1, SameRows DEF Keep
    <2>4. QED
      BY <2>1, <2>2, <2>3 DEF Keep, ContentInv, ContentTypeOK
  <1>3. CASE Tick
    <2>1. RequestsFit' /\ VotersComeLast'
      BY <1>3, SameRows DEF Tick
    <2>2. now' \in 0..MaxTime
      BY <1>3, ElectionContentAssumption DEF Tick, ContentInv, ContentTypeOK
    <2>3. QED
      BY <1>3, <2>1, <2>2 DEF Tick, ContentInv, ContentTypeOK
  <1>4. ASSUME NEW r \in Requests, RequestStep(r), NoteOverlap(r)
        PROVE  ContentInv'
    <2>1. Kept(r)
      BY <1>4, StepKept
    <2>2. RequestsFit'
      BY <2>1, FitsKept
    <2>3. CountersOK'
      <3>1. CountersOK
        BY DEF ContentInv, ContentTypeOK, CountersOK
      <3>2. QED
        BY <1>4, <3>1, CountersKept
    <2>4. overlapped' \in BOOLEAN
      BY <1>4 DEF NoteOverlap
    <2>5. RowsTyped' /\ VotersComeLast'
      BY <2>1 DEF Kept
    <2>6. QED
      BY <2>2, <2>3, <2>4, <2>5 DEF CountersOK, RowsTyped, ContentInv, ContentTypeOK
  <1>5. QED
    BY <1>1, <1>2, <1>3, <1>4 DEF Next, BrowserStep

LEMMA ContentAlways == Spec => []ContentInv
  <1>1. Init => ContentInv
    BY ContentInit
  <1>2. ContentInv /\ [Next]_vars => ContentInv'
    BY ContentStep
  <1>3. QED
    BY <1>1, <1>2, PTL DEF Spec

-----------------------------------------------------------------------------
(* One request at a time: what its step leaves for the next                *)

LEMMA IdleInStep ==
  ASSUME NEW q, InStep(q), Idle(q), NEW election, NEW there
  PROVE  ChainInStep(q, election, there)
  BY DEF InStep, StepsOf, Idle, ChainInStep, ReviewLooked, DraftHeld, WizardInStep, EditInStep

LEMMA RestInStep ==
  ASSUME NEW election, NEW there
  PROVE  ChainInStep(Rest, election, there)
  BY IdleInStep DEF Rest, InStep, StepsOf, Idle

\* What is sound stays so for every request.
LEMMA SoundStays ==
  ASSUME NEW q, NEW p, NEW e, NEW o, NEW question, SoundOrInHand(q, e, o, question),
         ~InHand(q, e, o, {"wizard", "edit"})
  PROVE  SoundOrInHand(p, e, o, question)
  BY DEF SoundOrInHand, InHand

\* A step that writes no question
LEMMA SoloMoves ==
  ASSUME NEW r \in Requests, SoloFor(r), NEW q, requests'[r] = q,
         requests[r].kind = "quick" \/ requests[r].pc # "option",
         UNCHANGED <<questions, failures>>,
         \A f \in Elections : elections'[f].state = "ready_for_review" =>
                                 elections[f].state = "ready_for_review",
         ChainInStep(q, elections'[q.election], questions[q.election])
  PROVE  SoloFor(r)'
  <1>1. ChainInStep(requests'[r], elections'[requests'[r].election],
                    questions'[requests'[r].election])
    OBVIOUS
  <1>2. ASSUME failures' = 0, NEW e \in Elections, NEW o \in DOMAIN questions'[e]
        PROVE  SoundOrInHand(requests'[r], e, o, questions'[e][o])
    <2>1. SoundOrInHand(requests[r], e, o, questions[e][o])
      BY <1>2 DEF SoloFor
    <2>2. ~InHand(requests[r], e, o, {"wizard", "edit"})
      BY DEF InHand
    <2>3. SoundOrInHand(q, e, o, questions[e][o])
      BY <2>1, <2>2, SoundStays
    <2>4. QED
      BY <2>3
  <1>3. Reviewed'
    BY DEF SoloFor, Reviewed
  <1>4. QED
    BY <1>1, <1>2, <1>3 DEF SoloFor

LEMMA SoloEnds ==
  ASSUME ContentInv, NEW r \in Requests, SoloFor(r), Finish(r),
         requests[r].kind = "quick" \/ requests[r].pc # "option",
         UNCHANGED <<elections, questions, failures>>
  PROVE  SoloFor(r)'
  <1>1. requests'[r] = Rest
    BY DEF ContentInv, ContentTypeOK, Finish
  <1>2. ChainInStep(Rest, elections'[Rest.election], questions[Rest.election])
    BY RestInStep
  <1>3. QED
    BY <1>1, <1>2, SoloMoves

\* A step that writes to the question at hand
LEMMA SoloPuts ==
  ASSUME NEW r \in Requests, SoloFor(r), NEW q, requests'[r] = q,
         UNCHANGED <<elections, failures>>,
         NEW e \in Elections, NEW place, elections[e].state # "ready_for_review",
         requests[r].election = e, requests[r].place = place,
         \A f \in Elections \ {e} : questions'[f] = questions[f],
         DOMAIN questions'[e] \subseteq DOMAIN questions[e] \cup {place},
         \A o \in DOMAIN questions[e] \ {place} : questions'[e][o] = questions[e][o],
         failures = 0 => SoundOrInHand(q, e, place, questions'[e][place]),
         ChainInStep(q, elections[q.election], questions'[q.election])
  PROVE  SoloFor(r)'
  <1>1. ChainInStep(requests'[r], elections'[requests'[r].election],
                    questions'[requests'[r].election])
    OBVIOUS
  <1>2. ASSUME failures' = 0, NEW f \in Elections, NEW o \in DOMAIN questions'[f]
        PROVE  SoundOrInHand(requests'[r], f, o, questions'[f][o])
    <2>1. CASE f = e /\ o = place
      BY <1>2, <2>1
    <2>2. CASE ~(f = e /\ o = place)
      <3>1. o \in DOMAIN questions[f] /\ questions'[f][o] = questions[f][o]
        BY <2>2
      <3>2. SoundOrInHand(requests[r], f, o, questions[f][o])
        BY <1>2, <3>1 DEF SoloFor
      <3>3. ~InHand(requests[r], f, o, {"wizard", "edit"})
        BY <2>2 DEF InHand
      <3>4. SoundOrInHand(q, f, o, questions[f][o])
        BY <3>2, <3>3, SoundStays
      <3>5. QED
        BY <3>1, <3>4
    <2>3. QED
      BY <2>1, <2>2
  <1>3. Reviewed'
    <2>1. ASSUME NEW f \in Elections, elections'[f].state = "ready_for_review"
          PROVE  Answerable(questions'[f])
      <3>1. f # e /\ elections[f].state = "ready_for_review"
        BY <2>1
      <3>2. questions'[f] = questions[f]
        BY <3>1
      <3>3. QED
        BY <3>1, <3>2 DEF SoloFor, Reviewed
    <2>2. QED
      BY <2>1 DEF Reviewed
  <1>4. QED
    BY <1>1, <1>2, <1>3 DEF SoloFor

\* In a draft every edit is allowed, without a reason in no other state.
LEMMA MayEditDraft ==
  ASSUME NEW e, NEW action \in {"editQuestions", "editOptions"}
  PROVE  /\ \A reason \in BOOLEAN : elections[e].state = "draft" => MayEdit(e, action, reason)
         /\ MayEdit(e, action, FALSE) => elections[e].state = "draft"
  <1>1. StatesAllowing[action] = {"draft", "ready_for_review"}
    BY DEF StatesAllowing
  <1>2. QED
    BY <1>1 DEF MayEdit, CanPerform

\* A chain that has not begun to write, or writes no question of the wizard
LEMMA FreshInStep ==
  ASSUME NEW q, NEW election, NEW there, q.pc # "write",
         \/ q.kind \notin {"wizard", "edit"}
         \/ q.kind = "wizard" /\ q.pc = "draft"
         \/ q.kind = "edit" /\ q.pc = "form"
  PROVE  ChainInStep(q, election, there)
  BY DEF ChainInStep, ReviewLooked, DraftHeld, WizardInStep, EditInStep

LEMMA SubmitWizardSolo ==
  ASSUME ContentInv, NEW r \in Requests, SoloFor(r), SubmitWizard(r)
  PROVE  SoloFor(r)'
  <1>1. UNCHANGED <<elections, questions, failures>> /\ requests[r].pc = "rest"
    BY DEF SubmitWizard
  <1>2. CASE UNCHANGED requests
    BY <1>1, <1>2 DEF SoloFor, Reviewed
  <1>3. CASE requests' = [requests EXCEPT ![r] =
              [Rest EXCEPT !.kind = "wizard", !.pc = "draft", !.rows = wizard.rows,
                           !.file = wizard.file, !.times = <<1, 2>>]]
    <2> DEFINE q == [Rest EXCEPT !.kind = "wizard", !.pc = "draft", !.rows = wizard.rows,
                                 !.file = wizard.file, !.times = <<1, 2>>]
    <2>1. requests'[r] = q
      BY <1>3 DEF ContentInv, ContentTypeOK
    <2>2. q.kind = "wizard" /\ q.pc = "draft"
      BY DEF Rest
    <2> HIDE DEF q
    <2>3. ChainInStep(q, elections'[q.election], questions[q.election])
      BY <2>2, FreshInStep
    <2>4. QED
      BY <1>1, <2>1, <2>3, SoloMoves
  <1>4. QED
    BY <1>2, <1>3 DEF SubmitWizard

LEMMA OpenEditFormSolo ==
  ASSUME ContentInv, NEW r \in Requests, SoloFor(r), OpenEditForm(r)
  PROVE  SoloFor(r)'
  <1>1. UNCHANGED <<elections, questions, failures>> /\ requests[r].pc = "rest"
    BY DEF OpenEditForm
  <1>2. PICK e \in Existing :
          requests' = [requests EXCEPT ![r] =
            [Rest EXCEPT !.kind = "edit", !.pc = "form", !.election = e,
                         !.shown = questions[e]]]
    BY DEF OpenEditForm
  <1> DEFINE q == [Rest EXCEPT !.kind = "edit", !.pc = "form", !.election = e,
                               !.shown = questions[e]]
  <1>3. requests'[r] = q
    BY <1>2 DEF ContentInv, ContentTypeOK
  <1>4. q.kind = "edit" /\ q.pc = "form"
    BY DEF Rest
  <1> HIDE DEF q
  <1>5. ChainInStep(q, elections'[q.election], questions[q.election])
    BY <1>4, FreshInStep
  <1>6. QED
    BY <1>1, <1>3, <1>5, SoloMoves

LEMMA SubmitImportSolo ==
  ASSUME ContentInv, NEW r \in Requests, SoloFor(r), SubmitImport(r)
  PROVE  SoloFor(r)'
  <1>1. UNCHANGED <<elections, questions, failures>> /\ requests[r].pc = "rest"
    BY DEF SubmitImport
  <1>2. PICK e \in Existing, text \in FormTexts :
          IF text \in ImportableTexts
            THEN requests' = [requests EXCEPT ![r] =
                   [Rest EXCEPT !.kind = "import", !.pc = "voters", !.election = e,
                                !.file = text]]
            ELSE UNCHANGED requests
    BY DEF SubmitImport
  <1>3. CASE UNCHANGED requests
    BY <1>1, <1>3 DEF SoloFor, Reviewed
  <1>4. CASE text \in ImportableTexts
    <2> DEFINE q == [Rest EXCEPT !.kind = "import", !.pc = "voters", !.election = e,
                                 !.file = text]
    <2>1. requests'[r] = q
      BY <1>2, <1>4 DEF ContentInv, ContentTypeOK
    <2>2. q.kind = "import" /\ q.pc = "voters"
      BY DEF Rest
    <2> HIDE DEF q
    <2>3. ChainInStep(q, elections'[q.election], questions[q.election])
      BY <2>2, FreshInStep
    <2>4. QED
      BY <1>1, <2>1, <2>3, SoloMoves
  <1>5. QED
    BY <1>2, <1>3, <1>4

LEMMA SubmitQuestionSolo ==
  ASSUME ContentInv, NEW r \in Requests, SoloFor(r), SubmitQuestion(r)
  PROVE  SoloFor(r)'
  <1>1. UNCHANGED <<elections, questions, failures>> /\ requests[r].pc = "rest"
    BY DEF SubmitQuestion
  <1>2. PICK e \in Existing, rows \in QuickForms :
          requests' = [requests EXCEPT ![r] =
            [Rest EXCEPT !.kind = "quick", !.pc = "question", !.election = e,
                         !.rows = rows, !.place = Cardinality(DOMAIN questions[e])]]
    BY DEF SubmitQuestion
  <1> DEFINE place == Cardinality(DOMAIN questions[e])
             q     == [Rest EXCEPT !.kind = "quick", !.pc = "question", !.election = e,
                                   !.rows = rows, !.place = place]
  <1>3. requests'[r] = q
    BY <1>2 DEF ContentInv, ContentTypeOK
  <1> HIDE DEF place
  <1>4. q.kind = "quick" /\ q.pc = "question"
    BY DEF Rest
  <1> HIDE DEF q
  <1>5. ChainInStep(q, elections'[q.election], questions[q.election])
    BY <1>4, FreshInStep
  <1>6. QED
    BY <1>1, <1>3, <1>5, SoloMoves

LEMMA SubmitReviewSolo ==
  ASSUME ContentInv, NEW r \in Requests, SoloFor(r), SubmitReview(r)
  PROVE  SoloFor(r)'
  <1>1. UNCHANGED <<elections, questions, failures>> /\ requests[r].pc = "rest"
    BY DEF SubmitReview
  <1>2. PICK e \in Existing :
          /\ ReviewComplete(e)
          /\ requests' = [requests EXCEPT ![r] =
               [Rest EXCEPT !.kind = "review", !.pc = "write", !.election = e]]
    BY DEF SubmitReview
  <1> DEFINE q == [Rest EXCEPT !.kind = "review", !.pc = "write", !.election = e]
  <1>3. requests'[r] = q
    BY <1>2 DEF ContentInv, ContentTypeOK
  <1>4. q.kind = "review" /\ q.pc = "write" /\ q.election = e
    BY DEF Rest
  <1>5. Answerable(questions[e])
    BY <1>2 DEF ReviewComplete, Answerable
  <1> HIDE DEF q
  <1>6. ChainInStep(q, elections'[q.election], questions[q.election])
    BY <1>4, <1>5 DEF ChainInStep, ReviewLooked, DraftHeld, WizardInStep, EditInStep
  <1>7. QED
    BY <1>1, <1>3, <1>6, SoloMoves

\* The actions of a single call
LEMMA SingleCallSolo ==
  ASSUME ContentInv, NEW r \in Requests, SoloFor(r),
         UpdateInfo(r) \/ UpdatePolicy(r) \/ ConfigurePolicy(r) \/ OpenElection(r)
  PROVE  SoloFor(r)'
  <1>1. UNCHANGED <<questions, requests, failures>> /\ requests[r].pc = "rest"
    BY DEF UpdateInfo, UpdatePolicy, ConfigurePolicy, OpenElection
  <1>2. ASSUME NEW f \in Elections, elections'[f].state = "ready_for_review"
        PROVE  elections[f].state = "ready_for_review"
    <2>1. elections \in [Elections -> ElectionRow]
      BY DEF ContentInv, ContentTypeOK
    <2>2. CASE UpdateInfo(r)
      <3>1. PICK e \in Existing, times \in TimesInOrder :
              elections' = [elections EXCEPT ![e].startsAt = times[1],
                                             ![e].endsAt = times[2]]
        BY <2>2 DEF UpdateInfo
      <3>2. elections'[f].state = elections[f].state
        BY <2>1, <3>1 DEF ElectionRow
      <3>3. QED
        BY <1>2, <3>2
    <2>3. CASE UpdatePolicy(r) \/ ConfigurePolicy(r)
      <3>1. PICK e \in Existing : elections' = [elections EXCEPT ![e].policy = TRUE]
        BY <2>3 DEF UpdatePolicy, ConfigurePolicy, WritePolicy
      <3>2. elections'[f].state = elections[f].state
        BY <2>1, <3>1 DEF ElectionRow
      <3>3. QED
        BY <1>2, <3>2
    <2>4. CASE OpenElection(r)
      <3>1. PICK e \in Existing :
              elections' = [elections EXCEPT ![e].state = "open", ![e].startsAt = now]
        BY <2>4 DEF OpenElection
      <3>2. elections'[f].state \in {"open", elections[f].state}
        BY <2>1, <3>1 DEF ElectionRow
      <3>3. QED
        BY <1>2, <3>2
    <2>5. QED
      BY <2>2, <2>3, <2>4
  <1>3. PICK q : q = requests[r]
    OBVIOUS
  <1>4. InStep(q) /\ Idle(q)
    BY <1>1, <1>3, RequestTyped DEF RequestFits, Idle
  <1>5. ChainInStep(q, elections'[q.election], questions[q.election])
    BY <1>4, IdleInStep
  <1>6. requests'[r] = q
    BY <1>1, <1>3
  <1>7. QED
    BY <1>1, <1>2, <1>5, <1>6, SoloMoves

LEMMA RequestReviewSolo ==
  ASSUME ContentInv, NEW r \in Requests, SoloFor(r), RequestReview(r)
  PROVE  SoloFor(r)'
  <1> DEFINE e == requests[r].election
  <1>1. UNCHANGED <<questions, failures>> /\ requests[r].pc = "write" /\ requests'[r] = Rest
    BY DEF RequestReview, Finish, ContentInv, ContentTypeOK
  <1>2. Answerable(questions[e])
    BY <1>1 DEF SoloFor, ChainInStep, ReviewLooked
  <1>3. ChainInStep(requests'[r], elections'[requests'[r].election],
                    questions'[requests'[r].election])
    BY <1>1, RestInStep
  <1>4. ASSUME failures' = 0, NEW f \in Elections, NEW o \in DOMAIN questions'[f]
        PROVE  SoundOrInHand(requests'[r], f, o, questions'[f][o])
    <2>1. SoundOrInHand(requests[r], f, o, questions[f][o])
      BY <1>1, <1>4 DEF SoloFor
    <2>2. ~InHand(requests[r], f, o, {"wizard", "edit"})
      BY <1>1 DEF InHand
    <2>3. SoundOrInHand(Rest, f, o, questions[f][o])
      BY <2>1, <2>2, SoundStays
    <2>4. QED
      BY <1>1, <2>3
  <1>5. Reviewed'
    <2>1. ASSUME NEW f \in Elections, elections'[f].state = "ready_for_review"
          PROVE  f = e \/ elections[f].state = "ready_for_review"
      BY <2>1 DEF RequestReview, ContentInv, ContentTypeOK
    <2>2. QED
      BY <1>1, <1>2, <2>1 DEF SoloFor, Reviewed
  <1>6. QED
    BY <1>3, <1>4, <1>5 DEF SoloFor

LEMMA FailSolo ==
  ASSUME ContentInv, NEW r \in Requests, SoloFor(r), Fail(r)
  PROVE  SoloFor(r)'
  <1>1. UNCHANGED <<elections, questions>> /\ requests'[r] = Rest
    BY DEF Fail, Finish, ContentInv, ContentTypeOK
  <1>2. failures' # 0
    BY ElectionContentAssumption DEF Fail, ContentInv, ContentTypeOK
  <1>3. ChainInStep(requests'[r], elections'[requests'[r].election],
                    questions'[requests'[r].election])
    BY <1>1, RestInStep
  <1>4. Reviewed'
    BY <1>1 DEF SoloFor, Reviewed
  <1>5. QED
    BY <1>2, <1>3, <1>4 DEF SoloFor

LEMMA CreateDraftSolo ==
  ASSUME ContentInv, NEW r \in Requests, SoloFor(r), CreateDraft(r)
  PROVE  SoloFor(r)'
  <1>1. UNCHANGED <<questions, failures>> /\ requests[r].pc = "draft"
    BY DEF CreateDraft
  <1>2. PICK e \in Elections \ Existing :
          /\ elections' = [elections EXCEPT ![e] =
               [NoRow EXCEPT !.state = "draft", !.startsAt = requests[r].times[1],
                             !.endsAt = requests[r].times[2]]]
          /\ requests' = [requests EXCEPT ![r].election = e, ![r].pc = "policy"]
    BY DEF CreateDraft
  <1>3. requests[r] \in Request /\ requests[r].kind = "wizard"
    BY <1>1, RequestTyped DEF RequestFits, InStep, StepsOf
  <1> DEFINE q == [requests[r] EXCEPT !.election = e, !.pc = "policy"]
  <1>4. requests'[r] = q
    BY <1>2 DEF ContentInv, ContentTypeOK
  <1>5. q.kind = "wizard" /\ q.pc = "policy" /\ q.election = e
    BY <1>3 DEF Request
  <1>6. elections'[e].state = "draft" /\ \A f \in Elections \ {e} : elections'[f] = elections[f]
    BY <1>2 DEF ContentInv, ContentTypeOK, NoRow
  <1> HIDE DEF q
  <1>7. ChainInStep(q, elections'[q.election], questions[q.election])
    BY <1>5, <1>6 DEF ChainInStep, ReviewLooked, DraftHeld, WizardInStep, EditInStep
  <1>8. \A f \in Elections : elections'[f].state = "ready_for_review" =>
                                elections[f].state = "ready_for_review"
    BY <1>6
  <1>9. QED
    BY <1>1, <1>4, <1>7, <1>8, SoloMoves

LEMMA CreatePolicySolo ==
  ASSUME ContentInv, NEW r \in Requests, SoloFor(r), CreatePolicy(r)
  PROVE  SoloFor(r)'
  <1> DEFINE e == requests[r].election
             q == [requests[r] EXCEPT !.pc = "question"]
  <1>1. UNCHANGED <<questions, failures>> /\ requests[r].pc = "policy"
    BY DEF CreatePolicy
  <1>2. requests[r] \in Request /\ requests[r].kind = "wizard" /\ e \in Elections
    BY <1>1, RequestTyped DEF RequestFits, InStep, StepsOf
  <1>3. requests'[r] = q
    BY DEF CreatePolicy, Proceed, ContentInv, ContentTypeOK
  <1>4. q.kind = "wizard" /\ q.pc = "question" /\ q.election = e
    BY <1>2 DEF Request
  <1>5. \A f \in Elections : elections'[f].state = elections[f].state
    <2>1. elections \in [Elections -> ElectionRow]
      BY DEF ContentInv, ContentTypeOK
    <2>2. elections' = [elections EXCEPT ![e].policy = TRUE]
      BY DEF CreatePolicy
    <2> HIDE DEF e
    <2>3. QED
      BY <2>1, <2>2 DEF ElectionRow
  <1>6. elections[e].state = "draft"
    BY <1>1, <1>2 DEF SoloFor, ChainInStep, DraftHeld
  <1> HIDE DEF q
  <1>7. ChainInStep(q, elections'[q.election], questions[q.election])
    BY <1>2, <1>4, <1>5, <1>6
    DEF ChainInStep, ReviewLooked, DraftHeld, WizardInStep, EditInStep
  <1> HIDE DEF e
  <1>8. QED
    BY <1>1, <1>3, <1>5, <1>7, SoloMoves

LEMMA CreateQuestionSolo ==
  ASSUME ContentInv, NEW r \in Requests, SoloFor(r), CreateQuestion(r)
  PROVE  SoloFor(r)'
  <1> DEFINE e  == requests[r].election
             q0 == requests[r]
             q  == [requests[r] EXCEPT !.pc = "option"]
  <1>1. /\ q0 \in Request /\ q0.pc = "question" /\ q0.kind \in {"wizard", "quick"}
        /\ RequestFits(q0, questions[e], Existing)
        /\ e \in Elections /\ questions[e] \in Sheets
    BY RequestTyped DEF CreateQuestion
  <1>2. UNCHANGED <<elections, failures>>
    BY DEF CreateQuestion
  <1>3. CASE MayEdit(e, "editQuestions", FALSE) /\ q0.place \notin DOMAIN questions[e]
    <2>1. /\ questions' = [questions EXCEPT ![e] =
               [o \in {q0.place} \cup DOMAIN @ |->
                  IF o = q0.place THEN [by |-> q0.kind, options |-> <<>>] ELSE @[o]]]
          /\ requests'[r] = q
      BY <1>3 DEF CreateQuestion, Proceed, ContentInv, ContentTypeOK
    <2>2. q0.place \in Before(Questions)
      <3>1. 0 \in Before(Questions)
        BY ElectionContentAssumption DEF Before
      <3>2. QED
        BY <1>1, <3>1 DEF RequestFits, WizardFits, QuickFits
    <2>3. NewFacts(e, q0.place, q0.kind)
      <3>1. questions \in [Elections -> Sheets]
        BY DEF ContentInv, ContentTypeOK
      <3> HIDE DEF q0, e
      <3>2. QED
        BY <1>1, <2>1, <2>2, <3>1, NewQuestionFacts
    <2>4. /\ q.kind = q0.kind /\ q.election = e /\ q.pc = "option" /\ q.next = 0
          /\ q.place = q0.place
      BY <1>1 DEF Request, RequestFits, CreationFits
    <2>5. elections[e].state = "draft"
      BY <1>3, MayEditDraft
    <2>6. DOMAIN <<>> = Before(0) /\ Before(0) = {}
      BY DEF Before
    <2>7. q0.kind = "wizard" => q0.place = 0
      BY <1>1 DEF RequestFits, WizardFits
    <2> HIDE DEF q
    <2>8. WizardInStep(q, questions'[e])
      BY <2>3, <2>4, <2>6, <2>7 DEF WizardInStep, NewFacts
    <2>9. ChainInStep(q, elections[q.election], questions'[q.election])
      BY <1>1, <2>4, <2>5, <2>8 DEF ChainInStep, ReviewLooked, DraftHeld, EditInStep
    <2>10. SoundOrInHand(q, e, q0.place, questions'[e][q0.place])
      BY <2>3, <2>4 DEF SoundOrInHand, InHand, NewFacts
    <2>11. /\ \A f \in Elections \ {e} : questions'[f] = questions[f]
           /\ DOMAIN questions'[e] \subseteq DOMAIN questions[e] \cup {q0.place}
           /\ \A o \in DOMAIN questions[e] \ {q0.place} : questions'[e][o] = questions[e][o]
      BY <2>3 DEF NewFacts
    <2>12. q0.election = e /\ elections[e].state # "ready_for_review"
      BY <2>5
    <2> DEFINE place == q0.place
    <2>13. requests[r].place = place /\ requests[r].election = e
      OBVIOUS
    <2> HIDE DEF e, place
    <2>14. QED
      BY <1>1, <1>2, <2>1, <2>9, <2>10, <2>11, <2>12, <2>13, SoloPuts DEF place
  <1>4. CASE ~(MayEdit(e, "editQuestions", FALSE) /\ q0.place \notin DOMAIN questions[e])
    <2>1. Finish(r) /\ UNCHANGED questions
      BY <1>4 DEF CreateQuestion
    <2>2. QED
      BY <1>1, <1>2, <2>1, SoloEnds
  <1>5. QED
    BY <1>3, <1>4

\* The options the wizard has written when it is done
LEMMA WizardDone ==
  ASSUME NEW there \in Sheets, NEW rows \in Seq(Row), Cardinality(Filled(rows)) >= 2,
         Distinct(LabelsOf(rows)), 0 \in DOMAIN there,
         DOMAIN there[0].options = Before(Len(OptionsOf(rows))),
         \A i \in Before(Len(OptionsOf(rows))) :
           there[0].options[i].label = OptionsOf(rows)[i + 1].label
  PROVE  Enough(there[0].options) /\ Different(there[0].options)
  <1> DEFINE n == Cardinality(Filled(rows))
  <1>1. n \in Nat /\ n >= 2 /\ Len(OptionsOf(rows)) = n
    BY FilledFacts, OptionsOfFacts
  <1>2. {0, 1} \subseteq DOMAIN there[0].options /\ there[0].options \in Choices
    BY <1>1, SheetFacts DEF Before
  <1>3. Enough(there[0].options)
    BY <1>2, EnoughFacts
  <1>4. ASSUME NEW i \in Before(n), NEW j \in Before(n),
               there[0].options[i].label = there[0].options[j].label
        PROVE  i = j
    <2>1. OptionsOf(rows)[i + 1].label = OptionsOf(rows)[j + 1].label
      BY <1>1, <1>4
    <2>2. i + 1 \in 1..n /\ j + 1 \in 1..n /\ i \in Int /\ j \in Int
      BY <1>1 DEF Before
    <2> DEFINE k == i + 1
               l == j + 1
    <2> HIDE DEF k, l
    <2>3. k = l
      BY <2>1, <2>2, OptionsDiffer DEF k, l
    <2>4. QED
      BY <2>2, <2>3 DEF k, l
  <1>5. QED
    BY <1>1, <1>3, <1>4 DEF Different

LEMMA CreateOptionSolo ==
  ASSUME ContentInv, NEW r \in Requests, SoloFor(r), CreateOption(r)
  PROVE  SoloFor(r)'
  <1> DEFINE e     == requests[r].election
             q0    == requests[r]
             place == requests[r].place
  <1>1. /\ q0 \in Request /\ q0.pc = "option" /\ q0.kind \in {"wizard", "quick"}
        /\ RequestFits(q0, questions[e], Existing)
        /\ e \in Elections /\ questions[e] \in Sheets
    BY RequestTyped DEF CreateOption
  <1>2. UNCHANGED <<elections, failures>>
    BY DEF CreateOption
  <1>3. /\ q0.rows \in Seq(Row) /\ place \in Nat /\ q0.next \in Nat
        /\ Len(q0.rows) <= Places /\ place \in DOMAIN questions[e]
        /\ questions[e][place].by = q0.kind
        /\ Before(q0.next) \subseteq DOMAIN questions[e][place].options
        /\ q0.next <= Len(OptionsOf(q0.rows))
    BY <1>1 DEF Request, RequestFits, WizardFits, QuickFits, CreationFits
  <1>4. q0.kind = "wizard" =>
          /\ place = 0 /\ elections[e].state = "draft"
          /\ Cardinality(Filled(q0.rows)) >= 2 /\ Distinct(LabelsOf(q0.rows))
          /\ DOMAIN questions[e][0].options = Before(q0.next)
          /\ \A i \in Before(q0.next) :
               questions[e][0].options[i].label = OptionsOf(q0.rows)[i + 1].label
    <2>1. ChainInStep(q0, elections[e], questions[e])
      BY DEF SoloFor
    <2>2. WizardFits(q0)
      BY <1>1 DEF RequestFits
    <2> HIDE DEF q0, e
    <2>3. QED
      BY <1>1, <2>1, <2>2 DEF ChainInStep, DraftHeld, WizardInStep, WizardFits, place, q0
  <1>5. CASE q0.next = Len(OptionsOf(q0.rows))
    <2>1. UNCHANGED <<elections, questions, failures>>
      BY <1>2, <1>5 DEF CreateOption
    <2>2. CASE q0.kind = "wizard"
      <3> DEFINE q == [requests[r] EXCEPT !.pc = "voters"]
      <3>1. requests'[r] = q
        BY <1>5, <2>2 DEF CreateOption, Proceed, ContentInv, ContentTypeOK
      <3>2. q.election = e /\ q.pc = "voters" /\ q.place = 0 /\ q.kind = "wizard"
        BY <1>1, <1>4, <2>2 DEF Request
      <3>3. Enough(questions[e][0].options) /\ Different(questions[e][0].options)
        <4>1. 0 \in DOMAIN questions[e]
          BY <1>3, <1>4, <2>2
        <4> DEFINE rows == q0.rows
        <4>2. rows \in Seq(Row)
          BY <1>3
        <4> HIDE DEF e
        <4>3. QED
          BY <1>1, <1>4, <1>5, <2>2, <4>1, <4>2, WizardDone
      <3> HIDE DEF q
      <3>4. ChainInStep(q, elections[e], questions[e])
        BY <1>4, <2>2, <3>2
        DEF ChainInStep, ReviewLooked, DraftHeld, WizardInStep, EditInStep
      <3>5. failures = 0 => SoundOrInHand(q, e, place, questions'[e][place])
        BY <1>4, <2>1, <2>2, <3>3 DEF SoundOrInHand
      <3>6. ChainInStep(q, elections[q.election], questions'[q.election])
        BY <2>1, <3>2, <3>4
      <3>7. elections[e].state # "ready_for_review"
        BY <1>4, <2>2
      <3>8. requests[r].election = e /\ requests[r].place = place
        OBVIOUS
      <3> HIDE DEF e, place, q0
      <3>9. QED
        BY <1>1, <2>1, <3>1, <3>5, <3>6, <3>7, <3>8, SoloPuts
    <2>3. CASE q0.kind = "quick"
      <3>1. Finish(r)
        BY <1>5, <2>3 DEF CreateOption
      <3>2. QED
        BY <2>1, <2>3, <3>1, SoloEnds
    <2>4. QED
      BY <1>1, <2>2, <2>3
  <1>6. CASE /\ q0.next # Len(OptionsOf(q0.rows)) /\ MayEdit(e, "editOptions", FALSE)
             /\ q0.next \notin DOMAIN questions[e][place].options
    <2> DEFINE q      == [requests[r] EXCEPT !.next = @ + 1]
               option == OptionsOf(q0.rows)[q0.next + 1]
    <2>1. requests'[r] = q /\ PutOption(e, place, q0.next, option)
      BY <1>6 DEF CreateOption, ContentInv, ContentTypeOK
    <2>2. /\ Len(OptionsOf(q0.rows)) \in Nat /\ Len(OptionsOf(q0.rows)) <= Len(q0.rows)
          /\ q0.next + 1 \in 1..Len(OptionsOf(q0.rows)) /\ q0.next < Places
      BY <1>3, <1>6, OptionsOfFacts, ElectionContentAssumption, SMTT(30)
    <2>3. option \in Option
      BY <1>3, <2>2, OptionsOfFacts
    <2>4. PutFacts(e, place, q0.next, option)
      <3>1. questions \in [Elections -> Sheets]
        BY DEF ContentInv, ContentTypeOK
      <3> HIDE DEF e, q0, option, place
      <3>2. QED
        BY <1>1, <1>3, <2>1, <2>2, <2>3, <3>1, PutOptionFacts
    <2>5. /\ q.kind = q0.kind /\ q.election = e /\ q.pc = "option" /\ q.place = place
          /\ q.next = q0.next + 1 /\ q.rows = q0.rows
      BY <1>1 DEF Request
    <2>6. elections[e].state = "draft"
      BY <1>6, MayEditDraft
    <2> HIDE DEF q
    <2>7. WizardInStep(q, questions'[e])
      <3>1. SUFFICES ASSUME q0.kind = "wizard"
                     PROVE  /\ DOMAIN questions'[e][0].options = Before(q0.next + 1)
                            /\ \A i \in Before(q0.next + 1) :
                                 questions'[e][0].options[i].label
                                   = OptionsOf(q0.rows)[i + 1].label
        BY <2>5 DEF WizardInStep
      <3>2. Before(q0.next + 1) = {q0.next} \cup Before(q0.next)
        BY <1>3 DEF Before
      <3>3. q0.next \notin Before(q0.next)
        BY <1>3 DEF Before
      <3>4. PutFacts(e, 0, q0.next, option)
        BY <1>4, <2>4, <3>1
      <3>5. DOMAIN questions'[e][0].options = Before(q0.next + 1)
        BY <1>4, <3>1, <3>2, <3>4 DEF PutFacts
      <3>6. \A i \in Before(q0.next) : questions'[e][0].options[i] = questions[e][0].options[i]
        BY <1>4, <3>1, <3>3, <3>4 DEF PutFacts
      <3>7. questions'[e][0].options[q0.next] = OptionsOf(q0.rows)[q0.next + 1]
        BY <3>4 DEF PutFacts
      <3> HIDE DEF e, q0, option
      <3>8. QED
        BY <1>4, <3>1, <3>2, <3>5, <3>6, <3>7
    <2>8. ChainInStep(q, elections[q.election], questions'[q.election])
      BY <1>1, <2>5, <2>6, <2>7 DEF ChainInStep, ReviewLooked, DraftHeld, EditInStep
    <2>9. SoundOrInHand(q, e, place, questions'[e][place])
      BY <1>1, <1>3, <2>4, <2>5 DEF SoundOrInHand, InHand, PutFacts
    <2>10. /\ \A f \in Elections \ {e} : questions'[f] = questions[f]
           /\ DOMAIN questions'[e] \subseteq DOMAIN questions[e] \cup {place}
           /\ \A o \in DOMAIN questions[e] \ {place} : questions'[e][o] = questions[e][o]
      BY <2>4 DEF PutFacts
    <2>11. /\ elections[e].state # "ready_for_review"
           /\ requests[r].election = e /\ requests[r].place = place
      BY <2>6
    <2> HIDE DEF e, place, q0, option
    <2>12. QED
      BY <1>1, <1>2, <2>1, <2>8, <2>9, <2>10, <2>11, SoloPuts
  <1>7. CASE /\ q0.next # Len(OptionsOf(q0.rows))
             /\ ~(/\ MayEdit(e, "editOptions", FALSE)
                  /\ q0.next \notin DOMAIN questions[e][place].options)
    <2>1. Finish(r) /\ UNCHANGED questions
      BY <1>7 DEF CreateOption
    <2>2. q0.kind # "wizard"
      <3>1. ASSUME q0.kind = "wizard" PROVE FALSE
        <4>1. MayEdit(e, "editOptions", FALSE)
          BY <1>4, <3>1, MayEditDraft
        <4>2. q0.next \notin DOMAIN questions[e][place].options
          BY <1>3, <1>4, <3>1 DEF Before
        <4>3. QED
          BY <1>7, <4>1, <4>2
      <3>2. QED
        BY <3>1
    <2>3. QED
      BY <1>1, <1>2, <2>1, <2>2, SoloEnds
  <1>8. QED
    BY <1>5, <1>6, <1>7

LEMMA ImportVotersSolo ==
  ASSUME ContentInv, NEW r \in Requests, SoloFor(r), ImportVoters(r)
  PROVE  SoloFor(r)'
  <1> DEFINE e == requests[r].election
  <1>1. UNCHANGED <<questions, failures>> /\ requests[r].pc = "voters" /\ requests'[r] = Rest
    BY DEF ImportVoters, Finish, ContentInv, ContentTypeOK
  <1>2. \A f \in Elections : elections'[f].state = elections[f].state
    <2>1. elections \in [Elections -> ElectionRow]
      BY DEF ContentInv, ContentTypeOK
    <2>2. CASE ~MayEdit(e, "editVoterRegistry", TRUE)
      <3>1. elections' = elections
        BY <2>2, Zenon DEF ImportVoters
      <3>2. QED
        BY <3>1
    <2>3. CASE MayEdit(e, "editVoterRegistry", TRUE)
      <3> DEFINE named == NamedBy[requests[r].file]
                 new   == named \ elections[e].people
                 total == Cardinality(named)
                 valid == Cardinality(new)
                 by    == IF requests[r].kind = "wizard" THEN "wizard" ELSE "page"
      <3>1. elections' = [elections EXCEPT ![e].people = @ \cup new, ![e].total = total,
                                           ![e].valid = valid, ![e].listedBy = by]
        BY <2>3, Zenon DEF ImportVoters
      <3> HIDE DEF e, new, total, valid, by
      <3>2. QED
        BY <2>1, <3>1 DEF ElectionRow
    <2>4. QED
      BY <2>2, <2>3
  <1>3. ChainInStep(Rest, elections'[Rest.election], questions[Rest.election])
    BY RestInStep
  <1>4. QED
    BY <1>1, <1>2, <1>3, SoloMoves

LEMMA SubmitEditSolo ==
  ASSUME ContentInv, NEW r \in Requests, SoloFor(r), SubmitEdit(r)
  PROVE  SoloFor(r)'
  <1> DEFINE e  == requests[r].election
             q0 == requests[r]
  <1>1. /\ q0 \in Request /\ q0.pc = "form" /\ RequestFits(q0, questions[e], Existing)
        /\ e \in Elections /\ questions[e] \in Sheets
    BY RequestTyped DEF SubmitEdit
  <1>2. UNCHANGED <<elections, questions, failures>>
    BY DEF SubmitEdit
  <1>3. PICK edit \in EditsOf(q0.shown) :
          IF Editable(e) /\ DOMAIN q0.shown = DOMAIN questions[e]
            THEN requests' = [requests EXCEPT
                   ![r].pc = "question", ![r].shown = Edited(q0.shown, edit),
                   ![r].stale = StaleOptions(q0.shown, questions[e]),
                   ![r].rows = <<[title |-> edit.more, described |-> FALSE]>>,
                   ![r].added = edit.place]
            ELSE Finish(r)
    BY DEF SubmitEdit
  <1>4. CASE Editable(e) /\ DOMAIN q0.shown = DOMAIN questions[e]
    <2> DEFINE shown == Edited(q0.shown, edit)
               stale == StaleOptions(q0.shown, questions[e])
               rows  == <<[title |-> edit.more, described |-> FALSE]>>
               added == edit.place
               q     == [requests[r] EXCEPT !.pc = "question", !.shown = shown,
                                            !.stale = stale, !.rows = rows, !.added = added]
    <2>1. requests'[r] = q
      BY <1>3, <1>4 DEF ContentInv, ContentTypeOK
    <2>2. /\ DOMAIN shown = DOMAIN q0.shown
          /\ \A o \in DOMAIN shown : DOMAIN shown[o].options = DOMAIN q0.shown[o].options
      <3>1. q0.shown \in Sheets
        BY <1>1 DEF Request
      <3>2. QED
        BY <1>3, <3>1, EditedFacts
    <2>3. \A o \in DOMAIN shown \ stale : DOMAIN shown[o].options = DOMAIN questions[e][o].options
      BY <1>4, <2>2 DEF StaleOptions
    <2> HIDE DEF shown, stale, rows, added
    <2>4. /\ q.kind = q0.kind /\ q.pc = "question" /\ q.election = e
          /\ q.shown = shown /\ q.stale = stale
      BY <1>1 DEF Request
    <2> HIDE DEF q
    <2>5. q0.kind = "edit" /\ elections[e].state = "draft"
      BY <1>1, <1>4 DEF RequestFits, InStep, StepsOf, Editable
    <2>6. ChainInStep(q, elections'[q.election], questions[q.election])
      BY <1>2, <2>3, <2>4, <2>5
      DEF ChainInStep, ReviewLooked, DraftHeld, WizardInStep, EditInStep
    <2> HIDE DEF q0, e
    <2>7. requests[r].pc # "option"
      BY <1>1 DEF q0
    <2>8. QED
      BY <1>2, <2>1, <2>6, <2>7, SoloMoves
  <1>5. CASE ~(Editable(e) /\ DOMAIN q0.shown = DOMAIN questions[e])
    <2>1. Finish(r)
      BY <1>3, <1>5
    <2>2. QED
      BY <1>1, <1>2, <2>1, SoloEnds
  <1>6. QED
    BY <1>4, <1>5

LEMMA SameQuestionValid ==
  ASSUME NEW p, NEW q, QuestionValid(q), p.shown = q.shown, p.place = q.place,
         p.rows = q.rows, p.added = q.added
  PROVE  QuestionValid(p)
  <1>1. Appended(p) = Appended(q)
    BY DEF Appended
  <1>2. QED
    BY <1>1 DEF QuestionValid

LEMMA UpdateQuestionSolo ==
  ASSUME ContentInv, NEW r \in Requests, SoloFor(r), UpdateQuestion(r)
  PROVE  SoloFor(r)'
  <1> DEFINE e  == requests[r].election
             q0 == requests[r]
             q  == [requests[r] EXCEPT !.pc = "option", !.next = 0]
  <1>1. q0 \in Request /\ q0.pc = "question" /\ q0.kind = "edit" /\ e \in Elections
    BY RequestTyped DEF UpdateQuestion
  <1>2. UNCHANGED <<elections, questions, failures>>
    BY DEF UpdateQuestion
  <1>3. ASSUME q0.place \notin q0.stale, QuestionValid(q0),
               requests' = [requests EXCEPT ![r] = q]
        PROVE  SoloFor(r)'
    <2>1. /\ q.pc = "option" /\ q.next = 0 /\ q.kind = "edit" /\ q.election = e
          /\ q.place = q0.place /\ q.shown = q0.shown /\ q.stale = q0.stale
          /\ q.rows = q0.rows /\ q.added = q0.added
      BY <1>1 DEF Request
    <2>2. requests'[r] = q
      BY <1>3 DEF ContentInv, ContentTypeOK
    <2> HIDE DEF q
    <2>3. QuestionValid(q)
      <3> HIDE DEF q0
      <3>1. QED
        BY <1>3, <2>1, SameQuestionValid
    <2>4. Before(0) = {}
      BY DEF Before
    <2>5. ChainInStep(q0, elections[e], questions[e])
      BY DEF SoloFor
    <2> HIDE DEF q0, e
    <2>6. DraftHeld(q, elections[e]) /\ EditInStep(q, questions[e])
      BY <1>1, <1>3, <2>1, <2>3, <2>4, <2>5 DEF ChainInStep, DraftHeld, EditInStep
    <2>7. ChainInStep(q, elections'[q.election], questions[q.election])
      BY <1>2, <2>1, <2>6 DEF ChainInStep, ReviewLooked, WizardInStep
    <2>8. requests[r].pc # "option"
      BY <1>1 DEF q0
    <2>9. QED
      BY <1>2, <2>2, <2>7, <2>8, SoloMoves
  <1>4. CASE Finish(r)
    BY <1>1, <1>2, <1>4, SoloEnds
  <1>5. QED
    BY <1>3, <1>4 DEF UpdateQuestion

\* What an edit knows of the question it is at
LEMMA EditFacts ==
  ASSUME ContentInv, NEW r \in Requests, SoloFor(r), NEW q, q = requests[r],
         NEW e, e = q.election, q.kind = "edit", q.pc \in {"option", "append"}
  PROVE  /\ q \in Request /\ e \in Elections /\ questions[e] \in Sheets
         /\ q.place \in DOMAIN questions[e] /\ q.place \in DOMAIN q.shown
         /\ q.place \in Nat /\ q.next \in Nat /\ q.shown \in Sheets
         /\ DOMAIN q.shown \subseteq Nat
         /\ q.shown[q.place].options \in Choices
         /\ questions[e][q.place].options \in Choices
         /\ DOMAIN q.shown[q.place].options = DOMAIN questions[e][q.place].options
         /\ elections[e].state = "draft" /\ QuestionValid(q)
         /\ EditInStep(q, questions[e])
         /\ q.pc = "option" => Before(q.next) \subseteq DOMAIN q.shown[q.place].options
  <1>1. /\ q \in Request /\ RequestFits(q, questions[e], Existing)
        /\ e \in Elections /\ questions[e] \in Sheets
    BY RequestTyped
  <1>2. ChainInStep(q, elections[e], questions[e])
    BY DEF SoloFor
  <1>3. /\ q.place \in DOMAIN questions[e] /\ q.place \in DOMAIN q.shown
        /\ q.pc = "option" => Before(q.next) \subseteq DOMAIN q.shown[q.place].options
    BY <1>1 DEF RequestFits, ShownFits
  <1>4. q.shown \in Sheets /\ q.place \in Nat /\ q.next \in Nat
    BY <1>1 DEF Request
  <1>5. /\ q.shown[q.place].options \in Choices
        /\ questions[e][q.place].options \in Choices
        /\ DOMAIN q.shown \subseteq Before(Questions)
    BY <1>1, <1>3, <1>4, SheetFacts
  <1>6. elections[e].state = "draft" /\ EditInStep(q, questions[e])
    BY <1>2 DEF ChainInStep, DraftHeld
  <1>7. q.place \notin q.stale /\ QuestionValid(q)
    BY <1>6 DEF EditInStep
  <1>8. DOMAIN q.shown[q.place].options = DOMAIN questions[e][q.place].options
    BY <1>3, <1>4, <1>6, <1>7 DEF EditInStep
  <1>9. DOMAIN q.shown \subseteq Nat
    BY <1>5, ElectionContentAssumption DEF Before
  <1>10. QED
    BY <1>1, <1>3, <1>4, <1>5, <1>6, <1>7, <1>8, <1>9

\* What is sound or in hand is enough, unless the wizard is at it.
LEMMA EnoughHere ==
  ASSUME NEW r \in Requests, SoloFor(r), requests[r].kind # "wizard", failures = 0,
         NEW e \in Elections, NEW o \in DOMAIN questions[e], questions[e][o].by = "wizard"
  PROVE  /\ Enough(questions[e][o].options)
         /\ requests[r].pc # "option" => Different(questions[e][o].options)
  <1>1. SoundOrInHand(requests[r], e, o, questions[e][o])
    BY DEF SoloFor
  <1>2. QED
    BY <1>1 DEF SoundOrInHand, InHand

LEMMA UpdateOptionSolo ==
  ASSUME ContentInv, NEW r \in Requests, SoloFor(r), UpdateOption(r)
  PROVE  SoloFor(r)'
  <1> DEFINE e       == requests[r].election
             q0      == requests[r]
             place   == requests[r].place
             old     == q0.shown[place].options
             options == questions[e][place].options
  <1>1. q0.pc = "option" /\ q0.kind = "edit" /\ UNCHANGED <<elections, failures>>
    BY DEF UpdateOption
  <1>2. /\ q0 \in Request /\ e \in Elections /\ questions[e] \in Sheets
        /\ place \in DOMAIN questions[e] /\ place \in DOMAIN q0.shown
        /\ place \in Nat /\ q0.next \in Nat /\ q0.shown \in Sheets
        /\ old \in Choices /\ options \in Choices /\ DOMAIN old = DOMAIN options
        /\ elections[e].state = "draft" /\ QuestionValid(q0)
        /\ EditInStep(q0, questions[e]) /\ Before(q0.next) \subseteq DOMAIN old
    BY <1>1, EditFacts
  <1>3. /\ requests[r].election = e /\ requests[r].place = place
        /\ elections[e].state # "ready_for_review"
    BY <1>2
  <1>4. CASE q0.next \notin DOMAIN old
    <2> DEFINE q == [requests[r] EXCEPT !.pc = "append"]
    <2>1. requests'[r] = q /\ UNCHANGED questions
      BY <1>4 DEF UpdateOption, Proceed, ContentInv, ContentTypeOK
    <2>2. /\ q.pc = "append" /\ q.kind = "edit" /\ q.election = e
          /\ q.place = place /\ q.shown = q0.shown /\ q.stale = q0.stale
          /\ q.rows = q0.rows /\ q.added = q0.added
      BY <1>1, <1>2 DEF Request
    <2>3. DOMAIN old = Before(q0.next)
      <3>1. PICK n \in 0..Places : DOMAIN old = Before(n)
        BY <1>2, ChoicesFacts
      <3>2. n = q0.next
        <4>1. ~(q0.next < n)
          BY <1>2, <1>4, <3>1 DEF Before
        <4>2. ASSUME n < q0.next PROVE FALSE
          <5>1. n \in Before(q0.next) /\ n \notin Before(n)
            BY <1>2, <4>2 DEF Before
          <5>2. QED
            BY <1>2, <3>1, <5>1
        <4>3. QED
          BY <1>2, <4>1, <4>2
      <3>3. QED
        BY <3>1, <3>2
    <2>4. \A i \in DOMAIN old : options[i].label = old[i].label
      BY <1>1, <1>2, <2>3 DEF EditInStep
    <2>5. Different(options)
      BY <1>2, <2>4 DEF Different, QuestionValid
    <2> HIDE DEF q
    <2>6. QuestionValid(q)
      <3> HIDE DEF q0
      <3>1. QED
        BY <1>2, <2>2, SameQuestionValid DEF q0
    <2>7. EditInStep(q, questions[e])
      <3> HIDE DEF e
      <3>1. QED
        BY <1>1, <1>2, <2>2, <2>4, <2>6 DEF EditInStep
    <2>8. ChainInStep(q, elections[q.election], questions'[q.election])
      BY <1>2, <2>1, <2>2, <2>7 DEF ChainInStep, ReviewLooked, DraftHeld, WizardInStep
    <2>9. failures = 0 => SoundOrInHand(q, e, place, questions'[e][place])
      <3>1. ASSUME failures = 0, questions[e][place].by = "wizard"
            PROVE  Enough(questions[e][place].options)
        <4> HIDE DEF e, place
        <4>1. QED
          BY <1>1, <1>2, <3>1, EnoughHere DEF q0
      <3>2. QED
        BY <2>1, <2>5, <3>1 DEF SoundOrInHand
    <2>10. /\ \A f \in Elections \ {e} : questions'[f] = questions[f]
           /\ DOMAIN questions'[e] \subseteq DOMAIN questions[e] \cup {place}
           /\ \A o \in DOMAIN questions[e] \ {place} : questions'[e][o] = questions[e][o]
      BY <2>1
    <2> HIDE DEF e, place, q0
    <2>11. QED
      BY <1>1, <1>2, <1>3, <2>1, <2>8, <2>9, <2>10, SoloPuts
  <1>5. CASE q0.next \in DOMAIN old /\ MayEdit(e, "editOptions", TRUE)
    <2> DEFINE q      == [requests[r] EXCEPT !.next = @ + 1]
               option == old[q0.next]
    <2>1. requests'[r] = q /\ PutOption(e, place, q0.next, option)
      BY <1>5 DEF UpdateOption, ContentInv, ContentTypeOK
    <2>2. option \in Option
      BY <1>2, <1>5, ChoicesFacts
    <2>3. PutFacts(e, place, q0.next, option)
      <3>1. questions \in [Elections -> Sheets]
        BY DEF ContentInv, ContentTypeOK
      <3> HIDE DEF e, q0, option, place
      <3>2. QED
        BY <1>2, <1>5, <2>1, <2>2, <3>1, PutOptionFacts
    <2>4. /\ q.pc = "option" /\ q.kind = "edit" /\ q.election = e
          /\ q.place = place /\ q.shown = q0.shown /\ q.stale = q0.stale
          /\ q.rows = q0.rows /\ q.added = q0.added /\ q.next = q0.next + 1
      BY <1>1, <1>2 DEF Request
    <2>5. DOMAIN questions'[e][place].options = DOMAIN options
      BY <1>2, <1>5, <2>3 DEF PutFacts
    <2>6. /\ \A f \in Elections \ {e} : questions'[f] = questions[f]
          /\ DOMAIN questions'[e] \subseteq DOMAIN questions[e] \cup {place}
          /\ \A o \in DOMAIN questions[e] \ {place} : questions'[e][o] = questions[e][o]
          /\ questions'[e][place].by = questions[e][place].by
      BY <2>3 DEF PutFacts
    <2> HIDE DEF q
    <2>7. QuestionValid(q)
      <3> HIDE DEF q0
      <3>1. QED
        BY <1>2, <2>4, SameQuestionValid DEF q0
    <2>8. \A i \in Before(q0.next + 1) :
            questions'[e][place].options[i].label = old[i].label
      <3>1. Before(q0.next + 1) = {q0.next} \cup Before(q0.next)
            /\ q0.next \notin Before(q0.next)
        BY <1>2 DEF Before
      <3>2. \A i \in Before(q0.next) : options[i].label = old[i].label
        BY <1>1, <1>2 DEF EditInStep
      <3>3. \A i \in Before(q0.next) : questions'[e][place].options[i] = options[i]
        BY <1>2, <2>3, <3>1 DEF PutFacts
      <3>4. questions'[e][place].options[q0.next] = old[q0.next]
        BY <2>3 DEF PutFacts
      <3> HIDE DEF old, options, e, place, q0
      <3>5. QED
        BY <3>1, <3>2, <3>3, <3>4
    <2>9. EditInStep(q, questions'[e])
      <3>1. ASSUME NEW o \in DOMAIN q0.shown \ q0.stale, place <= o
            PROVE  DOMAIN q0.shown[o].options = DOMAIN questions'[e][o].options
        <4>1. DOMAIN q0.shown[o].options = DOMAIN questions[e][o].options
          BY <1>1, <1>2, <3>1 DEF EditInStep
        <4>2. CASE o = place
          BY <4>1, <4>2, <2>5
        <4>3. CASE o # place
          <5>1. o \in DOMAIN questions[e]
            BY <1>1, RequestTyped DEF RequestFits, ShownFits
          <5>2. QED
            BY <4>1, <4>3, <5>1, <2>6
        <4>4. QED
          BY <4>2, <4>3
      <3>2. place \notin q0.stale
        BY <1>1, <1>2 DEF EditInStep
      <3> HIDE DEF e, q0, place
      <3>3. QED
        BY <2>4, <2>7, <2>8, <3>1, <3>2 DEF EditInStep, old
    <2>10. ChainInStep(q, elections[q.election], questions'[q.election])
      BY <1>2, <2>4, <2>9 DEF ChainInStep, ReviewLooked, DraftHeld, WizardInStep
    <2>11. failures = 0 => SoundOrInHand(q, e, place, questions'[e][place])
      <3>1. ASSUME failures = 0, questions[e][place].by = "wizard"
            PROVE  Enough(questions[e][place].options)
        <4> HIDE DEF e, place
        <4>1. QED
          BY <1>1, <1>2, <3>1, EnoughHere DEF q0
      <3>2. QED
        BY <2>4, <2>5, <2>6, <3>1 DEF SoundOrInHand, Enough, InHand
    <2> HIDE DEF e, place, q0
    <2>12. QED
      BY <1>1, <1>2, <1>3, <2>1, <2>6, <2>10, <2>11, SoloPuts
  <1>6. CASE q0.next \in DOMAIN old /\ ~MayEdit(e, "editOptions", TRUE)
    BY <1>2, <1>6, MayEditDraft
  <1>7. QED
    BY <1>4, <1>5, <1>6

LEMMA AppendOptionsSolo ==
  ASSUME ContentInv, NEW r \in Requests, SoloFor(r), AppendOptions(r)
  PROVE  SoloFor(r)'
  <1> DEFINE e       == requests[r].election
             q0      == requests[r]
             place   == requests[r].place
             old     == q0.shown[place].options
             options == questions[e][place].options
             order   == NextDisplayOrder(old)
             q       == [requests[r] EXCEPT !.pc = "question", !.place = @ + 1]
  <1>1. q0.pc = "append" /\ q0.kind = "edit" /\ UNCHANGED <<elections, failures>>
    BY RequestTyped DEF AppendOptions, RequestFits, InStep, StepsOf
  <1>2. /\ q0 \in Request /\ e \in Elections /\ questions[e] \in Sheets
        /\ place \in DOMAIN questions[e] /\ place \in Nat /\ DOMAIN q0.shown \subseteq Nat
        /\ old \in Choices /\ options \in Choices /\ DOMAIN old = DOMAIN options
        /\ elections[e].state = "draft" /\ QuestionValid(q0)
        /\ EditInStep(q0, questions[e])
    BY <1>1, EditFacts
  <1>3. /\ requests[r].election = e /\ requests[r].place = place
        /\ elections[e].state # "ready_for_review"
    BY <1>2
  <1>4. /\ q.pc = "question" /\ q.kind = "edit" /\ q.election = e
        /\ q.place = place + 1 /\ q.shown = q0.shown /\ q.stale = q0.stale
    BY <1>1, <1>2 DEF Request
  <1> HIDE DEF q
  <1>5. ASSUME NEW more, \A o \in DOMAIN questions[e] \ {place} : more[o] = questions[e][o]
        PROVE  ChainInStep(q, elections[e], more)
    <2>1. ASSUME NEW o \in DOMAIN q0.shown \ q0.stale, place + 1 <= o
          PROVE  DOMAIN q0.shown[o].options = DOMAIN more[o].options
      <3>1. o # place /\ place <= o
        BY <1>2, <2>1
      <3>2. o \in DOMAIN questions[e]
        BY <1>1, RequestTyped DEF RequestFits, ShownFits
      <3>3. DOMAIN q0.shown[o].options = DOMAIN questions[e][o].options
        BY <1>1, <1>2, <3>1 DEF EditInStep
      <3>4. QED
        BY <1>5, <3>1, <3>2, <3>3
    <2> HIDE DEF e, q0, place
    <2>2. QED
      BY <1>2, <1>4, <2>1 DEF ChainInStep, ReviewLooked, DraftHeld, WizardInStep, EditInStep
  <1>6. CASE Appended(q0) = <<>>
    <2>1. requests'[r] = q /\ UNCHANGED questions
      BY <1>6 DEF AppendOptions, ContentInv, ContentTypeOK, q
    <2>2. ChainInStep(q, elections'[q.election], questions[q.election])
      BY <1>1, <1>4, <1>5
    <2>3. QED
      BY <1>1, <2>1, <2>2, SoloMoves
  <1>7. CASE /\ Appended(q0) # <<>> /\ MayEdit(e, "editOptions", FALSE) /\ order \in Orders
             /\ order \notin DOMAIN options
    <2> DEFINE option == Appended(q0)[1]
    <2>1. requests'[r] = q /\ PutOption(e, place, order, option)
      BY <1>7 DEF AppendOptions, ContentInv, ContentTypeOK, q
    <2>2. DOMAIN old = Before(order)
      BY <1>2, NextDisplayOrderFacts
    <2>3. order \in Nat /\ order < Places
      <3> HIDE DEF order
      <3>1. QED
        BY <1>7, ElectionContentAssumption DEF Orders
    <2>4. option \in Option /\ 1 \in DOMAIN Appended(q0)
      BY <1>2, <1>7, AppendedFacts
    <2>5. PutFacts(e, place, order, option)
      <3>1. questions \in [Elections -> Sheets]
        BY DEF ContentInv, ContentTypeOK
      <3>2. Before(order) \subseteq DOMAIN questions[e][place].options
        BY <1>2, <2>2
      <3> HIDE DEF e, q0, option, place, order
      <3>3. QED
        BY <1>2, <2>1, <2>3, <2>4, <3>1, <3>2, PutOptionFacts
    <2>6. \A i \in DOMAIN old : options[i].label = old[i].label /\ old[i].label # option.label
      <3>1. \A i \in DOMAIN old : options[i].label = old[i].label
        BY <1>1, <1>2 DEF EditInStep
      <3>2. \A i \in DOMAIN old : old[i].label # option.label
        BY <1>2, <2>4 DEF QuestionValid
      <3>3. QED
        BY <3>1, <3>2
    <2> HIDE DEF option, order
    <2>7. /\ \A f \in Elections \ {e} : questions'[f] = questions[f]
          /\ DOMAIN questions'[e] \subseteq DOMAIN questions[e] \cup {place}
          /\ \A o \in DOMAIN questions[e] \ {place} : questions'[e][o] = questions[e][o]
          /\ questions'[e][place].by = questions[e][place].by
          /\ questions'[e] \in Sheets /\ place \in DOMAIN questions'[e]
      BY <1>2, <2>5 DEF PutFacts
    <2> DEFINE more == questions'[e][place].options
    <2>8. /\ DOMAIN more = {order} \cup DOMAIN options /\ more[order] = option
          /\ \A i \in DOMAIN options : more[i] = options[i]
      BY <1>7, <2>5 DEF PutFacts
    <2>9. more \in Choices
      BY <2>7, SheetFacts
    <2>10. Different(options) => Different(more)
      <3> HIDE DEF more, options, old
      <3>1. QED
        BY <1>2, <1>7, <2>6, <2>8 DEF Different
    <2>11. Enough(options) => Enough(more)
      <3> HIDE DEF more, options
      <3>1. QED
        BY <1>2, <2>8, <2>9, EnoughFacts
    <2>12. failures = 0 => SoundOrInHand(q, e, place, questions'[e][place])
      <3>1. ASSUME failures = 0, questions[e][place].by = "wizard"
            PROVE  Enough(options) /\ Different(options)
        <4> HIDE DEF e, place
        <4>1. QED
          BY <1>1, <1>2, <3>1, EnoughHere DEF q0
      <3>2. QED
        BY <2>7, <2>10, <2>11, <3>1 DEF SoundOrInHand
    <2>13. ChainInStep(q, elections[q.election], questions'[q.election])
      BY <1>4, <1>5, <2>7
    <2> HIDE DEF e, place, q0, options, old, more
    <2>14. QED
      BY <1>1, <1>2, <1>3, <2>1, <2>7, <2>12, <2>13, SoloPuts
  <1>8. CASE /\ Appended(q0) # <<>>
             /\ ~(/\ MayEdit(e, "editOptions", FALSE) /\ order \in Orders
                  /\ order \notin DOMAIN options)
    <2>1. Finish(r) /\ UNCHANGED questions
      BY <1>8 DEF AppendOptions
    <2>2. QED
      BY <1>1, <2>1, SoloEnds
  <1>9. QED
    BY <1>6, <1>7, <1>8

LEMMA StepSolo ==
  ASSUME ContentInv, NEW r \in Requests, SoloFor(r), RequestStep(r)
  PROVE  SoloFor(r)'
  <1>1. CASE SubmitWizard(r) \/ OpenEditForm(r) \/ SubmitImport(r)
    BY <1>1, SubmitWizardSolo, OpenEditFormSolo, SubmitImportSolo
  <1>2. CASE SubmitQuestion(r) \/ SubmitReview(r)
    BY <1>2, SubmitQuestionSolo, SubmitReviewSolo
  <1>3. CASE UpdateInfo(r) \/ UpdatePolicy(r) \/ ConfigurePolicy(r) \/ OpenElection(r)
    BY <1>3, SingleCallSolo
  <1>4. CASE CreateDraft(r) \/ CreatePolicy(r) \/ CreateQuestion(r)
    BY <1>4, CreateDraftSolo, CreatePolicySolo, CreateQuestionSolo
  <1>5. CASE CreateOption(r) \/ ImportVoters(r)
    BY <1>5, CreateOptionSolo, ImportVotersSolo
  <1>6. CASE SubmitEdit(r) \/ UpdateQuestion(r)
    BY <1>6, SubmitEditSolo, UpdateQuestionSolo
  <1>7. CASE UpdateOption(r) \/ AppendOptions(r)
    BY <1>7, UpdateOptionSolo, AppendOptionsSolo
  <1>8. CASE RequestReview(r) \/ Fail(r)
    BY <1>8, RequestReviewSolo, FailSolo
  <1>9. QED
    BY <1>1, <1>2, <1>3, <1>4, <1>5, <1>6, <1>7, <1>8 DEF RequestStep

\* When all are idle, what one knows every other one knows.
LEMMA AllIdle ==
  ASSUME RequestsFit, NEW r \in Requests, NEW s \in Requests, SoloFor(r),
         Idle(requests[r]), Idle(requests[s])
  PROVE  SoloFor(s)
  <1>1. PICK q : q = requests[s]
    OBVIOUS
  <1>2. InStep(q) /\ Idle(q)
    BY <1>1 DEF RequestsFit, RequestFits
  <1>3. ChainInStep(q, elections[q.election], questions[q.election])
    BY <1>2, IdleInStep
  <1>4. ASSUME failures = 0, NEW e \in Elections, NEW o \in DOMAIN questions[e]
        PROVE  SoundOrInHand(q, e, o, questions[e][o])
    <2>1. SoundOrInHand(requests[r], e, o, questions[e][o])
      BY <1>4 DEF SoloFor
    <2>2. ~InHand(requests[r], e, o, {"wizard", "edit"})
      BY DEF InHand, Idle
    <2>3. QED
      BY <2>1, <2>2, SoundStays
  <1>5. QED
    BY <1>1, <1>3, <1>4 DEF SoloFor

LEMMA SoloInit ==
  ASSUME Init
  PROVE  SoloInv
  <1>1. PICK r \in Requests : TRUE
    BY ElectionContentAssumption
  <1>2. ChainInStep(requests[r], elections[requests[r].election],
                    questions[requests[r].election])
    BY RestInStep DEF Init
  <1>3. \A e \in Elections : DOMAIN questions[e] = {} /\ elections[e].state = "none"
    BY DEF Init, NoRow
  <1>4. \A s \in Requests : Idle(requests[s])
    BY DEF Init, Rest, Idle
  <1>5. QED
    BY <1>1, <1>2, <1>3, <1>4 DEF SoloInv, SoloFor, Reviewed

LEMMA SoloStep ==
  ASSUME ContentInv, SoloInv, [Next]_vars
  PROVE  SoloInv'
  <1>1. CASE UNCHANGED <<elections, questions, requests, failures, overlapped>>
    BY <1>1 DEF SoloInv, SoloFor, Reviewed
  <1>2. CASE UNCHANGED vars \/ BrowserStep \/ Tick
    BY <1>1, <1>2 DEF vars, BrowserStep, FillInfo, FillOptions, LoadFile, GoNext, GoBack, Keep,
                      Tick
  <1>3. ASSUME NEW r \in Requests, RequestStep(r), NoteOverlap(r), ~overlapped'
        PROVE  (\A s \in Requests \ {r} : Idle(requests'[s])) /\ SoloFor(r)'
    <2>1. ~overlapped /\ \A s \in Requests \ {r} : Idle(requests[s])
      BY <1>3 DEF NoteOverlap, Idle
    <2>2. PICK t \in Requests : (\A s \in Requests \ {t} : Idle(requests[s])) /\ SoloFor(t)
      BY <2>1 DEF SoloInv
    <2>3. SoloFor(r)
      <3>1. CASE t = r
        BY <2>2, <3>1
      <3>2. CASE t # r
        BY <2>1, <2>2, <3>2, AllIdle DEF ContentInv
      <3>3. QED
        BY <3>1, <3>2
    <2>4. SoloFor(r)'
      BY <1>3, <2>3, StepSolo
    <2>5. \A s \in Requests \ {r} : requests'[s] = requests[s]
      BY <1>3, StepKept DEF Kept
    <2>6. QED
      BY <2>1, <2>4, <2>5
  <1>4. QED
    BY <1>2, <1>3 DEF Next, BrowserStep, SoloInv

LEMMA SoloAlways == Spec => []SoloInv
  <1>1. Init => SoloInv
    BY SoloInit
  <1>2. ContentInv /\ SoloInv /\ [Next]_vars => SoloInv'
    BY SoloStep
  <1>3. QED
    BY <1>1, <1>2, ContentAlways, PTL DEF Spec

-----------------------------------------------------------------------------
(* What follows                                                            *)

(* The rows have their types, and the options of a question fill its       *)
(* places from the first on: displayOrder leaves no gap, whichever edits   *)
(* overlap and wherever a chain of calls stops.                            *)
THEOREM ContentTypeCorrect == Spec => []TypeOK
  <1>1. ASSUME ContentInv PROVE TypeOK
    <2>1. ContentTypeOK
      BY <1>1 DEF ContentInv
    <2>2. ASSUME NEW e \in Elections
          PROVE  /\ elections[e].state \in {"none"} \cup ElectionState
                 /\ elections[e].policy \in BOOLEAN
                 /\ elections[e].listedBy \in {"none", "wizard", "page"}
                 /\ DOMAIN questions[e] \subseteq 0..(Questions - 1)
                 /\ \A o \in DOMAIN questions[e] : IsQuestion(questions[e][o])
      <3>1. elections[e] \in ElectionRow /\ questions[e] \in Sheets
        BY <2>1 DEF ContentTypeOK
      <3>2. DOMAIN questions[e] \subseteq 0..(Questions - 1)
        BY <3>1, SheetFacts DEF Before
      <3>3. ASSUME NEW o \in DOMAIN questions[e]
            PROVE  IsQuestion(questions[e][o])
        <4> DEFINE options == questions[e][o].options
        <4>1. questions[e][o].by \in {"wizard", "quick"} /\ options \in Choices
          BY <3>1, SheetFacts
        <4>2. PICK n \in 0..Places : /\ options \in [Before(n) -> Option]
                                     /\ DOMAIN options = Before(n)
                                     /\ Cardinality(DOMAIN options) = n
          BY <4>1, ChoicesFacts
        <4>3. DOMAIN options = 0..(Cardinality(DOMAIN options) - 1)
          BY <4>2 DEF Before
        <4>4. DOMAIN options \subseteq Orders
          BY <4>2, ElectionContentAssumption DEF Before, Orders
        <4>5. \A i \in DOMAIN options : options[i] \in Option
          BY <4>2
        <4>6. QED
          BY <4>1, <4>3, <4>4, <4>5 DEF IsQuestion, Ordered
      <3>4. QED
        BY <3>1, <3>2, <3>3 DEF ElectionRow
    <2>3. wizard.step \in 0..2 /\ wizard.rows \in {<<>>} \cup Forms
      BY <2>1 DEF ContentTypeOK, Wizard
    <2>4. ASSUME NEW r \in Requests
          PROVE  /\ requests[r].kind \in {"none"} \cup Kinds
                 /\ requests[r].pc \in Steps
                 /\ requests[r].election \in Elections \cup {NoElection}
      <3>1. requests[r] \in Request
        BY <2>1 DEF ContentTypeOK
      <3>2. QED
        BY <3>1 DEF Request
    <2>5. QED
      BY <2>1, <2>2, <2>3, <2>4 DEF ContentTypeOK, TypeOK
  <1>2. QED
    BY <1>1, ContentAlways, PTL

(* An election with the wizard's voters has a question with two options,   *)
(* wherever the chain of calls that makes it was cut off.                  *)
THEOREM VotersComeLastCorrect == Spec => []VotersComeLast
  <1>1. ContentInv => VotersComeLast
    BY DEF ContentInv
  <1>2. QED
    BY <1>1, ContentAlways, PTL

(* The questions of the wizard and those of an election under review are   *)
(* sound as long as no two requests overlap (and, for the wizard's, none   *)
(* was cut off): every call of a chain relies on what the calls before it  *)
(* have left and on what the chain looked at when it began.                *)
THEOREM QuestionsSoundCorrect == Spec => []QuestionsSound
  <1>1. ASSUME SoloInv PROVE QuestionsSound
    <2>1. ASSUME Quiet, ~overlapped, failures = 0, NEW e \in Elections,
                 NEW o \in DOMAIN questions[e], questions[e][o].by = "wizard"
          PROVE  Enough(questions[e][o].options) /\ Different(questions[e][o].options)
      <3>1. PICK r \in Requests : SoloFor(r)
        BY <1>1, <2>1 DEF SoloInv
      <3>2. SoundOrInHand(requests[r], e, o, questions[e][o])
        BY <2>1, <3>1 DEF SoloFor
      <3>3. requests[r].pc # "option"
        BY <2>1, <3>1 DEF Quiet
      <3>4. QED
        BY <2>1, <3>2, <3>3 DEF SoundOrInHand, InHand
    <2>2. WizardQuestionsSound
      BY <2>1 DEF WizardQuestionsSound, Enough, Different
    <2>3. ReviewedIsAnswerable
      BY <1>1 DEF SoloInv, SoloFor, Reviewed, Answerable, ReviewedIsAnswerable, Existing
    <2>4. QED
      BY <2>2, <2>3 DEF QuestionsSound
  <1>2. QED
    BY <1>1, SoloAlways, PTL

(* No step takes away a question or an option, or moves one: a question    *)
(* appears with nothing to choose, and its options follow one by one.      *)
THEOREM NothingTakenCorrect == Spec => NothingIsTakenAway
  <1> DEFINE Grows == \A e \in Elections :
               /\ \A o \in DOMAIN questions[e] :
                    /\ o \in DOMAIN questions'[e]
                    /\ DOMAIN questions[e][o].options \subseteq DOMAIN questions'[e][o].options
               /\ \A o \in DOMAIN questions'[e] \ DOMAIN questions[e] :
                    questions'[e][o].options = <<>>
  <1>1. ASSUME ContentInv, Next PROVE Growing
    <2>1. CASE BrowserStep \/ Tick
      <3>1. UNCHANGED questions
        BY <2>1
        DEF BrowserStep, FillInfo, FillOptions, LoadFile, GoNext, GoBack, Keep, Tick
      <3>2. QED
        BY <3>1, GrownSame
    <2>2. ASSUME NEW r \in Requests, RequestStep(r)
          PROVE  Growing
      BY <1>1, <2>2, StepKept DEF Kept
    <2>3. QED
      BY <1>1, <2>1, <2>2 DEF Next, BrowserStep
  <1>2. Growing => Grows
    BY DEF Growing, Grown
  <1>3. ContentInv /\ [Next]_vars => [Grows]_vars
    BY <1>1, <1>2
  <1>4. QED
    BY <1>3, ContentAlways, PTL DEF Spec, NothingIsTakenAway

(* Election by election, the voters are those of files, nobody lost and    *)
(* nobody made up, although a file reaches the server only as text that    *)
(* drops quotation marks and parts fields at their commas: the rows of     *)
(* such a file are in order or have marks in a field, a row without them   *)
(* registers the person it names, another one the person that its text     *)
(* names when it is read again.                                            *)
THEOREM VotersCorrect == Spec => []VotersAreThoseOfFiles
  <1>1. ASSUME ContentInv, NEW e \in Elections
        PROVE  \E S \in SUBSET SoundFiles :
                 elections[e].people = UNION {VotersOf[file] : file \in S}
    <2>1. elections[e].people \in Registries
      BY <1>1 DEF ContentInv, ContentTypeOK, ElectionRow
    <2>2. PICK T \in SUBSET Imported : elections[e].people = UNION {NamedBy[text] : text \in T}
      BY <2>1 DEF Registries
    <2> DEFINE Text(file) == Formatted(Parsed(file))
               S == {file \in Files : Text(file) \in T \cap ImportableTexts}
    <2>3. \A file \in S : /\ file \in SoundFiles /\ Text(file) \in T
                          /\ NamedBy[Text(file)] = VotersOf[file]
      <3>1. ASSUME NEW file \in S
            PROVE  file \in SoundFiles /\ NamedBy[Text(file)] = VotersOf[file]
        <4>1. file \in Files /\ Text(file) \in FormTexts /\ Importable(Text(file))
          BY DEF ImportableTexts
        <4>2. NamedBy[Text(file)] = PeopleOf(Text(file))
          BY <4>1 DEF NamedBy
        <4>3. QED
          BY <4>1, <4>2, FileThroughForm
      <3>2. QED
        BY <3>1
    <2>4. \A text \in T : text = <<>> \/ \E file \in S : Text(file) = text
      BY DEF Imported, ImportableTexts, FormTexts
    <2>5. NamedBy[<<>>] = {}
      BY NobodyYet DEF NamedBy
    <2> HIDE DEF S, Text
    <2>6. UNION {NamedBy[text] : text \in T} = UNION {VotersOf[file] : file \in S}
      BY <2>3, <2>4, <2>5
    <2>7. S \in SUBSET SoundFiles
      BY <2>3
    <2>8. QED
      BY <2>2, <2>6, <2>7
  <1>2. ContentInv => VotersAreThoseOfFiles
    BY <1>1 DEF VotersAreThoseOfFiles
  <1>3. QED
    BY <1>2, ContentAlways, PTL

===============================================================================
