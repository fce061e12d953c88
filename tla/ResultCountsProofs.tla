-------------------------- MODULE ResultCountsProofs --------------------------
(***************************************************************************)
(* Proofs about ResultCounts for any registry, any number of submissions,  *)
(* questions, options and pages, and any number of late edits.             *)
(***************************************************************************)
EXTENDS ResultCounts, FiniteSetTheorems, WellFoundedInduction, TLAPS

-----------------------------------------------------------------------------
(* Induction, with the set of the numbers or of the subsets for which a    *)
(* claim holds in place of the claim.                                      *)

LEMMA LeastElement ==
  ASSUME NEW T, T \subseteq Nat, T # {}
  PROVE  \E m \in T : \A y \in T : ~(y < m)
  <1> DEFINE R == OpToRel(<, Nat)
  <1>1. IsWellFoundedOn(R, Nat)
    BY NatLessThanWellFounded
  <1>2. \A x, y \in Nat : x < y => <<x, y>> \in R
    BY Zenon DEF OpToRel
  <1> HIDE DEF R
  <1>3. PICK m \in T : \A y \in T : <<y, m>> \notin R
    BY <1>1, WFMin
  <1>4. QED
    BY <1>2, <1>3

LEMMA AllNumbers ==
  ASSUME NEW T, 0 \in T, \A n \in Nat : n \in T => n + 1 \in T
  PROVE  Nat \subseteq T
  <1> DEFINE Missing == Nat \ T
  <1>1. SUFFICES ASSUME Missing # {} PROVE FALSE
    OBVIOUS
  <1>2. PICK m \in Missing : \A y \in Missing : ~(y < m)
    BY <1>1, LeastElement
  <1>3. m \in Nat /\ m # 0
    BY <1>2
  <1>4. m - 1 \in Nat /\ m - 1 < m /\ (m - 1) + 1 = m
    BY <1>3
  <1>5. QED
    BY <1>2, <1>4

\* The element that a sum over s takes first
First(s) == CHOOSE x \in s : TRUE

LEMMA FirstIsIn ==
  ASSUME NEW s, s # {}
  PROVE  First(s) \in s
  BY DEF First

LEMMA AllSubsets ==
  ASSUME NEW S, IsFiniteSet(S), NEW Good, {} \in Good,
         \A s \in SUBSET S : s # {} /\ s \ {First(s)} \in Good => s \in Good
  PROVE  SUBSET S \subseteq Good
  <1> DEFINE T == {n \in Nat : \A s \in SUBSET S : Cardinality(s) <= n => s \in Good}
  <1>1. \A s \in SUBSET S : IsFiniteSet(s) /\ Cardinality(s) \in Nat
    BY FS_Subset, FS_CardinalityType
  <1>2. 0 \in T
    <2>1. \A s \in SUBSET S : Cardinality(s) <= 0 => s = {}
      BY <1>1, FS_EmptySet
    <2>2. QED
      BY <2>1
  <1>3. ASSUME NEW n \in Nat, n \in T PROVE n + 1 \in T
    <2>1. ASSUME NEW s \in SUBSET S, Cardinality(s) <= n + 1, s # {} PROVE s \in Good
      <3>1. First(s) \in s
        BY <2>1, FirstIsIn
      <3>2. Cardinality(s \ {First(s)}) = Cardinality(s) - 1
        BY <1>1, <3>1, FS_RemoveElement
      <3>3. s \ {First(s)} \in SUBSET S /\ Cardinality(s \ {First(s)}) <= n
        BY <1>1, <2>1, <3>2
      <3>4. s \ {First(s)} \in Good
        BY <1>3, <3>3
      <3>5. QED
        BY <2>1, <3>4
    <2>2. QED
      BY <2>1
  <1>4. Nat \subseteq T
    <2> HIDE DEF T
    <2>1. QED
      BY <1>2, <1>3, AllNumbers
  <1>5. QED
    BY <1>1, <1>4

-----------------------------------------------------------------------------
(* Sums: the recursive function behind TotalOf.                            *)

Part(items, q, g, s) ==
  IF s = {} THEN 0 ELSE items[<<q, First(s)>>] + g[s \ {First(s)}]

Parts(items, q) == CHOOSE g : g = [s \in SUBSET Options |-> Part(items, q, g, s)]

LEMMA TotalIsParts ==
  ASSUME NEW items, NEW q
  PROVE  TotalOf(items, q) = Parts(items, q)[Options]
  BY DEF TotalOf, MapThenSumSet, MapThenFoldSet, Parts, Part, First

LEMMA PartsExist ==
  ASSUME NEW items, NEW q
  PROVE  Parts(items, q) = [s \in SUBSET Options |-> Part(items, q, Parts(items, q), s)]
  <1> DEFINE Upto(g, n) == \A s \in SUBSET Options :
                             Cardinality(s) <= n => g[s] = Part(items, q, g, s)
             T == {n \in Nat : \E g : Upto(g, n)}
  <1>0. IsFiniteSet(Options) /\ \A s \in SUBSET Options : IsFiniteSet(s) /\ Cardinality(s) \in Nat
    BY CountsAssumption, FS_Subset, FS_CardinalityType
  <1>1. 0 \in T
    <2>1. \A s \in SUBSET Options : Cardinality(s) <= 0 => s = {}
      BY <1>0, FS_EmptySet
    <2>2. Upto([s \in SUBSET Options |-> 0], 0)
      BY <2>1 DEF Part
    <2>3. QED
      BY <2>2
  <1>2. ASSUME NEW n \in Nat, n \in T PROVE n + 1 \in T
    <2>1. PICK g : Upto(g, n)
      BY <1>2
    <2> DEFINE h == [s \in SUBSET Options |-> Part(items, q, g, s)]
    <2>2. ASSUME NEW s \in SUBSET Options, Cardinality(s) <= n + 1
          PROVE  h[s] = Part(items, q, h, s)
      <3>1. CASE s = {}
        BY <3>1 DEF Part
      <3>2. CASE s # {}
        <4> DEFINE r == s \ {First(s)}
        <4>1. First(s) \in s
          BY <3>2, FirstIsIn
        <4>2. Cardinality(r) = Cardinality(s) - 1
          BY <1>0, <4>1, FS_RemoveElement
        <4>3. r \in SUBSET Options /\ Cardinality(r) <= n
          BY <1>0, <2>2, <4>2
        <4>4. g[r] = h[r]
          BY <2>1, <4>3
        <4>5. QED
          BY <3>2, <4>4 DEF Part
      <3>3. QED
        BY <3>1, <3>2
    <2>3. Upto(h, n + 1)
      BY <2>2
    <2> HIDE DEF h
    <2>4. QED
      BY <2>3
  <1>3. Nat \subseteq T
    <2> HIDE DEF T
    <2>1. QED
      BY <1>1, <1>2, AllNumbers
  <1>4. PICK g : Upto(g, Cardinality(Options))
    BY <1>0, <1>3
  <1> DEFINE h == [s \in SUBSET Options |-> g[s]]
  <1>5. ASSUME NEW s \in SUBSET Options PROVE g[s] = Part(items, q, h, s)
    <2>1. g[s] = Part(items, q, g, s)
      BY <1>0, <1>4, FS_Subset
    <2>2. s # {} => h[s \ {First(s)}] = g[s \ {First(s)}]
      OBVIOUS
    <2>3. QED
      BY <2>1, <2>2 DEF Part
  <1>6. h = [s \in SUBSET Options |-> Part(items, q, h, s)]
    BY <1>5
  <1> HIDE DEF h
  <1>7. QED
    BY <1>6 DEF Parts

LEMMA PartsUnfold ==
  ASSUME NEW items, NEW q
  PROVE  /\ Parts(items, q)[{}] = 0
         /\ \A s \in SUBSET Options : s # {} =>
              Parts(items, q)[s] = items[<<q, First(s)>>] + Parts(items, q)[s \ {First(s)}]
  <1>1. \A s \in SUBSET Options : Parts(items, q)[s] = Part(items, q, Parts(items, q), s)
    BY PartsExist
  <1>2. QED
    BY <1>1 DEF Part

LEMMA OptionsFinite ==
  /\ IsFiniteSet(Options) /\ Cardinality(Options) \in Nat
  /\ IsFiniteSet(Submissions) /\ Cardinality(Submissions) \in Nat
  /\ IsFiniteSet(Voters) /\ Cardinality(Voters) \in Nat
  BY CountsAssumption, FS_CardinalityType

LEMMA DisjointUnion ==
  ASSUME NEW S, NEW T, IsFiniteSet(S), IsFiniteSet(T), S \cap T = {}
  PROVE  /\ Cardinality(S \cup T) = Cardinality(S) + Cardinality(T)
         /\ Cardinality(S) \in Nat /\ Cardinality(T) \in Nat
  <1>1. Cardinality(S \cup T) = Cardinality(S) + Cardinality(T) - Cardinality(S \cap T)
    BY FS_Union
  <1>2. Cardinality(S) \in Nat /\ Cardinality(T) \in Nat
    BY FS_CardinalityType
  <1>3. Cardinality(S \cap T) = 0
    BY FS_EmptySet
  <1>4. QED
    BY <1>1, <1>2, <1>3

LEMMA PartsTyped ==
  ASSUME NEW items, NEW q, \A o \in Options : items[<<q, o>>] \in Nat
  PROVE  \A s \in SUBSET Options : Parts(items, q)[s] \in Nat
  <1> DEFINE Good == {s \in SUBSET Options : Parts(items, q)[s] \in Nat}
  <1>1. {} \in Good
    BY PartsUnfold
  <1>2. ASSUME NEW s \in SUBSET Options, s # {}, s \ {First(s)} \in Good PROVE s \in Good
    <2>1. First(s) \in Options
      BY <1>2, FirstIsIn
    <2>2. Parts(items, q)[s] = items[<<q, First(s)>>] + Parts(items, q)[s \ {First(s)}]
      BY <1>2, PartsUnfold
    <2>3. QED
      BY <1>2, <2>1, <2>2
  <1>3. SUBSET Options \subseteq Good
    <2> HIDE DEF Good
    <2>1. QED
      BY <1>1, <1>2, OptionsFinite, AllSubsets
  <1>4. QED
    BY <1>3

LEMMA TotalTyped ==
  ASSUME NEW items, NEW q, \A o \in Options : items[<<q, o>>] \in Nat
  PROVE  TotalOf(items, q) \in Nat
  BY PartsTyped, TotalIsParts

(* Where nobody marks two options of a question, the marks add up to the   *)
(* ballots that marked one.                                                *)
LEMMA TotalOfMarks ==
  ASSUME NEW read, IsFiniteSet(read), NEW q, NEW items,
         \A o \in Options : items[<<q, o>>] = Marked(read, q, o),
         \A b \in read : \A o, p \in Options :
           o \in checked[b].answers[q] /\ p \in checked[b].answers[q] => o = p
  PROVE  TotalOf(items, q)
           = Cardinality({b \in read : \E o \in Options : o \in checked[b].answers[q]})
  <1> DEFINE Of(s) == {b \in read : \E o \in s : o \in checked[b].answers[q]}
             Good == {s \in SUBSET Options : Parts(items, q)[s] = Cardinality(Of(s))}
  <1>1. {} \in Good
    <2>1. Of({}) = {}
      OBVIOUS
    <2>2. QED
      BY <2>1, PartsUnfold, FS_EmptySet
  <1>2. ASSUME NEW s \in SUBSET Options, s # {}, s \ {First(s)} \in Good PROVE s \in Good
    <2> DEFINE x == First(s)
               rest == s \ {x}
               mark == {b \in read : x \in checked[b].answers[q]}
    <2>1. x \in s /\ x \in Options
      BY <1>2, FirstIsIn
    <2>2. Of(s) = mark \cup Of(rest)
      BY <2>1
    <2>3. mark \cap Of(rest) = {}
      <3>1. ASSUME NEW b \in read, x \in checked[b].answers[q],
                   NEW o \in rest, o \in checked[b].answers[q]
            PROVE  FALSE
        BY <1>2, <2>1, <3>1
      <3>2. QED
        BY <3>1
    <2>4. IsFiniteSet(mark) /\ IsFiniteSet(Of(rest))
      BY FS_Subset
    <2>5. items[<<q, x>>] = Cardinality(mark)
      BY <2>1 DEF Marked
    <2>6. Parts(items, q)[s] = items[<<q, x>>] + Parts(items, q)[rest]
      BY <1>2, PartsUnfold
    <2>7. Parts(items, q)[rest] = Cardinality(Of(rest))
      BY <1>2
    <2> HIDE DEF x, rest, mark, Of
    <2>8. Cardinality(Of(s)) = Cardinality(mark) + Cardinality(Of(rest))
      BY <2>2, <2>3, <2>4, DisjointUnion
    <2>9. QED
      BY <2>5, <2>6, <2>7, <2>8
  <1>3. SUBSET Options \subseteq Good
    <2> HIDE DEF Good
    <2>1. QED
      BY <1>1, <1>2, OptionsFinite, AllSubsets
  <1>4. QED
    BY <1>3, TotalIsParts

-----------------------------------------------------------------------------
(* Shares                                                                  *)

LEMMA PercentRounds ==
  ASSUME NEW n \in Nat, NEW of \in Nat, of > 0
  PROVE  /\ Percent(n, of) \in Nat
         /\ 2 * (of * Percent(n, of)) <= 200 * n + of
         /\ 200 * n < 2 * (of * Percent(n, of)) + of
  <1> DEFINE a == 200 * n + of
             b == 2 * of
             p == a \div b
  <1>1. a \in Nat /\ b \in Nat /\ b > 0
    OBVIOUS
  <1>2. p \in Nat /\ b * p <= a /\ a < b * p + b
    <2> HIDE DEF a, b
    <2>1. QED
      BY <1>1
  <1>3. Percent(n, of) = p
    BY DEF Percent
  <1> HIDE DEF p
  <1>4. b * p = 2 * (of * p)
    BY <1>2
  <1>5. of * p \in Nat
    BY <1>2
  <1>6. QED
    BY <1>2, <1>3, <1>4, <1>5

LEMMA Distributes ==
  ASSUME NEW of \in Nat, NEW x \in Int, NEW y \in Int
  PROVE  of * (x + y) = of * x + of * y
  OBVIOUS

LEMMA Smaller ==
  ASSUME NEW of \in Nat, of > 0, NEW x \in Int, NEW y \in Int, of * x <= of * y
  PROVE  x <= y
  <1>1. SUFFICES ASSUME x > y PROVE FALSE
    OBVIOUS
  <1>2. x - y \in Nat /\ x - y >= 1
    BY <1>1
  <1>3. of * (x - y) >= of
    BY <1>2
  <1>4. of * x = of * y + of * (x - y)
    OBVIOUS
  <1>5. of * y \in Int /\ of * (x - y) \in Int
    OBVIOUS
  <1>6. QED
    BY <1>3, <1>4, <1>5

\* Each option adds at most half a point of rounding.
LEMMA PartsOfShares ==
  ASSUME NEW items, NEW shares, NEW q, NEW of \in Nat, of > 0,
         \A o \in Options : items[<<q, o>>] \in Nat,
         \A o \in Options : shares[<<q, o>>] = Percent(items[<<q, o>>], of)
  PROVE  \A s \in SUBSET Options :
           /\ 2 * (of * Parts(shares, q)[s]) <= 200 * Parts(items, q)[s] + of * Cardinality(s)
           /\ 200 * Parts(items, q)[s] <= 2 * (of * Parts(shares, q)[s]) + of * Cardinality(s)
  <1> DEFINE Near(s) ==
        /\ 2 * (of * Parts(shares, q)[s]) <= 200 * Parts(items, q)[s] + of * Cardinality(s)
        /\ 200 * Parts(items, q)[s] <= 2 * (of * Parts(shares, q)[s]) + of * Cardinality(s)
             Good == {s \in SUBSET Options : Near(s)}
  <1>0. \A o \in Options : shares[<<q, o>>] \in Nat
    BY PercentRounds
  <1>1. {} \in Good
    <2>1. of * 0 = 0
      OBVIOUS
    <2>2. QED
      BY <2>1, PartsUnfold, FS_EmptySet
  <1>2. ASSUME NEW s \in SUBSET Options, s # {}, s \ {First(s)} \in Good PROVE s \in Good
    <2> DEFINE x == First(s)
               rest == s \ {x}
               n == items[<<q, x>>]
               p == shares[<<q, x>>]
               N == Parts(items, q)[rest]
               P == Parts(shares, q)[rest]
               k == Cardinality(rest)
    <2>1. x \in s /\ x \in Options /\ rest \in SUBSET Options
      BY <1>2, FirstIsIn
    <2>2. /\ n \in Nat /\ p \in Nat
          /\ 2 * (of * p) <= 200 * n + of /\ 200 * n < 2 * (of * p) + of
      BY <2>1, PercentRounds
    <2>3. N \in Nat /\ P \in Nat
      BY <1>0, <2>1, PartsTyped
    <2>4. /\ Parts(items, q)[s] = n + N
          /\ Parts(shares, q)[s] = p + P
      BY <1>2, PartsUnfold
    <2>5. Cardinality(s) = k + 1 /\ k \in Nat
      <3>1. IsFiniteSet(s) /\ IsFiniteSet(rest)
        BY <2>1, OptionsFinite, FS_Subset
      <3>2. Cardinality(s) \in Nat /\ k \in Nat
        BY <3>1, FS_CardinalityType
      <3>3. Cardinality(rest) = Cardinality(s) - 1
        BY <2>1, <3>1, FS_RemoveElement
      <3>4. QED
        BY <3>2, <3>3
    <2>6. /\ 2 * (of * P) <= 200 * N + of * k
          /\ 200 * N <= 2 * (of * P) + of * k
      BY <1>2
    <2> HIDE DEF x, rest, n, p, N, P, k
    <2>7. of * (p + P) = of * p + of * P /\ of * (k + 1) = of * k + of
      BY <2>2, <2>3, <2>5
    <2>8. of * p \in Nat /\ of * P \in Nat /\ of * k \in Nat
      BY <2>2, <2>3, <2>5
    <2>9. Near(s)
      BY <2>2, <2>3, <2>4, <2>5, <2>6, <2>7, <2>8
    <2>10. QED
      BY <2>9
  <1>3. SUBSET Options \subseteq Good
    <2> HIDE DEF Good
    <2>1. QED
      BY <1>1, <1>2, OptionsFinite, AllSubsets
  <1>4. QED
    BY <1>3

LEMMA SharesOfTotal ==
  ASSUME NEW items, NEW q \in ChoiceQuestions, NEW turnout,
         \A o \in Options : items[<<q, o>>] \in Nat, TotalOf(items, q) > 0
  PROVE  2 * TotalOf(Shares(items, turnout), q)
           \in (200 - Cardinality(Options))..(200 + Cardinality(Options))
  <1> DEFINE of == TotalOf(items, q)
             shares == Shares(items, turnout)
             T == TotalOf(shares, q)
             k == Cardinality(Options)
  <1>1. of \in Nat /\ of > 0 /\ k \in Nat
    BY TotalTyped, OptionsFinite
  <1>2. \A o \in Options : shares[<<q, o>>] = Percent(items[<<q, o>>], of)
    BY DEF Shares
  <1>3. T \in Nat
    <2>1. \A o \in Options : shares[<<q, o>>] \in Nat
      BY <1>1, <1>2, PercentRounds, ZenonT(60)
    <2> HIDE DEF shares
    <2>2. QED
      BY <2>1, TotalTyped
  <1>4. /\ 2 * (of * T) <= 200 * of + of * k
        /\ 200 * of <= 2 * (of * T) + of * k
    <2> HIDE DEF shares, of
    <2>1. /\ 2 * (of * Parts(shares, q)[Options]) <= 200 * Parts(items, q)[Options] + of * k
          /\ 200 * Parts(items, q)[Options] <= 2 * (of * Parts(shares, q)[Options]) + of * k
      BY <1>1, <1>2, PartsOfShares
    <2>2. QED
      BY <2>1, TotalIsParts DEF of
  <1> HIDE DEF of, shares, T, k
  <1>5. /\ of * (2 * T) = 2 * (of * T)
        /\ of * (200 + k) = 200 * of + of * k
        /\ of * (2 * T + k) = 2 * (of * T) + of * k
        /\ of * 200 = 200 * of
    BY <1>1, <1>3
  <1>6. 2 * T <= 200 + k
    BY <1>1, <1>3, <1>4, <1>5, Smaller
  <1>7. 200 <= 2 * T + k
    BY <1>1, <1>3, <1>4, <1>5, Smaller
  <1>8. QED
    BY <1>1, <1>3, <1>6, <1>7 DEF T, k, shares

-----------------------------------------------------------------------------
(* The parts of the inductive invariant.                                   *)

BoxInv ==
  /\ stage \in {"open", "closed", "tallying", "pending", "published"}
  /\ active \subseteq Voters /\ ballots \subseteq Submissions
  /\ checked \in [Submissions -> {Nothing} \cup [voter: Voters, answers: Validated]]
  /\ \A s \in ballots : checked[s] # Nothing
  /\ lateEdits \in 0..MaxLateEdits /\ twice \in BOOLEAN

(* Without late edits whoever was checked is in the registry; without a    *)
(* second ballot of a voter there are no more ballots than voters.         *)
OwnBallots ==
  /\ lateEdits = 0 =>
       \A s \in Submissions : checked[s] # Nothing => checked[s].voter \in active
  /\ ~twice => \A s, u \in ballots : checked[s].voter = checked[u].voter => s = u

ReadRow == [pc: {"rest", "read", "stored", "live", "admin", "public"},
            ballots: {Nothing} \cup SUBSET Submissions,
            electorate: {Nothing} \cup (0..Cardinality(Voters))]

(* What was read is still true in part.                                    *)
StillTrue(record) ==
  /\ record \in ReadRow
  /\ record.ballots # Nothing => record.ballots \subseteq ballots
  /\ lateEdits = 0 => record.electorate \in {Nothing, Cardinality(active)}

StagesFit ==
  /\ StillTrue(tally)
  /\ stage \in {"open", "closed"} => result = Nothing /\ tally.pc = "rest"
  /\ tally.pc = "read" => stage = "tallying" /\ result = Nothing
  /\ tally.pc = "stored" => result # Nothing
  /\ stage \in {"pending", "published"} => result # Nothing

ResultFits ==
  result # Nothing =>
    /\ result.of \subseteq ballots
    /\ result.items = Items(result.of)
    /\ result.electorate \in 0..Cardinality(Voters)
    /\ lateEdits = 0 => result.electorate = Cardinality(active)
    /\ result.abstain = NonVoting(result.electorate, Cardinality(result.of))

(* A page of results was rendered from the result that is there, and from  *)
(* ballots read after the tally.                                           *)
PageFits(r) ==
  page[r] # Nothing =>
    /\ page[r].kind \in {"live", "result"}
    /\ page[r].electorate \in 0..Cardinality(Voters)
    /\ page[r].turnout \in 0..Cardinality(Submissions)
    /\ page[r].kind = "live" => page[r].turnout <= Cardinality(ballots)
    /\ page[r].kind = "live" /\ Undisturbed => page[r].percent <= 100
    /\ page[r].kind = "result" =>
         /\ result # Nothing
         /\ page[r].items = result.items
         /\ page[r].shares = Shares(page[r].items, page[r].turnout)
         /\ page[r].abstain \in Nat
         /\ page[r].turnout + page[r].abstain = page[r].electorate
         /\ Undisturbed => /\ page[r].electorate = Cardinality(active)
                           /\ Cardinality(result.of) <= page[r].turnout
                           /\ page[r].turnout <= Cardinality(ballots)

(* A page that is being read again has read no less than it shows.         *)
ReadingFits(r) ==
  /\ StillTrue(reading[r])
  /\ reading[r].pc \in {"rest", "live", "admin", "public"}
  /\ reading[r].pc \in {"admin", "public"} =>
       /\ result # Nothing
       /\ reading[r].ballots # Nothing => result.of \subseteq reading[r].ballots
  /\ page[r] # Nothing /\ page[r].kind = "result" =>
       /\ reading[r].pc # "live"
       /\ Undisturbed /\ reading[r].pc # "rest" /\ reading[r].ballots # Nothing =>
            page[r].turnout <= Cardinality(reading[r].ballots)

PagesFit ==
  /\ reading \in [Readers -> ReadRow] /\ DOMAIN page = Readers
  /\ page = [r \in Readers |-> page[r]]
  /\ \A r \in Readers : PageFits(r) /\ ReadingFits(r)

CountInv == BoxInv /\ OwnBallots /\ StagesFit /\ ResultFits /\ PagesFit

-----------------------------------------------------------------------------
(* The box                                                                 *)

LEMMA ReadFinite ==
  ASSUME BoxInv, NEW read \in SUBSET ballots
  PROVE  /\ IsFiniteSet(read) /\ Cardinality(read) \in Nat
         /\ Cardinality(read) <= Cardinality(ballots)
         /\ Cardinality(read) <= Cardinality(Submissions)
         /\ Cardinality(ballots) \in Nat
  <1>1. ballots \in SUBSET Submissions /\ read \in SUBSET Submissions
    BY DEF BoxInv
  <1>2. IsFiniteSet(ballots) /\ IsFiniteSet(read)
    BY <1>1, OptionsFinite, FS_Subset
  <1>3. QED
    BY <1>1, <1>2, OptionsFinite, FS_Subset, FS_CardinalityType

LEMMA ActiveFinite ==
  ASSUME BoxInv
  PROVE  IsFiniteSet(active) /\ Cardinality(active) \in 0..Cardinality(Voters)
  <1>1. active \in SUBSET Voters
    BY DEF BoxInv
  <1>2. IsFiniteSet(active) /\ Cardinality(active) <= Cardinality(Voters)
    BY <1>1, OptionsFinite, FS_Subset
  <1>3. QED
    BY <1>2, OptionsFinite, FS_CardinalityType

\* A ballot for each voter at most
LEMMA BallotsWithinRegistry ==
  ASSUME BoxInv, OwnBallots, Undisturbed, NEW read \in SUBSET ballots
  PROVE  Cardinality(read) <= Cardinality(active)
  <1> DEFINE f == [s \in read |-> checked[s].voter]
  <1>1. \A s \in read : f[s] \in active
    BY DEF BoxInv, OwnBallots, Undisturbed
  <1>2. \A s, u \in read : f[s] = f[u] => s = u
    BY DEF OwnBallots, Undisturbed
  <1>3. f \in Injection(read, active)
    BY <1>1, <1>2 DEF Injection, IsInjective
  <1>4. QED
    BY <1>3, ActiveFinite, FS_Injection

LEMMA AnswersOf ==
  ASSUME BoxInv, NEW s \in ballots, NEW q \in Questions
  PROVE  checked[s].answers[q] \in Answer(q)
  <1>1. checked[s] \in [voter: Voters, answers: Validated]
    BY DEF BoxInv
  <1>2. QED
    BY <1>1 DEF Validated

\* A question with one answer: the ballots mark one option or none.
LEMMA SingleAddsUp ==
  ASSUME BoxInv, NEW read \in SUBSET ballots, NEW q \in Singles
  PROVE  /\ TotalOf(Items(read), q) + Silent(read, q) = Cardinality(read)
         /\ TotalOf(Items(read), q) \in Nat /\ TotalOf(Items(read), q) <= Cardinality(read)
  <1> DEFINE Chose == {b \in read : \E o \in Options : o \in checked[b].answers[q]}
             Blank == {b \in read : checked[b].answers[q] \cap Options = {}}
  <1>1. q \in Questions /\ q \in ChoiceQuestions /\ q \notin Texts /\ q \notin Multiples
    BY CountsAssumption DEF Questions, ChoiceQuestions
  <1>2. \A b \in read : \/ checked[b].answers[q] \in {{"abstain"}, {}}
                        \/ \E o \in Options : checked[b].answers[q] = {o}
    <2>1. \A b \in read : checked[b].answers[q] \in Answer(q)
      BY <1>1, AnswersOf
    <2>2. QED
      BY <1>1, <2>1 DEF Answer
  <1>3. "abstain" \notin Options
    BY CountsAssumption
  <1>4. Chose \cup Blank = read /\ Chose \cap Blank = {}
    BY <1>2, <1>3
  <1>5. IsFiniteSet(read) /\ IsFiniteSet(Chose) /\ IsFiniteSet(Blank)
    BY ReadFinite, FS_Subset
  <1>6. TotalOf(Items(read), q) = Cardinality(Chose)
    <2>1. \A o \in Options : Items(read)[<<q, o>>] = Marked(read, q, o)
      BY <1>1 DEF Items
    <2>2. \A b \in read : \A o, p \in Options :
            o \in checked[b].answers[q] /\ p \in checked[b].answers[q] => o = p
      BY <1>2, <1>3
    <2>3. QED
      BY <1>5, <2>1, <2>2, TotalOfMarks
  <1>7. Silent(read, q) = Cardinality(Blank)
    BY DEF Silent
  <1> HIDE DEF Chose, Blank
  <1>8. /\ Cardinality(read) = Cardinality(Chose) + Cardinality(Blank)
        /\ Cardinality(Chose) \in Nat /\ Cardinality(Blank) \in Nat
    BY <1>4, <1>5, DisjointUnion
  <1>9. QED
    BY <1>6, <1>7, <1>8

LEMMA ItemsTyped ==
  ASSUME BoxInv, NEW read \in SUBSET ballots
  PROVE  \A i \in (ChoiceQuestions \X Options) \cup (Texts \X {"text"}) :
           Items(read)[i] \in 0..Cardinality(Submissions)
  <1>1. ASSUME NEW q, NEW mark PROVE Marked(read, q, mark) \in 0..Cardinality(Submissions)
    <2>1. {s \in read : mark \in checked[s].answers[q]} \in SUBSET ballots
      OBVIOUS
    <2>2. QED
      BY <2>1, ReadFinite, OptionsFinite DEF Marked
  <1>2. QED
    BY <1>1 DEF Items

LEMMA ItemsStay ==
  ASSUME NEW read \in SUBSET ballots, \A b \in ballots : checked'[b] = checked[b]
  PROVE  Items(read)' = Items(read)
  <1>1. ASSUME NEW q, NEW mark PROVE Marked(read, q, mark)' = Marked(read, q, mark)
    BY DEF Marked
  <1>2. QED
    BY <1>1 DEF Items

-----------------------------------------------------------------------------
(* What no step takes back.                                                *)

Grown ==
  /\ ballots \subseteq ballots' /\ \A b \in ballots : checked'[b] = checked[b]
  /\ twice => twice'
  /\ lateEdits' = 0 => lateEdits = 0 /\ active' = active

\* The steps that concern the box: a check, a commit and an edit.
BoxStep ==
  \/ \E s \in Submissions : Check(s) \/ Commit(s)
  \/ \E v \in Voters : EditRegistry(v)

BoxRests == UNCHANGED <<active, checked, ballots, lateEdits, twice>>

LEMMA BoxKept ==
  ASSUME BoxInv, OwnBallots, BoxStep
  PROVE  BoxInv' /\ OwnBallots' /\ Grown
  <1>1. ASSUME NEW s \in Submissions, Check(s) PROVE BoxInv' /\ OwnBallots' /\ Grown
    <2>1. PICK v \in active, a \in Validated :
            checked' = [checked EXCEPT ![s] = [voter |-> v, answers |-> a]]
      BY <1>1 DEF Check
    <2> DEFINE row == [voter |-> v, answers |-> a]
    <2>2. /\ row \in [voter: Voters, answers: Validated] /\ row.voter = v
          /\ checked[s] = Nothing /\ s \notin ballots
          /\ UNCHANGED <<stage, active, ballots, lateEdits, twice>>
      BY <1>1 DEF BoxInv, Check
    <2> HIDE DEF row
    <2>3. /\ checked' \in [Submissions -> {Nothing} \cup [voter: Voters, answers: Validated]]
          /\ checked'[s] = row
          /\ \A u \in Submissions \ {s} : checked'[u] = checked[u]
      BY <2>1, <2>2 DEF BoxInv, row
    <2>4. \A b \in ballots : checked'[b] = checked[b]
      BY <2>2, <2>3 DEF BoxInv
    <2>5. BoxInv'
      BY <2>2, <2>3, <2>4 DEF BoxInv
    <2>6. OwnBallots'
      BY <2>2, <2>3, <2>4 DEF OwnBallots
    <2>7. QED
      BY <2>2, <2>4, <2>5, <2>6 DEF Grown
  <1>2. ASSUME NEW s \in Submissions, Commit(s) PROVE BoxInv' /\ OwnBallots' /\ Grown
    <2>1. /\ ballots' = ballots \cup {s} /\ checked[s] # Nothing
          /\ twice' = (twice \/ HasVoted(checked[s].voter))
          /\ UNCHANGED <<stage, active, checked, lateEdits>>
      BY <1>2 DEF Commit
    <2>2. BoxInv' /\ Grown
      BY <2>1 DEF BoxInv, Grown
    <2>3. OwnBallots'
      BY <2>1 DEF OwnBallots, HasVoted, BoxInv
    <2>4. QED
      BY <2>2, <2>3
  <1>3. ASSUME NEW v \in Voters, EditRegistry(v) PROVE BoxInv' /\ OwnBallots' /\ Grown
    <2>1. /\ active' \subseteq Voters /\ lateEdits' = lateEdits + 1
          /\ lateEdits' \in 0..MaxLateEdits /\ lateEdits' # 0
          /\ UNCHANGED <<stage, checked, ballots, twice>>
      BY <1>3, CountsAssumption DEF EditRegistry, BoxInv
    <2>2. QED
      BY <2>1 DEF BoxInv, OwnBallots, Grown
  <1>4. QED
    BY <1>1, <1>2, <1>3 DEF BoxStep

LEMMA BoxAtRest ==
  ASSUME BoxInv, OwnBallots, BoxRests,
         stage' \in {"open", "closed", "tallying", "pending", "published"}
  PROVE  BoxInv' /\ OwnBallots' /\ Grown
  BY DEF BoxInv, OwnBallots, BoxRests, Grown

-----------------------------------------------------------------------------
(* What was read, stored or shown stays true while the box grows.          *)

LEMMA RecordStays ==
  ASSUME NEW record, StillTrue(record), Grown
  PROVE  StillTrue(record)'
  BY DEF StillTrue, Grown

LEMMA TallyStays ==
  ASSUME StagesFit, Grown, UNCHANGED <<stage, tally, result>>
  PROVE  StagesFit'
  <1>1. StillTrue(tally)'
    BY DEF StagesFit, StillTrue, Grown
  <1>2. QED
    BY <1>1 DEF StagesFit

LEMMA ResultStays ==
  ASSUME ResultFits, Grown, UNCHANGED result
  PROVE  ResultFits'
  <1>1. SUFFICES ASSUME result # Nothing, NEW of, of = result.of PROVE ResultFits'
    BY DEF ResultFits
  <1>2. of \subseteq ballots /\ result.items = Items(of)
    BY <1>1 DEF ResultFits
  <1>3. Items(of)' = Items(of)
    BY <1>2, ItemsStay DEF Grown
  <1>4. QED
    BY <1>1, <1>2, <1>3 DEF ResultFits, Grown

LEMMA UndisturbedBefore ==
  ASSUME Grown, Undisturbed'
  PROVE  Undisturbed /\ active' = active
  BY DEF Grown, Undisturbed

LEMMA BallotsGrow ==
  ASSUME BoxInv', Grown
  PROVE  /\ Cardinality(ballots) \in Nat /\ Cardinality(ballots') \in Nat
         /\ Cardinality(ballots) <= Cardinality(ballots')
  <1>1. ballots' \in SUBSET Submissions /\ ballots \in SUBSET Submissions
    BY DEF BoxInv, Grown
  <1>2. IsFiniteSet(ballots') /\ IsFiniteSet(ballots)
    BY <1>1, OptionsFinite, FS_Subset
  <1>3. QED
    BY <1>2, FS_Subset, FS_CardinalityType DEF Grown

LEMMA PageStays ==
  ASSUME NEW r \in Readers, PageFits(r), BoxInv', Grown, page'[r] = page[r], UNCHANGED result
  PROVE  PageFits(r)'
  <1>1. SUFFICES ASSUME page[r] # Nothing PROVE PageFits(r)'
    BY DEF PageFits
  <1>2. page[r].turnout \in Nat /\ Cardinality(Submissions) \in Nat
    BY <1>1, OptionsFinite DEF PageFits
  <1>3. page[r].turnout <= Cardinality(ballots) => page[r].turnout <= Cardinality(ballots')
    BY <1>2, BallotsGrow
  <1>4. QED
    BY <1>1, <1>3, UndisturbedBefore DEF PageFits

LEMMA ReadingStays ==
  ASSUME NEW r \in Readers, ReadingFits(r), Grown,
         reading'[r] = reading[r], page'[r] = page[r], UNCHANGED result
  PROVE  ReadingFits(r)'
  <1>1. StillTrue(reading[r])'
    BY DEF ReadingFits, StillTrue, Grown
  <1>2. QED
    BY <1>1, UndisturbedBefore DEF ReadingFits

LEMMA PagesStay ==
  ASSUME PagesFit, BoxInv', Grown, UNCHANGED <<result, reading, page>>
  PROVE  PagesFit'
  BY PageStays, ReadingStays DEF PagesFit

-----------------------------------------------------------------------------
(* The steps of the tally.                                                 *)

LEMMA RestingKnows ==
  ASSUME BoxInv, NEW pc \in {"rest", "read", "stored", "live", "admin", "public"}
  PROVE  /\ StillTrue([Resting EXCEPT !.pc = pc])
         /\ [Resting EXCEPT !.pc = pc].pc = pc /\ [Resting EXCEPT !.pc = pc].ballots = Nothing
         /\ StillTrue(Resting) /\ Resting.pc = "rest"
  BY DEF Resting, StillTrue, ReadRow

LEMMA ReadsKnow ==
  ASSUME BoxInv, NEW record, StillTrue(record), NEW next \in Reads(record)
  PROVE  /\ StillTrue(next) /\ next.pc = record.pc
         /\ next.ballots \in {record.ballots, ballots}
         /\ record.ballots # Nothing => next.ballots = record.ballots
  <1>1. record \in ReadRow
    BY DEF StillTrue
  <1>2. Cardinality(active) \in 0..Cardinality(Voters) /\ ballots \in SUBSET Submissions
    BY ActiveFinite DEF BoxInv
  <1>3. \/ record.ballots = Nothing /\ next = [record EXCEPT !.ballots = ballots]
        \/ record.electorate = Nothing /\ next = [record EXCEPT !.electorate = Cardinality(active)]
    BY DEF Reads
  <1>4. CASE record.ballots = Nothing /\ next = [record EXCEPT !.ballots = ballots]
    BY <1>1, <1>2, <1>4 DEF StillTrue, ReadRow
  <1>5. CASE record.electorate = Nothing /\ next = [record EXCEPT !.electorate = Cardinality(active)]
    BY <1>1, <1>2, <1>5 DEF StillTrue, ReadRow
  <1>6. QED
    BY <1>3, <1>4, <1>5

\* When both were read.
LEMMA ReadsDone ==
  ASSUME BoxInv, NEW record, StillTrue(record), Reads(record) = {}
  PROVE  /\ record.ballots \in SUBSET ballots
         /\ record.electorate \in 0..Cardinality(Voters)
         /\ lateEdits = 0 => record.electorate = Cardinality(active)
         /\ Cardinality(record.ballots) \in 0..Cardinality(Submissions)
         /\ Cardinality(record.ballots) <= Cardinality(ballots)
  <1>1. record.ballots # Nothing /\ record.electorate # Nothing
    BY DEF Reads
  <1>2. /\ record.ballots \in SUBSET ballots
        /\ record.electorate \in 0..Cardinality(Voters)
        /\ lateEdits = 0 => record.electorate = Cardinality(active)
    BY <1>1 DEF StillTrue, ReadRow
  <1>3. QED
    BY <1>2, ReadFinite, OptionsFinite

LEMMA NonVotingTyped ==
  ASSUME NEW N \in Nat, NEW electorate \in 0..N, NEW counted \in Nat
  PROVE  /\ NonVoting(electorate, counted) \in 0..N
         /\ NonVoting(electorate, counted) <= electorate
         /\ counted <= electorate => NonVoting(electorate, counted) = electorate - counted
  BY DEF NonVoting

TallyStep == Close \/ BeginTally \/ ReadForTally \/ StoreResult \/ Advance

LEMMA StoreKept ==
  ASSUME CountInv, StoreResult
  PROVE  result' # Nothing /\ ResultFits'
  <1> DEFINE of == tally.ballots
             row == [items |-> Items(of), of |-> of, electorate |-> tally.electorate,
                     abstain |-> NonVoting(tally.electorate, Cardinality(of))]
  <1>1. /\ BoxInv /\ result' = row /\ UNCHANGED <<active, checked, ballots, lateEdits>>
        /\ StillTrue(tally) /\ Reads(tally) = {}
    BY DEF CountInv, StoreResult, StagesFit
  <1>2. /\ of \in SUBSET ballots /\ tally.electorate \in 0..Cardinality(Voters)
        /\ lateEdits = 0 => tally.electorate = Cardinality(active)
        /\ Cardinality(of) \in Nat
    BY <1>1, ReadsDone, ReadFinite
  <1>3. row \in ResultRow
    <2>1. Items(of) \in [(ChoiceQuestions \X Options) \cup (Texts \X {"text"}) -> Nat]
      <3>1. \A i \in (ChoiceQuestions \X Options) \cup (Texts \X {"text"}) : Items(of)[i] \in Nat
        BY <1>1, <1>2, ItemsTyped, OptionsFinite
      <3>2. QED
        BY <3>1 DEF Items
    <2>2. NonVoting(tally.electorate, Cardinality(of)) \in Nat /\ tally.electorate \in Nat
      <3>1. Cardinality(Voters) \in Nat
        BY OptionsFinite
      <3>2. NonVoting(tally.electorate, Cardinality(of)) \in 0..Cardinality(Voters)
        BY <1>2, <3>1, NonVotingTyped
      <3>3. QED
        BY <1>2, <3>1, <3>2
    <2>3. of \in SUBSET Submissions
      BY <1>1, <1>2 DEF BoxInv
    <2> HIDE DEF of
    <2>4. QED
      BY <2>1, <2>2, <2>3 DEF ResultRow
  <1>4. /\ row.of = of /\ row.items = Items(of) /\ row.electorate = tally.electorate
        /\ row.abstain = NonVoting(tally.electorate, Cardinality(of))
    OBVIOUS
  <1>5. PICK o : o = of
    OBVIOUS
  <1>6. Items(o)' = Items(o)
    BY <1>1, <1>2, <1>5, ItemsStay
  <1> HIDE DEF row, of
  <1>7. result' # Nothing
    BY <1>1, <1>3, CountsAssumption
  <1>8. result'.of = o /\ result'.items = Items(o)'
    BY <1>1, <1>4, <1>5, <1>6
  <1>9. QED
    BY <1>1, <1>2, <1>4, <1>5, <1>7, <1>8 DEF ResultFits

LEMMA TallyKept ==
  ASSUME CountInv, TallyStep
  PROVE  CountInv'
  <1>0. /\ BoxInv /\ OwnBallots /\ StagesFit /\ ResultFits /\ PagesFit
        /\ StillTrue(tally) /\ tally \in ReadRow
    BY DEF CountInv, StagesFit, StillTrue
  <1>1. BoxInv' /\ OwnBallots' /\ Grown
    <2>1. BoxRests /\ stage' \in {"open", "closed", "tallying", "pending", "published"}
      BY <1>0 DEF TallyStep, Close, BeginTally, ReadForTally, StoreResult, Advance, BoxInv, BoxRests
    <2>2. QED
      BY <1>0, <2>1, BoxAtRest
  <1>2. CASE Close
    <2>1. StillTrue(tally)'
      BY <1>0, <1>1, <1>2 DEF Close, StillTrue
    <2>2. StagesFit'
      BY <1>0, <1>2, <2>1 DEF Close, StagesFit
    <2>3. QED
      BY <1>0, <1>1, <1>2, <2>2, ResultStays, PagesStay DEF Close, CountInv
  <1>3. CASE BeginTally
    <2>1. StillTrue(tally)' /\ tally'.pc = "read"
      BY <1>0, <1>3, RestingKnows DEF BeginTally, StillTrue
    <2>2. StagesFit'
      BY <1>0, <1>3, <2>1 DEF BeginTally, StagesFit
    <2>3. QED
      BY <1>0, <1>1, <1>3, <2>2, ResultStays, PagesStay DEF BeginTally, CountInv
  <1>4. CASE ReadForTally
    <2>1. PICK next \in Reads(tally) : tally' = next
      BY <1>4 DEF ReadForTally
    <2>2. StillTrue(next) /\ tally'.pc = "read" /\ tally.pc = "read"
      BY <1>0, <1>4, <2>1, ReadsKnow DEF ReadForTally
    <2>3. StillTrue(tally)'
      BY <1>4, <2>1, <2>2 DEF ReadForTally, StillTrue
    <2>4. StagesFit'
      BY <1>0, <1>4, <2>2, <2>3 DEF ReadForTally, StagesFit
    <2>5. QED
      BY <1>0, <1>1, <1>4, <2>4, ResultStays, PagesStay DEF ReadForTally, CountInv
  <1>5. CASE StoreResult
    <2>1. result' # Nothing /\ ResultFits'
      BY <1>5, StoreKept
    <2>2. StillTrue(tally)' /\ tally'.pc = "stored" /\ stage' = "tallying"
      BY <1>0, <1>5, RestingKnows DEF StoreResult, StillTrue, StagesFit
    <2>3. StagesFit'
      BY <2>1, <2>2 DEF StagesFit
    <2>4. result = Nothing /\ UNCHANGED <<reading, page>>
      BY <1>0, <1>5 DEF StagesFit, StoreResult
    <2>5. \A r \in Readers : page[r] # Nothing => page[r].kind = "live"
      BY <1>0, <2>4 DEF PagesFit, PageFits
    <2>6. \A r \in Readers : reading[r].pc \notin {"admin", "public"}
      BY <1>0, <2>4 DEF PagesFit, ReadingFits
    <2>7. ASSUME NEW r \in Readers PROVE PageFits(r)' /\ ReadingFits(r)'
      <3>1. PageFits(r) /\ ReadingFits(r) /\ UNCHANGED <<active, checked, ballots, lateEdits, twice>>
        BY <1>0, <1>5 DEF PagesFit, StoreResult
      <3>2. PageFits(r)'
        BY <2>4, <2>5, <3>1 DEF PageFits, Undisturbed
      <3>3. ReadingFits(r)'
        BY <2>4, <2>5, <2>6, <3>1 DEF ReadingFits, StillTrue
      <3>4. QED
        BY <3>2, <3>3
    <2>8. PagesFit'
      BY <1>0, <2>4, <2>7 DEF PagesFit
    <2>9. QED
      BY <1>1, <2>1, <2>3, <2>8 DEF CountInv
  <1>6. CASE Advance
    <2>1. StillTrue(tally)' /\ tally'.pc = "rest"
      BY <1>0, <1>6, RestingKnows DEF Advance, StillTrue
    <2>2. StagesFit'
      BY <1>0, <1>6, <2>1 DEF Advance, StagesFit
    <2>3. QED
      BY <1>0, <1>1, <1>6, <2>2, ResultStays, PagesStay DEF Advance, CountInv
  <1>7. QED
    BY <1>2, <1>3, <1>4, <1>5, <1>6 DEF TallyStep

-----------------------------------------------------------------------------
(* The steps of the pages.                                                 *)

PageStep ==
  \E r \in Readers :
    \/ \E kind \in {"live", "admin", "public"} : FindResult(r, kind)
    \/ ReadForPage(r) \/ Render(r)

\* Where the step of one page leaves the others.
LEMMA OtherPages ==
  ASSUME CountInv, BoxInv', Grown, NEW r \in Readers, UNCHANGED <<stage, tally, result>>,
         reading' = [reading EXCEPT ![r] = reading'[r]], reading'[r] \in ReadRow,
         page' = [page EXCEPT ![r] = page'[r]],
         PageFits(r)', ReadingFits(r)'
  PROVE  StagesFit' /\ ResultFits' /\ PagesFit'
  <1>1. StagesFit /\ ResultFits /\ PagesFit
    BY DEF CountInv
  <1>2. StagesFit' /\ ResultFits'
    BY <1>1, TallyStays, ResultStays
  <1>3. /\ reading' \in [Readers -> ReadRow]
        /\ page' = [u \in Readers |-> page'[u]] /\ DOMAIN page' = Readers
        /\ \A u \in Readers \ {r} : reading'[u] = reading[u] /\ page'[u] = page[u]
    BY <1>1 DEF PagesFit
  <1>4. ASSUME NEW u \in Readers \ {r} PROVE PageFits(u)' /\ ReadingFits(u)'
    BY <1>1, <1>3, PageStays, ReadingStays DEF PagesFit
  <1>5. QED
    BY <1>2, <1>3, <1>4 DEF PagesFit

LEMMA FoundKept ==
  ASSUME CountInv, NEW r \in Readers, NEW kind \in {"live", "admin", "public"},
         FindResult(r, kind)
  PROVE  CountInv'
  <1>0. /\ BoxInv /\ OwnBallots /\ StagesFit /\ ResultFits /\ PagesFit
        /\ PageFits(r) /\ ReadingFits(r)
    BY DEF CountInv, PagesFit
  <1>1. BoxInv' /\ OwnBallots' /\ Grown
    <2>1. BoxRests /\ stage' \in {"open", "closed", "tallying", "pending", "published"}
      BY <1>0 DEF FindResult, BoxInv, BoxRests
    <2>2. QED
      BY <1>0, <2>1, BoxAtRest
  <1> DEFINE row == [Resting EXCEPT !.pc = kind]
  <1>2. StillTrue(row) /\ row.pc = kind /\ row.ballots = Nothing
    BY <1>0, RestingKnows
  <1>3. reading' = [reading EXCEPT ![r] = row] /\ UNCHANGED <<stage, tally, result, page>>
    BY DEF FindResult
  <1> HIDE DEF row
  <1>4. reading'[r] = row /\ row \in ReadRow
    BY <1>0, <1>2, <1>3 DEF PagesFit, StillTrue
  <1>5. StillTrue(reading[r])'
    BY <1>1, <1>2, <1>4 DEF StillTrue, Grown
  <1>6. kind \in {"admin", "public"} => result # Nothing
    BY <1>0 DEF FindResult, StagesFit
  <1>7. page[r] # Nothing /\ page[r].kind = "result" => kind # "live"
    BY <1>0 DEF FindResult, PageFits
  <1>8. ReadingFits(r)'
    BY <1>2, <1>3, <1>4, <1>5, <1>6, <1>7 DEF ReadingFits
  <1>9. PageFits(r)'
    BY <1>0, <1>1, <1>3, PageStays
  <1>10. StagesFit' /\ ResultFits' /\ PagesFit'
    BY <1>0, <1>1, <1>3, <1>4, <1>8, <1>9, OtherPages DEF PagesFit
  <1>11. QED
    BY <1>1, <1>10 DEF CountInv

LEMMA PageReadKept ==
  ASSUME CountInv, NEW r \in Readers, ReadForPage(r)
  PROVE  CountInv'
  <1>0. /\ BoxInv /\ OwnBallots /\ StagesFit /\ ResultFits /\ PagesFit
        /\ PageFits(r) /\ ReadingFits(r)
    BY DEF CountInv, PagesFit
  <1>1. BoxInv' /\ OwnBallots' /\ Grown /\ BoxRests
    <2>1. BoxRests /\ stage' \in {"open", "closed", "tallying", "pending", "published"}
      BY <1>0 DEF ReadForPage, BoxInv, BoxRests
    <2>2. QED
      BY <1>0, <2>1, BoxAtRest
  <1>2. PICK next \in Reads(reading[r]) : reading' = [reading EXCEPT ![r] = next]
    BY DEF ReadForPage
  <1>3. /\ StillTrue(next) /\ next.pc = reading[r].pc
        /\ next.ballots \in {reading[r].ballots, ballots}
        /\ reading[r].ballots # Nothing => next.ballots = reading[r].ballots
    BY <1>0, ReadsKnow DEF ReadingFits
  <1>4. UNCHANGED <<stage, tally, result, page>>
    BY DEF ReadForPage
  <1>5. reading'[r] = next /\ next \in ReadRow
    BY <1>0, <1>2, <1>3 DEF PagesFit, StillTrue
  <1>6. StillTrue(reading[r])'
    BY <1>1, <1>3, <1>5 DEF StillTrue, Grown
  <1>7. ReadingFits(r)'
    <2>1. next.pc \in {"admin", "public"} /\ next.ballots # Nothing =>
            result.of \subseteq next.ballots
      BY <1>0, <1>3 DEF ReadingFits, ResultFits
    <2>2. page[r] # Nothing /\ page[r].kind = "result" /\ Undisturbed /\ next.pc # "rest"
             /\ next.ballots # Nothing => page[r].turnout <= Cardinality(next.ballots)
      BY <1>0, <1>3 DEF ReadingFits, PageFits
    <2>3. Undisturbed' = Undisturbed
      BY <1>1 DEF BoxRests, Undisturbed
    <2>4. QED
      BY <1>0, <1>3, <1>4, <1>5, <1>6, <2>1, <2>2, <2>3 DEF ReadingFits
  <1>8. PageFits(r)'
    BY <1>0, <1>1, <1>4, PageStays
  <1>9. StagesFit' /\ ResultFits' /\ PagesFit'
    BY <1>0, <1>1, <1>2, <1>4, <1>5, <1>7, <1>8, OtherPages DEF PagesFit
  <1>10. QED
    BY <1>1, <1>9 DEF CountInv

LEMMA LiveFits ==
  ASSUME BoxInv, OwnBallots, NEW electorate \in Nat, NEW read \in SUBSET ballots,
         lateEdits = 0 => electorate = Cardinality(active), Undisturbed
  PROVE  Percent(Cardinality(read), electorate) <= 100
  <1> DEFINE n == Cardinality(read)
  <1>1. n \in Nat /\ n <= electorate
    BY ReadFinite, BallotsWithinRegistry DEF Undisturbed
  <1> HIDE DEF n
  <1>2. CASE electorate = 0
    BY <1>2 DEF Percent
  <1>3. CASE electorate > 0
    <2>1. /\ Percent(n, electorate) \in Nat
          /\ 2 * (electorate * Percent(n, electorate)) <= 200 * n + electorate
      BY <1>1, <1>3, PercentRounds
    <2>2. PICK p \in Nat : p = Percent(n, electorate)
      BY <2>1
    <2>3. 2 * (electorate * p) <= 201 * electorate
      <3>1. electorate * p \in Nat
        BY <2>2
      <3>2. QED
        BY <1>1, <2>1, <2>2, <3>1
    <2>4. electorate * (2 * p) <= electorate * 201
      <3>1. electorate * (2 * p) = 2 * (electorate * p) /\ electorate * 201 = 201 * electorate
        BY <2>2
      <3>2. QED
        BY <2>3, <3>1
    <2>5. 2 * p <= 201
      BY <1>3, <2>2, <2>4, Smaller
    <2>6. QED
      BY <2>2, <2>5 DEF n
  <1>4. QED
    BY <1>2, <1>3 DEF n

LEMMA RenderKept ==
  ASSUME CountInv, NEW r \in Readers, Render(r)
  PROVE  CountInv'
  <1>0. /\ BoxInv /\ OwnBallots /\ StagesFit /\ ResultFits /\ PagesFit
        /\ PageFits(r) /\ ReadingFits(r)
    BY DEF CountInv, PagesFit
  <1>1. BoxInv' /\ OwnBallots' /\ Grown /\ BoxRests
    <2>1. BoxRests /\ stage' \in {"open", "closed", "tallying", "pending", "published"}
      BY <1>0 DEF Render, BoxInv, BoxRests
    <2>2. QED
      BY <1>0, <2>1, BoxAtRest
  <1>2. PICK of, electorate, pc, counted :
          /\ of = reading[r].ballots /\ electorate = reading[r].electorate
          /\ pc = reading[r].pc /\ counted = Cardinality(of)
    OBVIOUS
  <1>3. /\ of \in SUBSET ballots /\ electorate \in 0..Cardinality(Voters)
        /\ lateEdits = 0 => electorate = Cardinality(active)
        /\ counted \in 0..Cardinality(Submissions) /\ counted <= Cardinality(ballots)
    BY <1>0, <1>2, ReadsDone DEF Render, ReadingFits
  <1>4. counted \in Nat /\ electorate \in Nat
    BY <1>3, OptionsFinite
  <1>5. Undisturbed => electorate = Cardinality(active) /\ counted <= electorate
    BY <1>0, <1>2, <1>3, BallotsWithinRegistry DEF Undisturbed
  <1>6. /\ page' = [page EXCEPT ![r] = IF pc = "live" THEN Live(electorate, counted)
                                       ELSE Shown(electorate, counted)]
        /\ reading' = [reading EXCEPT ![r] = Resting]
        /\ UNCHANGED <<stage, tally, result>> /\ pc # "rest"
    BY <1>2 DEF Render
  <1>7. /\ page'[r] = (IF pc = "live" THEN Live(electorate, counted) ELSE Shown(electorate, counted))
        /\ reading'[r] = Resting
    BY <1>0, <1>6 DEF PagesFit
  <1>8. StillTrue(Resting) /\ Resting.pc = "rest" /\ Resting \in ReadRow
    BY <1>0, RestingKnows DEF StillTrue
  <1>9. ReadingFits(r)'
    <2>1. StillTrue(reading[r])'
      BY <1>1, <1>7, <1>8 DEF StillTrue, Grown
    <2>2. QED
      BY <1>7, <1>8, <2>1 DEF ReadingFits
  <1>10. Undisturbed' = Undisturbed
    BY <1>1 DEF BoxRests, Undisturbed
  <1>11. ASSUME pc = "live" PROVE PageFits(r)'
    <2>1. page'[r] = Live(electorate, counted)
      BY <1>7, <1>11
    <2>2. /\ page'[r].kind = "live" /\ page'[r].electorate = electorate
          /\ page'[r].turnout = counted /\ page'[r].percent = Percent(counted, electorate)
      BY <2>1 DEF Live
    <2>3. Undisturbed => Percent(counted, electorate) <= 100
      BY <1>0, <1>2, <1>3, <1>4, LiveFits
    <2>4. Cardinality(ballots') = Cardinality(ballots)
      BY <1>1 DEF BoxRests
    <2>5. PageFits(r)'
      BY <1>3, <1>10, <2>2, <2>3, <2>4 DEF PageFits
    <2>6. QED
      BY <2>5
  <1>12. ASSUME pc # "live" PROVE PageFits(r)'
    <2> DEFINE abstain == NonVoting(electorate, counted)
               turnout == NonVoting(electorate, abstain)
    <2>1. page'[r] = Shown(electorate, counted)
      BY <1>7, <1>12
    <2>2. /\ page'[r].kind = "result" /\ page'[r].electorate = electorate
          /\ page'[r].turnout = turnout /\ page'[r].abstain = abstain
          /\ page'[r].items = result.items /\ page'[r].shares = Shares(result.items, turnout)
      BY <2>1 DEF Shown
    <2>3. /\ abstain \in Nat /\ turnout \in Nat /\ turnout + abstain = electorate
          /\ turnout <= counted
          /\ counted <= electorate => turnout = counted
      BY <1>4 DEF NonVoting
    <2>4. turnout \in 0..Cardinality(Submissions)
      BY <1>3, <1>4, <2>3, OptionsFinite
    <2>5. result # Nothing /\ result.of \subseteq of
      <3>1. pc \in {"admin", "public"} /\ reading[r].ballots # Nothing
        BY <1>0, <1>2, <1>6, <1>12 DEF ReadingFits, Render, Reads
      <3>2. QED
        BY <1>0, <1>2, <3>1 DEF ReadingFits
    <2>6. Cardinality(result.of) <= counted
      <3>1. IsFiniteSet(of)
        BY <1>0, <1>3, ReadFinite
      <3>2. QED
        BY <1>2, <2>5, <3>1, FS_Subset
    <2> HIDE DEF abstain, turnout
    <2>7. /\ Cardinality(ballots') = Cardinality(ballots) /\ result' = result
          /\ Cardinality(active') = Cardinality(active)
      BY <1>1, <1>6 DEF BoxRests
    <2>8. Undisturbed => Cardinality(result.of) <= turnout /\ turnout <= Cardinality(ballots)
      BY <1>3, <1>5, <2>3, <2>6
    <2>9. QED
      BY <1>3, <1>5, <1>10, <2>2, <2>3, <2>4, <2>5, <2>7, <2>8 DEF PageFits
  <1>13. PageFits(r)'
    BY <1>11, <1>12
  <1>14. StagesFit' /\ ResultFits' /\ PagesFit'
    BY <1>0, <1>1, <1>6, <1>7, <1>8, <1>9, <1>13, OtherPages DEF PagesFit
  <1>15. QED
    BY <1>1, <1>14 DEF CountInv

-----------------------------------------------------------------------------
(* The invariant                                                           *)

LEMMA CountInvStarts ==
  ASSUME Init
  PROVE  CountInv
  <1>1. BoxInv /\ OwnBallots
    <2>1. \A s \in Submissions : checked[s] = Nothing
      BY DEF Init
    <2>2. OwnBallots
      BY <2>1 DEF Init, OwnBallots
    <2>3. lateEdits \in 0..MaxLateEdits
      BY CountsAssumption DEF Init
    <2>4. twice \in BOOLEAN
      BY DEF Init
    <2>5. /\ active \subseteq Voters /\ ballots = {} /\ stage = "open"
          /\ checked \in [Submissions -> {Nothing} \cup [voter: Voters, answers: Validated]]
      BY DEF Init
    <2>6. QED
      BY <2>2, <2>3, <2>4, <2>5 DEF BoxInv
  <1>2. StillTrue(Resting) /\ Resting.pc = "rest" /\ Resting \in ReadRow
    BY <1>1, RestingKnows DEF StillTrue
  <1>3. StagesFit /\ ResultFits
    BY <1>2 DEF Init, StagesFit, ResultFits
  <1>4. \A r \in Readers : PageFits(r) /\ ReadingFits(r)
    BY <1>2 DEF Init, PageFits, ReadingFits
  <1>5. PagesFit
    BY <1>2, <1>4 DEF Init, PagesFit
  <1>6. QED
    BY <1>1, <1>3, <1>5 DEF CountInv

LEMMA CountSteps ==
  ASSUME [Next]_vars
  PROVE  BoxStep \/ TallyStep \/ PageStep \/ UNCHANGED vars
  BY DEF Next, BoxStep, TallyStep, PageStep

LEMMA CountInvKept ==
  ASSUME CountInv, [Next]_vars
  PROVE  CountInv'
  <1>0. BoxInv /\ OwnBallots /\ StagesFit /\ ResultFits /\ PagesFit
    BY DEF CountInv
  <1>1. ASSUME BoxInv', OwnBallots', Grown, UNCHANGED <<stage, tally, result, reading, page>>
        PROVE  CountInv'
    BY <1>0, <1>1, TallyStays, ResultStays, PagesStay DEF CountInv
  <1>2. CASE BoxStep
    <2>1. UNCHANGED <<stage, tally, result, reading, page>>
      BY <1>2 DEF BoxStep, Check, Commit, EditRegistry
    <2>2. QED
      BY <1>0, <1>1, <1>2, <2>1, BoxKept
  <1>3. CASE UNCHANGED vars
    <2>1. /\ BoxRests /\ UNCHANGED <<stage, tally, result, reading, page>>
          /\ stage' \in {"open", "closed", "tallying", "pending", "published"}
      BY <1>0, <1>3 DEF vars, BoxRests, BoxInv
    <2>2. QED
      BY <1>0, <1>1, <2>1, BoxAtRest
  <1>4. CASE PageStep
    BY <1>4, FoundKept, PageReadKept, RenderKept DEF PageStep
  <1>5. QED
    BY <1>2, <1>3, <1>4, TallyKept, CountSteps

(***************************************************************************)
(* Whatever is counted was accepted, and every count that is stored or     *)
(* shown is a number that a box and a registry of this size can give.      *)
(***************************************************************************)
THEOREM CountsTypeCorrect == Spec => []CountsTypeOK
  <1>1. ASSUME CountInv PROVE CountsTypeOK
    <2>0. BoxInv /\ ResultFits /\ PagesFit
      BY <1>1 DEF CountInv
    <2>1. \A q \in Questions : Answer(q) \subseteq SUBSET (Options \cup {"abstain", "text"})
      BY DEF Answer
    <2>2. Validated \subseteq [Questions -> SUBSET (Options \cup {"abstain", "text"})]
      BY <2>1 DEF Validated
    <2>3. \A s \in Submissions : checked[s] \in Ballot \cup {Nothing}
      <3>1. [voter: Voters, answers: Validated] \subseteq Ballot
        BY <2>2 DEF Ballot
      <3>2. QED
        BY <2>0, <3>1 DEF BoxInv
    <2>4. ASSUME result # Nothing
          PROVE  /\ result.of \subseteq ballots
                 /\ \A i \in DOMAIN result.items : result.items[i] \in 0..Cardinality(Submissions)
                 /\ result.abstain \in 0..Cardinality(Voters)
      <3>1. /\ result.of \in SUBSET ballots /\ result.items = Items(result.of)
            /\ result.electorate \in 0..Cardinality(Voters)
            /\ result.abstain = NonVoting(result.electorate, Cardinality(result.of))
        BY <2>0, <2>4 DEF ResultFits
      <3>2. DOMAIN Items(result.of) = (ChoiceQuestions \X Options) \cup (Texts \X {"text"})
        BY DEF Items
      <3>3. Cardinality(result.of) \in Nat /\ Cardinality(Voters) \in Nat
        BY <2>0, <3>1, ReadFinite, OptionsFinite
      <3>4. QED
        BY <2>0, <3>1, <3>2, <3>3, ItemsTyped, NonVotingTyped
    <2>5. \A r \in Readers : page[r] # Nothing =>
            /\ page[r].electorate \in 0..Cardinality(Voters)
            /\ page[r].turnout \in 0..Cardinality(Submissions)
      BY <2>0 DEF PagesFit, PageFits
    <2>6. QED
      BY <2>0, <2>3, <2>4, <2>5 DEF CountsTypeOK, BoxInv
  <1>2. QED
    BY <1>1, CountInvStarts, CountInvKept, PTL DEF Spec

(***************************************************************************)
(* While nobody votes twice and no late edit of the registry is written,   *)
(* the marks of a question with one answer, the abstentions stored and the *)
(* ballots that mark none of its options, because they abstain or because  *)
(* the question may stay blank, make up the electorate, whenever either    *)
(* was read.                                                               *)
(***************************************************************************)
THEOREM TotalsCorrect == Spec => []TotalsMatchRegistry
  <1>1. ASSUME CountInv PROVE TotalsMatchRegistry
    <2>1. SUFFICES ASSUME result # Nothing, Undisturbed, NEW q \in Singles
                   PROVE  TotalOf(result.items, q) + result.abstain
                            + Silent(result.of, q) = result.electorate
      BY DEF TotalsMatchRegistry
    <2>2. BoxInv /\ OwnBallots /\ ResultFits
      BY <1>1 DEF CountInv
    <2>3. PICK of : of = result.of
      OBVIOUS
    <2>4. /\ of \in SUBSET ballots /\ result.items = Items(of)
          /\ result.electorate = Cardinality(active)
          /\ result.abstain = NonVoting(result.electorate, Cardinality(of))
      BY <2>1, <2>2, <2>3 DEF ResultFits, Undisturbed
    <2>5. Cardinality(of) <= Cardinality(active) /\ Cardinality(of) \in Nat
      BY <2>1, <2>2, <2>4, BallotsWithinRegistry, ReadFinite
    <2>6. Cardinality(active) \in Nat
      BY <2>2, ActiveFinite, OptionsFinite
    <2>7. result.abstain = Cardinality(active) - Cardinality(of)
      BY <2>4, <2>5, <2>6 DEF NonVoting
    <2>8. /\ TotalOf(result.items, q) + Silent(of, q) = Cardinality(of)
          /\ TotalOf(result.items, q) \in Nat
      BY <2>2, <2>4, SingleAddsUp
    <2>9. Silent(of, q) \in Nat
      <3>1. {s \in of : checked[s].answers[q] \cap Options = {}} \in SUBSET ballots
        BY <2>4
      <3>2. QED
        BY <2>2, <3>1, ReadFinite DEF Silent
    <2>10. QED
      BY <2>3, <2>4, <2>5, <2>6, <2>7, <2>8, <2>9
  <1>2. QED
    BY <1>1, CountInvStarts, CountInvKept, PTL DEF Spec

(***************************************************************************)
(* The numbers of a page, read in calls of their own while ballots commit, *)
(* fit together: no more votes than voters, turnout and abstentions make   *)
(* up the electorate, the live turnout is at most a hundred per cent, and  *)
(* the shares of a question make up a hundred but for their rounding.      *)
(***************************************************************************)
THEOREM PageNumbersCorrect == Spec => []PageNumbersFit
  <1>1. ASSUME CountInv PROVE PageNumbersFit
    <2>0. BoxInv /\ OwnBallots /\ ResultFits /\ PagesFit
      BY <1>1 DEF CountInv
    <2>1. ASSUME NEW r \in Readers, page[r] # Nothing, page[r].kind = "result"
          PROVE  /\ page[r].items = Items(result.of) /\ result.of \in SUBSET ballots
                 /\ PageFits(r)
      BY <2>0, <2>1 DEF PagesFit, PageFits, ResultFits
    <2>2. TurnoutCoversCounts
      <3>1. SUFFICES ASSUME NEW r \in Readers, page[r] # Nothing, page[r].kind = "result"
                     PROVE  /\ Undisturbed => \A q \in Singles :
                                 TotalOf(page[r].items, q) <= page[r].turnout
                            /\ page[r].turnout + page[r].abstain = page[r].electorate
        BY DEF TurnoutCoversCounts
      <3>2. ASSUME Undisturbed, NEW q \in Singles
            PROVE  TotalOf(page[r].items, q) <= page[r].turnout
        <4>1. /\ TotalOf(page[r].items, q) <= Cardinality(result.of)
              /\ TotalOf(page[r].items, q) \in Nat
          BY <2>0, <2>1, <3>1, SingleAddsUp
        <4>2. Cardinality(result.of) <= page[r].turnout
          BY <2>1, <3>1, <3>2 DEF PageFits
        <4>3. page[r].turnout \in Nat /\ Cardinality(result.of) \in Nat
          BY <2>0, <2>1, <3>1, ReadFinite, OptionsFinite DEF PageFits
        <4>4. QED
          BY <4>1, <4>2, <4>3
      <3>3. QED
        BY <2>1, <3>1, <3>2 DEF PageFits
    <2>3. LiveTurnoutAtMostAll
      BY <2>0 DEF LiveTurnoutAtMostAll, PagesFit, PageFits
    <2>4. SharesAddUp
      <3>1. SUFFICES ASSUME NEW r \in Readers, page[r] # Nothing, page[r].kind = "result",
                            NEW q \in ChoiceQuestions, TotalOf(page[r].items, q) > 0
                     PROVE  2 * TotalOf(page[r].shares, q)
                              \in (200 - Cardinality(Options))..(200 + Cardinality(Options))
        BY DEF SharesAddUp
      <3>2. \A o \in Options : page[r].items[<<q, o>>] \in Nat
        BY <2>0, <2>1, <3>1, ItemsTyped, OptionsFinite
      <3>3. page[r].shares = Shares(page[r].items, page[r].turnout)
        BY <2>1, <3>1 DEF PageFits
      <3>4. QED
        BY <3>1, <3>2, <3>3, SharesOfTotal
    <2>5. QED
      BY <2>2, <2>3, <2>4 DEF PageNumbersFit
  <1>2. QED
    BY <1>1, CountInvStarts, CountInvKept, PTL DEF Spec

(***************************************************************************)
(* Whoever reloads a page of results never sees more abstentions: what a   *)
(* page reads later has all the ballots it showed before.                  *)
(***************************************************************************)
THEOREM AbstentionsCorrect == Spec => AbstentionsNeverRise
  <1> DEFINE Falls ==
        \A r \in Readers :
          /\ page[r] # Nothing /\ page[r].kind = "result" /\ page'[r] # page[r]
          /\ Undisturbed'
          => page'[r].abstain <= page[r].abstain
  <1>1. ASSUME CountInv, [Next]_vars PROVE Falls
    <2>1. SUFFICES ASSUME NEW r \in Readers, page[r] # Nothing, page[r].kind = "result",
                          page'[r] # page[r], Undisturbed'
                   PROVE  page'[r].abstain <= page[r].abstain
      OBVIOUS
    <2>2. /\ BoxInv /\ OwnBallots /\ ResultFits /\ PagesFit
          /\ PageFits(r) /\ ReadingFits(r)
      BY <1>1 DEF CountInv, PagesFit
    <2>3. PICK u \in Readers : Render(u)
      BY <1>1, <2>1 DEF Next, vars, Check, Commit, EditRegistry, Close, BeginTally, ReadForTally,
            StoreResult, Advance, FindResult, ReadForPage
    <2>4. u = r
      BY <2>1, <2>2, <2>3 DEF Render, PagesFit
    <2>5. Undisturbed
      BY <2>1, <2>3 DEF Undisturbed, Render
    <2>6. PICK of, electorate, counted :
            /\ of = reading[r].ballots /\ electorate = reading[r].electorate
            /\ counted = Cardinality(of)
      OBVIOUS
    <2>7. /\ of \in SUBSET ballots /\ electorate = Cardinality(active)
          /\ counted \in Nat /\ electorate \in Nat /\ counted <= electorate
          /\ of # Nothing
      <3>1. /\ of \in SUBSET ballots /\ electorate = Cardinality(active) /\ of # Nothing
        BY <2>2, <2>3, <2>4, <2>5, <2>6, ReadsDone DEF Render, ReadingFits, Undisturbed, Reads
      <3>2. QED
        BY <2>2, <2>5, <2>6, <3>1, ReadFinite, ActiveFinite, OptionsFinite, BallotsWithinRegistry
    <2>8. page[r].turnout <= counted /\ reading[r].pc \notin {"live", "rest"}
      BY <2>1, <2>2, <2>3, <2>4, <2>5, <2>6, <2>7 DEF ReadingFits, Render
    <2>9. page'[r] = Shown(electorate, counted)
      BY <2>2, <2>3, <2>4, <2>6, <2>8 DEF Render, PagesFit
    <2>10. page'[r].abstain = electorate - counted
      BY <2>7, <2>9 DEF Shown, NonVoting
    <2>11. /\ page[r].abstain \in Nat /\ page[r].turnout \in Nat
           /\ page[r].turnout + page[r].abstain = electorate
      BY <2>1, <2>2, <2>5, <2>7, OptionsFinite DEF PageFits
    <2>12. QED
      BY <2>7, <2>8, <2>10, <2>11
  <1> HIDE DEF Falls
  <1>2. QED
    BY <1>1, CountInvStarts, CountInvKept, PTL DEF Spec, AbstentionsNeverRise, Falls
=============================================================================
