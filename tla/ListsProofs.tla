---------------------------- MODULE ListsProofs -----------------------------
(***************************************************************************)
(* Theorems about the loops of Lists, for lists of any length.  A loop is  *)
(* a fold, FoldLeft, that is, the value at 1..Len(s) of a function on sets *)
(* of positions that is chosen to satisfy a recursive equation.  That the  *)
(* equation can be satisfied is shown once (FoldExists), and what it says  *)
(* of the values after each element once (FoldSteps); then each loop has   *)
(* its own induction over the elements it has looked at.                   *)
(***************************************************************************)
EXTENDS Lists, FiniteSetTheorems, WellFoundedInduction, TLAPS

-----------------------------------------------------------------------------
(* Induction over the positions of a list. *)

\* A set of naturals has a least element.
LEMMA Least ==
  ASSUME NEW S \in SUBSET Nat, S # {}
  PROVE  \E m \in S : \A k \in S : m <= k
<1> DEFINE R == {ss \in Nat \X Nat : ss[1] < ss[2]}
<1>1. IsWellFoundedOn(R, Nat)
  BY NatLessThanWellFounded DEF OpToRel
<1> HIDE DEF R
<1>2. PICK m \in S : \A k \in S : ~ (<<k, m>> \in R)
  BY <1>1, WFMin
<1>3. ASSUME NEW k \in S, k < m
      PROVE  <<k, m>> \in R
  BY <1>3 DEF R
<1>4. \A k \in S : ~ (k < m)
  BY <1>2, <1>3
<1> QED
  BY <1>4

\* What holds after no element, and after each element if it held before it,
\* holds after all of them.
LEMMA StepByStep ==
  ASSUME NEW n \in Nat, NEW Good, 0 \in Good,
         \A k \in 1..n : k - 1 \in Good => k \in Good
  PROVE  \A k \in 0..n : k \in Good
<1> DEFINE Bad == {k \in 0..n : k \notin Good}
<1>1. SUFFICES ASSUME Bad # {} PROVE FALSE
  OBVIOUS
<1>2. PICK m \in Bad : \A k \in Bad : m <= k
  <2>1. Bad \in SUBSET Nat
    OBVIOUS
  <2> HIDE DEF Bad
  <2> QED
    BY <1>1, <2>1, Least
<1>3. m # 0 /\ m \in 1..n
  BY <1>2
<1>4. m - 1 \in 0..n /\ ~ (m <= m - 1)
  BY <1>3
<1>5. m - 1 \in Good
  BY <1>2, <1>4
<1> QED
  BY <1>2, <1>3, <1>5

\* A list has an element of its set at each of its positions.
LEMMA ListOf ==
  ASSUME NEW V, NEW s \in Seq(V)
  PROVE  Len(s) \in Nat /\ DOMAIN s = 1..Len(s) /\ \A k \in 1..Len(s) : s[k] \in V
OBVIOUS

-----------------------------------------------------------------------------
(* Folds. *)

\* The elements of a list are in its set.
LEMMA ElementsOfList ==
  ASSUME NEW S, NEW s \in Seq(S)
  PROVE  ToSet(s) \subseteq S
  BY ListOf DEF ToSet

\* A list is a list of any set that holds its elements.
LEMMA ListWithin ==
  ASSUME NEW V, NEW s \in Seq(V), NEW W, ToSet(s) \subseteq W
  PROVE  s \in Seq(W)
<1>1. \A i \in 1..Len(s) : s[i] \in W
  BY ListOf DEF ToSet
<1> QED
  BY <1>1

\* The greatest of some positions is k if no other is greater.
LEMMA MaxIs ==
  ASSUME NEW t \in SUBSET Int, NEW k \in t, \A i \in t : i <= k
  PROVE  Max(t) = k
<1>1. \A x \in t : (\A y \in t : x >= y) => x = k
  OBVIOUS
<1>2. \A y \in t : k >= y
  OBVIOUS
<1> QED
  BY <1>1, <1>2 DEF Max

\* Some positions of a list have a greatest one.
LEMMA MaxIn ==
  ASSUME NEW n \in Nat, NEW t \in SUBSET (1..n), t # {}
  PROVE  Max(t) \in t /\ \A i \in t : i <= Max(t)
<1> DEFINE Mirror == {n - i : i \in t}
<1>1. \A i \in t : n - i \in Nat
  OBVIOUS
<1>2. Mirror \in SUBSET Nat /\ Mirror # {}
  BY <1>1
<1>3. PICK m \in Mirror : \A i \in Mirror : m <= i
  BY <1>2, Least
<1>4. PICK k \in t : m = n - k
  BY <1>3
<1>5. \A i \in t : n - k <= n - i
  BY <1>3, <1>4
<1>6. \A i \in t : i <= k
  BY <1>5
<1> QED
  BY <1>6, MaxIs

\* A fold of the list s over E with values in R.
IsFold(R, E, base, op, s) ==
  /\ base \in R
  /\ s \in Seq(E)
  /\ \A r \in R, e \in E : op[<<r, e>>] \in R

\* h gives the value of the fold for each set of positions.
Solves(h, base, op, s) ==
  \A t \in SUBSET DOMAIN s :
    h[t] = IF t = {} THEN base ELSE op[<<h[t \ {Max(t)}], s[Max(t)]>>]

\* h satisfies the equation of the fold as long as its values are in R.
Satisfies(h, R, base, op, s) ==
  \A t \in SUBSET DOMAIN s :
    IF t = {} THEN h[t] = base
    ELSE h[t \ {Max(t)}] \in R => h[t] = op[<<h[t \ {Max(t)}], s[Max(t)]>>]

\* acc gives the value of the fold after each number of elements.
Accumulates(acc, R, base, op, s) ==
  /\ acc \in [0..Len(s) -> R]
  /\ acc[0] = base
  /\ \A k \in 1..Len(s) : acc[k] = op[<<acc[k - 1], s[k]>>]

\* The equation of a fold has a solution, whatever the list.
LEMMA FoldExists ==
  ASSUME NEW R, NEW E, NEW base, NEW op, NEW s, IsFold(R, E, base, op, s)
  PROVE  \E h \in [SUBSET DOMAIN s -> R] : Solves(h, base, op, s)
<1> USE DEF IsFold
<1> DEFINE SolvesTo(h, n) ==
             \A t \in SUBSET (1..n) :
               h[t] = IF t = {} THEN base ELSE op[<<h[t \ {Max(t)}], s[Max(t)]>>]
           Good == {n \in 0..Len(s) : \E h \in [SUBSET (1..n) -> R] : SolvesTo(h, n)}
<1>1. 0 \in Good
  <2> DEFINE h == [t \in SUBSET (1..0) |-> base]
  <2>1. \A t \in SUBSET (1..0) : t = {}
    OBVIOUS
  <2>2. h \in [SUBSET (1..0) -> R] /\ SolvesTo(h, 0)
    BY <2>1
  <2>3. 0 \in 0..Len(s)
    OBVIOUS
  <2> HIDE DEF h, SolvesTo
  <2>4. \E f \in [SUBSET (1..0) -> R] : SolvesTo(f, 0)
    BY <2>2
  <2> QED
    BY <2>3, <2>4
<1>2. ASSUME NEW n \in 1..Len(s), n - 1 \in Good
      PROVE  n \in Good
  <2>1. PICK h \in [SUBSET (1..(n - 1)) -> R] : SolvesTo(h, n - 1)
    BY <1>2
  <2> DEFINE g == [t \in SUBSET (1..n) |->
                     IF n \in t THEN op[<<h[t \ {n}], s[n]>>] ELSE h[t]]
  <2>2. \A t \in SUBSET (1..n) : /\ t \ {n} \in SUBSET (1..(n - 1))
                                 /\ n \notin t => t \in SUBSET (1..(n - 1))
    OBVIOUS
  <2>3. s[n] \in E
    OBVIOUS
  <2>4. g \in [SUBSET (1..n) -> R]
    BY <2>1, <2>2, <2>3
  <2>5. ASSUME NEW t \in SUBSET (1..n)
        PROVE  g[t] = IF t = {} THEN base ELSE op[<<g[t \ {Max(t)}], s[Max(t)]>>]
    <3>1. CASE n \in t
      <4>1. Max(t) = n
        BY <3>1, MaxIs
      <4>2. g[t \ {n}] = h[t \ {n}]
        BY <2>2
      <4> QED
        BY <3>1, <4>1, <4>2
    <3>2. CASE n \notin t /\ t # {}
      <4>1. t \in SUBSET (1..(n - 1)) /\ t \ {Max(t)} \in SUBSET (1..(n - 1))
        BY <2>2, <3>2
      <4>2. g[t] = h[t] /\ g[t \ {Max(t)}] = h[t \ {Max(t)}]
        BY <3>2, <4>1
      <4> QED
        BY <2>1, <3>2, <4>1, <4>2
    <3>3. CASE t = {}
      <4>1. g[t] = h[t] /\ t \in SUBSET (1..(n - 1))
        BY <3>3
      <4> QED
        BY <2>1, <3>3, <4>1
    <3> QED
      BY <3>1, <3>2, <3>3
  <2>6. SolvesTo(g, n)
    BY <2>5
  <2> HIDE DEF g, SolvesTo
  <2> QED
    BY <2>4, <2>6
<1>3. Len(s) \in Good
  <2>1. Len(s) \in Nat /\ Len(s) \in 0..Len(s)
    OBVIOUS
  <2>2. \A k \in 1..Len(s) : k - 1 \in Good => k \in Good
    BY <1>2
  <2> HIDE DEF Good
  <2> QED
    BY <1>1, <2>1, <2>2, StepByStep
<1>4. PICK h \in [SUBSET (1..Len(s)) -> R] : SolvesTo(h, Len(s))
  BY <1>3
<1>5. DOMAIN s = 1..Len(s)
  OBVIOUS
<1>6. Solves(h, base, op, s)
  BY <1>4, <1>5 DEF Solves
<1> QED
  BY <1>4, <1>5, <1>6

\* A solution gives the value after each element: the next value is computed
\* of the last one and the next element.
LEMMA FoldSteps ==
  ASSUME NEW R, NEW E, NEW base, NEW op, NEW s, IsFold(R, E, base, op, s), NEW h,
         Satisfies(h, R, base, op, s)
  PROVE  \E acc : Accumulates(acc, R, base, op, s) /\ h[DOMAIN s] = acc[Len(s)]
<1> USE DEF IsFold
<1> DEFINE Good == {k \in 0..Len(s) : h[1..k] \in R}
           acc == [k \in 0..Len(s) |-> h[1..k]]
<1>0. DOMAIN s = 1..Len(s) /\ Len(s) \in Nat
  OBVIOUS
<1>1. h[1..0] = base
  <2>1. 1..0 = {} /\ {} \in SUBSET DOMAIN s
    OBVIOUS
  <2> QED
    BY <2>1 DEF Satisfies
<1>2. ASSUME NEW k \in 1..Len(s), h[1..(k - 1)] \in R
      PROVE  h[1..k] = op[<<h[1..(k - 1)], s[k]>>] /\ h[1..k] \in R
  <2>1. Max(1..k) = k
    <3>1. 1..k \in SUBSET Int /\ k \in 1..k /\ \A i \in 1..k : i <= k
      OBVIOUS
    <3> QED
      BY <3>1, MaxIs
  <2>2. (1..k) \ {k} = 1..(k - 1) /\ 1..k # {}
    <3>1. k \in Int /\ 1 <= k
      OBVIOUS
    <3>2. \A i : i \in (1..k) \ {k} <=> i \in 1..(k - 1)
      BY <3>1
    <3>3. (1..k) \ {k} = 1..(k - 1)
      BY <3>2, Zenon
    <3>4. k \in 1..k
      BY <3>1
    <3> QED
      BY <3>3, <3>4, Zenon
  <2>3. 1..k \in SUBSET DOMAIN s /\ s[k] \in E
    BY <1>0
  <2>4. h[1..k] = op[<<h[1..(k - 1)], s[k]>>]
    BY <1>2, <2>1, <2>2, <2>3 DEF Satisfies
  <2> QED
    BY <1>2, <2>3, <2>4
<1>3. \A k \in 0..Len(s) : k \in Good
  <2>1. 0 \in Good
    BY <1>1
  <2>2. ASSUME NEW k \in 1..Len(s), k - 1 \in Good
        PROVE  k \in Good
    <3>1. h[1..(k - 1)] \in R
      BY <2>2
    <3>2. h[1..k] \in R
      BY <1>2, <3>1
    <3> QED
      BY <3>2
  <2> HIDE DEF Good
  <2> QED
    BY <2>1, <2>2, <1>0, StepByStep
<1>4. acc \in [0..Len(s) -> R] /\ acc[0] = base
  BY <1>1, <1>3
<1>5. \A k \in 1..Len(s) : acc[k] = op[<<acc[k - 1], s[k]>>]
  BY <1>2, <1>3
<1>6. h[DOMAIN s] = acc[Len(s)]
  BY <1>0
<1>7. Accumulates(acc, R, base, op, s)
  BY <1>4, <1>5 DEF Accumulates
<1> HIDE DEF acc
<1> QED
  BY <1>6, <1>7

-----------------------------------------------------------------------------
(* Positions and their ranks. *)

\* Sets of positions are finite.
LEMMA PositionsFinite ==
  ASSUME NEW n \in Nat, NEW P \in SUBSET (1..n)
  PROVE  IsFiniteSet(P) /\ Cardinality(P) \in Nat
<1>1. IsFiniteSet(1..n)
  BY FS_Interval
<1> QED
  BY <1>1, FS_Subset, FS_CardinalityType

\* What a position behind the others does to the ranks: theirs stay, and its
\* own is the last.
LEMMA RankOfNext ==
  ASSUME NEW n \in Nat, NEW P \in SUBSET (1..n)
  PROVE  /\ Cardinality(P \cup {n + 1}) = Cardinality(P) + 1
         /\ \A i \in P : Rank(P \cup {n + 1}, i) = Rank(P, i)
         /\ Rank(P \cup {n + 1}, n + 1) = Cardinality(P) + 1
<1>1. n + 1 \notin P
  OBVIOUS
<1>2. Cardinality(P \cup {n + 1}) = Cardinality(P) + 1
  BY <1>1, PositionsFinite, FS_AddElement
<1>3. ASSUME NEW i \in P
      PROVE  Rank(P \cup {n + 1}, i) = Rank(P, i)
  <2>1. {j \in P \cup {n + 1} : j <= i} = {j \in P : j <= i}
    OBVIOUS
  <2> QED
    BY <2>1 DEF Rank
<1>4. {j \in P \cup {n + 1} : j <= n + 1} = P \cup {n + 1}
  <2>1. \A j \in P \cup {n + 1} : j <= n + 1
    OBVIOUS
  <2> QED
    BY <2>1, Zenon
<1> QED
  BY <1>2, <1>3, <1>4 DEF Rank

\* The ranks of some positions are the numbers from 1 to their number, each
\* once.
LEMMA RanksAreNumbers ==
  ASSUME NEW n \in Nat, NEW P \in SUBSET (1..n)
  PROVE  /\ \A i \in P : Rank(P, i) \in 1..Cardinality(P)
         /\ \A i, j \in P : Rank(P, i) = Rank(P, j) => i = j
         /\ \A m \in 1..Cardinality(P) : \E i \in P : Rank(P, i) = m
<1> DEFINE Numbered(Q) ==
             /\ \A i \in Q : Rank(Q, i) \in 1..Cardinality(Q)
             /\ \A i, j \in Q : Rank(Q, i) = Rank(Q, j) => i = j
             /\ \A m \in 1..Cardinality(Q) : \E i \in Q : Rank(Q, i) = m
           Good == {k \in Nat : \A Q \in SUBSET (1..k) : Numbered(Q)}
<1>1. 0 \in Good
  <2>1. \A Q \in SUBSET (1..0) : Q = {}
    OBVIOUS
  <2>2. Cardinality({}) = 0
    BY FS_EmptySet
  <2>3. Numbered({})
    BY <2>2
  <2> HIDE DEF Numbered
  <2> QED
    BY <2>1, <2>3
<1>2. ASSUME NEW k \in 1..n, k - 1 \in Good
      PROVE  k \in Good
  <2>1. SUFFICES ASSUME NEW Q \in SUBSET (1..k) PROVE Numbered(Q)
    OBVIOUS
  <2>2. CASE k \notin Q
    <3>1. Q \in SUBSET (1..(k - 1))
      BY <2>2
    <3> QED
      BY <1>2, <3>1
  <2>3. CASE k \in Q
    <3> DEFINE O == Q \ {k}
    <3>1. k - 1 \in Nat /\ (k - 1) + 1 = k /\ O \in SUBSET (1..(k - 1)) /\ Q = O \cup {k}
      BY <2>3
    <3> HIDE DEF O
    <3>2. Numbered(O)
      BY <1>2, <3>1
    <3>3. /\ Cardinality(Q) = Cardinality(O) + 1
          /\ \A i \in O : Rank(Q, i) = Rank(O, i)
          /\ Rank(Q, k) = Cardinality(O) + 1
      BY <3>1, RankOfNext
    <3>4. Cardinality(O) \in Nat
      BY <3>1, PositionsFinite
    <3>5. \A i \in O : Rank(Q, i) \in 1..Cardinality(O)
      BY <3>2, <3>3
    <3>6. \A i \in Q : Rank(Q, i) \in 1..Cardinality(Q)
      BY <3>1, <3>3, <3>4, <3>5
    <3>7. \A i, j \in Q : Rank(Q, i) = Rank(Q, j) => i = j
      <4>1. \A i, j \in O : Rank(Q, i) = Rank(Q, j) => i = j
        BY <3>2, <3>3
      <4>2. \A i \in O : Rank(Q, i) # Rank(Q, k)
        BY <3>3, <3>4, <3>5
      <4> QED
        BY <3>1, <4>1, <4>2
    <3>8. ASSUME NEW m \in 1..Cardinality(Q)
          PROVE  \E i \in Q : Rank(Q, i) = m
      <4>1. CASE m = Cardinality(O) + 1
        BY <2>3, <3>3, <4>1
      <4>2. CASE m \in 1..Cardinality(O)
        <5>1. PICK i \in O : Rank(O, i) = m
          BY <3>2, <4>2
        <5> QED
          BY <3>1, <3>3, <5>1
      <4> QED
        BY <3>3, <3>4, <4>1, <4>2
    <3> QED
      BY <3>6, <3>7, <3>8
  <2> QED
    BY <2>2, <2>3
<1>3. n \in Good
  <2>1. n \in 0..n /\ \A k \in 1..n : k - 1 \in Good => k \in Good
    BY <1>2
  <2> HIDE DEF Good
  <2> QED
    BY <1>1, <2>1, StepByStep
<1> QED
  BY <1>3

\* The same of positions of a list.
LEMMA RanksInList ==
  ASSUME NEW V, NEW v \in Seq(V), NEW P \in SUBSET (1..Len(v))
  PROVE  /\ Cardinality(P) \in Nat
         /\ \A i \in P : Rank(P, i) \in 1..Cardinality(P)
         /\ \A i, j \in P : Rank(P, i) = Rank(P, j) => i = j
         /\ \A m \in 1..Cardinality(P) : \E i \in P : Rank(P, i) = m
<1>1. PICK n \in Nat : n = Len(v)
  OBVIOUS
<1>2. P \in SUBSET (1..n)
  BY <1>1
<1> QED
  BY <1>2, RanksAreNumbers, PositionsFinite

\* The element of a position is found at its rank, and nothing else is.
LEMMA AtRanks ==
  ASSUME NEW V, NEW v \in Seq(V), NEW P \in SUBSET (1..Len(v))
  PROVE  /\ At(v, P) \in Seq(V)
         /\ Len(At(v, P)) = Cardinality(P)
         /\ \A i \in P : At(v, P)[Rank(P, i)] = v[i]
<1>0. Cardinality(P) \in Nat
  BY RanksInList
<1>1. ASSUME NEW i \in P
      PROVE  (CHOOSE j \in P : Rank(P, j) = Rank(P, i)) = i
  <2>1. \A j \in P : Rank(P, j) = Rank(P, i) => j = i
    BY RanksInList
  <2> QED
    BY <2>1
<1>2. ASSUME NEW i \in P
      PROVE  At(v, P)[Rank(P, i)] = v[i]
  <2>1. Rank(P, i) \in 1..Cardinality(P)
    BY RanksInList
  <2> QED
    BY <1>1, <2>1 DEF At
<1>3. ASSUME NEW m \in 1..Cardinality(P)
      PROVE  At(v, P)[m] \in V
  <2>1. PICK i \in P : Rank(P, i) = m
    BY RanksInList
  <2> QED
    BY <1>2, <2>1
<1>4. At(v, P) \in [1..Cardinality(P) -> V]
  BY <1>3 DEF At
<1> QED
  BY <1>0, <1>2, <1>4

\* A list that has them there is the list of the elements at the positions.
LEMMA IsAt ==
  ASSUME NEW V, NEW v \in Seq(V), NEW P \in SUBSET (1..Len(v)),
         NEW r \in Seq(V), Len(r) = Cardinality(P), \A i \in P : r[Rank(P, i)] = v[i]
  PROVE  r = At(v, P)
<1>1. /\ At(v, P) \in Seq(V) /\ Len(At(v, P)) = Cardinality(P)
      /\ \A i \in P : At(v, P)[Rank(P, i)] = v[i]
  BY AtRanks
<1>2. ASSUME NEW m \in 1..Cardinality(P)
      PROVE  r[m] = At(v, P)[m]
  <2>1. PICK i \in P : Rank(P, i) = m
    BY RanksInList
  <2> QED
    BY <1>1, <2>1
<1> QED
  BY <1>1, <1>2

\* The elements of such a list are those at the positions.
LEMMA ElementsAt ==
  ASSUME NEW V, NEW v \in Seq(V), NEW P \in SUBSET (1..Len(v))
  PROVE  ToSet(At(v, P)) = {v[i] : i \in P}
<1>1. /\ At(v, P) \in Seq(V) /\ Len(At(v, P)) = Cardinality(P)
      /\ \A i \in P : At(v, P)[Rank(P, i)] = v[i]
  BY AtRanks
<1>2. DOMAIN At(v, P) = 1..Cardinality(P)
  BY <1>1
<1>3. ASSUME NEW m \in 1..Cardinality(P)
      PROVE  At(v, P)[m] \in {v[i] : i \in P}
  <2>1. PICK i \in P : Rank(P, i) = m
    BY RanksInList
  <2> QED
    BY <1>1, <2>1
<1>4. ASSUME NEW i \in P
      PROVE  v[i] \in ToSet(At(v, P))
  <2>1. Rank(P, i) \in 1..Cardinality(P)
    BY RanksInList
  <2> QED
    BY <1>1, <1>2, <2>1 DEF ToSet
<1> QED
  BY <1>2, <1>3, <1>4 DEF ToSet

\* A list is the one of the elements at all of its positions.
LEMMA AllPositions ==
  ASSUME NEW V, NEW s \in Seq(V)
  PROVE  s = At(s, 1..Len(s))
<1>1. Len(s) \in Nat /\ Cardinality(1..Len(s)) = Len(s)
  <2>1. PICK n \in Nat : n = Len(s)
    OBVIOUS
  <2>2. Cardinality(1..n) = n
    BY FS_Interval
  <2> QED
    BY <2>1, <2>2
<1>2. ASSUME NEW i \in 1..Len(s)
      PROVE  s[Rank(1..Len(s), i)] = s[i]
  <2>1. {j \in 1..Len(s) : j <= i} = 1..i
    BY <1>1
  <2>2. Cardinality(1..i) = i
    BY <1>1, FS_Interval
  <2> QED
    BY <2>1, <2>2 DEF Rank
<1> QED
  BY <1>1, <1>2, IsAt

\* A position behind the others appends its element.
LEMMA AtNext ==
  ASSUME NEW V, NEW v \in Seq(V), NEW k \in 1..Len(v), NEW P \in SUBSET (1..(k - 1))
  PROVE  At(v, P \cup {k}) = Append(At(v, P), v[k])
<1>0. k - 1 \in Nat /\ (k - 1) + 1 = k /\ P \in SUBSET (1..Len(v)) /\ P \cup {k} \in SUBSET (1..Len(v))
  OBVIOUS
<1>1. /\ At(v, P) \in Seq(V) /\ Len(At(v, P)) = Cardinality(P)
      /\ \A i \in P : At(v, P)[Rank(P, i)] = v[i]
  BY <1>0, AtRanks
<1>2. /\ Cardinality(P \cup {k}) = Cardinality(P) + 1
      /\ \A i \in P : Rank(P \cup {k}, i) = Rank(P, i)
      /\ Rank(P \cup {k}, k) = Cardinality(P) + 1
  <2> DEFINE m == k - 1
  <2>1. m \in Nat /\ k = m + 1 /\ P \in SUBSET (1..m)
    BY <1>0
  <2> HIDE DEF m
  <2> QED
    BY <2>1, RankOfNext
<1>3. Cardinality(P) \in Nat /\ \A i \in P : Rank(P, i) \in 1..Cardinality(P)
  BY <1>0, RanksInList
<1> DEFINE r == Append(At(v, P), v[k])
<1>4. /\ r \in Seq(V) /\ Len(r) = Cardinality(P) + 1 /\ r[Cardinality(P) + 1] = v[k]
      /\ \A m \in 1..Cardinality(P) : r[m] = At(v, P)[m]
  BY <1>1, <1>3
<1> HIDE DEF r
<1>5. \A i \in P \cup {k} : r[Rank(P \cup {k}, i)] = v[i]
  BY <1>1, <1>2, <1>3, <1>4
<1>6. r = At(v, P \cup {k})
  <2>1. P \cup {k} \in SUBSET (1..Len(v)) /\ r \in Seq(V) /\ Len(r) = Cardinality(P \cup {k})
    BY <1>0, <1>2, <1>4
  <2> QED
    BY <2>1, <1>5, IsAt, Zenon
<1> QED
  BY <1>6 DEF r

\* acc[k] is what a loop has appended to a list after k elements: at each
\* position of P the element of v.
Appends(acc, v, P) ==
  /\ acc[0] = <<>>
  /\ \A k \in 1..Len(v) : acc[k] = IF k \in P THEN Append(acc[k - 1], v[k]) ELSE acc[k - 1]

\* What a loop makes that appends something at certain positions.
LEMMA Appended ==
  ASSUME NEW V, NEW v \in Seq(V), NEW P \in SUBSET (1..Len(v)),
         NEW acc, Appends(acc, v, P)
  PROVE  /\ \A k \in 0..Len(v) : acc[k] = At(v, {i \in P : i <= k})
         /\ acc[Len(v)] = At(v, P)
<1> USE DEF Appends
<1> DEFINE Seen(k) == {i \in P : i <= k}
           Good == {k \in 0..Len(v) : acc[k] = At(v, Seen(k))}
<1>0. Len(v) \in Nat /\ \A i \in P : i \in Nat /\ 1 <= i /\ i <= Len(v)
  OBVIOUS
<1>1. acc[0] = At(v, Seen(0))
  <2>1. \A i \in P : ~ (i <= 0)
    BY <1>0
  <2>2. Seen(0) = {}
    BY <2>1, Zenon
  <2>3. At(v, {}) \in Seq(V) /\ Len(At(v, {})) = 0
    BY AtRanks, FS_EmptySet
  <2>4. At(v, {}) = <<>>
    BY <2>3
  <2> QED
    BY <2>2, <2>4
<1>2. ASSUME NEW k \in 1..Len(v), acc[k - 1] = At(v, Seen(k - 1))
      PROVE  acc[k] = At(v, Seen(k))
  <2>0. k \in Nat /\ \A i \in P : i <= k <=> i <= k - 1 \/ i = k
    BY <1>0
  <2>1. CASE k \in P
    <3>1. Seen(k - 1) \in SUBSET (1..(k - 1))
      <4>1. \A i \in P : i <= k - 1 => i \in 1..(k - 1)
        BY <1>0, <2>0
      <4> QED
        BY <4>1, Zenon
    <3>2. Seen(k) = Seen(k - 1) \cup {k}
      BY <2>0, <2>1
    <3> HIDE DEF Seen
    <3>3. At(v, Seen(k - 1) \cup {k}) = Append(At(v, Seen(k - 1)), v[k])
      BY <3>1, AtNext
    <3> QED
      BY <1>2, <2>1, <3>2, <3>3
  <2>2. CASE k \notin P
    <3>1. Seen(k) = Seen(k - 1)
      BY <2>0, <2>2
    <3> HIDE DEF Seen
    <3> QED
      BY <1>2, <2>2, <3>1
  <2> QED
    BY <2>1, <2>2
<1>3. \A k \in 0..Len(v) : k \in Good
  <2> HIDE DEF Seen
  <2>1. 0 \in Good
    BY <1>0, <1>1
  <2>2. ASSUME NEW k \in 1..Len(v), k - 1 \in Good
        PROVE  k \in Good
    BY <1>0, <1>2, <2>2
  <2> HIDE DEF Good
  <2> QED
    BY <1>0, <2>1, <2>2, StepByStep
<1>4. Seen(Len(v)) = P /\ Len(v) \in 0..Len(v)
  <2>1. Seen(Len(v)) = P
    BY <1>0, Zenon
  <2> QED
    BY <1>0, <2>1
<1> QED
  BY <1>3, <1>4

-----------------------------------------------------------------------------
(* The loops. *)

\* The value of a fold after each of the elements, when op is what the loop
\* does with one element and Max stays within the list.
LEMMA MaxOfPositions ==
  ASSUME NEW V, NEW s \in Seq(V), NEW t \in SUBSET DOMAIN s, t # {}
  PROVE  /\ Max(t) \in t /\ Max(t) \in 1..Len(s) /\ s[Max(t)] \in V
         /\ t \ {Max(t)} \in SUBSET DOMAIN s
<1>1. PICK n \in Nat : n = Len(s)
  OBVIOUS
<1>2. DOMAIN s = 1..n /\ t \in SUBSET (1..n)
  BY <1>1
<1>3. Max(t) \in t
  BY <1>2, MaxIn
<1> QED
  BY <1>1, <1>2, <1>3

\* Kept returns the elements that are in S, in order.
LEMMA KeptIsAt ==
  ASSUME NEW V, NEW s \in Seq(V), NEW S
  PROVE  Kept(s, S) = At(s, {i \in 1..Len(s) : s[i] \in S})
<1> DEFINE R == Seq(V)
           Add(list, x) == IF x \in S THEN Append(list, x) ELSE list
           op == [re \in R \X V |-> Add(re[1], re[2])]
           Eq(h) == h = [t \in SUBSET DOMAIN s |->
                           IF t = {} THEN <<>> ELSE Add(h[t \ {Max(t)}], s[Max(t)])]
           iter == CHOOSE h : Eq(h)
<1>0. DOMAIN s = 1..Len(s) /\ Len(s) \in Nat /\ <<>> \in R
  OBVIOUS
<1>1. IsFold(R, V, <<>>, op, s) /\ \A list \in R, x \in V : op[<<list, x>>] = Add(list, x)
  BY DEF IsFold
<1>2. Kept(s, S) = iter[DOMAIN s]
  BY DEF Kept, FoldLeft, MapThenFoldSet
<1> HIDE DEF op, Add, R
<1>3. \E h : Eq(h)
  <2>1. PICK h \in [SUBSET DOMAIN s -> R] : Solves(h, <<>>, op, s)
    BY <1>1, FoldExists
  <2>2. ASSUME NEW t \in SUBSET DOMAIN s
        PROVE  h[t] = IF t = {} THEN <<>> ELSE Add(h[t \ {Max(t)}], s[Max(t)])
    BY <1>1, <2>1, MaxOfPositions DEF Solves
  <2>3. Eq(h)
    BY <2>1, <2>2
  <2> QED
    BY <2>3
<1>4. Eq(iter)
  <2> HIDE DEF Eq
  <2> QED
    BY <1>3
<1>5. Satisfies(iter, R, <<>>, op, s)
  <2> HIDE DEF iter
  <2> QED
    BY <1>1, <1>4, MaxOfPositions DEF Satisfies
<1> HIDE DEF iter
<1>6. PICK acc : Accumulates(acc, R, <<>>, op, s) /\ iter[DOMAIN s] = acc[Len(s)]
  BY <1>1, <1>5, FoldSteps
<1> DEFINE P == {i \in 1..Len(s) : s[i] \in S}
<1>7. ASSUME NEW k \in 1..Len(s)
      PROVE  acc[k] = IF k \in P THEN Append(acc[k - 1], s[k]) ELSE acc[k - 1]
  <2>1. acc[k - 1] \in R /\ s[k] \in V
    BY <1>0, <1>6 DEF Accumulates
  <2>2. acc[k] = Add(acc[k - 1], s[k])
    BY <1>1, <1>6, <2>1 DEF Accumulates
  <2> QED
    BY <2>2 DEF Add
<1>8. P \in SUBSET (1..Len(s)) /\ Appends(acc, s, P)
  BY <1>6, <1>7 DEF Appends, Accumulates
<1>9. acc[Len(s)] = At(s, P)
  <2> HIDE DEF P
  <2> QED
    BY <1>8, Appended
<1> QED
  BY <1>2, <1>6, <1>9

\* What a list contains after an element is appended, or another list.
LEMMA ElementsOfAppend ==
  ASSUME NEW V, NEW s \in Seq(V), NEW x \in V
  PROVE  ToSet(Append(s, x)) = ToSet(s) \cup {x}
<1> DEFINE t == Append(s, x)
<1>1. /\ DOMAIN t = 1..(Len(s) + 1) /\ DOMAIN s = 1..Len(s) /\ Len(s) \in Nat
      /\ t[Len(s) + 1] = x /\ \A i \in 1..Len(s) : t[i] = s[i]
  OBVIOUS
<1> HIDE DEF t
<1>2. ASSUME NEW y \in ToSet(t)
      PROVE  y \in ToSet(s) \cup {x}
  BY <1>1 DEF ToSet
<1>3. ASSUME NEW y \in ToSet(s) \cup {x}
      PROVE  y \in ToSet(t)
  <2>1. CASE y = x
    BY <1>1, <2>1 DEF ToSet
  <2>2. CASE y \in ToSet(s)
    <3>1. PICK i \in 1..Len(s) : y = s[i]
      BY <1>1, <2>2 DEF ToSet
    <3> QED
      BY <1>1, <3>1 DEF ToSet
  <2> QED
    BY <2>1, <2>2
<1> QED
  BY <1>2, <1>3 DEF t

\* Contains finds exactly the elements of a list.
LEMMA ContainsElement ==
  ASSUME NEW V, NEW s \in Seq(V), NEW t \in Seq(V), NEW x
  PROVE  /\ Contains(s, x) <=> x \in ToSet(s)
         /\ Contains(s \o t, x) <=> x \in ToSet(s) \cup ToSet(t)
<1>1. DOMAIN s = 1..Len(s) /\ DOMAIN t = 1..Len(t) /\ Len(s) \in Nat /\ Len(t) \in Nat
  OBVIOUS
<1>2. Contains(s, x) <=> x \in ToSet(s)
  BY <1>1 DEF Contains, ToSet
<1> DEFINE st == s \o t
<1>3. /\ Len(st) = Len(s) + Len(t)
      /\ \A i \in 1..Len(s) : st[i] = s[i]
      /\ \A i \in 1..Len(t) : st[Len(s) + i] = t[i]
      /\ \A i \in 1..Len(st) : i \notin 1..Len(s) => i - Len(s) \in 1..Len(t) /\ st[i] = t[i - Len(s)]
  OBVIOUS
<1> HIDE DEF st
<1>4. ASSUME NEW i \in 1..Len(st), st[i] = x
      PROVE  x \in ToSet(s) \cup ToSet(t)
  BY <1>1, <1>3, <1>4 DEF ToSet
<1>5. ASSUME x \in ToSet(s)
      PROVE  Contains(st, x)
  <2>1. PICK i \in 1..Len(s) : s[i] = x
    BY <1>1, <1>5 DEF ToSet
  <2>2. i \in 1..Len(st)
    BY <1>1, <1>3
  <2> QED
    BY <1>3, <2>1, <2>2 DEF Contains
<1>6. ASSUME x \in ToSet(t)
      PROVE  Contains(st, x)
  <2>1. PICK i \in 1..Len(t) : t[i] = x
    BY <1>1, <1>6 DEF ToSet
  <2>2. Len(s) + i \in 1..Len(st)
    BY <1>1, <1>3
  <2> QED
    BY <1>3, <2>1, <2>2 DEF Contains
<1>7. Contains(st, x) <=> x \in ToSet(s) \cup ToSet(t)
  BY <1>4, <1>5, <1>6 DEF Contains
<1> QED
  BY <1>2, <1>7 DEF st

\* Deduplicated returns the first of each of the equal elements, in order.
LEMMA DeduplicatedIsAt ==
  ASSUME NEW V, NEW s \in Seq(V)
  PROVE  Deduplicated(s) = At(s, FirstPositions(s))
<1> DEFINE R == Seq(V)
           Add(list, c) == IF Contains(list, c) THEN list ELSE Append(list, c)
           op == [re \in R \X V |-> Add(re[1], re[2])]
           Eq(h) == h = [t \in SUBSET DOMAIN s |->
                           IF t = {} THEN <<>> ELSE Add(h[t \ {Max(t)}], s[Max(t)])]
           iter == CHOOSE h : Eq(h)
<1>0. DOMAIN s = 1..Len(s) /\ Len(s) \in Nat /\ <<>> \in R
  OBVIOUS
<1>1. IsFold(R, V, <<>>, op, s) /\ \A list \in R, x \in V : op[<<list, x>>] = Add(list, x)
  BY DEF IsFold
<1>2. Deduplicated(s) = iter[DOMAIN s]
  BY DEF Deduplicated, FoldLeft, MapThenFoldSet
<1> HIDE DEF op, Add, R
<1>3. \E h : Eq(h)
  <2>1. PICK h \in [SUBSET DOMAIN s -> R] : Solves(h, <<>>, op, s)
    BY <1>1, FoldExists
  <2>2. ASSUME NEW t \in SUBSET DOMAIN s
        PROVE  h[t] = IF t = {} THEN <<>> ELSE Add(h[t \ {Max(t)}], s[Max(t)])
    BY <1>1, <2>1, MaxOfPositions DEF Solves
  <2>3. Eq(h)
    BY <2>1, <2>2
  <2> QED
    BY <2>3
<1>4. Eq(iter)
  <2> HIDE DEF Eq
  <2> QED
    BY <1>3
<1>5. Satisfies(iter, R, <<>>, op, s)
  <2> HIDE DEF iter
  <2> QED
    BY <1>1, <1>4, MaxOfPositions DEF Satisfies
<1> HIDE DEF iter
<1>6. PICK acc : Accumulates(acc, R, <<>>, op, s) /\ iter[DOMAIN s] = acc[Len(s)]
  BY <1>1, <1>5, FoldSteps
<1>7. ASSUME NEW k \in 1..Len(s)
      PROVE  /\ k - 1 \in 0..Len(s) /\ acc[k - 1] \in Seq(V) /\ s[k] \in V
             /\ acc[k] = IF s[k] \in ToSet(acc[k - 1]) THEN acc[k - 1] ELSE Append(acc[k - 1], s[k])
  <2>1. k - 1 \in 0..Len(s) /\ acc[k - 1] \in R /\ s[k] \in V
    BY <1>0, <1>6 DEF Accumulates
  <2>2. acc[k] = Add(acc[k - 1], s[k])
    BY <1>1, <1>6, <2>1 DEF Accumulates
  <2> QED
    BY <2>1, <2>2, ContainsElement DEF Add, R
<1> DEFINE Seen(k) == {s[j] : j \in 1..k}
           Good == {k \in 0..Len(s) : ToSet(acc[k]) = Seen(k)}
<1>8. \A k \in 0..Len(s) : k \in Good
  <2>1. 0 \in Good
    <3>1. acc[0] = <<>> /\ ToSet(<<>>) = {} /\ Seen(0) = {}
      BY <1>6 DEF Accumulates, ToSet
    <3> QED
      BY <1>0, <3>1
  <2>2. ASSUME NEW k \in 1..Len(s), k - 1 \in Good
        PROVE  k \in Good
    <3>1. Seen(k) = Seen(k - 1) \cup {s[k]}
      <4>1. 1..k = (1..(k - 1)) \cup {k}
        OBVIOUS
      <4> QED
        BY <4>1
    <3>2. ToSet(acc[k - 1]) = Seen(k - 1)
      BY <2>2
    <3> HIDE DEF Seen
    <3>3. ToSet(acc[k]) = Seen(k)
      BY <1>7, <3>1, <3>2, ElementsOfAppend
    <3> QED
      BY <1>0, <3>3
  <2> HIDE DEF Good
  <2> QED
    BY <1>0, <2>1, <2>2, StepByStep
<1>9. Appends(acc, s, FirstPositions(s))
  <2>1. ASSUME NEW k \in 1..Len(s)
        PROVE  k \in FirstPositions(s) <=> s[k] \notin ToSet(acc[k - 1])
    <3>1. ToSet(acc[k - 1]) = Seen(k - 1)
      BY <1>7, <1>8
    <3> QED
      BY <1>0, <3>1 DEF FirstPositions
  <2> QED
    BY <1>6, <1>7, <2>1 DEF Appends, Accumulates
<1>10. FirstPositions(s) \in SUBSET (1..Len(s))
  BY <1>0 DEF FirstPositions
<1> QED
  BY <1>2, <1>6, <1>9, <1>10, Appended

\* The DOIs of the strings of a request.
Trimmed(strings) == [i \in 1..Len(strings) |-> strings[i].doi]

\* The DOIs are as many as the strings.
LEMMA TrimmedIsList ==
  ASSUME NEW D, NEW s \in Seq([doi : D, padded : BOOLEAN])
  PROVE  /\ Trimmed(s) \in Seq(D) /\ Len(Trimmed(s)) = Len(s) /\ DOMAIN Trimmed(s) = 1..Len(s)
         /\ \A k \in 1..Len(s) : Trimmed(s)[k] = s[k].doi /\ s[k].doi \in D
<1>1. \A k \in 1..Len(s) : s[k] \in [doi : D, padded : BOOLEAN]
  BY ListOf, Zenon
<1>2. \A k \in 1..Len(s) : s[k].doi \in D
  BY <1>1
<1>3. Trimmed(s) \in [1..Len(s) -> D] /\ \A k \in 1..Len(s) : Trimmed(s)[k] = s[k].doi
  BY <1>2 DEF Trimmed
<1>4. Len(s) \in Nat
  OBVIOUS
<1> QED
  BY <1>2, <1>3, <1>4

\* CategorizeDOIs returns the first of each of the equal DOIs, in order, in the
\* list that its prefix belongs to.
LEMMA CategorizeIsAt ==
  ASSUME NEW D, NEW s \in Seq([doi : D, padded : BOOLEAN])
  PROVE  LET first == FirstPositions(Trimmed(s)) IN
         CategorizeDOIs(s) =
           [pennsieve |-> At(Trimmed(s), {i \in first : Trimmed(s)[i] \in Pennsieve}),
            external |-> At(Trimmed(s), {i \in first : Trimmed(s)[i] \notin Pennsieve})]
<1> DEFINE V == [doi : D, padded : BOOLEAN]
           R == [pennsieve : Seq(D), external : Seq(D)]
           base == [pennsieve |-> <<>>, external |-> <<>>]
           Add(lists, string) ==
             IF Contains(lists.pennsieve \o lists.external, TrimSpace(string)) THEN lists
             ELSE IF TrimSpace(string) \in Pennsieve
             THEN [lists EXCEPT !.pennsieve = Append(lists.pennsieve, TrimSpace(string))]
             ELSE [lists EXCEPT !.external = Append(lists.external, TrimSpace(string))]
           op == [re \in R \X V |-> Add(re[1], re[2])]
           Eq(h) == h = [t \in SUBSET DOMAIN s |->
                           IF t = {} THEN base ELSE Add(h[t \ {Max(t)}], s[Max(t)])]
           iter == CHOOSE h : Eq(h)
           v == Trimmed(s)
<1>0. /\ DOMAIN s = 1..Len(s) /\ Len(s) \in Nat /\ base \in R
      /\ \A k \in 1..Len(s) : s[k] \in V /\ TrimSpace(s[k]) = v[k] /\ v[k] \in D
      /\ v \in Seq(D) /\ Len(v) = Len(s) /\ DOMAIN v = 1..Len(s)
  <2>1. DOMAIN s = 1..Len(s) /\ Len(s) \in Nat /\ base \in R /\ \A k \in 1..Len(s) : s[k] \in V
    <3>1. base \in R
      OBVIOUS
    <3> HIDE DEF base, R, Add, op
    <3> QED
      BY <3>1, ListOf, Zenon
  <2> QED
    BY <2>1, TrimmedIsList DEF TrimSpace
<1>1. IsFold(R, V, base, op, s) /\ \A lists \in R, x \in V : op[<<lists, x>>] = Add(lists, x)
  <2>1. ASSUME NEW lists \in R, NEW x \in V
        PROVE  Add(lists, x) \in R
    <3>1. /\ lists.pennsieve \in Seq(D) /\ lists.external \in Seq(D) /\ TrimSpace(x) \in D
          /\ lists = [pennsieve |-> lists.pennsieve, external |-> lists.external]
      BY DEF TrimSpace
    <3>2. Append(lists.pennsieve, TrimSpace(x)) \in Seq(D) /\ Append(lists.external, TrimSpace(x)) \in Seq(D)
      BY <3>1
    <3> QED
      BY <3>1, <3>2
  <2> HIDE DEF Add, R
  <2> QED
    BY <1>0, <2>1 DEF IsFold
<1>2. CategorizeDOIs(s) = iter[DOMAIN s]
  BY DEF CategorizeDOIs, FoldLeft, MapThenFoldSet
<1> HIDE DEF op, Add, R, base, v
<1>3. \E h : Eq(h)
  <2>1. PICK h \in [SUBSET DOMAIN s -> R] : Solves(h, base, op, s)
    BY <1>1, FoldExists
  <2>2. ASSUME NEW t \in SUBSET DOMAIN s
        PROVE  h[t] = IF t = {} THEN base ELSE Add(h[t \ {Max(t)}], s[Max(t)])
    BY <1>1, <2>1, MaxOfPositions DEF Solves
  <2>3. Eq(h)
    BY <2>1, <2>2
  <2> QED
    BY <2>3
<1>4. Eq(iter)
  <2> HIDE DEF Eq
  <2> QED
    BY <1>3
<1>5. Satisfies(iter, R, base, op, s)
  <2> HIDE DEF iter
  <2> QED
    BY <1>1, <1>4, MaxOfPositions DEF Satisfies
<1> HIDE DEF iter
<1>6. PICK acc : Accumulates(acc, R, base, op, s) /\ iter[DOMAIN s] = acc[Len(s)]
  BY <1>1, <1>5, FoldSteps
<1> DEFINE pen == [k \in 0..Len(s) |-> acc[k].pennsieve]
           ext == [k \in 0..Len(s) |-> acc[k].external]
           Known(k) == ToSet(pen[k]) \cup ToSet(ext[k])
<1>7. /\ \A k \in 0..Len(s) : /\ pen[k] \in Seq(D) /\ ext[k] \in Seq(D)
                               /\ acc[k] = [pennsieve |-> pen[k], external |-> ext[k]]
      /\ pen[0] = <<>> /\ ext[0] = <<>>
  BY <1>0, <1>6 DEF Accumulates, R, base
<1>8. ASSUME NEW k \in 1..Len(s)
      PROVE  /\ pen[k] = IF v[k] \notin Known(k - 1) /\ v[k] \in Pennsieve
                         THEN Append(pen[k - 1], v[k]) ELSE pen[k - 1]
             /\ ext[k] = IF v[k] \notin Known(k - 1) /\ v[k] \notin Pennsieve
                         THEN Append(ext[k - 1], v[k]) ELSE ext[k - 1]
  <2>0. k - 1 \in 0..Len(s) /\ k \in 0..Len(s)
    BY <1>0
  <2>1. acc[k - 1] \in R /\ s[k] \in V /\ TrimSpace(s[k]) = v[k]
    BY <1>0, <1>6, <2>0 DEF Accumulates
  <2>2. acc[k] = Add(acc[k - 1], s[k])
    BY <1>1, <1>6, <2>1 DEF Accumulates
  <2>3. /\ pen[k - 1] = acc[k - 1].pennsieve /\ pen[k] = acc[k].pennsieve
        /\ ext[k - 1] = acc[k - 1].external /\ ext[k] = acc[k].external
        /\ acc[k - 1] = [pennsieve |-> pen[k - 1], external |-> ext[k - 1]]
        /\ pen[k - 1] \in Seq(D) /\ ext[k - 1] \in Seq(D)
    BY <1>7, <2>0
  <2> HIDE DEF pen, ext
  <2>4. Contains(acc[k - 1].pennsieve \o acc[k - 1].external, v[k]) <=> v[k] \in Known(k - 1)
    BY <2>3, ContainsElement
  <2> HIDE DEF Known
  <2> QED
    BY <2>1, <2>2, <2>3, <2>4 DEF Add
<1> DEFINE Seen(k) == {v[j] : j \in 1..k}
           Good == {k \in 0..Len(s) : Known(k) = Seen(k)}
<1>9. \A k \in 0..Len(s) : k \in Good
  <2>1. 0 \in Good
    <3>1. ToSet(<<>>) = {} /\ Seen(0) = {}
      BY DEF ToSet
    <3>2. Known(0) = {}
      BY <1>7, <3>1
    <3> HIDE DEF Known
    <3> QED
      BY <1>0, <3>1, <3>2
  <2>2. ASSUME NEW k \in 1..Len(s), k - 1 \in Good
        PROVE  k \in Good
    <3>1. Seen(k) = Seen(k - 1) \cup {v[k]}
      <4>1. 1..k = (1..(k - 1)) \cup {k}
        OBVIOUS
      <4> QED
        BY <4>1
    <3>2. Known(k - 1) = Seen(k - 1)
      BY <2>2
    <3>0. k - 1 \in 0..Len(s) /\ k \in 0..Len(s)
      BY <1>0
    <3>3. pen[k - 1] \in Seq(D) /\ ext[k - 1] \in Seq(D) /\ v[k] \in D
      BY <1>0, <1>7, <3>0
    <3>4. /\ ToSet(Append(pen[k - 1], v[k])) = ToSet(pen[k - 1]) \cup {v[k]}
          /\ ToSet(Append(ext[k - 1], v[k])) = ToSet(ext[k - 1]) \cup {v[k]}
      BY <3>3, ElementsOfAppend
    <3> HIDE DEF Seen, pen, ext
    <3>5. Known(k) = Known(k - 1) \cup {v[k]}
      BY <1>8, <3>4
    <3> HIDE DEF Known
    <3> QED
      BY <3>0, <3>1, <3>2, <3>5
  <2> HIDE DEF Good
  <2> QED
    BY <1>0, <2>1, <2>2, StepByStep
<1> DEFINE first == FirstPositions(v)
           P == {i \in first : v[i] \in Pennsieve}
           Q == {i \in first : v[i] \notin Pennsieve}
<1>10. ASSUME NEW k \in 1..Len(s)
       PROVE  k \in first <=> v[k] \notin Known(k - 1)
  <2>1. k - 1 \in 0..Len(s)
    BY <1>0
  <2>2. Known(k - 1) = Seen(k - 1)
    BY <1>9, <2>1
  <2> HIDE DEF Known
  <2> QED
    BY <1>0, <2>2 DEF FirstPositions
<1>11. P \in SUBSET (1..Len(v)) /\ Q \in SUBSET (1..Len(v))
  BY <1>0 DEF FirstPositions
<1>12. Appends(pen, v, P) /\ Appends(ext, v, Q)
  <2> HIDE DEF first, pen, ext, Known
  <2> QED
    BY <1>0, <1>7, <1>8, <1>10 DEF Appends
<1>13. pen[Len(s)] = At(v, P) /\ ext[Len(s)] = At(v, Q)
  <2> HIDE DEF P, Q, pen, ext
  <2>1. pen[Len(v)] = At(v, P)
    BY <1>0, <1>11, <1>12, Appended
  <2>2. ext[Len(v)] = At(v, Q)
    BY <1>0, <1>11, <1>12, Appended
  <2> QED
    BY <1>0, <2>1, <2>2
<1>14. acc[Len(s)] = [pennsieve |-> At(v, P), external |-> At(v, Q)]
  <2>1. Len(s) \in 0..Len(s)
    BY <1>0
  <2> HIDE DEF P, Q, pen, ext
  <2> QED
    BY <1>7, <1>13, <2>1
<1> QED
  BY <1>2, <1>6, <1>14 DEF v

\* What the lists hold, whatever the order.
LEMMA KeptElements ==
  ASSUME NEW V, NEW s \in Seq(V), NEW S
  PROVE  Kept(s, S) \in Seq(V) /\ ToSet(Kept(s, S)) = ToSet(s) \cap S
<1> DEFINE P == {i \in 1..Len(s) : s[i] \in S}
<1>1. P \in SUBSET (1..Len(s)) /\ Kept(s, S) = At(s, P)
  BY KeptIsAt
<1>2. {s[i] : i \in P} = ToSet(s) \cap S
  BY ListOf DEF ToSet
<1> HIDE DEF P
<1> QED
  BY <1>1, <1>2, AtRanks, ElementsAt

\* Without leaves out the elements that are in S, and no other.
LEMMA WithoutElements ==
  ASSUME NEW V, NEW s \in Seq(V), NEW S
  PROVE  Without(s, S) \in Seq(V) /\ ToSet(Without(s, S)) = ToSet(s) \ S
BY KeptElements DEF Without

\* Every element of a list has a first position.
LEMMA FirstPositionsCover ==
  ASSUME NEW V, NEW s \in Seq(V), NEW i \in 1..Len(s)
  PROVE  \E j \in FirstPositions(s) : s[j] = s[i]
<1> DEFINE Same == {j \in 1..Len(s) : s[j] = s[i]}
<1>0. DOMAIN s = 1..Len(s) /\ Len(s) \in Nat
  BY ListOf
<1>1. Same \in SUBSET Nat /\ i \in Same
  OBVIOUS
<1>2. PICK j \in Same : \A k \in Same : j <= k
  <2> HIDE DEF Same
  <2> QED
    BY <1>1, Least
<1>3. ASSUME NEW k \in 1..(j - 1)
      PROVE  s[k] # s[j]
  <2>1. k \in 1..Len(s) /\ ~ (j <= k)
    BY <1>0, <1>2
  <2> QED
    BY <1>2, <2>1
<1>4. j \in FirstPositions(s)
  BY <1>0, <1>2, <1>3 DEF FirstPositions
<1> QED
  BY <1>2, <1>4

\* No element comes twice.
Distinct(s) == \A i, j \in DOMAIN s : s[i] = s[j] => i = j

\* Deduplicated keeps each element, once.
LEMMA DeduplicatedElements ==
  ASSUME NEW V, NEW s \in Seq(V)
  PROVE  /\ Deduplicated(s) \in Seq(V) /\ ToSet(Deduplicated(s)) = ToSet(s)
         /\ Distinct(Deduplicated(s))
<1> DEFINE P == FirstPositions(s)
           r == At(s, P)
<1>0. DOMAIN s = 1..Len(s) /\ Len(s) \in Nat
  OBVIOUS
<1>1. P \in SUBSET (1..Len(s))
  BY <1>0 DEF FirstPositions
<1>2. r \in Seq(V) /\ Len(r) = Cardinality(P) /\ \A i \in P : r[Rank(P, i)] = s[i]
  BY <1>1, AtRanks
<1>3. ToSet(r) = {s[i] : i \in P}
  BY <1>1, ElementsAt
<1>4. ToSet(s) = {s[i] : i \in P}
  <2>1. ToSet(s) = {s[i] : i \in 1..Len(s)}
    BY <1>0 DEF ToSet
  <2>2. \A i \in 1..Len(s) : \E j \in P : s[j] = s[i]
    BY FirstPositionsCover
  <2> HIDE DEF P
  <2> QED
    BY <1>1, <2>1, <2>2
<1>5. \A m \in 1..Cardinality(P) : \E i \in P : Rank(P, i) = m
  BY <1>0, <1>1, RanksAreNumbers
<1>6. \A i, j \in P : s[i] = s[j] => i = j
  BY <1>0 DEF FirstPositions
<1>7. DOMAIN r = 1..Cardinality(P)
  BY <1>2
<1>8. Distinct(r)
  <2> SUFFICES ASSUME NEW a \in 1..Cardinality(P), NEW b \in 1..Cardinality(P), r[a] = r[b]
               PROVE  a = b
    BY <1>7 DEF Distinct
  <2>1. PICK i \in P : Rank(P, i) = a
    BY <1>5
  <2>2. PICK j \in P : Rank(P, j) = b
    BY <1>5
  <2> HIDE DEF P, r
  <2> QED
    BY <1>2, <1>6, <2>1, <2>2
<1>9. Deduplicated(s) = r
  BY DeduplicatedIsAt
<1> QED
  BY <1>2, <1>3, <1>4, <1>8, <1>9

\* Each list of CategorizeDOIs holds the DOIs of the request that have its source.
LEMMA CategorizedElements ==
  ASSUME NEW D, NEW s \in Seq([doi : D, padded : BOOLEAN])
  PROVE  /\ CategorizeDOIs(s).pennsieve \in Seq(D) /\ CategorizeDOIs(s).external \in Seq(D)
         /\ ToSet(CategorizeDOIs(s).pennsieve) = {x.doi : x \in ToSet(s)} \cap Pennsieve
         /\ ToSet(CategorizeDOIs(s).external) = {x.doi : x \in ToSet(s)} \ Pennsieve
<1> DEFINE v == Trimmed(s)
           P == {i \in FirstPositions(v) : v[i] \in Pennsieve}
           Q == {i \in FirstPositions(v) : v[i] \notin Pennsieve}
<1>a. CategorizeDOIs(s) = [pennsieve |-> At(v, P), external |-> At(v, Q)]
  BY CategorizeIsAt, Zenon
<1>2. /\ v \in Seq(D) /\ Len(v) = Len(s) /\ DOMAIN v = 1..Len(s)
      /\ \A k \in 1..Len(s) : v[k] = s[k].doi
  BY TrimmedIsList
<1>3. DOMAIN s = 1..Len(s)
  BY ListOf, Zenon
<1>4. {x.doi : x \in ToSet(s)} = {v[i] : i \in 1..Len(s)}
  BY <1>2, <1>3 DEF ToSet
<1> HIDE DEF v
<1>5. {v[i] : i \in FirstPositions(v)} = {v[i] : i \in 1..Len(s)}
  <2>1. \A i \in FirstPositions(v) : i \in 1..Len(s)
    BY <1>2 DEF FirstPositions
  <2>2. \A i \in 1..Len(s) : \E j \in FirstPositions(v) : v[j] = v[i]
    BY <1>2, FirstPositionsCover
  <2> QED
    BY <2>1, <2>2
<1>6. P \in SUBSET (1..Len(v)) /\ Q \in SUBSET (1..Len(v))
  BY <1>2 DEF FirstPositions
<1>7. /\ {v[i] : i \in P} = {v[i] : i \in FirstPositions(v)} \cap Pennsieve
      /\ {v[i] : i \in Q} = {v[i] : i \in FirstPositions(v)} \ Pennsieve
  OBVIOUS
<1> HIDE DEF P, Q
<1>1. /\ CategorizeDOIs(s).pennsieve = At(v, P)
      /\ CategorizeDOIs(s).external = At(v, Q)
  BY <1>a
<1>8. At(v, P) \in Seq(D) /\ At(v, Q) \in Seq(D)
  BY <1>2, <1>6, AtRanks
<1>9. ToSet(At(v, P)) = {v[i] : i \in P} /\ ToSet(At(v, Q)) = {v[i] : i \in Q}
  BY <1>2, <1>6, ElementsAt
<1> QED
  BY <1>1, <1>4, <1>5, <1>7, <1>8, <1>9, Zenon

\* The smaller of two numbers.
LEMMA MinOfTwo ==
  ASSUME NEW a \in Int, NEW b \in Int
  PROVE  Min({a, b}) = IF a <= b THEN a ELSE b
<1> DEFINE m == IF a <= b THEN a ELSE b
<1>1. m \in {a, b} /\ \A y \in {a, b} : m <= y
  OBVIOUS
<1>2. \A x \in {a, b} : (\A y \in {a, b} : x <= y) => x = m
  OBVIOUS
<1> HIDE DEF m
<1>3. Min({a, b}) = m
  BY <1>1, <1>2 DEF Min
<1> QED
  BY <1>3 DEF m

\* The banners are those of the first elements of the list found, up to max.
AreOfFirst(banners, found, published, max) ==
  /\ Len(banners) = Min({max, Len(found)})
  /\ \A m \in 1..Len(banners) : banners[m] = published[found[m]]

\* CollectBanners returns the banners of the first elements that are found.
LEMMA CollectBannersAreFirst ==
  ASSUME NEW V, NEW s \in Seq(V), NEW published, NEW max \in Nat
  PROVE  /\ CollectBanners(s, published, max) \in Seq({published[x] : x \in V})
         /\ AreOfFirst(CollectBanners(s, published, max),
                       At(s, {i \in 1..Len(s) : s[i] \in DOMAIN published}), published, max)
<1> DEFINE B == {published[x] : x \in V}
           R == Seq(B)
           Add(banners, doi) ==
             IF Len(banners) < max /\ doi \in DOMAIN published
             THEN Append(banners, published[doi])
             ELSE banners
           op == [re \in R \X V |-> Add(re[1], re[2])]
           Eq(h) == h = [t \in SUBSET DOMAIN s |->
                           IF t = {} THEN <<>> ELSE Add(h[t \ {Max(t)}], s[Max(t)])]
           iter == CHOOSE h : Eq(h)
<1>0. DOMAIN s = 1..Len(s) /\ Len(s) \in Nat /\ <<>> \in R
  OBVIOUS
<1>1. IsFold(R, V, <<>>, op, s) /\ \A list \in R, x \in V : op[<<list, x>>] = Add(list, x)
  BY DEF IsFold
<1>2. CollectBanners(s, published, max) = iter[DOMAIN s]
  BY DEF CollectBanners, FoldLeft, MapThenFoldSet
<1> HIDE DEF op, Add, R
<1>3. \E h : Eq(h)
  <2>1. PICK h \in [SUBSET DOMAIN s -> R] : Solves(h, <<>>, op, s)
    BY <1>1, FoldExists
  <2>2. ASSUME NEW t \in SUBSET DOMAIN s
        PROVE  h[t] = IF t = {} THEN <<>> ELSE Add(h[t \ {Max(t)}], s[Max(t)])
    BY <1>1, <2>1, MaxOfPositions DEF Solves
  <2>3. Eq(h)
    BY <2>1, <2>2
  <2> QED
    BY <2>3
<1>4. Eq(iter)
  <2> HIDE DEF Eq
  <2> QED
    BY <1>3
<1>5. Satisfies(iter, R, <<>>, op, s)
  <2> HIDE DEF iter
  <2> QED
    BY <1>1, <1>4, MaxOfPositions DEF Satisfies
<1> HIDE DEF iter
<1>6. PICK acc : Accumulates(acc, R, <<>>, op, s) /\ iter[DOMAIN s] = acc[Len(s)]
  BY <1>1, <1>5, FoldSteps
<1> DEFINE P == {i \in 1..Len(s) : s[i] \in DOMAIN published}
           found(k) == At(s, {i \in P : i <= k})
           IsFirst(banners, list) ==
             /\ Len(banners) = IF max <= Len(list) THEN max ELSE Len(list)
             /\ \A m \in 1..Len(banners) : banners[m] = published[list[m]]
           Good == {k \in 0..Len(s) : IsFirst(acc[k], found(k))}
<1>7. /\ \A k \in 0..Len(s) : found(k) \in Seq(V)
      /\ found(0) = <<>>
      /\ found(Len(s)) = At(s, P)
  <2>1. \A k \in 0..Len(s) : {i \in P : i <= k} \in SUBSET (1..Len(s))
    OBVIOUS
  <2>2. {i \in P : i <= 0} = {}
    <3>1. \A i \in P : ~ (i <= 0)
      BY <1>0
    <3> QED
      BY <3>1, Zenon
  <2>3. {i \in P : i <= Len(s)} = P
    <3>1. \A i \in P : i <= Len(s)
      BY <1>0
    <3> QED
      BY <3>1, Zenon
  <2>4. At(s, {}) \in Seq(V) /\ Len(At(s, {})) = 0
    BY AtRanks, FS_EmptySet
  <2>5. At(s, {}) = <<>>
    BY <2>4
  <2> HIDE DEF P
  <2> QED
    BY <2>1, <2>2, <2>3, <2>5, AtRanks
<1>8. ASSUME NEW k \in 1..Len(s)
      PROVE  /\ k - 1 \in 0..Len(s) /\ k \in 0..Len(s) /\ acc[k - 1] \in Seq(B) /\ acc[k] \in Seq(B)
             /\ s[k] \in V /\ published[s[k]] \in B
             /\ acc[k] = IF Len(acc[k - 1]) < max /\ s[k] \in DOMAIN published
                         THEN Append(acc[k - 1], published[s[k]]) ELSE acc[k - 1]
             /\ found(k) = IF s[k] \in DOMAIN published
                           THEN Append(found(k - 1), s[k]) ELSE found(k - 1)
  <2>1. k - 1 \in 0..Len(s) /\ k \in 0..Len(s) /\ s[k] \in V
    BY <1>0
  <2>2. acc[k - 1] \in R /\ acc[k] \in R /\ acc[k] = op[<<acc[k - 1], s[k]>>]
    BY <1>6, <2>1 DEF Accumulates
  <2>3. acc[k] = Add(acc[k - 1], s[k])
    BY <1>1, <2>1, <2>2
  <2>4. \A i \in P : i <= k <=> i <= k - 1 \/ i = k
    BY <1>0
  <2>5. k \in P <=> s[k] \in DOMAIN published
    OBVIOUS
  <2>6. CASE k \in P
    <3>1. {i \in P : i <= k} = {i \in P : i <= k - 1} \cup {k}
      BY <2>4, <2>6
    <3>2. {i \in P : i <= k - 1} \in SUBSET (1..(k - 1))
      <4>1. \A i \in P : i <= k - 1 => i \in 1..(k - 1)
        BY <1>0
      <4> QED
        BY <4>1, Zenon
    <3> HIDE DEF P
    <3>3. found(k) = Append(found(k - 1), s[k])
      BY <3>1, <3>2, AtNext
    <3> QED
      BY <2>1, <2>2, <2>3, <2>5, <2>6, <3>3 DEF Add, R
  <2>7. CASE k \notin P
    <3>1. {i \in P : i <= k} = {i \in P : i <= k - 1}
      BY <2>4, <2>7
    <3> HIDE DEF P
    <3>2. found(k) = found(k - 1)
      BY <3>1
    <3> QED
      BY <2>1, <2>2, <2>3, <2>5, <2>7, <3>2 DEF Add, R
  <2> QED
    BY <2>6, <2>7
<1> HIDE DEF found
<1>9. \A k \in 0..Len(s) : k \in Good
  <2>1. 0 \in Good
    <3>1. acc[0] = <<>> /\ 0 \in 0..Len(s)
      BY <1>0, <1>6 DEF Accumulates
    <3> QED
      BY <1>7, <3>1
  <2>2. ASSUME NEW k \in 1..Len(s), k - 1 \in Good
        PROVE  k \in Good
    <3>1. IsFirst(acc[k - 1], found(k - 1))
      BY <2>2
    <3>2. k - 1 \in 0..Len(s) /\ k \in 0..Len(s) /\ found(k - 1) \in Seq(V) /\ acc[k - 1] \in Seq(B)
      BY <1>7, <1>8
    <3>3. CASE s[k] \notin DOMAIN published
      BY <1>8, <3>1, <3>2, <3>3
    <3>4. CASE s[k] \in DOMAIN published /\ Len(acc[k - 1]) < max
      <4> DEFINE a == acc[k - 1]
                 f == found(k - 1)
      <4>1. a \in Seq(B) /\ f \in Seq(V) /\ Len(a) = Len(f)
        BY <3>1, <3>2, <3>4
      <4>2. acc[k] = Append(a, published[s[k]]) /\ found(k) = Append(f, s[k])
        BY <1>8, <3>4
      <4>3. s[k] \in V /\ published[s[k]] \in B /\ Len(a) < max
        BY <1>8, <3>4
      <4>4. \A m \in 1..Len(a) : a[m] = published[f[m]]
        BY <3>1
      <4> HIDE DEF a, f, B
      <4>5. IsFirst(Append(a, published[s[k]]), Append(f, s[k]))
        BY <4>1, <4>3, <4>4
      <4> QED
        BY <3>2, <4>2, <4>5
    <3>5. CASE s[k] \in DOMAIN published /\ ~ (Len(acc[k - 1]) < max)
      <4> DEFINE a == acc[k - 1]
                 f == found(k - 1)
      <4>1. a \in Seq(B) /\ f \in Seq(V) /\ Len(a) = max /\ max <= Len(f)
        BY <3>1, <3>2, <3>5
      <4>2. acc[k] = a /\ found(k) = Append(f, s[k]) /\ s[k] \in V
        BY <1>8, <3>5
      <4>3. \A m \in 1..Len(a) : a[m] = published[f[m]]
        BY <3>1
      <4> HIDE DEF a, f, B
      <4>4. IsFirst(a, Append(f, s[k]))
        BY <4>1, <4>2, <4>3
      <4> QED
        BY <3>2, <4>2, <4>4
    <3> QED
      BY <3>3, <3>4, <3>5
  <2> HIDE DEF Good
  <2> QED
    BY <1>0, <2>1, <2>2, StepByStep
<1>10. Len(s) \in 0..Len(s) /\ acc[Len(s)] \in Seq(B)
  BY <1>0, <1>6 DEF Accumulates, R
<1>11. At(s, P) \in Seq(V) /\ IsFirst(acc[Len(s)], At(s, P))
  BY <1>7, <1>9, <1>10
<1>12. Len(At(s, P)) \in Int
  BY <1>11
<1>13. Min({max, Len(At(s, P))}) = IF max <= Len(At(s, P)) THEN max ELSE Len(At(s, P))
  BY <1>12, MinOfTwo
<1> HIDE DEF B, P
<1>14. AreOfFirst(acc[Len(s)], At(s, P), published, max)
  BY <1>11, <1>13 DEF AreOfFirst
<1> QED
  BY <1>2, <1>6, <1>10, <1>14, Zenon DEF B, P

-----------------------------------------------------------------------------
(* A page of a list. *)

\* The ranks are in the order of the positions.
LEMMA RanksInOrder ==
  ASSUME NEW V, NEW v \in Seq(V), NEW P \in SUBSET (1..Len(v)), NEW i \in P, NEW j \in P
  PROVE  j <= i <=> Rank(P, j) <= Rank(P, i)
<1>0. Len(v) \in Nat /\ \A k \in P : k \in Int
  OBVIOUS
<1>1. \A k, m \in P : k <= m => Rank(P, k) <= Rank(P, m)
  <2>1. SUFFICES ASSUME NEW k \in P, NEW m \in P, k <= m
                 PROVE  Rank(P, k) <= Rank(P, m)
    OBVIOUS
  <2>2. {x \in P : x <= k} \in SUBSET {x \in P : x <= m}
    <3>1. \A x \in P : x <= k => x <= m
      BY <1>0, <2>1
    <3> QED
      BY <3>1, Zenon
  <2>3. IsFiniteSet({x \in P : x <= m})
    <3>1. {x \in P : x <= m} \in SUBSET (1..Len(v))
      OBVIOUS
    <3> QED
      BY <1>0, <3>1, PositionsFinite
  <2> QED
    BY <2>2, <2>3, FS_Subset DEF Rank
<1>2. /\ Cardinality(P) \in Nat
      /\ \A k \in P : Rank(P, k) \in 1..Cardinality(P)
      /\ \A k, m \in P : Rank(P, k) = Rank(P, m) => k = m
  BY RanksInList
<1>3. Rank(P, i) \in Int /\ Rank(P, j) \in Int
  BY <1>2
<1> QED
  BY <1>0, <1>1, <1>2, <1>3

\* The elements of X have in P the ranks in Y, and no other.
HaveRanks(X, P, Y) ==
  /\ \A i \in X : Rank(P, i) \in Y
  /\ \A m \in Y : \E i \in X : Rank(P, i) = m

\* Some positions are as many as the ranks they have.
LEMMA AsManyAsRanks ==
  ASSUME NEW V, NEW v \in Seq(V), NEW P \in SUBSET (1..Len(v)), NEW X \in SUBSET P,
         NEW Y \in SUBSET (1..Cardinality(P)), HaveRanks(X, P, Y)
  PROVE  Cardinality(X) = Cardinality(Y)
<1> USE DEF HaveRanks
<1> DEFINE f == [m \in Y |-> CHOOSE i \in X : Rank(P, i) = m]
<1>1. \A m \in Y : f[m] \in X /\ Rank(P, f[m]) = m
  OBVIOUS
<1>2. \A i \in X : f[Rank(P, i)] = i
  <2>1. \A i, j \in P : Rank(P, i) = Rank(P, j) => i = j
    BY RanksInList
  <2> QED
    BY <1>1, <2>1
<1>3. f \in [Y -> X]
  BY <1>1
<1> HIDE DEF f
<1>4. f \in Bijection(Y, X)
  BY <1>1, <1>2, <1>3 DEF Bijection, Injection, Surjection, IsInjective
<1>5. ExistsBijection(Y, X)
  BY <1>4 DEF ExistsBijection
<1>6. IsFiniteSet(Y)
  BY RanksInList, PositionsFinite
<1> QED
  BY <1>5, <1>6, FS_Bijection

\* Some positions are as many as the ranks they have, when these are successive.
LEMMA RanksOfInterval ==
  ASSUME NEW V, NEW v \in Seq(V), NEW P \in SUBSET (1..Len(v)), NEW X \in SUBSET P,
         NEW a \in Int, NEW b \in Int, HaveRanks(X, P, a..b)
  PROVE  Cardinality(X) = IF a > b THEN 0 ELSE b - a + 1
<1>1. a..b \in SUBSET (1..Cardinality(P))
  <2>1. \A i \in P : Rank(P, i) \in 1..Cardinality(P)
    BY RanksInList
  <2> QED
    BY <2>1 DEF HaveRanks
<1>2. Cardinality(X) = Cardinality(a..b)
  BY <1>1, AsManyAsRanks
<1> QED
  BY <1>2, FS_Interval

\* The positions with b ranks after the a first ones.
Ranked(P, a, b) == {i \in P : a < Rank(P, i) /\ Rank(P, i) <= a + b}

\* A part of such a list has the elements with the ranks of that part.
LEMMA PartOfAt ==
  ASSUME NEW V, NEW v \in Seq(V), NEW P \in SUBSET (1..Len(v)), NEW a \in Nat, NEW b \in Nat
  PROVE  SubSeq(At(v, P), a + 1, Min({a + b, Len(At(v, P))}))
           = At(v, Ranked(P, a, b))
<1> DEFINE n == Cardinality(P)
           c == Min({a + b, n})
           Q == {i \in P : a < Rank(P, i) /\ Rank(P, i) <= a + b}
           l == At(v, P)
           r == SubSeq(l, a + 1, c)
<1>1. l \in Seq(V) /\ Len(l) = n /\ n \in Nat /\ \A i \in P : l[Rank(P, i)] = v[i]
  BY AtRanks, RanksInList
<1>2. c = IF a + b <= n THEN a + b ELSE n
  BY <1>1, MinOfTwo
<1>3. \A i \in Q : i \in P /\ Rank(P, i) \in (a + 1)..c
  BY <1>1, <1>2, RanksInList
<1>4. \A m \in (a + 1)..c : \E i \in Q : Rank(P, i) = m
  <2>1. ASSUME NEW m \in (a + 1)..c
        PROVE  \E i \in Q : Rank(P, i) = m
    <3>1. m \in 1..n /\ a < m /\ m <= a + b
      BY <1>1, <1>2
    <3>2. PICK i \in P : Rank(P, i) = m
      BY <3>1, RanksInList
    <3> QED
      BY <3>1, <3>2
  <2> QED
    BY <2>1
<1>5. Q \in SUBSET P /\ Q \in SUBSET (1..Len(v)) /\ a + 1 \in Int /\ c \in Int
  <2>1. Q \in SUBSET P
    OBVIOUS
  <2>2. c \in Int
    <3> HIDE DEF c, n
    <3> QED
      BY <1>1, <1>2
  <2> HIDE DEF Q, c
  <2> QED
    BY <2>1, <2>2
<1>6. ASSUME NEW i \in Q
      PROVE  Rank(Q, i) = Rank(P, i) - a
  <2> DEFINE X == {j \in Q : j <= i}
             d == Rank(P, i)
  <2>1. d \in (a + 1)..c /\ d \in Int /\ i \in P
    <3>1. d \in (a + 1)..c /\ i \in P
      BY <1>3, Zenon
    <3> QED
      BY <3>1
  <2>2. \A j \in Q : j <= i <=> Rank(P, j) <= d
    BY <1>3, RanksInOrder
  <2>3. \A j \in X : Rank(P, j) \in (a + 1)..d
    BY <1>3, <2>1, <2>2
  <2>4. \A m \in (a + 1)..d : \E j \in X : Rank(P, j) = m
    BY <1>4, <1>5, <2>1, <2>2
  <2>7. HaveRanks(X, P, (a + 1)..d)
    BY <2>3, <2>4 DEF HaveRanks
  <2>5. X \in SUBSET P
    BY <1>5
  <2>e. d \in Int
    BY <2>1
  <2> HIDE DEF X, d, Q
  <2>6. Cardinality(X) = IF a + 1 > d THEN 0 ELSE d - (a + 1) + 1
    BY <1>5, <2>e, <2>5, <2>7, RanksOfInterval
  <2> QED
    BY <1>5, <2>1, <2>6 DEF Rank, X, d
<1> HIDE DEF Q
<1>7. Cardinality(Q) = IF a + 1 > c THEN 0 ELSE c - (a + 1) + 1
  BY <1>3, <1>4, <1>5, RanksOfInterval DEF HaveRanks
<1>8. r \in Seq(V) /\ Len(r) = Cardinality(Q)
  <2> HIDE DEF l, c, n
  <2> QED
    BY <1>1, <1>2, <1>5, <1>7
<1>9. ASSUME NEW i \in Q
      PROVE  r[Rank(Q, i)] = v[i]
  <2>1. Rank(P, i) \in (a + 1)..c /\ l[Rank(P, i)] = v[i] /\ Rank(Q, i) = Rank(P, i) - a
    BY <1>1, <1>3, <1>6
  <2> HIDE DEF l, c, n
  <2>2. c <= n
    BY <1>1, <1>2
  <2> DEFINE d == Rank(P, i)
             e == Rank(Q, i)
  <2>3. d \in (a + 1)..c /\ e = d - a
    BY <2>1
  <2> HIDE DEF d, e
  <2>4. e \in 1..(c - a) /\ d = e + a
    BY <1>5, <2>3
  <2>5. r[e] = l[d]
    BY <1>1, <1>5, <2>2, <2>3, <2>4
  <2> QED
    BY <2>1, <2>5 DEF d, e
<1> HIDE DEF r
<1>10. r = At(v, Q)
  BY <1>5, <1>8, <1>9, IsAt
<1> QED
  BY <1>1, <1>10 DEF r, Q, Ranked

\* The first elements of a list, up to max, are a beginning of it.
LEMMA FirstElements ==
  ASSUME NEW V, NEW v \in Seq(V), NEW max \in Nat
  PROVE  LET first == SubSeq(v, 1, Min({max, Len(v)})) IN
         /\ first \in Seq(V) /\ Len(first) = Min({max, Len(v)})
         /\ \A i \in 1..Len(first) : first[i] = v[i]
         /\ IsPrefix(first, v)
<1> DEFINE m == Min({max, Len(v)})
           first == SubSeq(v, 1, m)
<1>1. m \in Nat /\ m <= Len(v)
  BY MinOfTwo
<1> HIDE DEF m
<1>2. first \in Seq(V) /\ Len(first) = m /\ \A i \in 1..m : first[i] = v[i]
  BY <1>1
<1>3. SubSeq(first, 1, m) = SubSeq(v, 1, m)
  BY <1>1, <1>2
<1> HIDE DEF first
<1>4. IsPrefix(first, v)
  BY <1>1, <1>2, <1>3 DEF IsPrefix
<1> QED
  BY <1>2, <1>4 DEF first, m

-----------------------------------------------------------------------------
(* Elements of elements, and beginnings. *)

\* The positions whose ranks in P are in Q.
Through(P, Q) == {i \in P : Rank(P, i) \in Q}

\* Some of some elements of a list are some elements of it.
LEMMA AtOfAt ==
  ASSUME NEW V, NEW v \in Seq(V), NEW P \in SUBSET (1..Len(v)),
         NEW Q \in SUBSET (1..Cardinality(P))
  PROVE  At(At(v, P), Q) = At(v, Through(P, Q))
<1> DEFINE l == At(v, P)
           r == At(l, Q)
           X == Through(P, Q)
<1>1. l \in Seq(V) /\ Len(l) = Cardinality(P) /\ \A i \in P : l[Rank(P, i)] = v[i]
  BY AtRanks
<1>2. /\ Cardinality(P) \in Nat
      /\ \A i \in P : Rank(P, i) \in 1..Cardinality(P)
      /\ \A i, j \in P : Rank(P, i) = Rank(P, j) => i = j
      /\ \A m \in 1..Cardinality(P) : \E i \in P : Rank(P, i) = m
  BY RanksInList
<1> HIDE DEF l
<1>3. Q \in SUBSET (1..Len(l))
  BY <1>1
<1>4. r \in Seq(V) /\ Len(r) = Cardinality(Q) /\ \A m \in Q : r[Rank(Q, m)] = l[m]
  BY <1>1, <1>3, AtRanks
<1> HIDE DEF r
<1>5. X \in SUBSET P /\ X \in SUBSET (1..Len(v))
  BY DEF Through
<1>6. Cardinality(X) = Cardinality(Q)
  <2>1. HaveRanks(X, P, Q)
    BY <1>2 DEF HaveRanks, Through
  <2> QED
    BY <1>5, <2>1, AsManyAsRanks
<1>7. ASSUME NEW i \in X
      PROVE  r[Rank(X, i)] = v[i]
  <2> DEFINE m == Rank(P, i)
             Below == {j \in X : j <= i}
             Lower == {k \in Q : k <= m}
  <2>1. m \in Q /\ i \in P
    BY DEF Through
  <2>2. HaveRanks(Below, P, Lower)
    <3>1. \A j \in P : j <= i <=> Rank(P, j) <= m
      BY <2>1, RanksInOrder
    <3>2. \A j \in X : j \in P /\ Rank(P, j) \in Q
      BY DEF Through
    <3>3. \A k \in Q : \E j \in X : Rank(P, j) = k
      BY <1>2 DEF Through
    <3> HIDE DEF X, m
    <3> QED
      BY <3>1, <3>2, <3>3 DEF HaveRanks
  <2>3. Below \in SUBSET P /\ Lower \in SUBSET (1..Cardinality(P))
    BY <1>5
  <2> HIDE DEF Below, Lower
  <2>4. Cardinality(Below) = Cardinality(Lower)
    BY <2>2, <2>3, AsManyAsRanks
  <2>5. Rank(X, i) = Rank(Q, m)
    BY <2>4 DEF Rank, Below, Lower, m
  <2> QED
    BY <1>1, <1>4, <2>1, <2>5
<1>8. r = At(v, X)
  BY <1>4, <1>5, <1>6, <1>7, IsAt
<1> QED
  BY <1>8 DEF r, l, X

\* s starts as t does.
Starts(s, t) == Len(s) <= Len(t) /\ \A k \in 1..Len(s) : s[k] = t[k]

\* Elements of a beginning of a list are a beginning of its elements.
LEMMA AtOfBeginning ==
  ASSUME NEW V, NEW v \in Seq(V), NEW w \in Seq(V), Starts(w, v),
         NEW P \in SUBSET (1..Len(v))
  PROVE  Starts(At(w, P \cap 1..Len(w)), At(v, P))
<1> DEFINE X == P \cap 1..Len(w)
<1>0. Len(v) \in Nat /\ Len(w) \in Nat /\ Len(w) <= Len(v)
  BY DEF Starts
<1>1. X \in SUBSET (1..Len(w)) /\ X \in SUBSET P /\ X \in SUBSET (1..Len(v))
  BY <1>0
<1>2. Len(At(w, X)) = Cardinality(X) /\ \A i \in X : At(w, X)[Rank(X, i)] = w[i]
  BY <1>1, AtRanks
<1>3. Len(At(v, P)) = Cardinality(P) /\ \A i \in P : At(v, P)[Rank(P, i)] = v[i]
  BY AtRanks
<1>4. Cardinality(X) <= Cardinality(P)
  BY <1>0, <1>1, PositionsFinite, FS_Subset
<1>5. \A m \in 1..Cardinality(X) : \E i \in X : Rank(X, i) = m
  BY <1>1, RanksInList
<1>6. ASSUME NEW i \in X
      PROVE  Rank(X, i) = Rank(P, i) /\ w[i] = v[i]
  <2>1. {j \in X : j <= i} = {j \in P : j <= i}
    <3>1. i \in Int /\ i <= Len(w)
      BY <1>0
    <3>2. \A j \in P : j <= i => j \in X
      BY <1>0, <3>1
    <3>3. \A j \in X : j \in P
      OBVIOUS
    <3> HIDE DEF X
    <3> QED
      BY <3>2, <3>3
  <2>2. w[i] = v[i]
    BY DEF Starts
  <2> QED
    BY <2>1, <2>2 DEF Rank
<1> HIDE DEF X
<1>7. ASSUME NEW m \in 1..Cardinality(X)
      PROVE  At(w, X)[m] = At(v, P)[m]
  <2>1. PICK i \in X : Rank(X, i) = m
    BY <1>5
  <2> QED
    BY <1>1, <1>2, <1>3, <1>6, <2>1
<1>8. Starts(At(w, X), At(v, P))
  BY <1>2, <1>3, <1>4, <1>7 DEF Starts
<1> QED
  BY <1>8 DEF X

\* A beginning, as the community modules say it.
LEMMA StartsIsPrefix ==
  ASSUME NEW V, NEW s \in Seq(V), NEW t \in Seq(V), Starts(s, t)
  PROVE  IsPrefix(s, t)
<1>1. Len(s) \in Nat /\ Len(t) \in Nat /\ Len(s) <= Len(t)
  BY DEF Starts
<1>2. SubSeq(s, 1, Len(s)) = SubSeq(t, 1, Len(s))
  BY <1>1 DEF Starts
<1> QED
  BY <1>1, <1>2 DEF IsPrefix

\* The banners of a beginning of a list are a beginning of those of the list.
LEMMA BannersOfBeginning ==
  ASSUME NEW B, NEW b \in Seq(B), NEW c \in Seq(B), NEW f, NEW g, NEW max \in Nat, NEW p, NEW q,
         AreOfFirst(b, f, p, max), AreOfFirst(c, g, q, max), Starts(f, g),
         Len(f) \in Nat, Len(g) \in Nat,
         \A m \in 1..Len(f) : p[f[m]] = q[f[m]]
  PROVE  IsPrefix(b, c)
<1>1. Len(b) = (IF max <= Len(f) THEN max ELSE Len(f)) /\ Len(c) = (IF max <= Len(g) THEN max ELSE Len(g))
  BY MinOfTwo DEF AreOfFirst
<1>2. Len(f) <= Len(g) /\ \A m \in 1..Len(f) : f[m] = g[m]
  BY DEF Starts
<1>3. Len(b) <= Len(c) /\ Len(b) <= Len(f)
  BY <1>1, <1>2
<1>4. ASSUME NEW m \in 1..Len(b)
      PROVE  b[m] = c[m]
  <2>1. m \in 1..Len(f) /\ m \in 1..Len(c)
    BY <1>1, <1>3
  <2>2. b[m] = p[f[m]] /\ c[m] = q[g[m]]
    BY <2>1 DEF AreOfFirst
  <2> QED
    BY <1>2, <2>1, <2>2
<1>5. Starts(b, c)
  BY <1>3, <1>4 DEF Starts
<1> QED
  BY <1>5, StartsIsPrefix

-----------------------------------------------------------------------------
(* Lists of lists. *)

\* acc[k] is made of the first k lists.
Flattens(acc, V, lists) ==
  /\ acc \in [0..Len(lists) -> Seq(V)]
  /\ acc[0] = <<>>
  /\ \A k \in 1..Len(lists) : acc[k] = acc[k - 1] \o lists[k]

\* FlattenSeq appends one list after the other.
LEMMA FlattenSteps ==
  ASSUME NEW V, NEW lists \in Seq(Seq(V))
  PROVE  \E acc : Flattens(acc, V, lists) /\ FlattenSeq(lists) = acc[Len(lists)]
<1> DEFINE n == Len(lists)
           R == Seq(V)
           op == [re \in R \X R |-> re[1] \o re[2]]
           Eq(f) == f = [i \in 1..n |-> IF i = 1 THEN lists[i] ELSE f[i - 1] \o lists[i]]
           flatten == CHOOSE f : Eq(f)
<1>0. n \in Nat /\ \A k \in 1..n : lists[k] \in R
  OBVIOUS
<1>1. IsFold(R, R, <<>>, op, lists) /\ \A l, x \in R : op[<<l, x>>] = l \o x
  <2>1. \A l, x \in R : l \o x \in R
    OBVIOUS
  <2>2. <<>> \in R
    OBVIOUS
  <2> HIDE DEF R
  <2>3. \A l, x \in R : op[<<l, x>>] = l \o x
    OBVIOUS
  <2>4. lists \in Seq(R)
    BY DEF R
  <2> HIDE DEF op
  <2> QED
    BY <2>1, <2>2, <2>3, <2>4 DEF IsFold
<1> HIDE DEF op, R
<1>2. PICK acc : Accumulates(acc, R, <<>>, op, lists)
  <2>1. PICK h \in [SUBSET DOMAIN lists -> R] : Solves(h, <<>>, op, lists)
    BY <1>1, FoldExists
  <2>2. Satisfies(h, R, <<>>, op, lists)
    BY <2>1 DEF Solves, Satisfies
  <2> QED
    BY <1>1, <2>2, FoldSteps
<1>3. /\ acc \in [0..n -> R] /\ acc[0] = <<>>
      /\ \A k \in 1..n : acc[k] = acc[k - 1] \o lists[k]
  <2>1. acc \in [0..n -> R] /\ acc[0] = <<>>
    BY <1>2 DEF Accumulates
  <2>2. ASSUME NEW k \in 1..n
        PROVE  acc[k] = acc[k - 1] \o lists[k]
    <3>1. k - 1 \in 0..n
      BY <1>0
    <3>2. acc[k - 1] \in R /\ lists[k] \in R
      BY <1>0, <2>1, <3>1
    <3> QED
      BY <1>1, <1>2, <3>2 DEF Accumulates
  <2> QED
    BY <2>1, <2>2
<1>4. Flattens(acc, V, lists)
  BY <1>3 DEF Flattens, R
<1>5. FlattenSeq(lists) = IF n = 0 THEN lists ELSE flatten[n]
  BY DEF FlattenSeq
<1> HIDE DEF n
<1>6. CASE n = 0
  <2>1. lists = <<>>
    BY <1>6 DEF n
  <2> QED
    BY <1>3, <1>4, <1>5, <1>6, <2>1 DEF n
<1>7. CASE n # 0
  <2> DEFINE f == [i \in 1..n |-> acc[i]]
  <2> HIDE DEF R
  <2>1. \A i \in 1..n : /\ acc[i] = IF i = 1 THEN lists[i] ELSE acc[i - 1] \o lists[i]
                        /\ i # 1 => i - 1 \in 1..n
    <3>1. ASSUME NEW i \in 1..n
          PROVE  /\ acc[i] = IF i = 1 THEN lists[i] ELSE acc[i - 1] \o lists[i]
                 /\ i # 1 => i - 1 \in 1..n
      <4>1. CASE i = 1
        <5>1. acc[1] = <<>> \o lists[1]
          <6>1. 1 \in 1..n /\ 1 - 1 = 0
            BY <4>1
          <6> QED
            BY <1>3, <6>1
        <5>2. lists[1] \in Seq(V)
          BY <1>0, <4>1 DEF R
        <5> QED
          BY <4>1, <5>1, <5>2
      <4>2. CASE i # 1
        <5>1. i # 1 => i - 1 \in 1..n
          BY <1>0
        <5> QED
          BY <1>3, <4>2, <5>1
      <4> QED
        BY <4>1, <4>2
    <3> QED
      BY <3>1
  <2>2. Eq(f)
    BY <2>1
  <2> HIDE DEF Eq
  <2>3. Eq(flatten)
    BY <2>2
  <2> HIDE DEF flatten
  <2>4. \A i \in 1..n : flatten[i] = IF i = 1 THEN lists[i] ELSE flatten[i - 1] \o lists[i]
    BY <2>3 DEF Eq
  <2> DEFINE Good == {k \in 0..n : k # 0 => flatten[k] = acc[k]}
  <2>5. 0 \in Good
    BY <1>0
  <2>6. ASSUME NEW k \in 1..n, k - 1 \in Good
        PROVE  k \in Good
    <3>1. k # 1 => flatten[k - 1] = acc[k - 1]
      BY <1>0, <2>6
    <3> QED
      BY <1>0, <2>1, <2>4, <3>1
  <2>7. \A k \in 0..n : k \in Good
    <3> HIDE DEF Good, n
    <3> QED
      BY <1>0, <2>5, <2>6, StepByStep
  <2>8. flatten[n] = acc[n]
    BY <1>0, <1>7, <2>7
  <2> QED
    BY <1>4, <1>5, <1>7, <2>8 DEF n
<1> QED
  BY <1>6, <1>7

\* What a joined list has: all elements of its parts, and no other.
Gathers(list, lists) == ToSet(list) = UNION {ToSet(lists[k]) : k \in 1..Len(lists)}

\* The elements of two lists in one.
LEMMA ElementsOfJoin ==
  ASSUME NEW V, NEW s \in Seq(V), NEW t \in Seq(V)
  PROVE  ToSet(s \o t) = ToSet(s) \cup ToSet(t)
<1>1. /\ s \o t \in Seq(V) /\ <<>> \in Seq(V)
  OBVIOUS
<1>2. \A x : x \in ToSet(s \o t) <=> x \in ToSet(s) \cup ToSet(t)
  <2> SUFFICES ASSUME NEW x PROVE x \in ToSet(s \o t) <=> x \in ToSet(s) \cup ToSet(t)
    OBVIOUS
  <2>1. Contains(s \o t, x) <=> x \in ToSet(s \o t)
    BY <1>1, ContainsElement
  <2>2. Contains(s \o t, x) <=> x \in ToSet(s) \cup ToSet(t)
    BY ContainsElement
  <2> QED
    BY <2>1, <2>2
<1> QED
  BY <1>2

\* FlattenSeq loses no element and adds none.
LEMMA FlattenElements ==
  ASSUME NEW V, NEW lists \in Seq(Seq(V))
  PROVE  FlattenSeq(lists) \in Seq(V) /\ Gathers(FlattenSeq(lists), lists)
<1> DEFINE n == Len(lists)
           Part(k) == UNION {ToSet(lists[j]) : j \in 1..k}
<1>0. n \in Nat /\ \A k \in 1..n : lists[k] \in Seq(V)
  OBVIOUS
<1>1. PICK acc : Flattens(acc, V, lists) /\ FlattenSeq(lists) = acc[n]
  BY FlattenSteps
<1> DEFINE Good == {k \in 0..n : ToSet(acc[k]) = Part(k)}
<1>2. /\ \A k \in 0..n : acc[k] \in Seq(V)
      /\ acc[0] = <<>> /\ \A k \in 1..n : acc[k] = acc[k - 1] \o lists[k]
  BY <1>1 DEF Flattens
<1>3. 0 \in Good
  <2>1. ToSet(<<>>) = {} /\ Part(0) = {}
    <3>1. 1..0 = {} /\ DOMAIN <<>> = {}
      OBVIOUS
    <3> QED
      BY <3>1 DEF ToSet
  <2> HIDE DEF Part
  <2>2. ToSet(acc[0]) = Part(0)
    BY <1>2, <2>1, Zenon
  <2>3. 0 \in 0..n
    BY <1>0
  <2> QED
    BY <2>2, <2>3
<1>4. ASSUME NEW k \in 1..n, k - 1 \in Good
      PROVE  k \in Good
  <2>1. k - 1 \in 0..n /\ k \in 0..n /\ acc[k - 1] \in Seq(V) /\ lists[k] \in Seq(V)
    BY <1>0, <1>2
  <2>2. ToSet(acc[k - 1] \o lists[k]) = ToSet(acc[k - 1]) \cup ToSet(lists[k])
    BY <2>1, ElementsOfJoin
  <2>3. Part(k) = Part(k - 1) \cup ToSet(lists[k])
    <3>1. 1..k = (1..(k - 1)) \cup {k}
      BY <1>0
    <3> QED
      BY <3>1
  <2> HIDE DEF Part
  <2>4. ToSet(acc[k]) = Part(k)
    BY <1>2, <1>4, <2>1, <2>2, <2>3
  <2> QED
    BY <2>1, <2>4
<1>5. n \in Good
  <2> HIDE DEF Good
  <2>1. \A k \in 0..n : k \in Good
    BY <1>0, <1>3, <1>4, StepByStep
  <2> QED
    BY <1>0, <2>1
<1> QED
  BY <1>0, <1>1, <1>2, <1>5 DEF Gathers

\* A quotient, rounded down.
LEMMA Quotient ==
  ASSUME NEW a \in Nat, NEW b \in Nat \ {0}
  PROVE  /\ a \div b \in Nat
         /\ (a \div b) * b <= a
         /\ a < (a \div b) * b + b
OBVIOUS

\* Two successive parts of a list are one part.
LEMMA PartsJoin ==
  ASSUME NEW V, NEW v \in Seq(V), NEW a \in Nat, NEW b \in Nat, a <= b, b <= Len(v)
  PROVE  SubSeq(v, 1, a) \o SubSeq(v, a + 1, b) = SubSeq(v, 1, b)
OBVIOUS

-----------------------------------------------------------------------------
(* The batches of a list. *)

\* Where the k-th batch begins and ends.
LEMMA BatchBounds ==
  ASSUME NEW n \in Nat, NEW size \in Nat \ {0}, NEW k \in 1..((n + size - 1) \div size)
  PROVE  /\ (k - 1) * size \in Nat /\ k * size \in Nat
         /\ k * size = (k - 1) * size + size
         /\ (k - 1) * size < n
<1> DEFINE m == (n + size - 1) \div size
<1>1. m \in Nat /\ m * size <= n + size - 1
  BY Quotient
<1>2. k \in Int /\ 1 <= k /\ k <= m
  BY <1>1
<1> HIDE DEF m
<1>3. k * size = (k - 1) * size + size
  BY <1>2
<1>4. k * size <= m * size
  BY <1>1, <1>2
<1>5. 0 <= (k - 1) * size
  BY <1>2
<1>6. (k - 1) * size \in Int /\ k * size \in Int /\ m * size \in Int
  BY <1>1, <1>2
<1> QED
  BY <1>1, <1>3, <1>4, <1>5, <1>6

\* The batches are the list cut up.
LEMMA BatchesCover ==
  ASSUME NEW V, NEW v \in Seq(V), NEW size \in Nat \ {0}
  PROVE  /\ Batches(v, size) \in Seq(Seq(V)) /\ FlattenSeq(Batches(v, size)) = v
         /\ \A k \in DOMAIN Batches(v, size) : Len(Batches(v, size)[k]) \in 1..size
<1> DEFINE n == Len(v)
           m == (n + size - 1) \div size
           end(k) == Min({k * size, n})
           batches == Batches(v, size)
           Good(acc) == {k \in 0..m : acc[k] = SubSeq(v, 1, end(k))}
<1>1. n \in Nat /\ m \in Nat
  BY Quotient
<1>2. batches = [k \in 1..m |-> SubSeq(v, (k - 1) * size + 1, end(k))]
  BY DEF Batches
<1>3. ASSUME NEW k \in 1..m
      PROVE  /\ end(k - 1) = (k - 1) * size /\ end(k - 1) \in Nat /\ end(k) \in Nat
             /\ end(k - 1) < end(k) /\ end(k) <= n /\ end(k) - end(k - 1) <= size
  <2> DEFINE a == (k - 1) * size
             b == k * size
  <2>1. a \in Nat /\ b \in Nat /\ b = a + size /\ a < n
    BY <1>1, BatchBounds
  <2> HIDE DEF a, b, n
  <2>2. /\ Min({a, n}) = IF a <= n THEN a ELSE n
        /\ Min({b, n}) = IF b <= n THEN b ELSE n
    BY <1>1, <2>1, MinOfTwo
  <2>3. /\ Min({a, n}) = a /\ Min({a, n}) \in Nat /\ Min({b, n}) \in Nat
        /\ Min({a, n}) < Min({b, n}) /\ Min({b, n}) <= n /\ Min({b, n}) - Min({a, n}) <= size
    BY <1>1, <2>1, <2>2
  <2> QED
    BY <2>3 DEF a, b
<1>4. end(0) = 0
  <2>1. 0 * size = 0
    OBVIOUS
  <2> QED
    BY <1>1, <2>1, MinOfTwo
<1>5. end(m) = n
  <2>1. n <= m * size /\ m * size \in Int
    BY <1>1, Quotient
  <2> QED
    BY <1>1, <2>1, MinOfTwo
<1> HIDE DEF end, m, batches
<1>6. ASSUME NEW k \in 1..m
      PROVE  /\ batches[k] = SubSeq(v, end(k - 1) + 1, end(k))
             /\ batches[k] \in Seq(V) /\ Len(batches[k]) \in 1..size
  <2>1. batches[k] = SubSeq(v, end(k - 1) + 1, end(k))
    BY <1>2, <1>3
  <2> DEFINE a == end(k - 1)
             b == end(k)
  <2>2. a \in Nat /\ b \in Nat /\ a < b /\ b <= Len(v) /\ b - a <= size
    BY <1>3
  <2> HIDE DEF a, b
  <2>3. SubSeq(v, a + 1, b) \in Seq(V) /\ Len(SubSeq(v, a + 1, b)) \in 1..size
    BY <2>2
  <2> QED
    BY <2>1, <2>3 DEF a, b
<1>7. batches \in Seq(Seq(V)) /\ Len(batches) = m /\ DOMAIN batches = 1..m
  <2>1. batches \in [1..m -> Seq(V)]
    BY <1>2, <1>6
  <2> QED
    BY <1>1, <2>1
<1>8. PICK acc : Flattens(acc, V, batches) /\ FlattenSeq(batches) = acc[m]
  BY <1>7, FlattenSteps
<1>9. 0 \in Good(acc)
  <2>1. SubSeq(v, 1, 0) = <<>> /\ acc[0] = <<>>
    BY <1>8 DEF Flattens
  <2>2. 0 \in 0..m
    BY <1>1
  <2>3. acc[0] = SubSeq(v, 1, end(0))
    BY <1>4, <2>1
  <2> QED
    BY <2>2, <2>3
<1>10. ASSUME NEW k \in 1..m, k - 1 \in Good(acc)
       PROVE  k \in Good(acc)
  <2>1. acc[k] = acc[k - 1] \o batches[k]
    BY <1>7, <1>8 DEF Flattens
  <2>4. k \in 0..m
    BY <1>1
  <2>2. acc[k - 1] = SubSeq(v, 1, end(k - 1))
    BY <1>10
  <2>3. SubSeq(v, 1, end(k - 1)) \o SubSeq(v, end(k - 1) + 1, end(k)) = SubSeq(v, 1, end(k))
    <3> DEFINE a == end(k - 1)
               b == end(k)
    <3>1. a \in Nat /\ b \in Nat /\ a <= b /\ b <= Len(v)
      BY <1>3
    <3> HIDE DEF a, b
    <3>2. SubSeq(v, 1, a) \o SubSeq(v, a + 1, b) = SubSeq(v, 1, b)
      BY <3>1, PartsJoin
    <3> QED
      BY <3>2 DEF a, b
  <2> QED
    BY <1>6, <2>1, <2>2, <2>3, <2>4
<1>11. \A k \in 0..m : k \in Good(acc)
  <2> DEFINE G == Good(acc)
  <2> HIDE DEF G
  <2>1. 0 \in G /\ \A k \in 1..m : k - 1 \in G => k \in G
    BY <1>9, <1>10 DEF G
  <2>2. \A k \in 0..m : k \in G
    BY <1>1, <2>1, StepByStep
  <2> QED
    BY <2>2 DEF G
<1>12. FlattenSeq(batches) = v
  <2>1. acc[m] = SubSeq(v, 1, n)
    BY <1>1, <1>5, <1>11
  <2>2. SubSeq(v, 1, n) = v
    OBVIOUS
  <2> QED
    BY <1>8, <2>1, <2>2
<1> QED
  BY <1>6, <1>7, <1>12 DEF batches

=============================================================================
