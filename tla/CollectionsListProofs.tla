----------------------- MODULE CollectionsListProofs -----------------------
(***************************************************************************)
(* Theorems about CollectionsList, for any number of ids, any users, any   *)
(* contents of the collections and any sizes of a page.                    *)
(***************************************************************************)
EXTENDS CollectionsList, FiniteSetTheorems, WellFoundedInduction, TLAPS

-----------------------------------------------------------------------------
(* Ranks.  The rows of a result are a set of ids; a row's place is the      *)
(* number of smaller ids in the set.                                       *)

Below(S, c) == {d \in S : d < c}

\* A set of naturals has a least element.
LEMMA Least ==
  ASSUME NEW S \in SUBSET Nat, S # {}
  PROVE  \E m \in S : \A k \in S : m <= k
  <1> DEFINE R == {ss \in Nat \X Nat : ss[1] < ss[2]}
  <1>1. IsWellFoundedOn(R, Nat)
    BY NatLessThanWellFounded DEF OpToRel
  <1> HIDE DEF R
  <1>2. PICK m \in S : \A k \in S : ~ (<<k, m>> \in R)
    BY <1>1, WFMin
  <1>3. ASSUME NEW k \in S, k < m
        PROVE  <<k, m>> \in R
    BY <1>3 DEF R
  <1>4. S \subseteq Nat
    OBVIOUS
  <1>5. \A k \in S : k \in Nat /\ m \in Nat
    BY <1>4
  <1>6. \A k \in S : ~ (k < m)
    BY <1>2, <1>3
  <1> QED
    BY <1>5, <1>6

\* A set of ids has a greatest element.
LEMMA Greatest ==
  ASSUME NEW S \in SUBSET Ids, S # {}
  PROVE  \E m \in S : \A k \in S : k <= m
  <1> DEFINE Mirror == {MaxId - k : k \in S}
  <1>1. \A k \in S : k \in Nat /\ k <= MaxId
    BY MaxIdAssumption DEF Ids
  <1>2. \A k \in S : MaxId - k \in Nat
    BY <1>1, MaxIdAssumption
  <1>3. Mirror \in SUBSET Nat /\ Mirror # {}
    BY <1>2
  <1>4. PICK n \in Mirror : \A k \in Mirror : n <= k
    BY <1>3, Least
  <1>5. PICK m \in S : n = MaxId - m
    BY <1>4
  <1>6. \A k \in S : MaxId - m <= MaxId - k
    BY <1>4, <1>5
  <1> QED
    BY <1>1, <1>6, MaxIdAssumption

\* Sets of ids are finite.
LEMMA IdsFinite ==
  ASSUME NEW S \in SUBSET Ids
  PROVE  IsFiniteSet(S) /\ Cardinality(S) \in Nat
  <1>1. IsFiniteSet(Ids)
    BY FS_Interval, MaxIdAssumption DEF Ids
  <1> QED
    BY <1>1, FS_Subset, FS_CardinalityType

\* A place is a number, and a smaller set has no later places.
LEMMA BelowMonotone ==
  ASSUME NEW S \in SUBSET Ids, NEW T \in SUBSET Ids, NEW c \in Ids,
         Below(S, c) \subseteq Below(T, c)
  PROVE  /\ Cardinality(Below(S, c)) \in Nat
         /\ Cardinality(Below(T, c)) \in Nat
         /\ Cardinality(Below(S, c)) <= Cardinality(Below(T, c))
  <1>1. Below(S, c) \in SUBSET Ids /\ Below(T, c) \in SUBSET Ids
    BY DEF Below
  <1> QED
    BY <1>1, IdsFinite, FS_Subset

\* Places have no gaps: when some row has a place behind o, one has place o.
LEMMA NoGap ==
  ASSUME NEW S \in SUBSET Ids, NEW o \in Nat, NEW c \in S,
         o <= Cardinality(Below(S, c))
  PROVE  \E m \in S : Cardinality(Below(S, m)) = o
  <1> DEFINE Behind == {d \in S : o <= Cardinality(Below(S, d))}
  <1>1. \A d \in S : d \in Ids /\ d \in Nat
    BY MaxIdAssumption DEF Ids
  <1>2. Behind \in SUBSET Nat /\ Behind # {}
    BY <1>1
  <1>3. PICK m \in Behind : \A k \in Behind : m <= k
    BY <1>2, Least
  <1>4. m \in S /\ m \in Nat /\ o <= Cardinality(Below(S, m))
    BY <1>1, <1>3
  <1>5. Below(S, m) \in SUBSET Ids
    BY <1>1 DEF Below
  <1>6. IsFiniteSet(Below(S, m)) /\ Cardinality(Below(S, m)) \in Nat
    BY <1>5, IdsFinite
  <1>7. ASSUME o < Cardinality(Below(S, m))
        PROVE  FALSE
    <2>1. Below(S, m) # {}
      BY <1>7, FS_EmptySet
    <2>2. PICK k \in Below(S, m) : \A d \in Below(S, m) : d <= k
      BY <1>5, <2>1, Greatest
    <2>3. k \in S /\ k < m /\ k \in Nat
      BY <2>2, <1>1 DEF Below
    <2>4. ASSUME NEW d \in S
          PROVE  d < k <=> d < m /\ d # k
      <3>1. d \in Nat
        BY <1>1
      <3>2. d < m => d <= k
        BY <2>2 DEF Below
      <3> QED
        BY <3>1, <3>2, <2>3, <1>4
    <2>5. Below(S, k) = Below(S, m) \ {k}
      BY <2>4 DEF Below
    <2>6. Cardinality(Below(S, k)) = Cardinality(Below(S, m)) - 1
      BY <2>2, <2>5, <1>6, FS_RemoveElement
    <2>7. o <= Cardinality(Below(S, k))
      BY <2>6, <1>6, <1>7
    <2>8. m <= k
      BY <2>3, <2>7, <1>3
    <2> QED
      BY <2>3, <2>8, <1>4
  <1> QED
    BY <1>4, <1>6, <1>7

-----------------------------------------------------------------------------
(* Types. *)

\* The variables have their types, whatever requests overlap.
LEMMA TypeStep ==
  ASSUME TypeOK, [Next]_vars
  PROVE  TypeOK'
  <1> USE MaxIdAssumption, UsersAssumption, LimitsAssumption
  <1>1. ASSUME NEW u \in Users, NEW x \in Contents, Insert(u, x)
        PROVE  TypeOK'
    <2>1. nextId \in Ids /\ nextId' \in 1..(MaxId + 1)
      BY <1>1 DEF Insert, TypeOK, Ids
    <2>2. ASSUME NEW c \in Ids
          PROVE  stage'[c] = "free" <=> c >= nextId'
      <3>1. c \in Nat /\ nextId \in Nat /\ nextId' = nextId + 1
        BY <1>1, <2>1 DEF Insert, Ids
      <3>2. stage'[c] = IF c = nextId THEN "inserting" ELSE stage[c]
        BY <1>1, <2>1 DEF Insert, TypeOK
      <3>3. stage[c] = "free" <=> c >= nextId
        BY DEF TypeOK
      <3> QED
        BY <3>1, <3>2, <3>3
    <2> QED
      BY <1>1, <2>1, <2>2 DEF Insert, TypeOK, Stages, requestVars, historyVars
  <1>2. ASSUME NEW c \in Ids, Commit(c)
        PROVE  TypeOK'
    <2>1. \A d \in Ids : stage'[d] = "free" <=> stage[d] = "free"
      BY <1>2 DEF Commit, TypeOK, Stages
    <2> QED
      BY <1>2, <2>1 DEF Commit, TypeOK, Stages, requestVars
  <1>3. ASSUME NEW c \in Ids, Abort(c)
        PROVE  TypeOK'
    <2>1. \A d \in Ids : stage'[d] = "free" <=> stage[d] = "free"
      BY <1>3 DEF Abort, TypeOK, Stages
    <2> QED
      BY <1>3, <2>1 DEF Abort, TypeOK, Stages, requestVars, historyVars
  <1>4. ASSUME NEW c \in Ids, Delete(c)
        PROVE  TypeOK'
    <2>1. \A d \in Ids : stage'[d] = "free" <=> stage[d] = "free"
      BY <1>4 DEF Delete, TypeOK, Stages
    <2> QED
      BY <1>4, <2>1 DEF Delete, TypeOK, Stages, requestVars
  <1>5. ASSUME NEW c \in Ids, NEW x \in Contents, Update(c, x)
        PROVE  TypeOK'
    BY <1>5 DEF Update, TypeOK, requestVars
  <1>6. ASSUME NEW l \in Limits, StartWalk(l)
        PROVE  TypeOK'
    <2>1. texts' \in [page' -> {x.text : x \in Contents}] /\ DOMAIN answer' \subseteq Ids
      BY <1>6 DEF StartWalk, NoRows
    <2> QED
      BY <1>6, <2>1 DEF StartWalk, TypeOK, Labels, storeVars, Mine
  <1>7. CASE ReadPage
    <2>1. page' \subseteq Ids
      BY <1>7 DEF ReadPage, Page, Mine
    <2>2. texts' \in [page' -> {x.text : x \in Contents}] /\ DOMAIN answer' \subseteq Ids
      BY <1>7, <2>1 DEF ReadPage, TypeOK, NoRows
    <2>3. Count \in Nat
      BY IdsFinite DEF Count, Mine
    <2> QED
      BY <1>7, <2>1, <2>2, <2>3 DEF ReadPage, TypeOK, Labels, storeVars
  <1>8. CASE ReadDOIs
    <2>1. DOMAIN answer' \subseteq Ids /\ offset' \in Nat
      BY <1>8 DEF ReadDOIs, TypeOK
    <2>2. times' \in [Ids -> Nat]
      BY <1>8 DEF ReadDOIs, TypeOK
    <2> QED
      BY <1>8, <2>1, <2>2 DEF ReadDOIs, TypeOK, Labels, storeVars
  <1>9. CASE Recount
    <2>1. Count \in Nat
      BY IdsFinite DEF Count, Mine
    <2> QED
      BY <1>9, <2>1 DEF Recount, TypeOK, Labels, storeVars, historyVars
  <1>10. CASE RequestFails
    BY <1>10 DEF RequestFails, TypeOK, Labels, storeVars, historyVars
  <1>11. CASE UNCHANGED vars
    BY <1>11 DEF TypeOK, vars, storeVars, requestVars, historyVars
  <1> QED
    BY <1>1, <1>2, <1>3, <1>4, <1>5, <1>6, <1>7, <1>8, <1>9, <1>10, <1>11 DEF Next

\* TypeOK holds of every reachable state.
THEOREM TypeCorrect == Spec => []TypeOK
  <1>1. Init => TypeOK
    BY MaxIdAssumption, UsersAssumption, LimitsAssumption
       DEF Init, TypeOK, Ids, Stages, Labels, NoRows
  <1> QED
    BY <1>1, TypeStep, PTL DEF Spec

-----------------------------------------------------------------------------
(* What the other requests do to the list of the user. *)

StoreStep ==
  \/ \E u \in Users, x \in Contents : Insert(u, x)
  \/ \E c \in Ids : Commit(c) \/ Abort(c) \/ Delete(c)
  \/ \E c \in Ids, x \in Contents : Update(c, x)

WasVisible(c) == stage[c] \in {"visible", "gone"}

Same == Mine' = Mine /\ late' = late /\ removed' = removed

Adds(c) ==
  /\ ~WasVisible(c)
  /\ Mine' = Mine \cup {c}
  /\ late' = late \cup {c}
  /\ removed' = removed
  /\ c \in changed'

Drops(c) ==
  /\ Mine' = Mine \ {c}
  /\ removed' = removed \cup {c}
  /\ late' = late

StoreEffect ==
  /\ UNCHANGED <<requestVars, listed, times>>
  /\ changed \subseteq changed'
  /\ \A c \in Ids : WasVisible(c) => WasVisible(c)'
  /\ \A c \in Mine : c \notin changed' => c \in Mine' /\ content'[c] = content[c]
  /\ Same \/ \E c \in Ids : Adds(c) \/ Drops(c)

\* A creation adds one collection to the list when it is committed, a deletion
\* takes one away, and both are recorded in the history of the walk.
LEMMA StoreSteps ==
  ASSUME TypeOK, StoreStep
  PROVE  StoreEffect
  <1>1. ASSUME NEW u \in Users, NEW x \in Contents, Insert(u, x)
        PROVE  StoreEffect
    <2>1. nextId \in Ids /\ stage[nextId] = "free"
      BY <1>1, MaxIdAssumption DEF Insert, TypeOK, Ids
    <2>2. \A c \in Ids : c # nextId =>
            stage'[c] = stage[c] /\ owner'[c] = owner[c] /\ content'[c] = content[c]
      BY <1>1 DEF Insert, TypeOK
    <2>3. stage'[nextId] = "inserting"
      BY <1>1, <2>1 DEF Insert, TypeOK
    <2>4. Mine' = Mine
      BY <2>1, <2>2, <2>3 DEF Mine
    <2> QED
      BY <1>1, <2>1, <2>2, <2>4
         DEF Insert, StoreEffect, Same, WasVisible, historyVars, requestVars, Mine
  <1>2. ASSUME NEW c \in Ids, Commit(c)
        PROVE  StoreEffect
    <2>1. \A d \in Ids : stage'[d] = IF d = c THEN "visible" ELSE stage[d]
      BY <1>2 DEF Commit, TypeOK
    <2>2. \A d \in Ids : owner'[d] = owner[d] /\ content'[d] = content[d]
      BY <1>2 DEF Commit
    <2>3. Mine' = IF owner[c] = Me THEN Mine \cup {c} ELSE Mine
      BY <2>1, <2>2, <1>2 DEF Mine, Commit
    <2> QED
      BY <1>2, <2>1, <2>2, <2>3
         DEF Commit, StoreEffect, Same, Adds, WasVisible, requestVars, Mine
  <1>3. ASSUME NEW c \in Ids, Abort(c)
        PROVE  StoreEffect
    <2>1. \A d \in Ids : stage'[d] = IF d = c THEN "gone" ELSE stage[d]
      BY <1>3 DEF Abort, TypeOK
    <2>2. Mine' = Mine
      BY <1>3, <2>1 DEF Mine, Abort
    <2> QED
      BY <1>3, <2>1, <2>2 DEF Abort, StoreEffect, Same, WasVisible, historyVars, requestVars, Mine
  <1>4. ASSUME NEW c \in Ids, Delete(c)
        PROVE  StoreEffect
    <2>1. \A d \in Ids : stage'[d] = IF d = c THEN "gone" ELSE stage[d]
      BY <1>4 DEF Delete, TypeOK
    <2>2. Mine' = Mine \ {c} /\ (owner[c] # Me => Mine' = Mine)
      BY <1>4, <2>1 DEF Mine, Delete
    <2> QED
      BY <1>4, <2>1, <2>2 DEF Delete, StoreEffect, Same, Drops, WasVisible, requestVars, Mine
  <1>5. ASSUME NEW c \in Ids, NEW x \in Contents, Update(c, x)
        PROVE  StoreEffect
    <2>1. \A d \in Ids : d # c => content'[d] = content[d]
      BY <1>5 DEF Update, TypeOK
    <2>2. Mine' = Mine
      BY <1>5 DEF Mine, Update
    <2> QED
      BY <1>5, <2>1, <2>2 DEF Update, StoreEffect, Same, WasVisible, requestVars, Mine
  <1> QED
    BY <1>1, <1>2, <1>3, <1>4, <1>5 DEF StoreStep

\* A step is one of another request, or one of the walk.
LEMMA Steps ==
  ASSUME [Next]_vars
  PROVE  \/ StoreStep
         \/ \E l \in Limits : StartWalk(l)
         \/ ReadPage \/ ReadDOIs \/ Recount \/ RequestFails
         \/ UNCHANGED vars
  BY DEF Next, StoreStep

-----------------------------------------------------------------------------
(* Nothing is missed. *)

\* No collection before c was deleted during the walk.
Spared(c) == \A d \in removed : c < d

\* A collection that was there from the beginning is behind the pages read so
\* far, or was shown.
MissInv ==
  pc # "idle" =>
    /\ listed \ removed \subseteq Mine
    /\ \A c \in listed \ removed : Spared(c) =>
         /\ times[c] > 0 \/ offset <= Rank(c)
         /\ pc = "dois" => times[c] > 0 \/ c \in page \/ offset + limit <= Rank(c)
         /\ pc \in {"recount", "done"} /\ limit > 0 => times[c] > 0

\* Places are numbers.
LEMMA RankType ==
  ASSUME NEW c \in Ids
  PROVE  Rank(c) \in Nat
  <1>1. {d \in Mine : d < c} \in SUBSET Ids
    BY DEF Mine
  <1> QED
    BY <1>1, IdsFinite DEF Rank

\* The place of a collection gets smaller only when one before it is deleted.
LEMMA RankGrows ==
  ASSUME StoreEffect, NEW c \in Ids, \A d \in removed' : c < d
  PROVE  Rank(c) \in Nat /\ Rank(c)' \in Nat /\ Rank(c) <= Rank(c)'
  <1>1. c \in Nat /\ \A d \in Ids : d \in Nat
    BY MaxIdAssumption DEF Ids
  <1>2. Mine \in SUBSET Ids /\ Mine' \in SUBSET Ids
    BY DEF Mine
  <1>3. ASSUME NEW e \in Mine, e < c
        PROVE  e \in Mine'
    <2>1. CASE Same
      BY <2>1 DEF Same
    <2>2. CASE \E d \in Ids : Adds(d)
      BY <2>2 DEF Adds
    <2>3. ASSUME NEW d \in Ids, Drops(d)
          PROVE  e # d
      <3>1. c < d
        BY <2>3 DEF Drops
      <3>2. e \in Nat /\ d \in Nat
        BY <1>1, <1>2
      <3> QED
        BY <3>1, <3>2, <1>1, <1>3
    <2> QED
      BY <2>1, <2>2, <2>3 DEF StoreEffect, Drops
  <1>4. Below(Mine, c) \subseteq Below(Mine', c)
    BY <1>3 DEF Below
  <1> QED
    BY <1>2, <1>4, BelowMonotone DEF Rank, Below

\* MissInv is preserved by every step.
LEMMA MissStep ==
  ASSUME TypeOK, MissInv, [Next]_vars
  PROVE  MissInv'
  <1> USE LimitsAssumption
  <1>1. CASE StoreStep
    <2>1. StoreEffect
      BY <1>1, StoreSteps
    <2>2. UNCHANGED <<pc, limit, offset, page, listed, times>>
      BY <2>1 DEF StoreEffect, requestVars
    <2>3. removed \subseteq removed'
      BY <2>1 DEF StoreEffect, Same, Adds, Drops
    <2> SUFFICES ASSUME pc # "idle"
                 PROVE  MissInv'
      BY <2>2 DEF MissInv
    <2>4. listed' \ removed' \subseteq Mine'
      BY <2>1, <2>2 DEF MissInv, StoreEffect, Same, Adds, Drops
    <2>5. ASSUME NEW c \in listed \ removed', Spared(c)'
          PROVE  /\ times[c] > 0 \/ offset <= Rank(c)'
                 /\ pc = "dois" => times[c] > 0 \/ c \in page \/ offset + limit <= Rank(c)'
                 /\ pc \in {"recount", "done"} /\ limit > 0 => times[c] > 0
      <3>1. c \in listed \ removed /\ Spared(c) /\ c \in Ids
        BY <2>3, <2>5 DEF Spared, TypeOK
      <3>2. Rank(c) \in Nat /\ Rank(c)' \in Nat /\ Rank(c) <= Rank(c)'
        BY <2>1, <2>5, <3>1, RankGrows DEF Spared
      <3>3. offset \in Nat /\ limit \in Nat
        BY DEF TypeOK
      <3> QED
        BY <3>1, <3>2, <3>3 DEF MissInv
    <2> QED
      BY <2>2, <2>4, <2>5 DEF MissInv
  <1>2. ASSUME NEW l \in Limits, StartWalk(l)
        PROVE  MissInv'
    <2>1. Mine' = Mine
      BY <1>2 DEF StartWalk, storeVars, Mine
    <2>2. \A c \in Ids : Rank(c)' \in Nat
      BY RankType, <2>1 DEF Rank
    <2> QED
      BY <1>2, <2>1, <2>2 DEF StartWalk, MissInv, Mine
  <1>3. CASE ReadPage
    <2>1. Mine' = Mine
      BY <1>3 DEF ReadPage, storeVars, Mine
    <2>2. \A c : Rank(c)' = Rank(c)
      BY <2>1 DEF Rank
    <2>3. UNCHANGED <<limit, offset, listed, removed, times>> /\ pc = "page"
      BY <1>3 DEF ReadPage
    <2>4. ASSUME NEW c \in listed \ removed, Spared(c), times[c] = 0
          PROVE  /\ offset <= Rank(c)
                 /\ c \in page' \/ offset + limit <= Rank(c)
                 /\ limit > 0 => page' # {}
      <3>1. c \in Mine /\ c \in Ids /\ offset <= Rank(c)
        BY <2>3, <2>4 DEF MissInv, TypeOK
      <3>2. Rank(c) \in Nat /\ offset \in Nat /\ limit \in Nat
        BY <3>1, RankType DEF TypeOK
      <3>3. c \in page' \/ offset + limit <= Rank(c)
        BY <1>3, <3>1, <3>2 DEF ReadPage, Page
      <3>4. ASSUME limit > 0
            PROVE  page' # {}
        <4>1. Mine \in SUBSET Ids
          BY DEF Mine
        <4>2. PICK m \in Mine : Rank(m) = offset
          BY <3>1, <3>2, <4>1, NoGap DEF Rank, Below
        <4>3. m \in page'
          BY <1>3, <3>2, <3>4, <4>2 DEF ReadPage, Page
        <4> QED
          BY <4>3
      <3> QED
        BY <3>1, <3>3, <3>4
    <2>5. \A c \in listed : times[c] > 0 \/ times[c] = 0
      BY DEF TypeOK
    <2>6. pc' = IF page' = {} THEN "recount" ELSE "dois"
      BY <1>3 DEF ReadPage
    <2>7. listed \ removed \subseteq Mine
      BY <2>3 DEF MissInv
    <2>8. \A c : Spared(c)' <=> Spared(c)
      BY <2>3 DEF Spared
    <2> QED
      BY <2>1, <2>2, <2>3, <2>4, <2>5, <2>6, <2>7, <2>8 DEF MissInv
  <1>4. CASE ReadDOIs
    <2>1. Mine' = Mine
      BY <1>4 DEF ReadDOIs, storeVars, Mine
    <2>2. \A c : Rank(c)' = Rank(c)
      BY <2>1 DEF Rank
    <2>3. \A c \in Ids : times'[c] = IF c \in page THEN times[c] + 1 ELSE times[c]
      BY <1>4 DEF ReadDOIs
    <2>4. \A c \in Ids : times[c] \in Nat
      BY DEF TypeOK
    <2>5. \A c \in Ids : times[c] > 0 \/ c \in page => times'[c] > 0
      BY <2>3, <2>4
    <2>6. listed \subseteq Ids
      BY DEF TypeOK
    <2> QED
      BY <1>4, <2>1, <2>2, <2>5, <2>6 DEF ReadDOIs, MissInv, Spared
  <1>5. CASE Recount \/ RequestFails
    BY <1>5 DEF Recount, RequestFails, storeVars, historyVars, MissInv, Spared, Mine, Rank
  <1>6. CASE UNCHANGED vars
    BY <1>6 DEF vars, storeVars, requestVars, historyVars, MissInv, Spared, Mine, Rank
  <1> QED
    BY <1>1, <1>2, <1>3, <1>4, <1>5, <1>6, Steps

\* A walk shows every collection that was there from its beginning to its end,
\* unless one with a lower id was deleted on the way.
THEOREM WalkMissesNothing == Spec => []NothingIsMissed
  <1>1. Init => MissInv
    BY DEF Init, MissInv
  <1>2. TypeOK /\ MissInv => NothingIsMissed
    <2>1. \A d \in removed : \A c \in listed : d > c => c < d
      BY MaxIdAssumption DEF Ids
    <2> QED
      BY <2>1 DEF MissInv, NothingIsMissed, Spared
  <1>3. Spec => [](TypeOK /\ MissInv)
    BY <1>1, TypeCorrect, MissStep, PTL DEF Spec
  <1> QED
    BY <1>2, <1>3, PTL

-----------------------------------------------------------------------------
(* Nothing is repeated. *)

\* No collection before c became visible during the walk.
Undisturbed(c) == \A d \in late : ~ (d < c)

\* The collections shown so far are before the offset.
RepeatInv ==
  /\ \A c \in Ids : times[c] > 0 \/ (pc = "dois" /\ c \in page) => WasVisible(c)
  /\ \A c \in Ids : Undisturbed(c) =>
       /\ times[c] <= 1
       /\ times[c] > 0 => c \notin Mine \/ Rank(c) < offset
       /\ pc = "dois" /\ c \in page =>
            /\ times[c] = 0
            /\ c \notin Mine \/ Rank(c) < offset + limit

\* The place of a collection gets larger only when one before it is created.
LEMMA RankShrinks ==
  ASSUME StoreEffect, NEW c \in Ids, Undisturbed(c)', WasVisible(c), c \in Mine'
  PROVE  /\ c \in Mine
         /\ Rank(c) \in Nat /\ Rank(c)' \in Nat /\ Rank(c)' <= Rank(c)
  <1>1. Mine \in SUBSET Ids /\ Mine' \in SUBSET Ids
    BY DEF Mine
  <1>2. ASSUME NEW e \in Mine', e < c \/ e = c
        PROVE  e \in Mine
    <2>1. CASE Same
      BY <2>1 DEF Same
    <2>2. CASE \E d \in Ids : Drops(d)
      BY <2>2 DEF Drops
    <2>3. ASSUME NEW d \in Ids, Adds(d)
          PROVE  e # d
      BY <1>2, <2>3 DEF Adds, Undisturbed
    <2> QED
      BY <2>1, <2>2, <2>3 DEF StoreEffect, Adds
  <1>3. Below(Mine', c) \subseteq Below(Mine, c)
    BY <1>2 DEF Below
  <1> QED
    BY <1>1, <1>2, <1>3, BelowMonotone DEF Rank, Below

\* RepeatInv is preserved by every step.
LEMMA RepeatStep ==
  ASSUME TypeOK, RepeatInv, [Next]_vars
  PROVE  RepeatInv'
  <1> USE LimitsAssumption
  <1>1. CASE StoreStep
    <2>1. StoreEffect
      BY <1>1, StoreSteps
    <2>2. UNCHANGED <<pc, limit, offset, page, listed, times>>
      BY <2>1 DEF StoreEffect, requestVars
    <2>3. late \subseteq late'
      BY <2>1 DEF StoreEffect, Same, Adds, Drops
    <2>4. \A c \in Ids : times[c] > 0 \/ (pc = "dois" /\ c \in page) => WasVisible(c)'
      BY <2>1 DEF RepeatInv, StoreEffect
    <2>5. ASSUME NEW c \in Ids, Undisturbed(c)'
          PROVE  /\ times[c] <= 1
                 /\ times[c] > 0 => c \notin Mine' \/ Rank(c)' < offset
                 /\ pc = "dois" /\ c \in page =>
                      /\ times[c] = 0
                      /\ c \notin Mine' \/ Rank(c)' < offset + limit
      <3>1. Undisturbed(c)
        BY <2>3, <2>5 DEF Undisturbed
      <3>2. ASSUME WasVisible(c), c \in Mine'
            PROVE  /\ c \in Mine
                   /\ Rank(c) \in Nat /\ Rank(c)' \in Nat /\ Rank(c)' <= Rank(c)
        BY <2>1, <2>5, <3>2, RankShrinks
      <3>3. offset \in Nat /\ limit \in Nat
        BY DEF TypeOK
      <3> QED
        BY <3>1, <3>2, <3>3 DEF RepeatInv
    <2> QED
      BY <2>2, <2>4, <2>5 DEF RepeatInv
  <1>2. ASSUME NEW l \in Limits, StartWalk(l)
        PROVE  RepeatInv'
    BY <1>2 DEF StartWalk, RepeatInv
  <1>3. CASE ReadPage
    <2>1. Mine' = Mine /\ \A c : WasVisible(c)' <=> WasVisible(c)
      BY <1>3 DEF ReadPage, storeVars, Mine, WasVisible
    <2>2. \A c : Rank(c)' = Rank(c)
      BY <2>1 DEF Rank
    <2>3. UNCHANGED <<limit, offset, late, times>> /\ pc = "page"
      BY <1>3 DEF ReadPage
    <2>4. \A c : Undisturbed(c)' <=> Undisturbed(c)
      BY <2>3 DEF Undisturbed
    <2>5. ASSUME NEW c \in page'
          PROVE  /\ WasVisible(c)
                 /\ Rank(c) < offset + limit
                 /\ Undisturbed(c) => times[c] = 0
      <3>1. c \in Mine /\ c \in Ids /\ offset <= Rank(c) /\ Rank(c) < offset + limit
        BY <1>3, <2>5 DEF ReadPage, Page, Mine
      <3>2. Rank(c) \in Nat /\ offset \in Nat /\ times[c] \in Nat
        BY <3>1, RankType DEF TypeOK
      <3> QED
        BY <3>1, <3>2 DEF RepeatInv, WasVisible, Mine
    <2> QED
      BY <2>1, <2>2, <2>3, <2>4, <2>5 DEF RepeatInv
  <1>4. CASE ReadDOIs
    <2>1. Mine' = Mine /\ \A c : WasVisible(c)' <=> WasVisible(c)
      BY <1>4 DEF ReadDOIs, storeVars, Mine, WasVisible
    <2>2. \A c : Rank(c)' = Rank(c)
      BY <2>1 DEF Rank
    <2>3. UNCHANGED <<limit, page, late>> /\ pc = "dois" /\ pc' = "page" /\ offset' = offset + limit
      BY <1>4 DEF ReadDOIs
    <2>4. \A c : Undisturbed(c)' <=> Undisturbed(c)
      BY <2>3 DEF Undisturbed
    <2>5. ASSUME NEW c \in Ids
          PROVE  /\ times'[c] > 0 => WasVisible(c)
                 /\ Undisturbed(c) =>
                      /\ times'[c] <= 1
                      /\ times'[c] > 0 => c \notin Mine \/ Rank(c) < offset + limit
      <3>1. times'[c] = IF c \in page THEN times[c] + 1 ELSE times[c]
        BY <1>4 DEF ReadDOIs
      <3>2. Rank(c) \in Nat /\ offset \in Nat /\ limit \in Nat /\ times[c] \in Nat
        BY RankType DEF TypeOK
      <3> QED
        BY <2>3, <3>1, <3>2 DEF RepeatInv
    <2> QED
      BY <2>1, <2>2, <2>3, <2>4, <2>5 DEF RepeatInv
  <1>5. CASE Recount \/ RequestFails
    BY <1>5 DEF Recount, RequestFails, storeVars, historyVars, RepeatInv, Undisturbed,
                WasVisible, Mine, Rank
  <1>6. CASE UNCHANGED vars
    BY <1>6 DEF vars, storeVars, requestVars, historyVars, RepeatInv, Undisturbed,
                WasVisible, Mine, Rank
  <1> QED
    BY <1>1, <1>2, <1>3, <1>4, <1>5, <1>6, Steps

\* A walk shows no collection twice, unless one with a lower id became visible
\* on the way.
THEOREM WalkRepeatsNothing == Spec => []NothingIsRepeated
  <1>1. Init => RepeatInv
    BY DEF Init, RepeatInv
  <1>2. TypeOK /\ RepeatInv => NothingIsRepeated
    <2> SUFFICES ASSUME TypeOK, RepeatInv, NEW c \in Ids, times[c] > 1
                 PROVE  \E d \in late : d < c
      BY DEF NothingIsRepeated
    <2>1. times[c] \in Nat
      BY DEF TypeOK
    <2> QED
      BY <2>1 DEF RepeatInv, Undisturbed
  <1>3. Spec => [](TypeOK /\ RepeatInv)
    BY <1>1, TypeCorrect, RepeatStep, PTL DEF Spec
  <1> QED
    BY <1>2, <1>3, PTL

-----------------------------------------------------------------------------
(* The two statements of a request. *)

\* What was read with the page is still there, unless it was changed since.
TornInv ==
  /\ TornOnlyByAChange
  /\ pc = "dois" =>
       \A c \in page : c \notin changed => c \in Mine /\ texts[c] = content[c].text

\* TornInv is preserved by every step.
LEMMA TornStep ==
  ASSUME TypeOK, TornInv, [Next]_vars
  PROVE  TornInv'
  <1>1. CASE StoreStep
    <2>1. StoreEffect
      BY <1>1, StoreSteps
    <2> QED
      BY <2>1 DEF StoreEffect, requestVars, TornInv, TornOnlyByAChange
  <1>2. ASSUME NEW l \in Limits, StartWalk(l)
        PROVE  TornInv'
    BY <1>2 DEF StartWalk, TornInv, TornOnlyByAChange, NoRows
  <1>3. CASE ReadPage
    <2>1. Mine' = Mine /\ content' = content
      BY <1>3 DEF ReadPage, storeVars, Mine
    <2>2. DOMAIN answer' = {}
      BY <1>3 DEF ReadPage, NoRows
    <2>3. \A c \in page' : c \in Mine /\ texts'[c] = content[c].text
      BY <1>3 DEF ReadPage, Page
    <2> QED
      BY <2>1, <2>2, <2>3 DEF TornInv, TornOnlyByAChange
  <1>4. CASE ReadDOIs
    <2>1. Mine' = Mine /\ content' = content /\ changed' = changed /\ pc' = "page"
      BY <1>4 DEF ReadDOIs, storeVars, Mine
    <2>2. ASSUME NEW c \in page, c \notin changed
          PROVE  /\ c \in Mine
                 /\ answer'[c].text = content[c].text
                 /\ answer'[c].size = Len(content[c].dois)
                 /\ answer'[c].banners =
                      {content[c].dois[i] : i \in {j \in 1..answer'[c].size : j <= MaxBanner}}
      <3>1. c \in Mine /\ texts[c] = content[c].text
        BY <1>4, <2>2 DEF TornInv, ReadDOIs
      <3>2. answer'[c] = Summary(texts[c], content[c].dois)
        BY <1>4, <3>1 DEF ReadDOIs, DOIsOf, Mine
      <3>3. content[c].dois \in Seq(DOIs)
        BY <3>1, ContentsAssumption DEF TypeOK, Mine
      <3>4. DOMAIN content[c].dois = 1..Len(content[c].dois)
        BY <3>3
      <3> QED
        BY <3>1, <3>2, <3>4 DEF Summary
    <2>3. DOMAIN answer' = page
      BY <1>4 DEF ReadDOIs
    <2> QED
      BY <2>1, <2>2, <2>3 DEF TornInv, TornOnlyByAChange
  <1>5. CASE Recount \/ RequestFails
    BY <1>5 DEF Recount, RequestFails, storeVars, historyVars, TornInv, TornOnlyByAChange, Mine
  <1>6. CASE UNCHANGED vars
    BY <1>6 DEF vars, storeVars, requestVars, historyVars, TornInv, TornOnlyByAChange, Mine
  <1> QED
    BY <1>1, <1>2, <1>3, <1>4, <1>5, <1>6, Steps

\* An entry of a page is one state of its collection, unless the collection was
\* changed or deleted between the two statements, or since.
THEOREM EntriesAreTrue == Spec => []TornOnlyByAChange
  <1>1. Init => TornInv
    BY DEF Init, TornInv, TornOnlyByAChange, NoRows
  <1>2. Spec => []TornInv
    BY <1>1, TypeCorrect, TornStep, PTL DEF Spec
  <1>3. TornInv => TornOnlyByAChange
    BY DEF TornInv
  <1> QED
    BY <1>2, <1>3, PTL

-----------------------------------------------------------------------------
(* The total count. *)

\* When there are more than o rows, one has place o.
LEMMA PlaceTaken ==
  ASSUME NEW S \in SUBSET Ids, NEW o \in Nat, o < Cardinality(S)
  PROVE  \E m \in S : Cardinality(Below(S, m)) = o
  <1>1. IsFiniteSet(S) /\ Cardinality(S) \in Nat
    BY IdsFinite
  <1>2. S # {}
    BY <1>1, FS_EmptySet
  <1>3. PICK g \in S : \A k \in S : k <= g
    BY <1>2, Greatest
  <1>4. \A k \in S : k \in Nat
    BY MaxIdAssumption DEF Ids
  <1>5. Below(S, g) = S \ {g}
    BY <1>3, <1>4 DEF Below
  <1>6. Cardinality(Below(S, g)) = Cardinality(S) - 1
    BY <1>1, <1>5, FS_RemoveElement
  <1>7. o <= Cardinality(Below(S, g))
    BY <1>1, <1>6
  <1> QED
    BY <1>7, NoGap

\* A place is less than the number of rows, and no two rows have the same.
LEMMA PlacesDiffer ==
  ASSUME NEW S \in SUBSET Ids, NEW c \in S, NEW d \in S
  PROVE  /\ Cardinality(Below(S, c)) \in Nat
         /\ Cardinality(Below(S, c)) < Cardinality(S)
         /\ Cardinality(Below(S, c)) = Cardinality(Below(S, d)) => c = d
  <1>1. c \in Nat /\ d \in Nat
    BY MaxIdAssumption DEF Ids
  <1>2. IsFiniteSet(S) /\ Cardinality(S) \in Nat
    BY IdsFinite
  <1>3. ASSUME NEW a \in S, NEW T \in SUBSET S, Below(S, a) \subseteq T, a \in T, a \in Nat
        PROVE  /\ Cardinality(Below(S, a)) \in Nat
               /\ Cardinality(T) \in Nat
               /\ Cardinality(Below(S, a)) < Cardinality(T)
    <2>1. Below(S, a) \in SUBSET T \ {a}
      BY <1>3 DEF Below
    <2>2. T \in SUBSET Ids
      OBVIOUS
    <2>3. IsFiniteSet(T) /\ Cardinality(T) \in Nat
      BY <2>2, IdsFinite
    <2>4. IsFiniteSet(T \ {a}) /\ Cardinality(T \ {a}) = Cardinality(T) - 1
      BY <2>3, <1>3, FS_RemoveElement
    <2>5. Cardinality(Below(S, a)) <= Cardinality(T \ {a}) /\ IsFiniteSet(Below(S, a))
      BY <2>1, <2>4, FS_Subset
    <2>6. Cardinality(Below(S, a)) \in Nat
      BY <2>5, FS_CardinalityType
    <2> QED
      BY <2>3, <2>4, <2>5, <2>6
  <1>4. Cardinality(Below(S, c)) \in Nat /\ Cardinality(Below(S, c)) < Cardinality(S)
    BY <1>1, <1>3 DEF Below
  <1>5. ASSUME c < d
        PROVE  Cardinality(Below(S, c)) < Cardinality(Below(S, d))
    <2>1. \A k \in S : k \in Nat
      BY MaxIdAssumption DEF Ids
    <2>2. \A k \in S : k < c => k < d
      BY <1>1, <1>5, <2>1
    <2>3. Below(S, d) \in SUBSET S /\ Below(S, c) \subseteq Below(S, d) /\ c \in Below(S, d)
      BY <1>5, <2>2 DEF Below
    <2> QED
      BY <1>1, <1>3, <2>3
  <1>6. ASSUME d < c
        PROVE  Cardinality(Below(S, d)) < Cardinality(Below(S, c))
    <2>1. \A k \in S : k \in Nat
      BY MaxIdAssumption DEF Ids
    <2>2. \A k \in S : k < d => k < c
      BY <1>1, <1>6, <2>1
    <2>3. Below(S, c) \in SUBSET S /\ Below(S, d) \subseteq Below(S, c) /\ d \in Below(S, c)
      BY <1>6, <2>2 DEF Below
    <2> QED
      BY <1>1, <1>3, <2>3
  <1>7. Cardinality(Below(S, d)) \in Nat
    BY <1>1, <1>3 DEF Below
  <1> QED
    BY <1>1, <1>4, <1>5, <1>6, <1>7

\* How many rows a page has: all those behind the offset, up to the limit.
LEMMA PageCount ==
  ASSUME NEW l \in Nat, NEW o \in Nat
  PROVE  /\ Count \in Nat
         /\ Cardinality(Page(l, o)) \in Nat
         /\ Page(l, o) # {} => o + Cardinality(Page(l, o)) <= Count
         /\ Page(l, o) # {} /\ o + Cardinality(Page(l, o)) < Count => Cardinality(Page(l, o)) = l
         /\ Page(l, o) = {} => l = 0 \/ Count <= o
  <1> DEFINE P == Page(l, o)
             n == Cardinality(Mine)
             k == Cardinality(P)
  <1>1. Mine \in SUBSET Ids /\ P \in SUBSET Ids /\ P \subseteq Mine
    BY DEF Mine, Page
  <1>2. n \in Nat /\ k \in Nat /\ IsFiniteSet(P)
    BY <1>1, IdsFinite
  <1>3. \A c \in P : /\ Rank(c) \in Nat
                    /\ Rank(c) < n
                    /\ o <= Rank(c) /\ Rank(c) < o + l
    BY <1>1, PlacesDiffer DEF Page, Rank, Below
  <1>4. ASSUME NEW c \in P, NEW d \in P, Rank(c) = Rank(d)
        PROVE  c = d
    <2>1. c \in Mine /\ d \in Mine
      BY <1>1
    <2>2. Cardinality(Below(Mine, c)) = Cardinality(Below(Mine, d))
      BY <1>4 DEF Rank, Below
    <2> QED
      BY <1>1, <2>1, <2>2, PlacesDiffer
  <1>5. ASSUME NEW r \in Nat, o <= r, r < n, r < o + l
        PROVE  \E c \in P : Rank(c) = r
    <2>1. PICK c \in Mine : Rank(c) = r
      BY <1>1, <1>5, PlaceTaken DEF Rank, Below
    <2> QED
      BY <1>5, <2>1 DEF Page
  <1>6. P = {} => l = 0 \/ n <= o
    BY <1>2, <1>5
  <1>7. ASSUME NEW m \in Nat, o < m, \A c \in P : Rank(c) < m
        PROVE  k <= m - o
    <2> DEFINE f == [c \in P |-> Rank(c)]
               T == o..(m - 1)
    <2>1. \A c \in P : f[c] \in T
      BY <1>3, <1>7
    <2>2. \A c, d \in P : f[c] = f[d] => c = d
      BY <1>4
    <2>3. f \in Injection(P, T)
      BY <2>1, <2>2 DEF Injection, IsInjective
    <2>4. IsFiniteSet(T) /\ Cardinality(T) = m - o
      BY <1>7, FS_Interval
    <2> HIDE DEF f, T
    <2> QED
      BY <2>3, <2>4, FS_Injection
  <1>8. P # {} => o + k <= n
    <2>1. P # {} => o < n
      BY <1>2, <1>3
    <2> QED
      BY <2>1, <1>2, <1>3, <1>7
  <1>9. P # {} => k <= l
    <2>1. P # {} => o < o + l
      BY <1>3
    <2> QED
      BY <2>1, <1>2, <1>3, <1>7
  <1>10. ASSUME o + k < n, k < l
         PROVE  FALSE
    <2> DEFINE T == o..(o + k)
               g == [r \in T |-> CHOOSE c \in P : Rank(c) = r]
    <2>1. \A r \in T : r \in Nat /\ o <= r /\ r < n /\ r < o + l
      BY <1>2, <1>10
    <2>2. \A r \in T : \E c \in P : Rank(c) = r
      BY <1>5, <2>1
    <2>3. \A r \in T : g[r] \in P /\ Rank(g[r]) = r
      BY <2>2
    <2>4. g \in Injection(T, P)
      BY <2>3 DEF Injection, IsInjective
    <2>5. Cardinality(T) = k + 1
      BY <1>2, FS_Interval
    <2> HIDE DEF g, T
    <2>6. Cardinality(T) <= k
      BY <1>2, <2>4, FS_Injection
    <2> QED
      BY <1>2, <2>5, <2>6
  <1> HIDE DEF P, n, k
  <1>11. P # {} /\ o + k < n => k = l
    BY <1>2, <1>9, <1>10
  <1> QED
    BY <1>2, <1>6, <1>8, <1>11 DEF P, n, k, Count

\* After an empty page there are no rows behind the offset, until one is created.
CountInv ==
  /\ PageAgreesWithTotal
  /\ pc = "recount" => limit = 0 \/ Count <= offset \/ changed \cap late # {}

\* CountInv is preserved by every step.
LEMMA CountStep ==
  ASSUME TypeOK, CountInv, [Next]_vars
  PROVE  CountInv'
  <1> USE LimitsAssumption
  <1>0. /\ limit \in Nat /\ offset \in Nat
        /\ Mine \in SUBSET Ids /\ Mine' \in SUBSET Ids
    BY DEF TypeOK, Mine
  <1>1. CASE StoreStep
    <2>1. StoreEffect
      BY <1>1, StoreSteps
    <2>2. UNCHANGED <<pc, limit, offset, page, total>>
      BY <2>1 DEF StoreEffect, requestVars
    <2>3. changed \cap late \subseteq changed' \cap late'
      BY <2>1 DEF StoreEffect, Same, Adds, Drops
    <2>4. Mine' \subseteq Mine \/ changed' \cap late' # {}
      BY <2>1 DEF StoreEffect, Same, Adds, Drops
    <2>5. Mine' \subseteq Mine =>
            Count \in Nat /\ Count' \in Nat /\ Count' <= Count
      BY <1>0, IdsFinite, FS_Subset DEF Count
    <2>6. pc = "recount" => limit = 0 \/ Count' <= offset \/ changed' \cap late' # {}
      BY <1>0, <2>3, <2>4, <2>5 DEF CountInv
    <2> QED
      BY <2>2, <2>3, <2>6 DEF CountInv, PageAgreesWithTotal
  <1>2. ASSUME NEW l \in Limits, StartWalk(l)
        PROVE  CountInv'
    BY <1>2 DEF StartWalk, CountInv, PageAgreesWithTotal
  <1>3. CASE ReadPage
    <2>1. /\ page' = Page(limit, offset)
          /\ pc' = IF page' = {} THEN "recount" ELSE "dois"
          /\ page' # {} => total' = Count
          /\ limit' = limit /\ offset' = offset /\ Mine' = Mine
      BY <1>3 DEF ReadPage, storeVars, Mine
    <2>2. Count' = Count
      BY <2>1 DEF Count
    <2>3. /\ Count \in Nat
          /\ Cardinality(page') \in Nat
          /\ page' # {} => offset + Cardinality(page') <= Count
          /\ page' # {} /\ offset + Cardinality(page') < Count => Cardinality(page') = limit
          /\ page' = {} => limit = 0 \/ Count <= offset
      BY <1>0, <2>1, PageCount
    <2> QED
      BY <1>0, <2>1, <2>2, <2>3 DEF CountInv, PageAgreesWithTotal
  <1>4. CASE ReadDOIs
    BY <1>4 DEF ReadDOIs, CountInv, PageAgreesWithTotal
  <1>5. CASE Recount
    BY <1>5 DEF Recount, storeVars, historyVars, CountInv, PageAgreesWithTotal
  <1>6. CASE RequestFails
    BY <1>6 DEF RequestFails, CountInv, PageAgreesWithTotal
  <1>7. CASE UNCHANGED vars
    BY <1>7 DEF vars, storeVars, requestVars, historyVars, CountInv, PageAgreesWithTotal, Count, Mine
  <1> QED
    BY <1>1, <1>2, <1>3, <1>4, <1>5, <1>6, <1>7, Steps

\* The total count fits the page, and an empty page is one behind the last row
\* unless a collection came to be between the two statements.
THEOREM CountFitsPage == Spec => []PageAgreesWithTotal
  <1>1. Init => CountInv
    BY DEF Init, CountInv, PageAgreesWithTotal
  <1>2. Spec => []CountInv
    BY <1>1, TypeCorrect, CountStep, PTL DEF Spec
  <1>3. CountInv => PageAgreesWithTotal
    BY DEF CountInv
  <1> QED
    BY <1>2, <1>3, PTL

=============================================================================
