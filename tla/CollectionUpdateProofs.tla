----------------------- MODULE CollectionUpdateProofs -----------------------
(***************************************************************************)
(* Theorems about CollectionUpdate, for any requests and any number of     *)
(* them: a transaction holds what its request still has to change, and     *)
(* the requests implement AtomicEdits.  What a request adds is computed by *)
(* the loops of Lists; ListsProofs says what these return.                 *)
(***************************************************************************)
EXTENDS CollectionUpdate, ListsProofs

Updates == [text : Texts \cup {None}, add : Seq(DOIs), remove : SUBSET DOIs]
Writes == [text : Texts \cup {None}, add : SUBSET DOIs, remove : SUBSET DOIs]

\* What a request at the label c may hold: the request p, the changes u that
\* are left, and the changes w that its transaction has written.
Consistent(c, p, u, w) ==
  /\ IF c = "read" THEN p \in Patches ELSE p = NoPatch
  /\ c \in {"idle", "read", "lookup"} => u = NoPatch
  /\ c \in {"row", "remove", "add", "commit"} => c = Statement(u)
  /\ c = "remove" => w.remove = {}

\* A deleted collection has no DOIs, and every request is at the statement that
\* its update comes to next.
UpdateInv ==
  /\ TypeOK
  /\ ~present => dois = {}
  /\ \A e \in Editors : Consistent(pc[e], patch[e], update[e], written[e])

-----------------------------------------------------------------------------
(* The invariant *)

\* No changes are changes of the types of an update.
LEMMA NothingTyped ==
  /\ NoPatch \in Updates /\ Nothing \in Writes
  /\ NoPatch.remove \cap ToSet(NoPatch.add) = {}
  BY DEF NoPatch, Nothing, Updates, Writes

\* A step of e gives it a label, a request, changes left, changes written and an
\* answer.
Moves(e, c, p, u, w, a) ==
  /\ pc' = [pc EXCEPT ![e] = c]
  /\ patch' = [patch EXCEPT ![e] = p]
  /\ update' = [update EXCEPT ![e] = u]
  /\ written' = [written EXCEPT ![e] = w]
  /\ answer' = [answer EXCEPT ![e] = a]

\* A step of e leaves what the others hold as it was; so it preserves the
\* invariant if what e comes to hold is consistent.
LEMMA StepOfOne ==
  ASSUME UpdateInv, NEW e \in Editors,
         NEW c \in Labels, NEW p \in Patches \cup {NoPatch}, NEW u \in Updates, NEW w \in Writes,
         NEW a \in Answers, Moves(e, c, p, u, w, a),
         present' = present, text' \in Texts \cup {None}, dois' \subseteq DOIs, ~present => dois' = dois,
         u.remove \cap ToSet(u.add) = {},
         w # Nothing => present /\ c \in {"remove", "add", "commit"},
         Consistent(c, p, u, w)
  PROVE  UpdateInv'
<1> USE DEF Moves
<1>1. /\ pc' \in [Editors -> Labels] /\ patch' \in [Editors -> Patches \cup {NoPatch}]
      /\ answer' \in [Editors -> Answers]
  BY DEF UpdateInv, TypeOK
<1>2. update \in [Editors -> Updates] /\ written \in [Editors -> Writes]
  BY Zenon DEF UpdateInv, TypeOK, Updates, Writes
<1>3. update' \in [Editors -> Updates] /\ written' \in [Editors -> Writes]
  BY <1>2
<1>4. ASSUME NEW f \in Editors
      PROVE  /\ update'[f].remove \cap ToSet(update'[f].add) = {}
             /\ written'[f] # Nothing => present' /\ pc'[f] \in {"remove", "add", "commit"}
             /\ Consistent(pc'[f], patch'[f], update'[f], written'[f])
  <2>1. CASE f = e
    <3>1. /\ pc'[f] = c /\ patch'[f] = p /\ update'[f] = u /\ written'[f] = w
      BY <1>2, <2>1 DEF UpdateInv, TypeOK
    <3> QED
      BY <3>1
  <2>2. CASE f # e
    <3>1. /\ pc'[f] = pc[f] /\ patch'[f] = patch[f] /\ update'[f] = update[f]
          /\ written'[f] = written[f]
      BY <1>2, <2>2 DEF UpdateInv, TypeOK
    <3>2. /\ update[f].remove \cap ToSet(update[f].add) = {}
          /\ written[f] # Nothing => present /\ pc[f] \in {"remove", "add", "commit"}
          /\ Consistent(pc[f], patch[f], update[f], written[f])
      BY DEF UpdateInv, TypeOK
    <3> QED
      BY <3>1, <3>2
  <2> QED
    BY <2>1, <2>2
<1>5. TypeOK'
  <2>1. present' \in BOOLEAN
    BY DEF UpdateInv, TypeOK
  <2> QED
    BY <1>1, <1>3, <1>4, <2>1 DEF TypeOK, Updates, Writes
<1>6. ~present' => dois' = {}
  BY DEF UpdateInv
<1> QED
  BY <1>4, <1>5, <1>6 DEF UpdateInv

\* An answer preserves the invariant.
LEMMA AnswerKeepsInv ==
  ASSUME UpdateInv, NEW e \in Editors, NEW a \in Answers, Reply(e, a), UNCHANGED storeVars
  PROVE  UpdateInv'
<1>1. Consistent("idle", NoPatch, NoPatch, Nothing)
  BY DEF Consistent
<1>2. "idle" \in Labels /\ text' \in Texts \cup {None} /\ dois' \subseteq DOIs
  BY DEF Labels, UpdateInv, TypeOK, storeVars
<1>3. Nothing # Nothing => present /\ "idle" \in {"remove", "add", "commit"}
  OBVIOUS
<1>4. Moves(e, "idle", NoPatch, NoPatch, Nothing, a) /\ present' = present /\ dois' = dois
  BY DEF Reply, Moves, storeVars
<1> QED
  BY <1>1, <1>2, <1>3, <1>4, NothingTyped, StepOfOne

\* What is left of a request, and what it leaves out: the DOIs to add are those
\* of its strings that are not there, the others are there.
LEMMA WhatDiffers ==
  ASSUME UpdateInv, NEW p \in Patches
  PROVE  LET u == GetUpdateRequest(p) IN
         /\ u \in Updates
         /\ u.remove = p.remove \cap dois
         /\ u.text = IF p.text = text THEN None ELSE p.text
         /\ ToSet(u.add) \cap dois = {}
         /\ CategorizeDOIs(p.add).external = <<>> =>
              ToSet(u.add) = {s.doi : s \in ToSet(p.add)} \ dois
<1> DEFINE lists == CategorizeDOIs(p.add)
           u == GetUpdateRequest(p)
<1>1. /\ p.text \in Texts \cup {None} /\ p.add \in Seq([doi : DOIs, padded : BOOLEAN])
      /\ p.remove \subseteq DOIs
  BY PatchesAssumption
<1>2. /\ lists.pennsieve \in Seq(DOIs) /\ lists.external \in Seq(DOIs)
      /\ ToSet(lists.pennsieve) = {s.doi : s \in ToSet(p.add)} \cap Pennsieve
      /\ ToSet(lists.external) = {s.doi : s \in ToSet(p.add)} \ Pennsieve
  BY <1>1, CategorizedElements
<1> HIDE DEF lists
<1>3. /\ Without(lists.pennsieve, dois) \in Seq(DOIs)
      /\ ToSet(Without(lists.pennsieve, dois)) = ToSet(lists.pennsieve) \ dois
  BY <1>2, WithoutElements
<1>4. /\ u.text = IF p.text = text THEN None ELSE p.text
      /\ u.add = Without(lists.pennsieve, dois)
      /\ u.remove = p.remove \cap dois
  BY DEF GetUpdateRequest, lists
<1>5. u = [text |-> u.text, add |-> u.add, remove |-> u.remove]
  BY DEF GetUpdateRequest
<1> HIDE DEF u
<1>6. u.text \in Texts \cup {None} /\ u.add \in Seq(DOIs) /\ u.remove \in SUBSET DOIs
  BY <1>1, <1>3, <1>4
<1>7. u \in Updates
  BY <1>5, <1>6 DEF Updates
<1>8. ASSUME lists.external = <<>>
      PROVE  ToSet(u.add) = {s.doi : s \in ToSet(p.add)} \ dois
  <2>1. ToSet(lists.external) = {}
    BY <1>8 DEF ToSet
  <2> QED
    BY <1>2, <1>3, <1>4, <2>1
<1> QED
  BY <1>3, <1>4, <1>7, <1>8 DEF u, lists

\* The statement that an update comes to is one of four; what it does not come
\* to is empty.
LEMMA StatementOf ==
  ASSUME NEW u \in Updates
  PROVE  /\ Statement(u) \in Labels \cap {"row", "remove", "add", "commit"}
         /\ Statement(u) = "row" <=> u.text # None
         /\ Statement(u) = "remove" => u.text = None
         /\ Statement(u) = "add" => u.text = None /\ u.remove = {} /\ u.add # <<>>
         /\ Statement(u) = "commit" <=> u = NoPatch
  BY DEF Statement, Labels, Updates, NoPatch

\* The head of a list, and what its elements are without it.
LEMMA HeadAndTail ==
  ASSUME NEW S, NEW s \in Seq(S), s # <<>>
  PROVE  /\ Head(s) \in S /\ Tail(s) \in Seq(S)
         /\ ToSet(s) = {Head(s)} \cup ToSet(Tail(s))
<1>1. Head(s) \in S /\ Tail(s) \in Seq(S) /\ Len(Tail(s)) = Len(s) - 1
  OBVIOUS
<1>2. Head(s) = s[1] /\ \A i \in 1..(Len(s) - 1) : Tail(s)[i] = s[i + 1]
  OBVIOUS
<1>3. DOMAIN s = 1..Len(s) /\ DOMAIN Tail(s) = 1..(Len(s) - 1) /\ Len(s) \in Nat \ {0}
  BY <1>1
<1>4. ASSUME NEW x \in ToSet(s) PROVE x \in {Head(s)} \cup ToSet(Tail(s))
  <2>1. PICK i \in 1..Len(s) : x = s[i]
    BY <1>3, <1>4 DEF ToSet
  <2>2. CASE i = 1
    BY <1>2, <2>1, <2>2
  <2>3. CASE i # 1
    <3>1. i - 1 \in 1..(Len(s) - 1) /\ (i - 1) + 1 = i
      BY <1>3, <2>3
    <3>2. x = Tail(s)[i - 1]
      BY <1>2, <2>1, <3>1
    <3> QED
      BY <1>3, <3>1, <3>2 DEF ToSet
  <2> QED
    BY <2>2, <2>3
<1>5. ASSUME NEW x \in {Head(s)} \cup ToSet(Tail(s)) PROVE x \in ToSet(s)
  <2>1. CASE x = Head(s)
    <3>1. 1 \in DOMAIN s
      BY <1>3
    <3> QED
      BY <1>2, <2>1, <3>1 DEF ToSet
  <2>2. CASE x \in ToSet(Tail(s))
    <3>1. PICK i \in 1..(Len(s) - 1) : x = Tail(s)[i]
      BY <1>3, <2>2 DEF ToSet
    <3>2. i + 1 \in 1..Len(s)
      BY <1>3
    <3> QED
      BY <1>2, <1>3, <3>1, <3>2 DEF ToSet
  <2> QED
    BY <1>5, <2>1, <2>2
<1> QED
  BY <1>1, <1>4, <1>5


-----------------------------------------------------------------------------
(* Every step preserves it. *)

\* What the invariant says of one request.
LEMMA OfOne ==
  ASSUME UpdateInv, NEW e \in Editors
  PROVE  /\ pc[e] \in Labels /\ patch[e] \in Patches \cup {NoPatch}
         /\ update[e] \in Updates /\ written[e] \in Writes /\ answer[e] \in Answers
         /\ update[e].remove \cap ToSet(update[e].add) = {}
         /\ written[e] # Nothing => present /\ pc[e] \in {"remove", "add", "commit"}
         /\ Consistent(pc[e], patch[e], update[e], written[e])
<1>1. update \in [Editors -> Updates] /\ written \in [Editors -> Writes]
  BY Zenon DEF UpdateInv, TypeOK, Updates, Writes
<1> QED
  BY <1>1 DEF UpdateInv, TypeOK

\* What a step leaves alone is as if e had written it again.
LEMMA Unchanged ==
  ASSUME UpdateInv, NEW e \in Editors
  PROVE  /\ patch = [patch EXCEPT ![e] = patch[e]] /\ update = [update EXCEPT ![e] = update[e]]
         /\ written = [written EXCEPT ![e] = written[e]] /\ answer = [answer EXCEPT ![e] = answer[e]]
<1>1. update \in [Editors -> Updates] /\ written \in [Editors -> Writes]
  BY Zenon DEF UpdateInv, TypeOK, Updates, Writes
<1> QED
  BY <1>1 DEF UpdateInv, TypeOK

\* The committed state has its types.
LEMMA StoreTyped ==
  ASSUME UpdateInv
  PROVE  present \in BOOLEAN /\ text \in Texts \cup {None} /\ dois \subseteq DOIs
  BY DEF UpdateInv, TypeOK

\* A request holds nothing but its patch, which is one of Patches.
LEMMA RequestKeepsInv ==
  ASSUME UpdateInv, NEW e \in Editors, Request(e)
  PROVE  UpdateInv'
<1>1. PICK p \in Patches : patch' = [patch EXCEPT ![e] = p]
  BY DEF Request
<1>2. update[e] = NoPatch /\ written[e] = Nothing
  BY OfOne DEF Request, Consistent
<1>3. Consistent("read", p, NoPatch, Nothing)
  BY DEF Consistent
<1>4. /\ Moves(e, "read", p, NoPatch, Nothing, "none")
      /\ "read" \in Labels /\ "none" \in Answers
      /\ present' = present /\ text' = text /\ dois' = dois
  BY <1>1, <1>2, Unchanged DEF Request, Labels, Answers, Moves, storeVars
<1> QED
  BY <1>3, <1>4, NothingTyped, StoreTyped, StepOfOne

\* A request that goes on after its read holds what differs, and comes to the
\* check of the new DOIs or to its first statement.
LEMMA ReadKeepsInv ==
  ASSUME UpdateInv, NEW e \in Editors, Read(e)
  PROVE  UpdateInv'
<1> DEFINE u == GetUpdateRequest(patch[e])
<1>1. storeVars' = storeVars /\ pc[e] = "read"
  BY DEF Read
<1>2. patch[e] \in Patches /\ written[e] = Nothing
  BY <1>1, OfOne DEF Consistent
<1>3. CASE Reply(e, "notFound") \/ Reply(e, "badRequest")
  <2>1. "notFound" \in Answers /\ "badRequest" \in Answers
    BY DEF Answers
  <2> QED
    BY <1>1, <1>3, <2>1, AnswerKeepsInv
<1>4. CASE /\ update' = [update EXCEPT ![e] = u]
           /\ patch' = [patch EXCEPT ![e] = NoPatch]
           /\ pc' = [pc EXCEPT ![e] = IF u.add # <<>> THEN "check" ELSE Statement(u)]
           /\ UNCHANGED <<written, answer>>
  <2>1. u \in Updates /\ u.remove \cap ToSet(u.add) = {}
    BY <1>2, WhatDiffers
  <2> HIDE DEF u
  <2> DEFINE c == IF u.add # <<>> THEN "check" ELSE Statement(u)
  <2>2. Consistent(c, NoPatch, u, Nothing) /\ c \in Labels
    BY <2>1, StatementOf DEF Consistent, Labels, Nothing
  <2>3. Moves(e, c, NoPatch, u, Nothing, answer[e])
    BY <1>2, <1>4, Unchanged DEF Moves
  <2> HIDE DEF c
  <2>4. answer[e] \in Answers
    BY OfOne
  <2> QED
    BY <1>1, <2>1, <2>2, <2>3, <2>4, NothingTyped, StoreTyped, StepOfOne DEF storeVars
<1> QED
  BY <1>3, <1>4 DEF Read

\* After the check a request comes to its first statement.
LEMMA CheckKeepsInv ==
  ASSUME UpdateInv, NEW e \in Editors, Check(e)
  PROVE  UpdateInv'
<1>1. storeVars' = storeVars /\ pc[e] = "check"
  BY DEF Check
<1>2. CASE Reply(e, "badRequest")
  <2>1. "badRequest" \in Answers
    BY DEF Answers
  <2> QED
    BY <1>1, <1>2, <2>1, AnswerKeepsInv
<1>3. CASE /\ pc' = [pc EXCEPT ![e] = Statement(update[e])]
           /\ UNCHANGED <<patch, update, written, answer>>
  <2>1. /\ patch[e] = NoPatch /\ written[e] = Nothing /\ update[e] \in Updates
        /\ update[e].remove \cap ToSet(update[e].add) = {} /\ answer[e] \in Answers
    BY <1>1, OfOne DEF Consistent
  <2>2. Consistent(Statement(update[e]), NoPatch, update[e], Nothing)
    BY <2>1, StatementOf DEF Consistent, Nothing
  <2>3. Moves(e, Statement(update[e]), NoPatch, update[e], Nothing, answer[e])
    BY <1>3, <2>1, Unchanged DEF Moves
  <2>4. Statement(update[e]) \in Labels
    BY <2>1, StatementOf
  <2> QED
    BY <1>1, <2>1, <2>2, <2>3, <2>4, NothingTyped, StoreTyped, StepOfOne DEF storeVars
<1> QED
  BY <1>2, <1>3 DEF Check

\* A statement that is done leaves the request at the next one.
LEMMA DoneKeepsInv ==
  ASSUME UpdateInv, NEW e \in Editors, UNCHANGED storeVars,
         pc[e] \in {"row", "remove", "add"}, present \/ pc[e] = "remove",
         NEW u \in Updates, NEW w \in Writes, Done(e, u, w),
         u.remove \cap ToSet(u.add) = {}, u.text = None,
         u.remove # {} => w.remove = {},
         w # Nothing => present
  PROVE  UpdateInv'
<1>1. Statement(u) \in {"remove", "add", "commit"} /\ Statement(u) \in Labels
  BY StatementOf
<1>2. patch[e] = NoPatch /\ answer[e] \in Answers
  BY OfOne DEF Consistent
<1>3. Consistent(Statement(u), NoPatch, u, w)
  BY <1>1 DEF Consistent, Statement
<1>4. Moves(e, Statement(u), NoPatch, u, w, answer[e])
  BY <1>2, Unchanged DEF Done, Moves
<1> QED
  BY <1>1, <1>2, <1>3, <1>4, StoreTyped, StepOfOne DEF storeVars

\* The three statements and the commit.
LEMMA UpdateRowKeepsInv ==
  ASSUME UpdateInv, NEW e \in Editors, UpdateRow(e)
  PROVE  UpdateInv'
<1> DEFINE u == [update[e] EXCEPT !.text = None]
           w == [written[e] EXCEPT !.text = update[e].text]
<1>1. storeVars' = storeVars /\ pc[e] = "row"
  BY DEF UpdateRow
<1>2. CASE Reply(e, "notFound")
  <2>1. "notFound" \in Answers
    BY DEF Answers
  <2> QED
    BY <1>1, <1>2, <2>1, AnswerKeepsInv
<1>3. CASE present /\ Done(e, u, w)
  <2>1. /\ update[e] \in Updates /\ written[e] = Nothing
        /\ update[e].remove \cap ToSet(update[e].add) = {}
    BY <1>1, OfOne
  <2>2. u \in Updates /\ u.text = None /\ u.remove = update[e].remove /\ u.add = update[e].add
    BY <2>1 DEF Updates
  <2>3. w \in Writes /\ w.remove = {}
    BY <2>1 DEF Updates, Writes, Nothing
  <2> QED
    BY <1>1, <1>3, <2>1, <2>2, <2>3, DoneKeepsInv
<1> QED
  BY <1>2, <1>3 DEF UpdateRow

\* A removal finds nothing if the collection is gone.
LEMMA RemoveDOIsKeepsInv ==
  ASSUME UpdateInv, NEW e \in Editors, RemoveDOIs(e)
  PROVE  UpdateInv'
<1> DEFINE u == [update[e] EXCEPT !.remove = {}]
           w == [written[e] EXCEPT !.remove = update[e].remove \cap dois]
<1>1. storeVars' = storeVars /\ pc[e] = "remove" /\ Done(e, u, w)
  BY DEF RemoveDOIs
<1>2. /\ update[e] \in Updates /\ written[e] \in Writes /\ written[e].remove = {}
      /\ written[e] # Nothing => present
      /\ Statement(update[e]) = "remove"
  BY <1>1, OfOne DEF Consistent
<1>3. u \in Updates /\ u.text = None /\ u.remove = {}
  BY <1>2, StatementOf DEF Updates
<1>4. w \in Writes
  BY <1>2, StoreTyped DEF Updates, Writes
<1>5. w # Nothing => present
  <2>1. CASE ~present
    <3>1. written[e] = Nothing /\ dois = {}
      BY <1>2, <2>1 DEF UpdateInv
    <3>2. w = Nothing
      BY <3>1 DEF Nothing
    <3> QED
      BY <3>2
  <2> QED
    BY <2>1
<1> QED
  BY <1>1, <1>3, <1>4, <1>5, DoneKeepsInv

\* An insertion takes the head of the DOIs to add.
LEMMA AddDOIKeepsInv ==
  ASSUME UpdateInv, NEW e \in Editors, AddDOI(e)
  PROVE  UpdateInv'
<1> DEFINE doi == Head(update[e].add)
           u == [update[e] EXCEPT !.add = Tail(@)]
           w == [written[e] EXCEPT !.add = @ \cup {doi}]
<1>1. storeVars' = storeVars /\ pc[e] = "add"
  BY DEF AddDOI
<1>2. /\ update[e] \in Updates /\ written[e] \in Writes
      /\ Statement(update[e]) = "add"
  BY <1>1, OfOne DEF Consistent
<1>3. update[e].text = None /\ update[e].remove = {} /\ update[e].add # <<>>
  BY <1>2, StatementOf
<1>4. doi \in DOIs /\ Tail(update[e].add) \in Seq(DOIs)
  BY <1>2, <1>3, HeadAndTail DEF Updates
<1>5. u \in Updates /\ u.text = None /\ u.remove = {}
  BY <1>2, <1>3, <1>4 DEF Updates
<1>6. w \in Writes
  BY <1>2, <1>4 DEF Writes
<1>7. CASE Reply(e, "error")
  <2>1. "error" \in Answers
    BY DEF Answers
  <2> QED
    BY <1>1, <1>7, <2>1, AnswerKeepsInv
<1>8. CASE present /\ (Done(e, u, written[e]) \/ Done(e, u, w))
  BY <1>1, <1>2, <1>5, <1>6, <1>8, DoneKeepsInv
<1> QED
  BY <1>7, <1>8 DEF AddDOI

\* A transaction that has written something commits what the collection has;
\* without a collection there is nothing written.
LEMMA CommitKeepsInv ==
  ASSUME UpdateInv, NEW e \in Editors, Commit(e)
  PROVE  UpdateInv'
<1>1. pc[e] = "commit" /\ present' = present
  BY DEF Commit
<1>2. /\ update[e] = NoPatch /\ patch[e] = NoPatch /\ written[e] \in Writes
      /\ answer[e] \in Answers
      /\ written[e] # Nothing => present
  BY <1>1, OfOne, StatementOf DEF Consistent
<1>3. text' \in Texts \cup {None} /\ dois' \subseteq DOIs
  BY <1>2, StoreTyped DEF Commit, Writes
<1>4. ~present => dois' = dois
  <2>1. dois' = (dois \ written[e].remove) \cup written[e].add
    BY DEF Commit
  <2> QED
    BY <1>2, <2>1 DEF Nothing
<1>5. Consistent("lookup", NoPatch, NoPatch, Nothing) /\ "lookup" \in Labels
  BY DEF Consistent, Labels
<1>6. Moves(e, "lookup", NoPatch, NoPatch, Nothing, answer[e])
  BY <1>2, Unchanged DEF Commit, Moves
<1> QED
  BY <1>1, <1>2, <1>3, <1>4, <1>5, <1>6, NothingTyped, StepOfOne

\* A collection is deleted only when no transaction has written anything.
LEMMA DeleteKeepsInv ==
  ASSUME UpdateInv, DeleteCollection
  PROVE  UpdateInv'
  BY DEF UpdateInv, TypeOK, DeleteCollection


\* Every step preserves the invariant.
LEMMA StepKeepsInv == UpdateInv /\ [Next]_vars => UpdateInv'
<1> SUFFICES ASSUME UpdateInv, [Next]_vars
             PROVE  UpdateInv'
  OBVIOUS
<1>1. CASE DeleteCollection
  BY <1>1, DeleteKeepsInv
<1>2. ASSUME NEW e \in Editors, Request(e) \/ Step(e) \/ AbortDeadlock(e) \/ CallFails(e)
      PROVE  UpdateInv'
  <2>1. CASE Request(e)
    BY <2>1, RequestKeepsInv
  <2>2. CASE Step(e)
    <3>1. CASE Lookup(e)
      <4>1. UNCHANGED storeVars /\ \E a \in Answers : Reply(e, a)
        BY <3>1 DEF Lookup, Answers
      <4> QED
        BY <4>1, AnswerKeepsInv
    <3> QED
      BY <2>2, <3>1, ReadKeepsInv, CheckKeepsInv, UpdateRowKeepsInv, RemoveDOIsKeepsInv,
         AddDOIKeepsInv, CommitKeepsInv DEF Step
  <2>3. CASE AbortDeadlock(e) \/ CallFails(e)
    <3>1. UNCHANGED storeVars /\ Reply(e, "error") /\ "error" \in Answers
      BY <2>3 DEF AbortDeadlock, CallFails, Answers
    <3> QED
      BY <3>1, AnswerKeepsInv
  <2> QED
    BY <1>2, <2>1, <2>2, <2>3
<1>3. CASE UNCHANGED vars
  BY <1>3 DEF vars, storeVars, UpdateInv, TypeOK
<1> QED
  BY <1>1, <1>2, <1>3 DEF Next


\* Nothing has been asked for at first.
LEMMA InitInv == Init => UpdateInv
<1> SUFFICES ASSUME Init
             PROVE  UpdateInv
  OBVIOUS
<1>1. /\ patch \in [Editors -> Patches \cup {NoPatch}] /\ update \in [Editors -> Updates]
      /\ written \in [Editors -> Writes]
  BY NothingTyped DEF Init
<1>2. \A e \in Editors : /\ update[e] = NoPatch /\ written[e] = Nothing /\ patch[e] = NoPatch
                         /\ pc[e] = "idle"
  BY DEF Init
<1>3. /\ present \in BOOLEAN /\ text \in Texts \cup {None} /\ dois \subseteq DOIs
      /\ pc \in [Editors -> Labels] /\ answer \in [Editors -> Answers]
      /\ present
  BY PennsieveAssumption DEF Init, Labels, Answers
<1>4. TypeOK
  BY <1>1, <1>2, <1>3, NothingTyped DEF TypeOK, Updates, Writes
<1> QED
  BY <1>2, <1>3, <1>4 DEF UpdateInv, Consistent

\* A deleted collection has no DOIs, and every request is at the statement that
\* its update comes to next, with the changes that are left.
THEOREM UpdateInvariant == Spec => []UpdateInv
  BY InitInv, StepKeepsInv, PTL DEF Spec

\* What a transaction has written and what it still has to do have their types,
\* and nothing is written unless a transaction is running, on a collection that
\* is there.
THEOREM TypeCorrect == Spec => []TypeOK
<1>1. UpdateInv => TypeOK
  BY DEF UpdateInv
<1> QED
  BY <1>1, UpdateInvariant, PTL

-----------------------------------------------------------------------------
(* The refinement *)

\* The texts, DOIs to add and DOIs to remove that a request p with the changes
\* u left and the changes w written asks for.
TextsOf(p, u, w) == {p.text, u.text, w.text} \ {None}
AddsOf(p, u, w) == {s.doi : s \in ToSet(p.add)} \cup ToSet(u.add) \cup w.add
RemovesOf(p, u, w) == p.remove \cup u.remove \cup w.remove

Asks(texts, add, remove) ==
  [key : {TextKey}, value : texts] \cup [key : add, value : {"in"}] \cup [key : remove, value : {"out"}]

AsksOf(p, u, w) == Asks(TextsOf(p, u, w), AddsOf(p, u, w), RemovesOf(p, u, w))

\* The changes of three parts are those of their texts, of their additions and
\* of their removals.
LEMMA AsksOfParts ==
  ASSUME NEW p, NEW u, NEW w
  PROVE  AsksOf(p, u, w) =
           ChangesOf(p.text, {s.doi : s \in ToSet(p.add)}, p.remove)
             \cup ChangesOf(u.text, ToSet(u.add), u.remove)
             \cup ChangesOf(w.text, w.add, w.remove)
<1>1. ASSUME NEW t, NEW add, NEW remove
      PROVE  ChangesOf(t, add, remove) = Asks({t} \ {None}, add, remove)
  BY DEF ChangesOf, Asks
<1>2. ASSUME NEW t1, NEW a1, NEW r1, NEW t2, NEW a2, NEW r2, NEW t3, NEW a3, NEW r3
      PROVE  Asks(t1 \cup t2 \cup t3, a1 \cup a2 \cup a3, r1 \cup r2 \cup r3)
               = Asks(t1, a1, r1) \cup Asks(t2, a2, r2) \cup Asks(t3, a3, r3)
  BY DEF Asks
<1> DEFINE A == {s.doi : s \in ToSet(p.add)}
           B == ToSet(u.add)
<1>3. TextsOf(p, u, w) = ({p.text} \ {None}) \cup ({u.text} \ {None}) \cup ({w.text} \ {None})
  BY DEF TextsOf
<1>4. AddsOf(p, u, w) = A \cup B \cup w.add /\ RemovesOf(p, u, w) = p.remove \cup u.remove \cup w.remove
  BY DEF AddsOf, RemovesOf
<1> HIDE DEF A, B
<1>5. /\ ChangesOf(p.text, A, p.remove) = Asks({p.text} \ {None}, A, p.remove)
      /\ ChangesOf(u.text, B, u.remove) = Asks({u.text} \ {None}, B, u.remove)
      /\ ChangesOf(w.text, w.add, w.remove) = Asks({w.text} \ {None}, w.add, w.remove)
  BY <1>1
<1>6. AsksOf(p, u, w) =
        ChangesOf(p.text, A, p.remove) \cup ChangesOf(u.text, B, u.remove)
          \cup ChangesOf(w.text, w.add, w.remove)
  BY <1>2, <1>3, <1>4, <1>5 DEF AsksOf
<1> QED
  BY <1>6 DEF A, B

\* What is asked for is typed.
LEMMA AsksTyped ==
  ASSUME NEW p \in Patches \cup {NoPatch}, NEW u \in Updates, NEW w \in Writes
  PROVE  /\ TextsOf(p, u, w) \subseteq Texts
         /\ AddsOf(p, u, w) \subseteq DOIs /\ RemovesOf(p, u, w) \subseteq DOIs
         /\ AsksOf(p, u, w) \subseteq Atomic!Changes
<1>1. /\ p.text \in Texts \cup {None} /\ p.add \in Seq([doi : DOIs, padded : BOOLEAN])
      /\ p.remove \subseteq DOIs
  <2>1. CASE p \in Patches
    BY <2>1, PatchesAssumption
  <2>2. CASE p = NoPatch
    BY <2>2 DEF NoPatch
  <2> QED
    BY <2>1, <2>2
<1>2. /\ u.text \in Texts \cup {None} /\ u.add \in Seq(DOIs) /\ u.remove \subseteq DOIs
      /\ w.text \in Texts \cup {None} /\ w.add \subseteq DOIs /\ w.remove \subseteq DOIs
  BY DEF Updates, Writes
<1>3. ToSet(p.add) \subseteq [doi : DOIs, padded : BOOLEAN] /\ ToSet(u.add) \subseteq DOIs
  BY <1>1, <1>2, ElementsOfList
<1>4. /\ TextsOf(p, u, w) \subseteq Texts
      /\ AddsOf(p, u, w) \subseteq DOIs /\ RemovesOf(p, u, w) \subseteq DOIs
  BY <1>1, <1>2, <1>3 DEF TextsOf, AddsOf, RemovesOf
<1> QED
  BY <1>4 DEF AsksOf, Asks, Atomic!Changes

\* What is asked of the abstract specification before and after a step of e.
LEMMA AskedMoves ==
  ASSUME UpdateInv, NEW e \in Editors, NEW c, NEW p, NEW u, NEW w, NEW a, Moves(e, c, p, u, w, a)
  PROVE  /\ askedBar[e] = AsksOf(patch[e], update[e], written[e])
         /\ askedBar' = [askedBar EXCEPT ![e] = AsksOf(p, u, w)]
         /\ statusBar[e] = StatusAt(pc[e], answer[e])
         /\ statusBar' = [statusBar EXCEPT ![e] = StatusAt(c, a)]
<1> DEFINE Of(f) == AsksOf(patch[f], update[f], written[f])
<1>1. askedBar = [f \in Editors |-> Of(f)]
  <2>1. \A f \in Editors : askedBar[f] = Of(f)
    BY AsksOfParts DEF askedBar
  <2> QED
    BY <2>1 DEF askedBar
<1>2. askedBar' = [f \in Editors |-> AsksOf(patch'[f], update'[f], written'[f])]
  <2>1. \A f \in Editors : askedBar'[f] = AsksOf(patch'[f], update'[f], written'[f])
    BY AsksOfParts DEF askedBar
  <2> QED
    BY <2>1 DEF askedBar
<1>3. /\ patch' = [patch EXCEPT ![e] = p] /\ update' = [update EXCEPT ![e] = u]
      /\ written' = [written EXCEPT ![e] = w] /\ pc' = [pc EXCEPT ![e] = c]
      /\ answer' = [answer EXCEPT ![e] = a]
  BY DEF Moves
<1>4. DOMAIN patch = Editors /\ DOMAIN update = Editors /\ DOMAIN written = Editors /\ DOMAIN pc = Editors
      /\ DOMAIN answer = Editors
  BY DEF UpdateInv, TypeOK
<1>5. askedBar' = [askedBar EXCEPT ![e] = AsksOf(p, u, w)]
  <2>1. \A f \in Editors : askedBar'[f] = IF f = e THEN AsksOf(p, u, w) ELSE askedBar[f]
    BY <1>1, <1>2, <1>3, <1>4
  <2> QED
    BY <1>1, <1>2, <2>1
<1>6. statusBar' = [statusBar EXCEPT ![e] = StatusAt(c, a)]
  <2>1. statusBar' = [f \in Editors |-> StatusAt(pc'[f], answer'[f])]
    BY DEF statusBar, StatusAt
  <2>2. \A f \in Editors :
          StatusAt(pc'[f], answer'[f]) =
            IF f = e THEN StatusAt(c, a) ELSE StatusAt(pc[f], answer[f])
    BY <1>3, <1>4
  <2> QED
    BY <2>1, <2>2 DEF statusBar
<1> QED
  BY <1>1, <1>5, <1>6 DEF statusBar


\* The collection as the abstract specification sees it.
LEMMA CollBarValues ==
  ASSUME NEW t, NEW ds
  PROVE  /\ CollBar(t, ds)[TextKey] = t
         /\ \A d \in DOIs : CollBar(t, ds)[d] = IF d \in ds THEN "in" ELSE "out"
         /\ t \in Texts \cup {None} =>
              CollBar(t, ds) \in [DOIs \cup {TextKey} -> Texts \cup {None, "in", "out"}]
  BY TextKeyAssumption DEF CollBar

\* A step that leaves out of a request what is true in the collection finds it
\* true.
LEMMA LeavesOutWhatIsTrue ==
  ASSUME UpdateInv, UNCHANGED storeVars, NEW e \in Editors, pc[e] # "idle",
         NEW c, c # "idle",
         NEW p, NEW u, NEW w, Moves(e, c, p, u, w, answer[e]),
         LET P == patch[e]
             U == update[e]
             W == written[e]
         IN /\ TextsOf(p, u, w) \subseteq TextsOf(P, U, W)
            /\ TextsOf(P, U, W) \ TextsOf(p, u, w) \subseteq {text}
            /\ AddsOf(p, u, w) \subseteq AddsOf(P, U, W)
            /\ AddsOf(P, U, W) \ AddsOf(p, u, w) \subseteq dois
            /\ RemovesOf(p, u, w) \subseteq RemovesOf(P, U, W)
            /\ (RemovesOf(P, U, W) \ RemovesOf(p, u, w)) \cap dois = {}
  PROVE  Atomic!FindTrue(e)
<1> DEFINE old == AsksOf(patch[e], update[e], written[e])
           new == AsksOf(p, u, w)
           coll == CollBar(text, dois)
<1>1. /\ askedBar[e] = old /\ askedBar' = [askedBar EXCEPT ![e] = new]
      /\ statusBar' = statusBar
  <2>1. /\ statusBar[e] = StatusAt(pc[e], answer[e])
        /\ statusBar' = [statusBar EXCEPT ![e] = StatusAt(c, answer[e])]
        /\ askedBar[e] = old /\ askedBar' = [askedBar EXCEPT ![e] = new]
    BY AskedMoves
  <2>2. statusBar' = [statusBar EXCEPT ![e] = statusBar[e]]
    BY <2>1 DEF StatusAt
  <2>3. [statusBar EXCEPT ![e] = statusBar[e]] = statusBar
    BY DEF statusBar
  <2> QED
    BY <2>1, <2>2, <2>3
<1>2. coll' = coll
  BY DEF storeVars, CollBar
<1>3. new \subseteq old
  BY DEF AsksOf, Asks
<1>4. AddsOf(patch[e], update[e], written[e]) \subseteq DOIs
      /\ RemovesOf(patch[e], update[e], written[e]) \subseteq DOIs
  BY OfOne, AsksTyped
<1>5. ASSUME NEW change \in old \ new
      PROVE  coll[change.key] = change.value
  <2>1. CASE change \in [key : {TextKey}, value : TextsOf(patch[e], update[e], written[e])]
    <3>1. change.key = TextKey /\ change.value = text
      BY <1>5, <2>1 DEF AsksOf, Asks
    <3> QED
      BY <3>1, CollBarValues
  <2>2. CASE change \in [key : AddsOf(patch[e], update[e], written[e]), value : {"in"}]
    <3>1. change.key \in dois /\ change.value = "in" /\ change.key \in DOIs
      BY <1>4, <1>5, <2>2 DEF AsksOf, Asks
    <3> QED
      BY <3>1, CollBarValues
  <2>3. CASE change \in [key : RemovesOf(patch[e], update[e], written[e]), value : {"out"}]
    <3>1. change.key \notin dois /\ change.value = "out" /\ change.key \in DOIs
      BY <1>4, <1>5, <2>3 DEF AsksOf, Asks
    <3> QED
      BY <3>1, CollBarValues
  <2> QED
    BY <1>5, <2>1, <2>2, <2>3 DEF AsksOf, Asks
<1> HIDE DEF old, new, coll
<1>6. askedBar'[e] = new
  BY <1>1 DEF askedBar
<1> QED
  BY <1>1, <1>2, <1>3, <1>5, <1>6 DEF Atomic!FindTrue, coll

\* An answer ends the request: one with success, if nothing is left of it.
LEMMA AnswerEnds ==
  ASSUME UpdateInv, UNCHANGED storeVars, NEW e \in Editors, pc[e] # "idle", NEW a, Reply(e, a)
  PROVE  /\ a \notin {"none", "ok"} => Atomic!Fail(e)
         /\ a = "ok" /\ askedBar[e] = {} => Atomic!Succeed(e)
<1>1. Moves(e, "idle", NoPatch, NoPatch, Nothing, a)
  BY DEF Reply, Moves
<1>2. AsksOf(NoPatch, NoPatch, Nothing) = {}
  BY DEF AsksOf, Asks, TextsOf, AddsOf, RemovesOf, NoPatch, Nothing, ToSet
<1>3. /\ statusBar[e] = StatusAt(pc[e], answer[e])
      /\ statusBar' = [statusBar EXCEPT ![e] = StatusAt("idle", a)]
      /\ askedBar' = [askedBar EXCEPT ![e] = AsksOf(NoPatch, NoPatch, Nothing)]
  BY <1>1, AskedMoves
<1>4. askedBar' = [askedBar EXCEPT ![e] = {}] /\ statusBar[e] = "open"
  BY <1>2, <1>3 DEF StatusAt
<1>5. CollBar(text, dois)' = CollBar(text, dois)
  BY DEF storeVars, CollBar
<1>6. ASSUME a \notin {"none", "ok"}
      PROVE  Atomic!Fail(e)
  <2>1. StatusAt("idle", a) = "failed"
    BY <1>6 DEF StatusAt
  <2> QED
    BY <1>3, <1>4, <1>5, <2>1 DEF Atomic!Fail
<1>7. ASSUME a = "ok", askedBar[e] = {}
      PROVE  Atomic!Succeed(e)
  <2>1. StatusAt("idle", a) = "ok"
    BY <1>7 DEF StatusAt
  <2>2. [askedBar EXCEPT ![e] = askedBar[e]] = askedBar
    BY DEF askedBar
  <2>3. askedBar' = askedBar
    BY <1>4, <1>7, <2>2
  <2> QED
    BY <1>3, <1>4, <1>5, <1>7, <2>1, <2>3 DEF Atomic!Succeed
<1> QED
  BY <1>6, <1>7

\* A patch asks for its changes.
LEMMA RequestAsks ==
  ASSUME UpdateInv, NEW e \in Editors, Request(e)
  PROVE  Atomic!Ask(e)
<1>1. PICK p \in Patches : patch' = [patch EXCEPT ![e] = p]
  BY DEF Request
<1>2. update[e] = NoPatch /\ written[e] = Nothing /\ pc[e] = "idle"
  BY OfOne DEF Request, Consistent
<1>3. Moves(e, "read", p, NoPatch, Nothing, "none") /\ UNCHANGED storeVars
  BY <1>1, <1>2, Unchanged DEF Request, Moves
<1>4. /\ askedBar' = [askedBar EXCEPT ![e] = AsksOf(p, NoPatch, Nothing)]
      /\ statusBar[e] # "open" /\ statusBar' = [statusBar EXCEPT ![e] = "open"]
  <2>1. /\ askedBar' = [askedBar EXCEPT ![e] = AsksOf(p, NoPatch, Nothing)]
        /\ statusBar[e] = StatusAt(pc[e], answer[e])
        /\ statusBar' = [statusBar EXCEPT ![e] = StatusAt("read", "none")]
    BY <1>3, AskedMoves
  <2>2. StatusAt(pc[e], answer[e]) # "open" /\ StatusAt("read", "none") = "open"
    BY <1>2 DEF StatusAt
  <2> QED
    BY <2>1, <2>2
<1>5. AsksOf(p, NoPatch, Nothing) \subseteq Atomic!Changes
  BY AsksTyped, NothingTyped
<1>6. askedBar'[e] = AsksOf(p, NoPatch, Nothing)
  BY <1>4 DEF askedBar
<1>7. CollBar(text, dois)' = CollBar(text, dois)
  BY <1>3 DEF storeVars, CollBar
<1> QED
  BY <1>4, <1>5, <1>6, <1>7 DEF Atomic!Ask

\* A request that goes on after its read leaves out what it found true.
LEMMA ReadFindsTrue ==
  ASSUME UpdateInv, NEW e \in Editors, Read(e)
  PROVE  Atomic!FindTrue(e) \/ Atomic!Fail(e)
<1> DEFINE p == patch[e]
           u == GetUpdateRequest(p)
<1>1. UNCHANGED storeVars /\ pc[e] = "read" /\ pc[e] # "idle"
  BY DEF Read
<1>2. p \in Patches /\ update[e] = NoPatch /\ written[e] = Nothing
  BY <1>1, OfOne DEF Consistent
<1>3. CASE Reply(e, "notFound") \/ Reply(e, "badRequest")
  BY <1>1, <1>3, AnswerEnds
<1>4. CASE /\ CategorizeDOIs(p.add).external = <<>>
           /\ update' = [update EXCEPT ![e] = u]
           /\ patch' = [patch EXCEPT ![e] = NoPatch]
           /\ pc' = [pc EXCEPT ![e] = IF u.add # <<>> THEN "check" ELSE Statement(u)]
           /\ UNCHANGED <<written, answer>>
  <2> DEFINE c == IF u.add # <<>> THEN "check" ELSE Statement(u)
             A == {s.doi : s \in ToSet(p.add)}
  <2>1. /\ u \in Updates
        /\ u.text = IF p.text = text THEN None ELSE p.text
        /\ ToSet(u.add) = A \ dois
        /\ u.remove = p.remove \cap dois
    BY <1>2, <1>4, WhatDiffers
  <2>2. Moves(e, c, NoPatch, u, Nothing, answer[e])
    BY <1>2, <1>4, Unchanged DEF Moves
  <2> HIDE DEF u
  <2>3. c # "idle"
    BY <2>1, StatementOf
  <2>4. /\ NoPatch.text = None /\ NoPatch.remove = {} /\ ToSet(NoPatch.add) = {}
        /\ Nothing.text = None /\ Nothing.remove = {} /\ Nothing.add = {}
    BY DEF NoPatch, Nothing, ToSet
  <2>5. /\ TextsOf(p, NoPatch, Nothing) = {p.text} \ {None}
        /\ TextsOf(NoPatch, u, Nothing) = {u.text} \ {None}
    BY <2>4 DEF TextsOf
  <2>6. /\ AddsOf(p, NoPatch, Nothing) = A
        /\ AddsOf(NoPatch, u, Nothing) = A \ dois
    BY <2>1, <2>4 DEF AddsOf
  <2>7. /\ RemovesOf(p, NoPatch, Nothing) = p.remove
        /\ RemovesOf(NoPatch, u, Nothing) = p.remove \cap dois
    BY <2>1, <2>4 DEF RemovesOf
  <2>8. /\ TextsOf(NoPatch, u, Nothing) \subseteq TextsOf(p, NoPatch, Nothing)
        /\ TextsOf(p, NoPatch, Nothing) \ TextsOf(NoPatch, u, Nothing) \subseteq {text}
    BY <2>1, <2>5
  <2>9. /\ AddsOf(NoPatch, u, Nothing) \subseteq AddsOf(p, NoPatch, Nothing)
        /\ AddsOf(p, NoPatch, Nothing) \ AddsOf(NoPatch, u, Nothing) \subseteq dois
        /\ RemovesOf(NoPatch, u, Nothing) \subseteq RemovesOf(p, NoPatch, Nothing)
        /\ (RemovesOf(p, NoPatch, Nothing) \ RemovesOf(NoPatch, u, Nothing)) \cap dois = {}
    BY <2>6, <2>7
  <2> HIDE DEF c, A
  <2>10. Atomic!FindTrue(e)
    BY <1>1, <1>2, <2>2, <2>3, <2>8, <2>9, LeavesOutWhatIsTrue
  <2> QED
    BY <2>10
<1> QED
  BY <1>3, <1>4 DEF Read


\* The check drops nothing.
LEMMA CheckFindsTrue ==
  ASSUME UpdateInv, NEW e \in Editors, Check(e)
  PROVE  Atomic!FindTrue(e) \/ Atomic!Fail(e)
<1>1. UNCHANGED storeVars /\ pc[e] = "check" /\ pc[e] # "idle"
  BY DEF Check
<1>2. CASE Reply(e, "badRequest")
  BY <1>1, <1>2, AnswerEnds
<1>3. CASE /\ pc' = [pc EXCEPT ![e] = Statement(update[e])]
           /\ UNCHANGED <<patch, update, written, answer>>
  <2>1. Statement(update[e]) # "idle"
    BY OfOne, StatementOf
  <2>2. Moves(e, Statement(update[e]), patch[e], update[e], written[e], answer[e])
    BY <1>3, Unchanged DEF Moves
  <2>3. Atomic!FindTrue(e)
    BY <1>1, <2>1, <2>2, LeavesOutWhatIsTrue
  <2> QED
    BY <2>3
<1> QED
  BY <1>2, <1>3 DEF Check

\* A statement that is done has left out of the request what it found true.
LEMMA DoneFindsTrue ==
  ASSUME UpdateInv, NEW e \in Editors, UNCHANGED storeVars, pc[e] \in {"row", "remove", "add"},
         NEW u \in Updates, NEW w, Done(e, u, w),
         LET U == update[e]
             W == written[e]
         IN /\ {u.text, w.text} \ {None} = {U.text, W.text} \ {None}
            /\ ToSet(u.add) \cup w.add \subseteq ToSet(U.add) \cup W.add
            /\ (ToSet(U.add) \cup W.add) \ (ToSet(u.add) \cup w.add) \subseteq dois
            /\ u.remove \cup w.remove \subseteq U.remove \cup W.remove
            /\ ((U.remove \cup W.remove) \ (u.remove \cup w.remove)) \cap dois = {}
  PROVE  Atomic!FindTrue(e)
<1>1. patch[e] = NoPatch /\ pc[e] # "idle"
  BY OfOne DEF Consistent
<1>2. Moves(e, Statement(u), NoPatch, u, w, answer[e])
  BY <1>1, Unchanged DEF Done, Moves
<1>3. Statement(u) # "idle"
  BY StatementOf
<1>4. NoPatch.text = None /\ NoPatch.remove = {} /\ ToSet(NoPatch.add) = {}
  BY DEF NoPatch, ToSet
<1>5. ASSUME NEW v, NEW x
      PROVE  /\ TextsOf(NoPatch, v, x) = {v.text, x.text} \ {None}
             /\ AddsOf(NoPatch, v, x) = ToSet(v.add) \cup x.add
             /\ RemovesOf(NoPatch, v, x) = v.remove \cup x.remove
  BY <1>4 DEF TextsOf, AddsOf, RemovesOf
<1>6. /\ TextsOf(NoPatch, u, w) = TextsOf(NoPatch, update[e], written[e])
      /\ AddsOf(NoPatch, u, w) \subseteq AddsOf(NoPatch, update[e], written[e])
      /\ AddsOf(NoPatch, update[e], written[e]) \ AddsOf(NoPatch, u, w) \subseteq dois
      /\ RemovesOf(NoPatch, u, w) \subseteq RemovesOf(NoPatch, update[e], written[e])
      /\ (RemovesOf(NoPatch, update[e], written[e]) \ RemovesOf(NoPatch, u, w)) \cap dois = {}
  BY <1>5
<1>7. /\ TextsOf(NoPatch, u, w) \subseteq TextsOf(NoPatch, update[e], written[e])
      /\ TextsOf(NoPatch, update[e], written[e]) \ TextsOf(NoPatch, u, w) \subseteq {text}
  BY <1>6
<1> QED
  BY <1>1, <1>2, <1>3, <1>6, <1>7, LeavesOutWhatIsTrue

\* The text goes from the changes left to those written.
LEMMA UpdateRowFindsTrue ==
  ASSUME UpdateInv, NEW e \in Editors, UpdateRow(e)
  PROVE  Atomic!FindTrue(e) \/ Atomic!Fail(e)
<1> DEFINE u == [update[e] EXCEPT !.text = None]
           w == [written[e] EXCEPT !.text = update[e].text]
<1>1. UNCHANGED storeVars /\ pc[e] = "row" /\ pc[e] # "idle"
  BY DEF UpdateRow
<1>2. CASE Reply(e, "notFound")
  BY <1>1, <1>2, AnswerEnds
<1>3. CASE Done(e, u, w)
  <2>1. update[e] \in Updates /\ written[e] = Nothing
    BY <1>1, OfOne
  <2>2. u \in Updates /\ u.text = None /\ u.remove = update[e].remove /\ u.add = update[e].add
    BY <2>1 DEF Updates
  <2>3. w.text = update[e].text /\ w.add = written[e].add /\ w.remove = written[e].remove
        /\ written[e].text = None
    BY <2>1 DEF Nothing
  <2> HIDE DEF u, w
  <2>4. Atomic!FindTrue(e)
    BY <1>1, <1>3, <2>2, <2>3, DoneFindsTrue
  <2> QED
    BY <2>4
<1> QED
  BY <1>2, <1>3 DEF UpdateRow

\* The DOIs that a removal does not find are out of the collection.
LEMMA RemoveDOIsFindsTrue ==
  ASSUME UpdateInv, NEW e \in Editors, RemoveDOIs(e)
  PROVE  Atomic!FindTrue(e)
<1> DEFINE u == [update[e] EXCEPT !.remove = {}]
           w == [written[e] EXCEPT !.remove = update[e].remove \cap dois]
<1>1. UNCHANGED storeVars /\ pc[e] = "remove" /\ Done(e, u, w)
  BY DEF RemoveDOIs
<1>2. update[e] \in Updates /\ written[e] \in Writes /\ written[e].remove = {}
  BY <1>1, OfOne DEF Consistent
<1>3. u \in Updates /\ u.text = update[e].text /\ u.remove = {} /\ u.add = update[e].add
  BY <1>2 DEF Updates
<1>4. w.text = written[e].text /\ w.add = written[e].add /\ w.remove = update[e].remove \cap dois
  BY <1>2 DEF Writes
<1> HIDE DEF u, w
<1> QED
  BY <1>1, <1>2, <1>3, <1>4, DoneFindsTrue

\* A DOI to add is written, or it is there.
LEMMA AddDOIFindsTrue ==
  ASSUME UpdateInv, NEW e \in Editors, AddDOI(e)
  PROVE  Atomic!FindTrue(e) \/ Atomic!Fail(e)
<1> DEFINE doi == Head(update[e].add)
           u == [update[e] EXCEPT !.add = Tail(@)]
           w == [written[e] EXCEPT !.add = @ \cup {doi}]
<1>1. UNCHANGED storeVars /\ pc[e] = "add" /\ pc[e] # "idle"
  BY DEF AddDOI
<1>2. update[e] \in Updates /\ written[e] \in Writes /\ update[e].add # <<>>
  BY <1>1, OfOne, StatementOf DEF Consistent
<1>3. /\ doi \in DOIs /\ Tail(update[e].add) \in Seq(DOIs)
      /\ ToSet(update[e].add) = {doi} \cup ToSet(Tail(update[e].add))
  BY <1>2, HeadAndTail DEF Updates
<1>4. /\ u \in Updates /\ u.text = update[e].text /\ u.remove = update[e].remove
      /\ u.add = Tail(update[e].add)
  BY <1>2, <1>3 DEF Updates
<1>5. /\ w.text = written[e].text /\ w.remove = written[e].remove
      /\ w.add = written[e].add \cup {doi}
  BY <1>2 DEF Writes
<1>6. CASE Reply(e, "error")
  BY <1>1, <1>6, AnswerEnds
<1>7. CASE doi \in dois /\ Done(e, u, written[e])
  <2> HIDE DEF u, w, doi
  <2>1. Atomic!FindTrue(e)
    BY <1>1, <1>3, <1>4, <1>7, DoneFindsTrue
  <2> QED
    BY <2>1
<1>8. CASE Done(e, u, w)
  <2> HIDE DEF u, w, doi
  <2>1. Atomic!FindTrue(e)
    BY <1>1, <1>3, <1>4, <1>5, <1>8, DoneFindsTrue
  <2> QED
    BY <2>1
<1> QED
  BY <1>6, <1>7, <1>8 DEF AddDOI

\* A commit makes at once all that is left: what its transaction has written.
LEMMA CommitMakes ==
  ASSUME UpdateInv, NEW e \in Editors, Commit(e)
  PROVE  Atomic!Make(e)
<1> DEFINE w == written[e]
           asks == AsksOf(NoPatch, NoPatch, w)
           coll == CollBar(text, dois)
           made == CollBar(text', dois')
<1>1. /\ pc[e] = "commit" /\ pc[e] # "idle" /\ "lookup" # "idle"
      /\ text' = IF w.text # None THEN w.text ELSE text
      /\ dois' = (dois \ w.remove) \cup w.add
  BY DEF Commit
<1>2. update[e] = NoPatch /\ patch[e] = NoPatch /\ w \in Writes
  BY <1>1, OfOne, StatementOf DEF Consistent
<1>3. Moves(e, "lookup", NoPatch, NoPatch, Nothing, answer[e])
  BY <1>2, Unchanged DEF Commit, Moves
<1>4. AsksOf(NoPatch, NoPatch, Nothing) = {}
  BY DEF AsksOf, Asks, TextsOf, AddsOf, RemovesOf, NoPatch, Nothing, ToSet
<1>5. /\ askedBar[e] = asks /\ askedBar' = [askedBar EXCEPT ![e] = {}]
      /\ statusBar' = statusBar
  <2>1. /\ askedBar[e] = asks /\ askedBar' = [askedBar EXCEPT ![e] = {}]
        /\ statusBar[e] = StatusAt(pc[e], answer[e])
        /\ statusBar' = [statusBar EXCEPT ![e] = StatusAt("lookup", answer[e])]
    BY <1>2, <1>3, <1>4, AskedMoves
  <2>2. statusBar' = [statusBar EXCEPT ![e] = statusBar[e]]
    BY <1>1, <2>1 DEF StatusAt
  <2>3. [statusBar EXCEPT ![e] = statusBar[e]] = statusBar
    BY DEF statusBar
  <2> QED
    BY <2>1, <2>2, <2>3
<1>6. asks = Asks({w.text} \ {None}, w.add, w.remove)
  <2>1. NoPatch.text = None /\ NoPatch.remove = {} /\ ToSet(NoPatch.add) = {}
    BY DEF NoPatch, ToSet
  <2>2. {s.doi : s \in ToSet(NoPatch.add)} = {}
    BY <2>1
  <2>3. /\ TextsOf(NoPatch, NoPatch, w) = {w.text} \ {None}
        /\ AddsOf(NoPatch, NoPatch, w) = w.add /\ RemovesOf(NoPatch, NoPatch, w) = w.remove
    BY <2>1, <2>2 DEF TextsOf, AddsOf, RemovesOf
  <2> QED
    BY <2>3 DEF AsksOf
<1>7. w.add \subseteq DOIs /\ w.remove \subseteq DOIs
  BY <1>2 DEF Writes
<1>8. text' \in Texts \cup {None}
  BY <1>1, <1>2, StoreTyped DEF Writes
<1>9. made \in [DOIs \cup {TextKey} -> Texts \cup {None, "in", "out"}]
  BY <1>8, CollBarValues
<1>10. ASSUME NEW k \in DOIs \cup {TextKey}
       PROVE  IF \E change \in asks : change.key = k
              THEN [key |-> k, value |-> made[k]] \in asks
              ELSE made[k] = coll[k]
  <2>1. CASE k = TextKey
    <3>1. made[k] = text' /\ coll[k] = text
      BY <2>1, CollBarValues
    <3>2. CASE w.text # None
      <4>1. [key |-> k, value |-> made[k]] \in asks
        BY <1>1, <1>6, <2>1, <3>1, <3>2 DEF Asks
      <4> QED
        BY <4>1
    <3>3. CASE w.text = None
      <4>1. made[k] = coll[k]
        BY <1>1, <3>1, <3>3
      <4>2. ASSUME NEW change \in asks, change.key = k
            PROVE  FALSE
        BY <1>6, <1>7, <2>1, <3>3, <4>2, TextKeyAssumption DEF Asks
      <4> QED
        BY <4>1, <4>2
    <3> QED
      BY <3>2, <3>3
  <2>2. CASE k \in DOIs
    <3>1. /\ made[k] = IF k \in dois' THEN "in" ELSE "out"
          /\ coll[k] = IF k \in dois THEN "in" ELSE "out"
      BY <2>2, CollBarValues
    <3>2. CASE k \in w.add \cup w.remove
      <4>1. [key |-> k, value |-> made[k]] \in asks
        BY <1>1, <1>6, <3>1, <3>2 DEF Asks
      <4> QED
        BY <4>1
    <3>3. CASE k \notin w.add \cup w.remove
      <4>1. made[k] = coll[k]
        BY <1>1, <3>1, <3>3
      <4>2. ASSUME NEW change \in asks, change.key = k
            PROVE  FALSE
        BY <1>6, <2>2, <3>3, <4>2, TextKeyAssumption DEF Asks
      <4> QED
        BY <4>1, <4>2
    <3> QED
      BY <3>2, <3>3
  <2> QED
    BY <2>1, <2>2
<1>11. coll' = made
  BY DEF CollBar
<1> HIDE DEF asks, coll, made
<1> QED
  BY <1>5, <1>9, <1>10, <1>11 DEF Atomic!Make, coll, made



\* A request of which nothing is left succeeds, or finds the collection gone.
LEMMA LookupEnds ==
  ASSUME UpdateInv, NEW e \in Editors, Lookup(e)
  PROVE  Atomic!Succeed(e) \/ Atomic!Fail(e)
<1>1. UNCHANGED storeVars /\ pc[e] = "lookup" /\ (Reply(e, "ok") \/ Reply(e, "notFound"))
  BY DEF Lookup
<1>2. update[e] = NoPatch /\ patch[e] = NoPatch /\ written[e] = Nothing
  BY <1>1, OfOne DEF Consistent
<1>3. askedBar[e] = {}
  <2>1. askedBar[e] = AsksOf(patch[e], update[e], written[e])
    BY AsksOfParts DEF askedBar
  <2>2. AsksOf(NoPatch, NoPatch, Nothing) = {}
    BY DEF AsksOf, Asks, TextsOf, AddsOf, RemovesOf, NoPatch, Nothing, ToSet
  <2> QED
    BY <1>2, <2>1, <2>2
<1> QED
  BY <1>1, <1>3, AnswerEnds

\* Every step of the requests is a step of the abstract specification, or none.
LEMMA StepIsAtomic == UpdateInv /\ [Next]_vars => [Atomic!Next]_(Atomic!atomicVars)
<1> SUFFICES ASSUME UpdateInv, [Next]_vars
             PROVE  [Atomic!Next]_(Atomic!atomicVars)
  OBVIOUS
<1>1. CASE DeleteCollection
  <2>1. CollBar(text, dois)' = CollBar(None, {})
    BY <1>1 DEF DeleteCollection, CollBar
  <2>2. UNCHANGED <<statusBar, askedBar>>
    BY <1>1 DEF DeleteCollection, statusBar, StatusAt, askedBar, ChangesOf
  <2> QED
    BY <2>1, <2>2 DEF Atomic!Next, Atomic!Delete
<1>2. ASSUME NEW e \in Editors, Request(e) \/ Step(e) \/ AbortDeadlock(e) \/ CallFails(e)
      PROVE  \/ Atomic!Ask(e) \/ Atomic!FindTrue(e) \/ Atomic!Make(e)
             \/ Atomic!Succeed(e) \/ Atomic!Fail(e)
  <2>1. CASE Request(e)
    BY <2>1, RequestAsks
  <2>2. CASE Step(e)
    BY <2>2, ReadFindsTrue, CheckFindsTrue, UpdateRowFindsTrue, RemoveDOIsFindsTrue,
       AddDOIFindsTrue, CommitMakes, LookupEnds DEF Step
  <2>3. CASE AbortDeadlock(e) \/ CallFails(e)
    <3>1. UNCHANGED storeVars /\ Reply(e, "error")
      BY <2>3 DEF AbortDeadlock, CallFails
    <3>2. pc[e] # "idle"
      BY <2>3 DEF AbortDeadlock, CallFails, Waits
    <3> QED
      BY <3>1, <3>2, AnswerEnds
  <2> QED
    BY <1>2, <2>1, <2>2, <2>3
<1>3. CASE UNCHANGED vars
  <2>1. CollBar(text, dois)' = CollBar(text, dois)
    BY <1>3 DEF vars, storeVars, CollBar
  <2>2. UNCHANGED <<statusBar, askedBar>>
    BY <1>3 DEF vars, storeVars, statusBar, StatusAt, askedBar, ChangesOf
  <2> QED
    BY <2>1, <2>2 DEF Atomic!atomicVars
<1> QED
  BY <1>1, <1>2, <1>3 DEF Next, Atomic!Next

\* At first nothing is asked for.
LEMMA InitIsAtomic == Init => Atomic!Init
<1> SUFFICES ASSUME Init
             PROVE  Atomic!Init
  OBVIOUS
<1>1. CollBar(text, dois) \in [DOIs \cup {TextKey} -> Texts \cup {None, "in", "out"}]
  BY CollBarValues DEF Init
<1>2. \A e \in Editors : statusBar[e] = "none"
  BY DEF Init, statusBar, StatusAt
<1>3. \A e \in Editors : askedBar[e] = {}
  <2>1. \A e \in Editors : patch[e] = NoPatch /\ update[e] = NoPatch /\ written[e] = Nothing
    BY DEF Init
  <2>2. \A e \in Editors : askedBar[e] = AsksOf(patch[e], update[e], written[e])
    BY AsksOfParts DEF askedBar
  <2>3. AsksOf(NoPatch, NoPatch, Nothing) = {}
    BY DEF AsksOf, Asks, TextsOf, AddsOf, RemovesOf, NoPatch, Nothing, ToSet
  <2> QED
    BY <2>1, <2>2, <2>3
<1>4. statusBar = [e \in Editors |-> "none"] /\ askedBar = [e \in Editors |-> {}]
  BY <1>2, <1>3 DEF statusBar, askedBar
<1> QED
  BY <1>1, <1>4 DEF Atomic!Init

\* Whatever updates and deletions overlap: each change of a request that is
\* answered with success was found true or was made, and a request makes what it
\* makes all at once or not at all.
THEOREM EditsAreAtomic == Spec => AtomicSpec
  BY InitIsAtomic, StepIsAtomic, UpdateInvariant, PTL DEF Spec, AtomicSpec, Atomic!Spec

=============================================================================
