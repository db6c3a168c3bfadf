--------------------------- MODULE CollectionsList ---------------------------
(***************************************************************************)
(* GET / (routes/get_collections.go, GetCollections of                     *)
(* store/collections/collections.go) while collections are created,        *)
(* changed and deleted.  A request runs two statements outside of any      *)
(* transaction: one for the page, and one for the DOIs of its collections  *)
(* or, when the page is empty, for the total count.  A client walks        *)
(* through the list, page after page, by adding the limit to the offset.   *)
(*                                                                         *)
(* A collection takes its id when its INSERT begins, from a sequence, and  *)
(* is seen by others when the INSERT is committed: ids may become visible  *)
(* out of order.  What is in collection_user is written by the creation    *)
(* only, so the one user of a collection is its creator.                   *)
(***************************************************************************)
EXTENDS Integers, FiniteSets, Sequences

CONSTANTS MaxId,      \* bound: how many ids the sequence gives out
          Users,
          Me,         \* the user whose list is read
          DOIs,
          Contents,   \* what a collection may hold, [text, dois], dois in the order of their ids
          MaxBanner,  \* how many DOIs are returned for the banners (MaxBannerDOIsPerCollection)
          Limits      \* the sizes of a page

ASSUME MaxIdAssumption == MaxId \in Nat
ASSUME UsersAssumption == Me \in Users
ASSUME ContentsAssumption == \A x \in Contents : x.dois \in Seq(DOIs)
ASSUME MaxBannerAssumption == MaxBanner \in Nat
ASSUME LimitsAssumption == Limits \subseteq Nat

VARIABLES nextId,   \* the next value of the sequence
          stage,    \* stage[c]: "free", "inserting", "visible" or "gone"
          owner,    \* owner[c]: the creator, from the INSERT on
          content,  \* content[c]: what the rows of c say, from the INSERT on
          pc,       \* what the request does next; "idle" and "done" between walks
          limit, offset,
          page,     \* the collections of the page, once its statement has run
          texts,    \* texts[c]: the text of c that was read with the page
          total,    \* the total count of the response
          answer    \* answer[c]: the entry of c in the last response

storeVars == <<nextId, stage, owner, content>>
requestVars == <<pc, limit, offset, page, texts, total, answer>>

\* History of the walk, and of the request that was last sent.
VARIABLES listed,   \* the collections of the user when the walk began
          removed,  \* those deleted since
          late,     \* those that became visible since
          times,    \* times[c]: how many responses of the walk had c
          changed   \* the collections that were committed, changed or deleted
                    \* since the last page was read

historyVars == <<listed, removed, late, times, changed>>
vars == <<storeVars, requestVars, historyVars>>

Ids == 1..MaxId
NoRows == [c \in {} |-> Me]
Stages == {"free", "inserting", "visible", "gone"}
Labels == {"idle", "page", "dois", "recount", "done"}

\* Every variable has its type; the ids that were given out are the first ones,
\* and what was read of the page is there for each of its collections.
TypeOK ==
  /\ nextId \in 1..(MaxId + 1)
  /\ stage \in [Ids -> Stages]
  /\ \A c \in Ids : stage[c] = "free" <=> c >= nextId
  /\ owner \in [Ids -> Users]
  /\ content \in [Ids -> Contents]
  /\ pc \in Labels
  /\ limit \in Limits
  /\ offset \in Nat
  /\ page \subseteq Ids
  /\ texts \in [page -> {x.text : x \in Contents}]
  /\ total \in Nat
  /\ DOMAIN answer \subseteq Ids
  /\ listed \subseteq Ids /\ removed \subseteq Ids /\ late \subseteq Ids /\ changed \subseteq Ids
  /\ times \in [Ids -> Nat]

Init ==
  /\ nextId = 1
  /\ stage = [c \in Ids |-> "free"]
  /\ owner = [c \in Ids |-> Me]
  /\ content \in {[c \in Ids |-> x] : x \in Contents}
  /\ pc = "idle"
  /\ limit \in Limits
  /\ offset = 0
  /\ page = {}
  /\ texts = NoRows
  /\ total = 0
  /\ answer = NoRows
  /\ listed = {} /\ removed = {} /\ late = {} /\ changed = {}
  /\ times = [c \in Ids |-> 0]

-----------------------------------------------------------------------------
(* What the statements see. *)

\* The join of a collection with the user's row of collection_user.
Mine == {c \in Ids : stage[c] = "visible" /\ owner[c] = Me}

\* How many rows come before that of c.
Rank(c) == Cardinality({d \in Mine : d < c})

\* Mutation: the newest collection comes first.
PageNewestFirst(l, o) ==
  {c \in Mine : LET rank == Cardinality({d \in Mine : d > c})
                IN o <= rank /\ rank < o + l}

\* ORDER BY id LIMIT l OFFSET o.
Page(l, o) == {c \in Mine : o <= Rank(c) /\ Rank(c) < o + l}

\* Mutation: the number of all collections, whoever they belong to.
CountOfAll == Cardinality({c \in Ids : stage[c] = "visible"})

\* count(*), over all the rows the page is taken from, or on its own.
Count == Cardinality(Mine)

\* Mutation: the rows are counted behind the LIMIT.
SummaryOfBanners(t, dois) ==
  LET first == {i \in DOMAIN dois : i <= MaxBanner}
  IN [text |-> t, size |-> Cardinality(first), banners |-> {dois[i] : i \in first}]

\* The row of the page with the rows of the DOIs: their number, and the first
\* of them.  The order of the rows of one collection is not fixed by the query.
Summary(t, dois) ==
  [text |-> t, size |-> Len(dois), banners |-> {dois[i] : i \in {j \in DOMAIN dois : j <= MaxBanner}}]

\* A collection that was deleted after the page was read has no rows of DOIs.
DOIsOf(c) == IF stage[c] = "visible" THEN content[c].dois ELSE <<>>

-----------------------------------------------------------------------------
(* Other requests. *)

\* Mutation: the id is one more than the greatest that is seen.
InsertAfterLast(u, x) ==
  \E id \in Ids :
    /\ \A c \in Ids : c < id <=> \E d \in Ids : stage[d] = "visible" /\ c <= d
    /\ stage' = [stage EXCEPT ![id] = "inserting"]
    /\ owner' = [owner EXCEPT ![id] = u]
    /\ content' = [content EXCEPT ![id] = x]
    /\ UNCHANGED <<nextId, requestVars, historyVars>>

\* The statement of CreateCollection begins: one INSERT for the collection,
\* its user and its DOIs.
Insert(u, x) ==
  /\ nextId <= MaxId
  /\ nextId' = nextId + 1
  /\ stage' = [stage EXCEPT ![nextId] = "inserting"]
  /\ owner' = [owner EXCEPT ![nextId] = u]
  /\ content' = [content EXCEPT ![nextId] = x]
  /\ UNCHANGED <<requestVars, historyVars>>

Commit(c) ==
  /\ stage[c] = "inserting"
  /\ stage' = [stage EXCEPT ![c] = "visible"]
  /\ late' = IF owner[c] = Me THEN late \cup {c} ELSE late
  /\ changed' = changed \cup {c}
  /\ UNCHANGED <<nextId, owner, content, requestVars, listed, removed, times>>

\* The INSERT fails; its id is not given out again.
Abort(c) ==
  /\ stage[c] = "inserting"
  /\ stage' = [stage EXCEPT ![c] = "gone"]
  /\ UNCHANGED <<nextId, owner, content, requestVars, historyVars>>

\* UpdateCollection changes the collection and its DOIs in one transaction.
Update(c, x) ==
  /\ stage[c] = "visible"
  /\ content' = [content EXCEPT ![c] = x]
  /\ changed' = changed \cup {c}
  /\ UNCHANGED <<nextId, stage, owner, requestVars, listed, removed, late, times>>

Delete(c) ==
  /\ stage[c] = "visible"
  /\ stage' = [stage EXCEPT ![c] = "gone"]
  /\ removed' = IF owner[c] = Me THEN removed \cup {c} ELSE removed
  /\ changed' = changed \cup {c}
  /\ UNCHANGED <<nextId, owner, content, requestVars, listed, late, times>>

-----------------------------------------------------------------------------
(* The walk: a request per page, two statements per request. *)

StartWalk(l) ==
  /\ pc \in {"idle", "done"}
  /\ pc' = "page"
  /\ limit' = l
  /\ offset' = 0
  /\ page' = {} /\ texts' = NoRows /\ total' = 0 /\ answer' = NoRows
  /\ listed' = Mine
  /\ removed' = {} /\ late' = {} /\ changed' = {}
  /\ times' = [c \in Ids |-> 0]
  /\ UNCHANGED storeVars

ReadPage ==
  /\ pc = "page"
  /\ page' = Page(limit, offset)
  /\ texts' = [c \in page' |-> content[c].text]
  /\ IF page' = {} THEN pc' = "recount" /\ UNCHANGED total
                   ELSE pc' = "dois" /\ total' = Count
  /\ answer' = NoRows
  /\ changed' = {}
  /\ UNCHANGED <<storeVars, limit, offset, listed, removed, late, times>>

\* The response, and the client goes on to the next page.
ReadDOIs ==
  /\ pc = "dois"
  /\ answer' = [c \in page |-> Summary(texts[c], DOIsOf(c))]
  /\ pc' = "page"
  /\ offset' = offset + limit
  /\ times' = [c \in Ids |-> IF c \in page THEN times[c] + 1 ELSE times[c]]
  /\ UNCHANGED <<storeVars, limit, page, texts, total, listed, removed, late, changed>>

\* The page was empty, which ends the walk.
Recount ==
  /\ pc = "recount"
  /\ total' = Count
  /\ pc' = "done"
  /\ UNCHANGED <<storeVars, limit, offset, page, texts, answer, historyVars>>

\* A statement fails: the response is an error, and the client asks again for
\* the same page.
RequestFails ==
  /\ pc \in {"dois", "recount"}
  /\ pc' = "page"
  /\ UNCHANGED <<storeVars, limit, offset, page, texts, total, answer, historyVars>>

-----------------------------------------------------------------------------

Next ==
  \/ \E u \in Users, x \in Contents : Insert(u, x)
  \/ \E c \in Ids : Commit(c) \/ Abort(c) \/ Delete(c)
  \/ \E c \in Ids, x \in Contents : Update(c, x)
  \/ \E l \in Limits : StartWalk(l)
  \/ ReadPage \/ ReadDOIs \/ Recount \/ RequestFails

Spec == Init /\ [][Next]_vars

-----------------------------------------------------------------------------
(* Properties *)

\* A collection is missed by a walk only when one with a lower id was deleted
\* on the way: then the pages that follow begin too late.  Collections created
\* on the way, failed requests and other users' collections do not matter.
NothingIsMissed ==
  pc = "done" /\ limit > 0 =>
    \A c \in listed \ removed : (\A d \in removed : d > c) => times[c] > 0

\* A collection is shown twice only when one with a lower id became visible on
\* the way, its INSERT having begun before that of the one shown ("ORDER BY
\* c.id asc as a proxy for getting in order of creation", collections.go:122);
\* deletions and new collections never show one twice.
NothingIsRepeated ==
  \A c \in Ids : times[c] > 1 => \E d \in late : d < c

\* The total count fits the page: it is the number of rows up to the last one of
\* the page, or more when the page is full; and an empty page is one behind
\* the last row, unless nothing was asked for or a collection came to be
\* between the two statements ("we still want to return a correct total
\* count", collections.go:180).
PageAgreesWithTotal ==
  /\ pc = "dois" =>
       LET end == offset + Cardinality(page)
       IN total >= end /\ (total > end => Cardinality(page) = limit)
  /\ pc = "done" => limit = 0 \/ total <= offset \/ changed \cap late # {}

\* An entry of the page has the text and the DOIs of one state of its
\* collection, the one it still has, unless the collection was changed or
\* deleted after the page was read: only then may the two statements have
\* seen different states.
TornOnlyByAChange ==
  \A c \in DOMAIN answer : c \notin changed =>
    /\ c \in Mine
    /\ answer[c].text = content[c].text
    /\ answer[c].size = Len(content[c].dois)
    /\ answer[c].banners = {content[c].dois[i] : i \in {j \in 1..answer[c].size : j <= MaxBanner}}

=============================================================================
