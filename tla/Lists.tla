------------------------------- MODULE Lists --------------------------------
(***************************************************************************)
(* The pure functions on lists that the handlers are built from:           *)
(* CategorizeDOIs (routes/dois.go), collectBanners (routes/banners.go),    *)
(* Deduplicated (routes/contributors.go), the batches of                   *)
(* fetchPennsieveDatasetsInBatches (routes/get_collections.go) and the     *)
(* page of GetCollections (store/collections/collections.go).              *)
(*                                                                         *)
(* A DOI is a value; what a request holds is a string, [doi, padded]: the  *)
(* DOI itself, or the DOI with blanks around it.                           *)
(***************************************************************************)
EXTENDS Integers, Sequences, FiniteSetsExt, SequencesExt

CONSTANT Pennsieve  \* the DOIs that begin with the prefix of Pennsieve

TrimSpace(string) == string.doi

-----------------------------------------------------------------------------
(* Lists without loops: what the loops below are compared with.            *)

Rank(positions, i) == Cardinality({j \in positions : j <= i})

\* The elements of s at the given positions, in order.
At(s, positions) ==
  [k \in 1..Cardinality(positions) |-> s[CHOOSE i \in positions : Rank(positions, i) = k]]

FirstPositions(s) == {i \in DOMAIN s : \A j \in 1..(i - 1) : s[j] # s[i]}

-----------------------------------------------------------------------------
(* The loops of the handlers. *)

\* A loop that appends those elements that are in S.
Kept(list, S) == FoldLeft(LAMBDA kept, x : IF x \in S THEN Append(kept, x) ELSE kept, <<>>, list)

Without(list, S) == Kept(list, ToSet(list) \ S)

\* Mutation: what was seen is the string, before its blanks are trimmed.
CategorizeUntrimmed(strings) ==
  LET Add(lists, string) ==
        IF string \in lists.seen THEN lists
        ELSE LET list == IF TrimSpace(string) \in Pennsieve THEN "pennsieve" ELSE "external"
             IN [lists EXCEPT ![list] = Append(@, TrimSpace(string)), !.seen = @ \cup {string}]
      all == FoldLeft(Add, [pennsieve |-> <<>>, external |-> <<>>, seen |-> {}], strings)
  IN [pennsieve |-> all.pennsieve, external |-> all.external]

\* Each DOI goes to one of two lists, the first time it is seen.
CategorizeDOIs(strings) ==
  LET Add(lists, string) ==
        LET doi == TrimSpace(string) IN
        IF Contains(lists.pennsieve \o lists.external, doi) THEN lists
        ELSE IF doi \in Pennsieve THEN [lists EXCEPT !.pennsieve = Append(@, doi)]
        ELSE [lists EXCEPT !.external = Append(@, doi)]
  IN FoldLeft(Add, [pennsieve |-> <<>>, external |-> <<>>], strings)

\* Mutation: the limit counts the DOIs that are looked at, found or not.
CollectBannersOfFirst(dois, published, max) ==
  LET found == SelectSeq(SubSeq(dois, 1, Min({max, Len(dois)})),
                         LAMBDA doi : doi \in DOMAIN published)
  IN [i \in 1..Len(found) |-> published[found[i]]]

\* published maps the DOIs that Discover knows to their banners; a dataset
\* without a banner has the empty one.  DOIs that are not found do not count.
CollectBanners(dois, published, max) ==
  LET Add(banners, doi) ==
        IF Len(banners) < max /\ doi \in DOMAIN published
        THEN Append(banners, published[doi])
        ELSE banners
  IN FoldLeft(Add, <<>>, dois)

\* Mutation: a contributor is dropped only after an equal neighbour.
DeduplicateNeighbours(contributors) ==
  LET Add(list, c) == IF list # <<>> /\ Last(list) = c THEN list ELSE Append(list, c)
  IN FoldLeft(Add, <<>>, contributors)

Deduplicated(contributors) ==
  LET Add(list, c) == IF Contains(list, c) THEN list ELSE Append(list, c)
  IN FoldLeft(Add, <<>>, contributors)

\* Mutation: the last, shorter batch is forgotten.
FullBatches(dois, size) ==
  [k \in 1..(Len(dois) \div size) |-> SubSeq(dois, (k - 1) * size + 1, k * size)]

Batches(dois, size) ==
  [k \in 1..((Len(dois) + size - 1) \div size) |->
     SubSeq(dois, (k - 1) * size + 1, Min({k * size, Len(dois)}))]

-----------------------------------------------------------------------------
(* The page of GetCollections.  A table is a sequence of collections in    *)
(* the order of their ids, each [access, dois]: whether the user has one   *)
(* of the roles, and the list of its DOIs in the order of theirs.          *)

Visible(table) == Kept(table, {c \in ToSet(table) : c.access})

\* The first query: LIMIT and OFFSET, with the count of all rows on each row.
PageRows(table, limit, offset) ==
  LET visible == Visible(table) IN
  [rows |-> SubSeq(visible, offset + 1, Min({offset + limit, Len(visible)})),
   count |-> Len(visible)]

\* The second query has no row for a collection without DOIs, which keeps the
\* zero values of its summary.
Summary(collection, max) ==
  [bannerDOIs |-> SubSeq(collection.dois, 1, Min({max, Len(collection.dois)})),
   size |-> Len(collection.dois)]

\* Mutation: an empty page has no row to take the count from.
GetCollectionsNoRecount(table, limit, offset, max) ==
  LET page == PageRows(table, limit, offset) IN
  [collections |-> [i \in 1..Len(page.rows) |-> Summary(page.rows[i], max)],
   totalCount |-> IF page.rows = <<>> THEN 0 ELSE page.count]

\* With an empty page the rows are counted again, without limit and offset.
GetCollections(table, limit, offset, max) ==
  LET page == PageRows(table, limit, offset) IN
  [collections |-> [i \in 1..Len(page.rows) |-> Summary(page.rows[i], max)],
   totalCount |-> IF page.rows = <<>> THEN Len(Visible(table)) ELSE page.count]

=============================================================================
