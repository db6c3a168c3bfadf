------------------------------- MODULE Views --------------------------------
(***************************************************************************)
(* What the handlers make of a collection's DOIs and of Discover's answer  *)
(* about them: the check of new DOIs (routes/create_collection.go,         *)
(* routes/patch_collection.go, routes/dois.go), the check before a publish *)
(* (routes/publish_collection.go), the full view of a collection           *)
(* (routes/mapping.go) and the banners of a list (routes/                  *)
(* get_collections.go).                                                    *)
(*                                                                         *)
(* A stored DOI is [value, datasource].  Discover's knowledge is a record  *)
(* [published, unpublished]: published maps DOIs to datasets, each         *)
(* [banner, collection, contributors], unpublished is a set of DOIs.  A    *)
(* contributor is [name, orcid]; orcid stands for the optional fields.     *)
(***************************************************************************)
EXTENDS Lists

CONSTANTS Nil,          \* an optional field that is left out
          Failed,       \* instead of a result: an error
          MaxBanners,   \* MaxBannersPerCollection
          MaxPerRequest \* how many DOIs the URL of one request can hold

Values(dois) == [i \in DOMAIN dois |-> dois[i].value]

GroupByDatasource(dois) ==
  LET pennsieve == {doi \in ToSet(dois) : doi.datasource = "Pennsieve"}
  IN [pennsieve |-> Values(Kept(dois, pennsieve)), external |-> Values(Without(dois, pennsieve))]

\* The JSON decoder gives each optional field that is present a variable of
\* its own: the contributor holds its address.
Decoded(doi, dataset) ==
  LET Address(i, field) == IF field = Nil THEN Nil ELSE [value |-> field, at |-> <<doi, i>>]
      c == dataset.contributors
  IN [banner |-> dataset.banner, collection |-> dataset.collection,
      contributors |->
        [i \in DOMAIN c |-> [name |-> c[i].name, orcid |-> Address(i, c[i].orcid)]]]

\* A response that tells of no dataset; ok is FALSE if it comes with an error.
NoDatasets(ok) == [ok |-> ok, published |-> <<>>, unpublished |-> {}]

\* All DOIs go into the query string of one GET.
GetDatasetsByDOI(discover, dois) ==
  IF Len(dois) > MaxPerRequest THEN NoDatasets(FALSE)
  ELSE [ok |-> TRUE,
        published |-> [doi \in ToSet(dois) \cap DOMAIN discover.published |->
                         Decoded(doi, discover.published[doi])],
        unpublished |-> discover.unpublished \cap ToSet(dois)]

Banners(published) == [doi \in DOMAIN published |-> published[doi].banner]

-----------------------------------------------------------------------------
(* Which DOIs come into a collection, and which collections are published. *)

\* Mutation: only the types of the published datasets are checked.
ValidateTypesOnly(response) ==
  \A doi \in DOMAIN response.published : ~response.published[doi].collection

ValidateDiscoverResponse(response) ==
  /\ response.unpublished = {}
  /\ \A doi \in DOMAIN response.published : ~response.published[doi].collection

\* The DOIs of a request that are not there yet.  A create starts from none.
NewDOIs(strings, existing) == Without(CategorizeDOIs(strings).pennsieve, ToSet(existing))

\* All DOIs of the request are Pennsieve's and Discover has no objection to
\* those that are new, if there are any.
Accepts(strings, existing, discover) ==
  LET new == NewDOIs(strings, existing)
      response == GetDatasetsByDOI(discover, new)
  IN /\ CategorizeDOIs(strings).external = <<>>
     /\ new # <<>> => response.ok /\ ValidateDiscoverResponse(response)

\* The DOIs of a collection after a create and some patches; a request that is
\* refused changes nothing.
Grown(requests, discover) ==
  LET Add(dois, strings) ==
        IF Accepts(strings, dois, discover) THEN dois \o NewDOIs(strings, dois) ELSE dois
  IN FoldLeft(Add, <<>>, requests)

\* Whether a publish goes on after it has looked up the collection's DOIs.
MayPublish(dois, discover) ==
  LET pennsieve == GroupByDatasource(dois).pennsieve
      response == GetDatasetsByDOI(discover, pennsieve)
  IN pennsieve # <<>> /\ response.ok /\ response.unpublished = {}

-----------------------------------------------------------------------------
(* The view of one collection. *)

\* A dataset that is published, or a tombstone that says what the problem is.
Dataset(doi, response) ==
  IF doi \in DOMAIN response.published THEN [doi |-> doi, status |-> "PUBLISHED", problem |-> FALSE]
  ELSE IF doi \in response.unpublished THEN [doi |-> doi, status |-> "UNPUBLISHED", problem |-> TRUE]
  ELSE [doi |-> doi, status |-> "UNKNOWN", problem |-> TRUE]

\* What the JSON of the answer says of a contributor: the fields, not their
\* addresses.
Shown(contributors) ==
  [i \in DOMAIN contributors |->
     LET c == contributors[i] IN
     [name |-> c.name, orcid |-> IF c.orcid = Nil THEN Nil ELSE c.orcid.value]]

\* The contributors are told apart as Go compares structs, by the addresses of
\* their optional fields.
StoreToDTOCollection(dois, discover) ==
  LET pennsieve == GroupByDatasource(dois).pennsieve
      response == IF pennsieve = <<>> THEN NoDatasets(TRUE)
                  ELSE GetDatasetsByDOI(discover, pennsieve)
      found == Kept(pennsieve, DOMAIN response.published)
      merged == FlattenSeq([i \in DOMAIN found |-> response.published[found[i]].contributors])
  IN IF ~response.ok THEN Failed
     ELSE [banners |-> CollectBanners(pennsieve, Banners(response.published), MaxBanners),
           datasets |-> [i \in DOMAIN pennsieve |-> Dataset(pennsieve[i], response)],
           derivedContributors |-> Shown(Deduplicated(merged))]

-----------------------------------------------------------------------------
(* The banners of a list of collections. *)

\* Mutation: the answer to a batch replaces those to the earlier ones.
FetchLastBatch(discover, batches) ==
  FoldLeft(LAMBDA all, batch : Banners(GetDatasetsByDOI(discover, batch).published),
           <<>>, batches)

\* The loop over one answer: what source says of a key replaces what all said.
Copied(all, source) ==
  [key \in DOMAIN all \cup DOMAIN source |->
     IF key \in DOMAIN source THEN source[key] ELSE all[key]]

\* The datasets of all batches in one map.
FetchInBatches(discover, batches) ==
  LET Add(all, batch) == Copied(all, Banners(GetDatasetsByDOI(discover, batch).published))
  IN FoldLeft(Add, <<>>, batches)

\* A list has fewer DOIs than a request can hold, or is cut into batches.  Of
\* each collection the first DOIs are looked up, of all collections at once.
ListBanners(collections, discover) ==
  LET BannerDOIs(dois) == Values(SubSeq(dois, 1, Min({MaxBanners, Len(dois)})))
      all == FlattenSeq([i \in DOMAIN collections |-> BannerDOIs(collections[i])])
      lists == CategorizeDOIs([i \in DOMAIN all |-> [doi |-> all[i], padded |-> FALSE]])
      found == FetchInBatches(discover, Batches(lists.pennsieve, MaxPerRequest))
  IN [i \in DOMAIN collections |-> CollectBanners(BannerDOIs(collections[i]), found, MaxBanners)]

=============================================================================
