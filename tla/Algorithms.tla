----------------------------- MODULE Algorithms -----------------------------
(***************************************************************************)
(* The functions that read and write nothing themselves, against           *)
(* definitions that say directly what they return, or against each other   *)
(* where several handlers have to agree.  A behaviour is an input that     *)
(* stays as it is.                                                         *)
(***************************************************************************)
EXTENDS Views, ManifestBuilder

CONSTANTS DOIs,         \* Pennsieve's and others
          Contributors, \* those that an id is made of
          Symbols,      \* what their fields are written with
          Names, ORCIDs, \* of the contributors that Discover tells of
          Keys,         \* what SSM may answer
          Inputs        \* each with what it is an input of

VARIABLE input

Text == INSTANCE Validation
Instance == INSTANCE Container
ID == INSTANCE ContributorID
Reply == INSTANCE Answers

\* The inputs have the types that the functions are called with.
ASSUME ListInputsAssumption ==
  \A i \in Inputs :
    /\ i.of = "categorize" => i.strings \in Seq([doi : DOIs, padded : BOOLEAN])
    /\ i.of = "banners" => i.dois \in Seq(DOIs) /\ i.max \in Nat
    /\ i.of = "batches" => i.dois \in Seq(Nat) /\ i.size \in Nat \ {0}
    /\ i.of = "manifest" => i.rest \in Nat
    /\ i.of = "page" => /\ i.table \in Seq([access : BOOLEAN, dois : Seq(Nat)])
                       /\ i.limit \in Nat /\ i.offset \in Nat
ASSUME LimitsAssumption == MaxBanners \in Nat /\ MaxPerRequest \in Nat \ {0}

Optional(S) == {Nil} \cup S

\* A contributor as Discover tells of one.
Named == [name : Names, orcid : Optional(ORCIDs)]

\* Discover tells of the datasets that it knows, and names contributors.
ASSUME ViewInputsAssumption ==
  /\ Pennsieve \subseteq DOIs
  /\ Nil \notin ORCIDs \cup [value : ORCIDs, at : DOIs \X Nat]
  /\ \A i \in Inputs :
       /\ i.of = "view" => i.requests \in Seq(Seq([doi : DOIs, padded : BOOLEAN]))
       /\ i.of = "list" => i.collections \in Seq(Seq(DOIs))
       /\ i.of \in {"view", "list"} =>
            /\ DOMAIN i.discover.published \subseteq DOIs
            /\ \A doi \in DOMAIN i.discover.published :
                 i.discover.published[doi].contributors \in Seq(Named)

\* A license has a name that the tables can hold.
TextStrings ==
  {s \in [kind : {"license", "other"}, bytes : Nat, chars : Nat, padded : BOOLEAN] :
     s.chars <= s.bytes /\ (s.kind = "license" => s.bytes \in 1..Text!VarChar)}

\* What is stored; in a patch, the name and the description may be left out too.
Texts ==
  [name : TextStrings, description : TextStrings,
   license : Optional(TextStrings), tags : Optional(Seq(TextStrings))]

ASSUME TextInputsAssumption ==
  \A i \in Inputs :
    /\ i.of = "create" => i.request \in Texts
    /\ i.of = "patch" =>
         /\ i.current \in Texts
         /\ i.request \in [name : Optional(TextStrings), description : Optional(TextStrings),
                         license : Optional(TextStrings), tags : Optional(Seq(TextStrings))]

\* Nothing is mistaken for what is left out.
ASSUME InstanceInputsAssumption ==
  /\ Failed \notin Keys /\ Nil \notin Keys \cup Instance!Services
  /\ Nil \notin [key : Keys, logger : Nat]
  /\ \A i \in Inputs : i.of = "instance" =>
       i.requests \in Seq([id : Nat, need : Instance!Services \cup {Nil}, ssm : Keys \cup {Failed}])

Responses == [status : Nat, readable : BOOLEAN]

ASSUME AnswerInputsAssumption ==
  \A i \in Inputs : i.of = "get" =>
    /\ i.request \in [nodeID : BOOLEAN, flag : {"absent", "true", "malformed"}]
    /\ i.world \in [store : {"found", "notFound", "error"}, dois : BOOLEAN, client : BOOLEAN,
                    publishStatus : Responses, datasets : Responses, doi : Responses]

\* The text of a label may occur in a field; the byte 0 may not, as Postgres
\* does not store it in a text.
ASSUME ContributorInputsAssumption ==
  /\ ToSet(ID!Labels) \cup {"UserID", ID!Separator} \subseteq Symbols
  /\ \A c \in Contributors :
       /\ c \in [FirstName : Seq(Symbols), LastName : Seq(Symbols), ORCID : Seq(Symbols),
                MiddleInitial : Seq(Symbols), Degree : Seq(Symbols), UserID : Seq(Symbols)]
       /\ \A label \in ToSet(ID!Labels) : ID!Separator \notin ToSet(c[label])
  /\ \A i \in Inputs : i.of = "contributor" => i.contributor \in Contributors

Init == input \in Inputs
Next == UNCHANGED input
Spec == Init /\ [][Next]_input

-----------------------------------------------------------------------------
(* One function, against what it returns. *)

\* Every DOI of a request lands in exactly one list, once, where it came
\* first, whatever the blanks around it ("if there are dups, we take the first
\* one", routes/dois.go:19).
EachDOIOnce ==
  input.of = "categorize" =>
    LET trimmed == [i \in 1..Len(input.strings) |-> input.strings[i].doi]
        first == FirstPositions(trimmed)
    IN CategorizeDOIs(input.strings) =
         [pennsieve |-> At(trimmed, {i \in first : trimmed[i] \in Pennsieve}),
          external |-> At(trimmed, {i \in first : trimmed[i] \notin Pennsieve})]

\* The banners are those of the first DOIs that Discover knows, in the order of
\* the request ("any DOIs not found in datasetsByDOI skipped", banners.go:9):
\* the i-th banner belongs to the i-th DOI found, and only the limit or the end
\* of the list stops them.
BannersOfFirstFound ==
  input.of = "banners" =>
    LET banners == CollectBanners(input.dois, input.published, input.max)
        found == At(input.dois, {i \in DOMAIN input.dois : input.dois[i] \in DOMAIN input.published})
    IN /\ Len(banners) = Min({input.max, Len(found)})
       /\ \A i \in DOMAIN banners : banners[i] = input.published[found[i]]

\* The batches are the list cut up: nothing is lost, repeated or reordered at
\* the last, shorter batch, and none is longer than a request may be.
BatchesCoverTheList ==
  input.of = "batches" =>
    LET batches == Batches(input.dois, input.size) IN
    /\ FlattenSeq(batches) = input.dois
    /\ \A k \in DOMAIN batches : Len(batches[k]) \in 1..input.size

\* A page holds the collections with the ranks offset + 1 to offset + limit
\* among those the user may see, with their true sizes, and the total count
\* does not depend on the page, not even on an empty one ("we still want to
\* return a correct total count", collections.go:180).
PageIsExact ==
  input.of = "page" =>
    LET visible == {i \in DOMAIN input.table : input.table[i].access}
        shown == At(input.table, {i \in visible :
                       /\ input.offset < Rank(visible, i)
                       /\ Rank(visible, i) <= input.offset + input.limit})
        response == GetCollections(input.table, input.limit, input.offset, MaxBanners)
    IN /\ response.totalCount = Cardinality(visible)
       /\ [i \in DOMAIN response.collections |-> response.collections[i].size]
            = [i \in DOMAIN shown |-> Len(shown[i].dois)]
       /\ \A i \in DOMAIN response.collections :
            /\ IsPrefix(response.collections[i].bannerDOIs, shown[i].dois)
            /\ Len(response.collections[i].bannerDOIs) = Min({MaxBanners, response.collections[i].size})

\* The size in the manifest is the length of the manifest that states it.
ManifestStatesItsSize ==
  input.of = "manifest" =>
    Build(input.rest) = Marshalled(input.rest, Build(input.rest))

-----------------------------------------------------------------------------
(* What several handlers have to agree on. *)

\* A stored DOI names the source that its prefix has.
Sourced(dois) ==
  [i \in DOMAIN dois |->
     [value |-> dois[i], datasource |-> IF dois[i] \in Pennsieve THEN "Pennsieve" ELSE "External"]]

\* The DOIs that create and patch let in are let through by a publish as well,
\* the view of the collection tells of no problem that Discover knows of, and
\* its contributors are those of the datasets it shows (dois.go:47,
\* publish_collection.go:102, mapping.go:68).  A DOI that Discover does not
\* know is let in, published and shown as UNKNOWN.
AcceptedDOIsAreShown ==
  input.of = "view" =>
    LET dois == Grown(input.requests, input.discover)
        view == StoreToDTOCollection(Sourced(dois), input.discover)
        known == ToSet(dois) \cap DOMAIN input.discover.published
    IN (dois # <<>> /\ Len(dois) <= MaxPerRequest) =>
         /\ MayPublish(Sourced(dois), input.discover)
         /\ [i \in DOMAIN view.datasets |-> view.datasets[i].doi] = dois
         /\ \A d \in ToSet(view.datasets) :
              d.status = IF d.doi \in known THEN "PUBLISHED" ELSE "UNKNOWN"

\* No contributor is lost, whoever shares a name, and one without optional
\* fields is listed once however many of the datasets name them
\* (contributors.go:11).  With optional fields the same contributor comes once
\* for each dataset: the structs hold addresses.
ContributorsAreThoseShown ==
  input.of = "view" =>
    LET dois == Grown(input.requests, input.discover)
        view == StoreToDTOCollection(Sourced(dois), input.discover)
        known == ToSet(dois) \cap DOMAIN input.discover.published
        named == UNION {ToSet(input.discover.published[doi].contributors) : doi \in known}
    IN Len(dois) <= MaxPerRequest =>
         /\ ToSet(view.derivedContributors) = named
         /\ \A i, j \in DOMAIN view.derivedContributors :
              /\ view.derivedContributors[i] = view.derivedContributors[j]
              /\ view.derivedContributors[i].orcid = Nil
              => i = j

\* A collection that was built by accepted requests can be looked up: the URL
\* of a request to Discover holds its DOIs ("we do get URL-to-long errors if we
\* request 90 or more DOIs at a time", get_collections.go:131).
LookupFitsTheURL ==
  input.of = "view" =>
    StoreToDTOCollection(Sourced(Grown(input.requests, input.discover)), input.discover) # Failed

\* The list of collections shows the first banners of the view of each
\* collection, although it looks up only some of the DOIs, those of all
\* collections at once, in batches (get_collections.go:53 and :96).
ListBannersArePrefixes ==
  input.of = "list" =>
    LET banners == ListBanners([i \in DOMAIN input.collections |-> Sourced(input.collections[i])],
                               input.discover)
    IN \A i \in DOMAIN input.collections :
         Len(input.collections[i]) <= MaxPerRequest =>
           IsPrefix(banners[i],
                    StoreToDTOCollection(Sourced(input.collections[i]), input.discover).banners)

\* A text that create or patch accepts is not refused by the tables of Postgres
\* (the checks count bytes, the columns characters; validate.go:12).
AcceptedFitsTheTables ==
  /\ input.of = "create" => LET stored == Text!Created(input.request) IN
       stored # Failed => Text!FitsTheTables(stored)
  /\ input.of = "patch" => LET stored == Text!Patched(input.current, input.request) IN
       stored # Failed /\ Text!FitsTheTables(input.current) => Text!FitsTheTables(stored)

\* The license and the tags are valid or left out.
Acceptable(stored) == Text!License(stored.license, FALSE) /\ Text!Tags(stored.tags, FALSE)

ReadyWhenComplete(stored) ==
  (/\ stored.description.bytes > 0
   /\ stored.license \notin {Nil, Text!EmptyString} /\ stored.tags \notin {Nil, <<>>})
  => Text!ReadyToPublish(stored)

\* A publish refuses of what create and patch have accepted only what is
\* missing: nobody is told after the fact that a license or tag is invalid,
\* however many patches there were (publish_collection.go:256).
AcceptedIsReadyWhenComplete ==
  /\ input.of = "create" => LET stored == Text!Created(input.request) IN
       stored # Failed => Acceptable(stored) /\ ReadyWhenComplete(stored)
  /\ input.of = "patch" => LET stored == Text!Patched(input.current, input.request) IN
       stored # Failed /\ Acceptable(input.current) => Acceptable(stored) /\ ReadyWhenComplete(stored)

\* Different contributors are hashed from different bytes, whatever their
\* fields hold; only the hash can make their ids equal (discover_models.go:154).
ContributorsAreToldApart ==
  input.of = "contributor" =>
    \A other \in Contributors :
      ID!Written(other) = ID!Written(input.contributor) => other = input.contributor

\* The clients of an instance sign with one key, the first that SSM gave, also
\* when it is changed between the requests that made them (ssm.go:24).
ClientsShareTheKey ==
  input.of = "instance" =>
    LET container == Instance!After(input.requests)
        clients == {container[s] : s \in {s \in Instance!Services : container[s] # Nil}}
        Answered(i) == input.requests[i].need # Nil /\ input.requests[i].ssm # Failed
    IN \A client \in clients :
         \E i \in DOMAIN input.requests :
           /\ Answered(i) /\ \A j \in 1..(i - 1) : ~Answered(j)
           /\ client.key = input.requests[i].ssm

\* A failed lookup of the key ends the request that needed it and no other:
\* whatever came before, a request during which SSM answers gets its client
\* (container.go:146).
LookupIsRetried ==
  input.of = "instance" =>
    \A i \in DOMAIN input.requests :
      LET request == input.requests[i]
          container == Instance!After(SubSeq(input.requests, 1, i))
      IN request.need # Nil /\ request.ssm # Failed =>
           /\ container[request.need] # Nil
           /\ container[request.need].key # Failed

\* 4xx is said of what the caller asked for, and only of that: a status with
\* which another service refuses our own request does not reach the caller.
\* Success is said only when every service that was needed has answered
\* (get_doi.go:44, get_collection.go:66).
AnswersBlameTheRightSide ==
  input.of = "get" =>
    LET world == input.world
        malformed == ~input.request.nodeID \/ input.request.flag = "malformed"
        get == Reply!GetCollection(input.request, world)
        doi == Reply!GetDOI(input.request, world)
        answered(response) == response.readable /\ response.status \notin {0} \cup 400..599
    IN /\ get \in 400..499 => malformed \/ world.store = "notFound"
       /\ doi \in 400..499 =>
            \/ ~input.request.nodeID \/ world.store = "notFound"
            \/ world.store = "found" /\ world.doi.status = 404
       /\ get = 200 => /\ input.request.flag = "true" => answered(world.publishStatus)
                       /\ world.dois => answered(world.datasets)
       /\ doi = 200 => answered(world.doi)

=============================================================================
