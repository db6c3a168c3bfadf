-------------------------- MODULE AlgorithmsProofs --------------------------
(***************************************************************************)
(* Theorems about the functions of Algorithms, for inputs of any size:     *)
(* what the loops over lists return, and what the handlers agree on.       *)
(***************************************************************************)
EXTENDS Algorithms, ListsProofs

\* An input stays what it is.
LEMMA InputStays == Spec => [](input \in Inputs)
<1>1. Init => input \in Inputs
  BY DEF Init
<1>2. input \in Inputs /\ [Next]_input => (input \in Inputs)'
  BY DEF Next
<1> QED
  BY <1>1, <1>2, PTL DEF Spec

-----------------------------------------------------------------------------
(* The lists of a request *)

\* Every DOI of a request lands in exactly one list, once, where it came first,
\* whatever the blanks around it (dois.go:19).
THEOREM CategorizesFirstOfEach == Spec => []EachDOIOnce
<1>1. ASSUME input \in Inputs, input.of = "categorize"
      PROVE  LET trimmed == [i \in 1..Len(input.strings) |-> input.strings[i].doi]
                 first == FirstPositions(trimmed)
             IN CategorizeDOIs(input.strings) =
                  [pennsieve |-> At(trimmed, {i \in first : trimmed[i] \in Pennsieve}),
                   external |-> At(trimmed, {i \in first : trimmed[i] \notin Pennsieve})]
  <2>1. input.strings \in Seq([doi : DOIs, padded : BOOLEAN])
    BY <1>1, ListInputsAssumption
  <2> QED
    BY <2>1, CategorizeIsAt, Zenon DEF Trimmed
<1>2. input \in Inputs => EachDOIOnce
  BY <1>1, Zenon DEF EachDOIOnce
<1> QED
  BY <1>2, InputStays, PTL

\* The banners are those of the first DOIs that Discover knows, up to the limit
\* (banners.go:9).
THEOREM CollectsFirstBanners == Spec => []BannersOfFirstFound
<1>1. ASSUME input \in Inputs, input.of = "banners"
      PROVE  BannersOfFirstFound
  <2> DEFINE s == input.dois
             published == input.published
             max == input.max
             found == At(s, {i \in 1..Len(s) : s[i] \in DOMAIN published})
             banners == CollectBanners(s, published, max)
             B == {published[x] : x \in DOIs}
  <2>1. s \in Seq(DOIs) /\ max \in Nat
    BY <1>1, ListInputsAssumption
  <2>2. DOMAIN s = 1..Len(s)
    BY <2>1
  <2> HIDE DEF s, published, max
  <2>3. banners \in Seq(B) /\ AreOfFirst(banners, found, published, max)
    BY <2>1, CollectBannersAreFirst, Zenon
  <2> HIDE DEF banners, B
  <2>4. DOMAIN banners = 1..Len(banners)
    BY <2>3
  <2> QED
    BY <1>1, <2>2, <2>3, <2>4, Zenon
    DEF AreOfFirst, BannersOfFirstFound, banners, s, published, max
<1>2. input \in Inputs => BannersOfFirstFound
  BY <1>1 DEF BannersOfFirstFound
<1> QED
  BY <1>2, InputStays, PTL

\* The batches are the list cut up, none longer than a request may be
\* (get_collections.go:131).
THEOREM BatchesCoverAll == Spec => []BatchesCoverTheList
<1>1. ASSUME input \in Inputs, input.of = "batches"
      PROVE  BatchesCoverTheList
  <2> DEFINE dois == input.dois
             size == input.size
  <2>1. dois \in Seq(Nat) /\ size \in Nat \ {0}
    BY <1>1, ListInputsAssumption
  <2> HIDE DEF dois, size
  <2>2. /\ FlattenSeq(Batches(dois, size)) = dois
        /\ \A k \in DOMAIN Batches(dois, size) : Len(Batches(dois, size)[k]) \in 1..size
    BY <2>1, BatchesCover
  <2> QED
    BY <2>2, Zenon DEF BatchesCoverTheList, dois, size
<1>2. input \in Inputs => BatchesCoverTheList
  BY <1>1 DEF BatchesCoverTheList
<1> QED
  BY <1>2, InputStays, PTL

\* A page holds the collections of its ranks among those the user may see, and
\* the total count does not depend on the page (collections.go:180).
THEOREM PagesAreExact == Spec => []PageIsExact
<1>1. ASSUME input \in Inputs, input.of = "page"
      PROVE  PageIsExact
  <2> DEFINE table == input.table
             a == input.offset
             b == input.limit
             C == [access : BOOLEAN, dois : Seq(Nat)]
             P == {i \in DOMAIN table : table[i].access}
             shown == At(table, Ranked(P, a, b))
             rows == PageRows(table, b, a).rows
             response == GetCollections(table, b, a, MaxBanners)
  <2>1. table \in Seq(C) /\ a \in Nat /\ b \in Nat /\ MaxBanners \in Nat
    BY <1>1, ListInputsAssumption, LimitsAssumption
  <2> HIDE DEF table, a, b
  <2>2. DOMAIN table = 1..Len(table) /\ P \in SUBSET (1..Len(table))
    BY <2>1
  <2>3. Visible(table) = At(table, P)
    <3>1. P = {i \in 1..Len(table) : table[i] \in {c \in ToSet(table) : c.access}}
      BY <2>2 DEF ToSet
    <3> QED
      BY <2>1, <3>1, KeptIsAt DEF Visible
  <2> HIDE DEF P
  <2>4. Len(Visible(table)) = Cardinality(P)
    BY <2>1, <2>2, <2>3, AtRanks
  <2>5. rows = shown
    <3>1. rows = SubSeq(At(table, P), a + 1, Min({a + b, Len(At(table, P))}))
      BY <2>3 DEF PageRows
    <3> HIDE DEF rows, C
    <3> QED
      BY <2>1, <2>2, <3>1, PartOfAt
  <2>6. shown \in Seq(C)
    <3>1. Ranked(P, a, b) \in SUBSET (1..Len(table))
      BY <2>2 DEF Ranked
    <3> QED
      BY <2>1, <3>1, AtRanks
  <2>7. /\ response.totalCount = Cardinality(P)
        /\ response.collections = [i \in 1..Len(rows) |-> Summary(rows[i], MaxBanners)]
    BY <2>4 DEF GetCollections, PageRows
  <2> HIDE DEF shown, rows, response
  <2>8. ASSUME NEW i \in DOMAIN response.collections
        PROVE  /\ response.collections[i].size = Len(shown[i].dois)
               /\ IsPrefix(response.collections[i].bannerDOIs, shown[i].dois)
               /\ Len(response.collections[i].bannerDOIs)
                    = Min({MaxBanners, response.collections[i].size})
    <3> DEFINE d == shown[i].dois
               banners == SubSeq(d, 1, Min({MaxBanners, Len(d)}))
               collection == response.collections[i]
    <3>1. collection.bannerDOIs = banners /\ collection.size = Len(d)
      <4>1. i \in 1..Len(rows)
        BY <2>7
      <4>2. collection = Summary(shown[i], MaxBanners)
        BY <2>5, <2>7, <4>1
      <4> HIDE DEF collection
      <4> QED
        BY <4>2 DEF Summary
    <3>2. d \in Seq(Nat)
      <4>1. i \in DOMAIN shown
        BY <2>5, <2>6, <2>7
      <4>2. shown[i] \in C
        <5> HIDE DEF C
        <5> QED
          BY <2>6, <4>1
      <4> QED
        BY <4>2
    <3> HIDE DEF d
    <3>3. IsPrefix(banners, d) /\ Len(banners) = Min({MaxBanners, Len(d)})
      BY <2>1, <3>2, FirstElements
    <3> HIDE DEF banners, collection
    <3>4. /\ collection.size = Len(d)
          /\ IsPrefix(collection.bannerDOIs, d)
          /\ Len(collection.bannerDOIs) = Min({MaxBanners, collection.size})
      BY <3>1, <3>3, Zenon
    <3> QED
      BY <3>4, Zenon DEF d, collection
  <2>9. DOMAIN response.collections = DOMAIN shown
    BY <2>5, <2>6, <2>7
  <2>10. [i \in DOMAIN response.collections |-> response.collections[i].size]
           = [i \in DOMAIN shown |-> Len(shown[i].dois)]
    BY <2>8, <2>9
  <2> QED
    BY <1>1, <2>7, <2>8, <2>10, Zenon DEF PageIsExact, Ranked, response, shown, P, table, a, b
<1>2. input \in Inputs => PageIsExact
  BY <1>1 DEF PageIsExact
<1> QED
  BY <1>2, InputStays, PTL

-----------------------------------------------------------------------------
(* The manifest *)

\* The powers of ten count the digits of a number, up to ten.
LEMMA Digits ==
  ASSUME NEW size \in Nat
  PROVE  NumberOfDigits(size) =
           IF size < 10 THEN 1 ELSE IF size < 100 THEN 2 ELSE IF size < 1000 THEN 3
           ELSE IF size < 10000 THEN 4 ELSE IF size < 100000 THEN 5
           ELSE IF size < 1000000 THEN 6 ELSE IF size < 10000000 THEN 7
           ELSE IF size < 100000000 THEN 8 ELSE IF size < 1000000000 THEN 9 ELSE 10
<1> DEFINE Powers == {k \in 0..9 : 10^k <= size}
           d == IF size < 10 THEN 1 ELSE IF size < 100 THEN 2 ELSE IF size < 1000 THEN 3
                ELSE IF size < 10000 THEN 4 ELSE IF size < 100000 THEN 5
                ELSE IF size < 1000000 THEN 6 ELSE IF size < 10000000 THEN 7
                ELSE IF size < 100000000 THEN 8 ELSE IF size < 1000000000 THEN 9 ELSE 10
<1>1. ASSUME NEW k
      PROVE  /\ (k = 0 => 10^k = 10^0) /\ (k = 1 => 10^k = 10^1)
             /\ (k = 2 => 10^k = 10^2) /\ (k = 3 => 10^k = 10^3)
             /\ (k = 4 => 10^k = 10^4) /\ (k = 5 => 10^k = 10^5)
             /\ (k = 6 => 10^k = 10^6) /\ (k = 7 => 10^k = 10^7)
             /\ (k = 8 => 10^k = 10^8) /\ (k = 9 => 10^k = 10^9)
  BY Zenon
<1>2. d \in 1..10
  OBVIOUS
<1>3. ASSUME NEW k \in 0..9, size # 0
      PROVE  10^k <= size <=> k <= d - 1
  <2>1. k \in {0, 1, 2, 3, 4, 5, 6, 7, 8, 9}
    OBVIOUS
  <2> QED
    BY <1>1, <1>3, <2>1
<1> HIDE DEF d
<1>4. CASE size = 0
  BY <1>4 DEF NumberOfDigits, d
<1>5. CASE size # 0
  <2>1. \A k : k \in 0..(d - 1) <=> k \in 0..9 /\ k <= d - 1
    BY <1>2
  <2>2. Powers = 0..(d - 1)
    BY <1>3, <1>5, <2>1, Zenon
  <2>3. Cardinality(0..(d - 1)) = d
    BY <1>2, FS_Interval
  <2>4. NumberOfDigits(size) = Cardinality(Powers)
    BY <1>5, Zenon DEF NumberOfDigits
  <2> HIDE DEF Powers
  <2>5. NumberOfDigits(size) = d
    BY <2>2, <2>3, <2>4
  <2> QED
    BY <2>5 DEF d
<1> QED
  BY <1>4, <1>5

\* The manifest states its own length (manifests.go:169).
THEOREM ManifestStatesSize == Spec => []ManifestStatesItsSize
<1>1. ASSUME NEW rest \in Nat
      PROVE  Build(rest) = Marshalled(rest, Build(rest))
  BY Digits DEF Build, Marshalled
<1>2. input \in Inputs => ManifestStatesItsSize
  BY <1>1, ListInputsAssumption DEF ManifestStatesItsSize
<1> QED
  BY <1>2, InputStays, PTL

-----------------------------------------------------------------------------
(* The answers of the get handlers *)

\* What the DOI service answers is read as one of three outcomes.
LEMMA LatestDOI ==
  ASSUME NEW response \in Responses
  PROVE  /\ Reply!GetLatestDOI(response) \in {"ok", "notFound", "error"}
         /\ Reply!GetLatestDOI(response) = "notFound" => response.status = 404
         /\ Reply!GetLatestDOI(response) = "ok" =>
              response.readable /\ response.status \notin {0} \cup 400..599
  BY DEF Reply!GetLatestDOI, Reply!Invoke, Responses

\* 4xx is said of what the caller asked for, and only of that, whatever the
\* other services answer (get_doi.go:44, get_collection.go:66).
THEOREM AnswersBlame == Spec => []AnswersBlameTheRightSide
<1>1. ASSUME input \in Inputs, input.of = "get"
      PROVE  AnswersBlameTheRightSide
  <2> DEFINE request == input.request
             world == input.world
             answered(response) == response.readable /\ response.status \notin {0} \cup 400..599
  <2>1. /\ request \in [nodeID : BOOLEAN, flag : {"absent", "true", "malformed"}]
        /\ world \in [store : {"found", "notFound", "error"}, dois : BOOLEAN, client : BOOLEAN,
                      publishStatus : Responses, datasets : Responses, doi : Responses]
    BY <1>1, AnswerInputsAssumption
  <2> HIDE DEF request, world
  <2>2. ASSUME NEW response \in Responses, Reply!Invoke(response).ok
        PROVE  answered(response)
    BY <2>2 DEF Reply!Invoke, Responses
  <2>3. /\ Reply!GetCollection(request, world) \in 400..499 =>
             ~request.nodeID \/ request.flag = "malformed" \/ world.store = "notFound"
        /\ Reply!GetCollection(request, world) = 200 =>
             /\ request.flag = "true" => answered(world.publishStatus)
             /\ world.dois => answered(world.datasets)
    BY <2>1, <2>2 DEF Reply!GetCollection
  <2>4. /\ Reply!GetDOI(request, world) \in 400..499 =>
             \/ ~request.nodeID \/ world.store = "notFound"
             \/ world.store = "found" /\ world.doi.status = 404
        /\ Reply!GetDOI(request, world) = 200 => answered(world.doi)
    <3>1. /\ Reply!GetLatestDOI(world.doi) \in {"ok", "notFound", "error"}
          /\ Reply!GetLatestDOI(world.doi) = "notFound" => world.doi.status = 404
          /\ Reply!GetLatestDOI(world.doi) = "ok" => answered(world.doi)
      BY <2>1, LatestDOI
    <3> HIDE DEF answered
    <3> QED
      BY <2>1, <3>1 DEF Reply!GetDOI
  <2> QED
    BY <2>3, <2>4 DEF AnswersBlameTheRightSide, request, world
<1>2. input \in Inputs => AnswersBlameTheRightSide
  BY <1>1 DEF AnswersBlameTheRightSide
<1> QED
  BY <1>2, InputStays, PTL

-----------------------------------------------------------------------------
(* What create and patch store *)

\* What create stores of a request it accepts.
LEMMA CreatedFields ==
  ASSUME NEW request \in Texts, Text!Created(request) # Failed
  PROVE  LET stored == Text!Created(request) IN
         /\ stored.name = Text!TrimSpace(request.name)
         /\ stored.description = Text!TrimSpace(request.description)
         /\ stored.license = request.license /\ stored.tags = request.tags
         /\ Text!CollectionName(stored.name) /\ Text!CollectionDescription(stored.description)
         /\ Text!License(stored.license, FALSE) /\ Text!Tags(stored.tags, FALSE)
<1> DEFINE stored == [request EXCEPT !.name = Text!TrimSpace(@), !.description = Text!TrimSpace(@)]
<1>1. /\ stored.name = Text!TrimSpace(request.name)
      /\ stored.description = Text!TrimSpace(request.description)
      /\ stored.license = request.license /\ stored.tags = request.tags
  BY DEF Texts
<1>2. Text!Created(request) = IF /\ Text!CollectionName(stored.name)
                                 /\ Text!CollectionDescription(stored.description)
                                 /\ Text!License(stored.license, FALSE)
                                 /\ Text!Tags(stored.tags, FALSE)
                              THEN stored ELSE Failed
  BY DEF Text!Created
<1> HIDE DEF stored
<1> QED
  BY <1>1, <1>2

\* Of each field, what patch stores is what was there or what was sent, and then
\* it has passed the check.
LEMMA PatchedFields ==
  ASSUME NEW current \in Texts,
         NEW request \in [name : Optional(TextStrings), description : Optional(TextStrings),
                         license : Optional(TextStrings), tags : Optional(Seq(TextStrings))],
         Text!Patched(current, request) # Failed
  PROVE  LET stored == Text!Patched(current, request)
             Sent(new, s) == s \in TextStrings /\ new = Text!TrimSpace(s)
         IN /\ \/ stored.name = current.name
               \/ Sent(stored.name, request.name) /\ Text!CollectionName(stored.name)
            /\ \/ stored.description = current.description
               \/ /\ Sent(stored.description, request.description)
                  /\ Text!CollectionDescription(stored.description)
            /\ \/ stored.license = current.license
               \/ Sent(stored.license, request.license) /\ Text!License(stored.license, FALSE)
            /\ \/ stored.tags = current.tags
               \/ stored.tags = request.tags /\ Text!Tags(stored.tags, FALSE)
<1> DEFINE OrTrimmed(s) == IF s = Nil THEN Nil ELSE Text!TrimSpace(s)
           Or(new, old) == IF new = Nil THEN old ELSE new
           name == OrTrimmed(request.name)
           description == OrTrimmed(request.description)
           license == OrTrimmed(request.license)
           stored == Text!Patched(current, request)
<1>1. /\ name # Nil => Text!CollectionName(name)
      /\ description # Nil => Text!CollectionDescription(description)
      /\ Text!License(license, FALSE) /\ Text!Tags(request.tags, FALSE)
      /\ stored = [name |-> Or(name, current.name),
                   description |-> Or(description, current.description),
                   license |-> Or(license, current.license),
                   tags |-> Or(request.tags, current.tags)]
  BY Zenon DEF Text!Patched
<1>2. /\ request.name # Nil => request.name \in TextStrings
      /\ request.description # Nil => request.description \in TextStrings
      /\ request.license # Nil => request.license \in TextStrings
  BY DEF Optional
<1> HIDE DEF stored
<1>3. /\ stored.name = Or(name, current.name)
      /\ stored.description = Or(description, current.description)
      /\ stored.license = Or(license, current.license)
      /\ stored.tags = Or(request.tags, current.tags)
  BY <1>1
<1> QED
  BY <1>1, <1>2, <1>3, Zenon DEF stored

\* A string stays one when its blanks are taken off.
LEMMA TrimmedString ==
  ASSUME NEW s \in TextStrings
  PROVE  Text!TrimSpace(s) \in TextStrings /\ Text!TrimSpace(s).padded = FALSE
  BY DEF TextStrings, Text!TrimSpace

\* What passes the checks fits the columns: they count bytes, of which there are
\* at least as many as characters.
LEMMA CheckedFits ==
  ASSUME NEW s \in TextStrings
  PROVE  /\ ~s.padded /\ Text!CollectionName(s) => Text!Characters(s) <= Text!VarChar /\ s.bytes > 0
         /\ ~s.padded /\ Text!CollectionDescription(s) => Text!Characters(s) <= Text!VarChar
         /\ Text!License(s, FALSE) => s = Nil \/ Text!Characters(s) <= Text!VarChar
         /\ Text!License(s, FALSE) => s \in {Nil, Text!EmptyString} \/ Text!License(s, TRUE)
  BY DEF TextStrings, Text!CollectionName, Text!CollectionDescription, Text!License,
         Text!Characters, Text!Length, Text!VarChar, Text!EmptyString

\* What create and patch accept is not refused by the tables (validate.go:12).
THEOREM AcceptedFits == Spec => []AcceptedFitsTheTables
<1>1. ASSUME input \in Inputs, input.of = "create", Text!Created(input.request) # Failed
      PROVE  Text!FitsTheTables(Text!Created(input.request))
  <2> DEFINE request == input.request
             stored == Text!Created(request)
  <2>1. request \in Texts
    BY <1>1, TextInputsAssumption
  <2>2. request.name \in TextStrings /\ request.description \in TextStrings
        /\ (request.license # Nil => request.license \in TextStrings)
    BY <2>1 DEF Texts, Optional
  <2> HIDE DEF request
  <2>3. /\ stored.name = Text!TrimSpace(request.name)
        /\ stored.description = Text!TrimSpace(request.description)
        /\ stored.license = request.license
        /\ Text!CollectionName(stored.name) /\ Text!CollectionDescription(stored.description)
        /\ Text!License(stored.license, FALSE)
    BY <1>1, <2>1, CreatedFields DEF request
  <2> HIDE DEF stored
  <2>4. Text!FitsTheTables(stored)
    BY <2>2, <2>3, TrimmedString, CheckedFits DEF Text!FitsTheTables
  <2> QED
    BY <2>4 DEF stored, request
<1>2. ASSUME input \in Inputs, input.of = "patch",
             Text!Patched(input.current, input.request) # Failed,
             Text!FitsTheTables(input.current)
      PROVE  Text!FitsTheTables(Text!Patched(input.current, input.request))
  <2> DEFINE current == input.current
             request == input.request
             stored == Text!Patched(current, request)
             Sent(new, s) == s \in TextStrings /\ new = Text!TrimSpace(s)
  <2>1. /\ current \in Texts
        /\ request \in [name : Optional(TextStrings), description : Optional(TextStrings),
                        license : Optional(TextStrings), tags : Optional(Seq(TextStrings))]
    BY <1>2, TextInputsAssumption
  <2> HIDE DEF current, request
  <2>2. /\ \/ stored.name = current.name
           \/ Sent(stored.name, request.name) /\ Text!CollectionName(stored.name)
        /\ \/ stored.description = current.description
           \/ /\ Sent(stored.description, request.description)
              /\ Text!CollectionDescription(stored.description)
        /\ \/ stored.license = current.license
           \/ Sent(stored.license, request.license) /\ Text!License(stored.license, FALSE)
    BY <1>2, <2>1, PatchedFields, Zenon DEF current, request
  <2>3. Text!FitsTheTables(current)
    BY <1>2 DEF current
  <2> HIDE DEF stored
  <2>4. Text!FitsTheTables(stored)
    BY <2>2, <2>3, TrimmedString, CheckedFits DEF Text!FitsTheTables
  <2> QED
    BY <2>4 DEF stored, current, request
<1>3. input \in Inputs => AcceptedFitsTheTables
  BY <1>1, <1>2 DEF AcceptedFitsTheTables
<1> QED
  BY <1>3, InputStays, PTL

\* What create and patch accept is refused by a publish only for what is missing
\* (publish_collection.go:256).
THEOREM AcceptedIsReady == Spec => []AcceptedIsReadyWhenComplete
<1>0. ASSUME NEW stored, Acceptable(stored), stored.description \in TextStrings,
             stored.license # Nil => stored.license \in TextStrings
      PROVE  ReadyWhenComplete(stored)
  <2>1. stored.description.bytes > 0 => Text!Length(stored.description) > 0
    BY <1>0 DEF Text!Length, TextStrings
  <2>2. stored.license \notin {Nil, Text!EmptyString} => Text!License(stored.license, TRUE)
    BY <1>0, CheckedFits DEF Acceptable
  <2>3. stored.tags \notin {Nil, <<>>} => Text!Tags(stored.tags, TRUE)
    BY <1>0 DEF Acceptable, Text!Tags
  <2> QED
    BY <2>1, <2>2, <2>3 DEF ReadyWhenComplete, Text!ReadyToPublish
<1>1. ASSUME input \in Inputs, input.of = "create", Text!Created(input.request) # Failed
      PROVE  LET stored == Text!Created(input.request)
             IN Acceptable(stored) /\ ReadyWhenComplete(stored)
  <2> DEFINE request == input.request
             stored == Text!Created(request)
  <2>1. request \in Texts
    BY <1>1, TextInputsAssumption
  <2>2. request.description \in TextStrings
        /\ (request.license # Nil => request.license \in TextStrings)
    BY <2>1 DEF Texts, Optional
  <2> HIDE DEF request
  <2>3. /\ stored.description = Text!TrimSpace(request.description)
        /\ stored.license = request.license
        /\ Text!License(stored.license, FALSE) /\ Text!Tags(stored.tags, FALSE)
    BY <1>1, <2>1, CreatedFields DEF request
  <2> HIDE DEF stored
  <2>4. Acceptable(stored)
    BY <2>3 DEF Acceptable
  <2>5. ReadyWhenComplete(stored)
    BY <1>0, <2>2, <2>3, <2>4, TrimmedString
  <2> QED
    BY <2>4, <2>5 DEF stored, request
<1>2. ASSUME input \in Inputs, input.of = "patch",
             Text!Patched(input.current, input.request) # Failed, Acceptable(input.current)
      PROVE  LET stored == Text!Patched(input.current, input.request)
             IN Acceptable(stored) /\ ReadyWhenComplete(stored)
  <2> DEFINE current == input.current
             request == input.request
             stored == Text!Patched(current, request)
             Sent(new, s) == s \in TextStrings /\ new = Text!TrimSpace(s)
  <2>1. /\ current \in Texts
        /\ request \in [name : Optional(TextStrings), description : Optional(TextStrings),
                        license : Optional(TextStrings), tags : Optional(Seq(TextStrings))]
    BY <1>2, TextInputsAssumption
  <2>2. current.description \in TextStrings
        /\ (current.license # Nil => current.license \in TextStrings)
    BY <2>1 DEF Texts, Optional
  <2> HIDE DEF current, request
  <2>3. /\ \/ stored.description = current.description
           \/ Sent(stored.description, request.description)
        /\ \/ stored.license = current.license
           \/ Sent(stored.license, request.license) /\ Text!License(stored.license, FALSE)
        /\ \/ stored.tags = current.tags
           \/ stored.tags = request.tags /\ Text!Tags(stored.tags, FALSE)
    BY <1>2, <2>1, PatchedFields, Zenon DEF current, request
  <2>4. Acceptable(current)
    BY <1>2 DEF current
  <2> HIDE DEF stored
  <2>5. Acceptable(stored)
    BY <2>3, <2>4, Zenon DEF Acceptable
  <2>6. /\ stored.description \in TextStrings
        /\ stored.license # Nil => stored.license \in TextStrings
    BY <2>2, <2>3, TrimmedString
  <2>7. ReadyWhenComplete(stored)
    BY <1>0, <2>5, <2>6
  <2> QED
    BY <2>5, <2>7 DEF stored, current, request
<1>3. input \in Inputs => AcceptedIsReadyWhenComplete
  BY <1>1, <1>2 DEF AcceptedIsReadyWhenComplete
<1> QED
  BY <1>3, InputStays, PTL

-----------------------------------------------------------------------------
(* The container of an instance *)

Clients == [key : Keys, logger : Nat]
Containers ==
  [value : Optional(Keys), logger : Optional(Nat),
   internalDiscover : Optional(Clients), doi : Optional(Clients)]
Requests ==
  [id : Nat, need : Instance!Services \cup {Nil}, ssm : Keys \cup {Failed}]

\* The clients sign with the key that is kept.
OneKey(c) == \A s \in Instance!Services : c[s] # Nil => c.value # Nil /\ c[s].key = c.value

\* The request gets an answer from SSM, if SSM is asked.
SSMAnswers(r) == r.need # Nil /\ r.ssm # Failed

\* The container before and after a request.
Moves(c, r, d) ==
  /\ d \in Containers
  /\ d.value = IF c.value = Nil /\ SSMAnswers(r) THEN r.ssm ELSE c.value
  /\ OneKey(d)
  /\ SSMAnswers(r) => d[r.need] # Nil

\* What a request does to the client it needs, and to the key: the key is kept
\* once it is there, and otherwise it is what SSM answers.
LEMMA Served ==
  ASSUME NEW c \in Containers, NEW r \in Requests, OneKey(c)
  PROVE  Moves(c, r, Instance!Serve(c, r))
<1> DEFINE own == [c EXCEPT !.logger = r.id]
           load == Instance!Load(own, r.ssm)
           loaded == load.container
           client == [key |-> load.key, logger |-> r.id]
<1> USE InstanceInputsAssumption DEF Instance!Services
<1>1. /\ own \in Containers /\ own.logger = r.id /\ own.value = c.value
      /\ own.doi = c.doi /\ own.internalDiscover = c.internalDiscover
  BY DEF Containers, Requests, Optional
<1>2. /\ load.key = IF c.value # Nil THEN c.value ELSE r.ssm
      /\ loaded = IF c.value # Nil \/ r.ssm = Failed THEN own ELSE [own EXCEPT !.value = r.ssm]
  BY <1>1 DEF Instance!Load
<1> HIDE DEF own, load
<1>3. load.key # Failed =>
        /\ load.key \in Keys /\ client \in Clients
        /\ loaded \in Containers /\ loaded.value = load.key
        /\ loaded.doi = c.doi /\ loaded.internalDiscover = c.internalDiscover
  <2>1. r.ssm \in Keys \cup {Failed} /\ r.id \in Nat /\ c.value \in Optional(Keys)
    BY DEF Requests, Containers
  <2> QED
    BY <1>1, <1>2, <2>1 DEF Containers, Clients, Optional
<1> DEFINE d == Instance!Serve(c, r)
<1>4. d = IF r.need = Nil \/ own[r.need] # Nil \/ load.key = Failed THEN own
          ELSE [loaded EXCEPT ![r.need] = client]
  <2>1. own = [c EXCEPT !.logger = r.id] /\ load = Instance!Load(own, r.ssm)
    BY DEF own, load
  <2> QED
    BY <1>1, <2>1 DEF Instance!Serve, Instance!Get
<1> HIDE DEF loaded, client, d
<1>5. r.need \in {"internalDiscover", "doi", Nil} /\ r.ssm \in Keys \cup {Failed}
  BY DEF Requests
<1> USE DEF OneKey, SSMAnswers, Moves
<1> DEFINE Stays == r.need = Nil \/ own[r.need] # Nil \/ load.key = Failed
<1>6. CASE Stays
  <2>1. load.key = Failed /\ SSMAnswers(r) => FALSE
    BY <1>2, <1>5 DEF Containers, Optional
  <2>2. Moves(c, r, own)
    BY <1>1, <1>2, <1>5, <1>6, <2>1
  <2> QED
    BY <1>4, <1>6, <2>2 DEF d
<1>7. CASE ~Stays
  <2>1. CASE r.need = "doi"
    <3>1. Moves(c, r, d)
      BY <1>1, <1>2, <1>3, <1>4, <1>7, <2>1 DEF Containers, Clients, Optional, client
    <3> QED
      BY <3>1 DEF d
  <2>2. CASE r.need = "internalDiscover"
    <3>1. Moves(c, r, d)
      BY <1>1, <1>2, <1>3, <1>4, <1>7, <2>2 DEF Containers, Clients, Optional, client
    <3> QED
      BY <3>1 DEF d
  <2> QED
    BY <1>4, <1>5, <1>7, <2>1, <2>2
<1> QED
  BY <1>6, <1>7

\* The containers after each number of requests.
Serving(acc, requests) ==
  /\ acc \in [0..Len(requests) -> {c \in Containers : OneKey(c)}]
  /\ acc[0] = Instance!NewContainer
  /\ \A k \in 1..Len(requests) : acc[k] = Instance!Serve(acc[k - 1], requests[k])

\* The container after some requests is the last one.
LEMMA AfterSteps ==
  ASSUME NEW requests \in Seq(Requests)
  PROVE  \E acc : Serving(acc, requests) /\ Instance!After(requests) = acc[Len(requests)]
<1> DEFINE s == requests
           V == Requests
           R == {c \in Containers : OneKey(c)}
           base == Instance!NewContainer
           Add(c, r) == Instance!Serve(c, r)
           op == [re \in R \X V |-> Add(re[1], re[2])]
           Eq(h) == h = [t \in SUBSET DOMAIN s |->
                           IF t = {} THEN base
                           ELSE Add(h[t \ {Instance!Max(t)}], s[Instance!Max(t)])]
           iter == CHOOSE h : Eq(h)
<1>1. IsFold(R, V, base, op, s) /\ \A c \in R, x \in V : op[<<c, x>>] = Add(c, x)
  <2>1. \A c \in R, x \in V : Add(c, x) \in R
    BY Served, Zenon DEF Moves
  <2>2. base \in R
    BY InstanceInputsAssumption
    DEF Instance!NewContainer, Containers, OneKey, Optional, Instance!Services
  <2> HIDE DEF R, V, Add
  <2> QED
    BY <2>1, <2>2 DEF IsFold, V
<1>2. Instance!After(s) = iter[DOMAIN s]
  BY DEF Instance!After, Instance!FoldLeft, Instance!MapThenFoldSet
<1>3. \A t : Instance!Max(t) = Max(t)
  BY DEF Instance!Max, Max
<1> HIDE DEF op, Add, R
<1>4. \E h : Eq(h)
  <2>1. PICK h \in [SUBSET DOMAIN s -> R] : Solves(h, base, op, s)
    BY <1>1, FoldExists
  <2>2. ASSUME NEW t \in SUBSET DOMAIN s
        PROVE  h[t] = IF t = {} THEN base ELSE Add(h[t \ {Instance!Max(t)}], s[Instance!Max(t)])
    BY <1>1, <1>3, <2>1, MaxOfPositions DEF Solves
  <2>3. Eq(h)
    BY <2>1, <2>2
  <2> QED
    BY <2>3
<1>5. Eq(iter)
  <2> HIDE DEF Eq
  <2> QED
    BY <1>4
<1>6. Satisfies(iter, R, base, op, s)
  <2> HIDE DEF iter
  <2> QED
    BY <1>1, <1>3, <1>5, MaxOfPositions DEF Satisfies
<1> HIDE DEF iter
<1>7. PICK acc : Accumulates(acc, R, base, op, s) /\ iter[DOMAIN s] = acc[Len(s)]
  BY <1>1, <1>6, FoldSteps
<1>8. ASSUME NEW k \in 1..Len(s)
      PROVE  acc[k] = Add(acc[k - 1], s[k])
  <2>1. acc[k - 1] \in R /\ s[k] \in V
    BY <1>7 DEF Accumulates
  <2> QED
    BY <1>1, <1>7, <2>1 DEF Accumulates
<1>9. Serving(acc, s)
  BY <1>7, <1>8 DEF Serving, Accumulates, Add, R
<1> QED
  BY <1>2, <1>7, <1>9

\* The i-th request is the first that gets an answer from SSM.
FirstAnswer(requests, i) ==
  SSMAnswers(requests[i]) /\ \A j \in 1..(i - 1) : ~SSMAnswers(requests[j])

\* The key is the one that SSM answered first, if it has answered.
LEMMA FirstKeyIsKept ==
  ASSUME NEW requests \in Seq(Requests), NEW acc, Serving(acc, requests)
  PROVE  \A k \in 0..Len(requests) :
           \/ acc[k].value = Nil /\ \A j \in 1..k : ~SSMAnswers(requests[j])
           \/ \E i \in 1..k : FirstAnswer(requests, i) /\ acc[k].value = requests[i].ssm
<1> DEFINE n == Len(requests)
           Holds(k) ==
             \/ acc[k].value = Nil /\ \A j \in 1..k : ~SSMAnswers(requests[j])
             \/ \E i \in 1..k : FirstAnswer(requests, i) /\ acc[k].value = requests[i].ssm
           Good == {k \in 0..n : Holds(k)}
<1>1. n \in Nat /\ \A k \in 1..n : requests[k] \in Requests
  BY ListOf
<1>2. 0 \in Good
  <2>1. acc[0].value = Nil
    BY DEF Serving, Instance!NewContainer
  <2> QED
    BY <1>1, <2>1
<1>3. ASSUME NEW k \in 1..n, k - 1 \in Good
      PROVE  k \in Good
  <2>1. acc[k - 1] \in Containers /\ OneKey(acc[k - 1]) /\ requests[k] \in Requests
    BY <1>1 DEF Serving
  <2>2. acc[k].value = IF acc[k - 1].value = Nil /\ SSMAnswers(requests[k])
                       THEN requests[k].ssm ELSE acc[k - 1].value
    BY <2>1, Served DEF Serving, Moves
  <2>3. \A j \in 1..k : j \in 1..(k - 1) \/ j = k
    BY <1>1
  <2>4. CASE acc[k - 1].value = Nil /\ \A j \in 1..(k - 1) : ~SSMAnswers(requests[j])
    <3>1. CASE SSMAnswers(requests[k])
      <4>1. FirstAnswer(requests, k) /\ acc[k].value = requests[k].ssm
        BY <2>2, <2>4, <3>1 DEF FirstAnswer
      <4> QED
        BY <4>1
    <3>2. CASE ~SSMAnswers(requests[k])
      BY <2>2, <2>3, <2>4, <3>2
    <3> QED
      BY <3>1, <3>2
  <2>5. ASSUME NEW i \in 1..(k - 1), FirstAnswer(requests, i),
               acc[k - 1].value = requests[i].ssm
        PROVE  k \in Good
    <3>1. i \in 1..n /\ i \in 1..k
      BY <1>1
    <3>2. requests[i].ssm \in Keys
      BY <1>1, <2>5, <3>1 DEF FirstAnswer, SSMAnswers, Requests
    <3>3. acc[k].value = requests[i].ssm
      BY <2>2, <2>5, <3>2, InstanceInputsAssumption
    <3> QED
      BY <2>5, <3>1, <3>3
  <2> QED
    BY <1>3, <2>4, <2>5
<1>4. \A k \in 0..n : k \in Good
  <2> HIDE DEF Good, n
  <2> QED
    BY <1>1, <1>2, <1>3, StepByStep
<1> QED
  BY <1>4

\* The clients of an instance sign with one key, the first that SSM gave
\* (ssm.go:24).
THEOREM OneKeyForAll == Spec => []ClientsShareTheKey
<1>1. ASSUME input \in Inputs, input.of = "instance"
      PROVE  ClientsShareTheKey
  <2> DEFINE requests == input.requests
             container == Instance!After(requests)
  <2>1. requests \in Seq(Requests)
    BY <1>1, InstanceInputsAssumption DEF Requests
  <2> HIDE DEF requests
  <2>2. PICK acc : Serving(acc, requests) /\ container = acc[Len(requests)]
    BY <2>1, AfterSteps
  <2>3. Len(requests) \in 0..Len(requests) /\ DOMAIN requests = 1..Len(requests)
    BY <2>1
  <2>4. OneKey(container)
    BY <2>2, <2>3 DEF Serving
  <2>5. \/ container.value = Nil
        \/ \E i \in 1..Len(requests) :
             FirstAnswer(requests, i) /\ container.value = requests[i].ssm
    BY <2>1, <2>2, <2>3, FirstKeyIsKept
  <2> HIDE DEF container
  <2>6. ASSUME NEW s \in Instance!Services, container[s] # Nil
        PROVE  \E i \in DOMAIN requests :
                 FirstAnswer(requests, i) /\ container[s].key = requests[i].ssm
    BY <2>3, <2>4, <2>5, <2>6 DEF OneKey
  <2> QED
    BY <2>6 DEF ClientsShareTheKey, FirstAnswer, SSMAnswers, requests, container
<1>2. input \in Inputs => ClientsShareTheKey
  BY <1>1 DEF ClientsShareTheKey
<1> QED
  BY <1>2, InputStays, PTL

\* A request during which SSM answers gets its client, whatever came before
\* (container.go:146).
THEOREM LookupsAreRetried == Spec => []LookupIsRetried
<1>1. ASSUME input \in Inputs, input.of = "instance",
             NEW i \in DOMAIN input.requests, SSMAnswers(input.requests[i])
      PROVE  LET container == Instance!After(SubSeq(input.requests, 1, i))
                 need == input.requests[i].need
             IN container[need] # Nil /\ container[need].key # Failed
  <2> DEFINE requests == input.requests
             served == SubSeq(requests, 1, i)
             container == Instance!After(served)
             need == requests[i].need
  <2>1. requests \in Seq(Requests)
    BY <1>1, InstanceInputsAssumption DEF Requests
  <2>2. SSMAnswers(requests[i]) /\ i \in DOMAIN requests
    BY <1>1
  <2> HIDE DEF requests
  <2>3. /\ served \in Seq(Requests) /\ Len(served) = i /\ i \in 1..i /\ i - 1 \in 0..i
        /\ served[i] = requests[i] /\ requests[i] \in Requests
    BY <2>1, <2>2
  <2> HIDE DEF served
  <2>4. PICK acc : Serving(acc, served) /\ container = acc[i]
    BY <2>3, AfterSteps
  <2>5. /\ acc[i - 1] \in Containers /\ OneKey(acc[i - 1])
        /\ container = Instance!Serve(acc[i - 1], requests[i])
    BY <2>3, <2>4 DEF Serving
  <2> HIDE DEF container
  <2>6. container \in Containers /\ OneKey(container) /\ container[need] # Nil
    BY <2>2, <2>3, <2>5, Served DEF Moves
  <2>7. need \in Instance!Services
    BY <2>2, <2>3 DEF Requests, SSMAnswers
  <2>8. container[need].key = container.value /\ container.value \in Keys
    BY <2>6, <2>7 DEF OneKey, Containers, Optional
  <2> QED
    BY <2>6, <2>8, InstanceInputsAssumption DEF container, served, requests
<1>2. input \in Inputs => LookupIsRetried
  BY <1>1 DEF LookupIsRetried, SSMAnswers
<1> QED
  BY <1>2, InputStays, PTL

-----------------------------------------------------------------------------
(* The ids of contributors *)

\* Two ways of cutting a list in two.
Joins(a, b, c, d) == a \o b = c \o d

\* Appending is associative.
LEMMA Associative ==
  ASSUME NEW V, NEW a \in Seq(V), NEW b \in Seq(V), NEW c \in Seq(V)
  PROVE  Joins(a \o b, c, a, b \o c)
<1>1. (a \o b) \o c = a \o (b \o c)
  OBVIOUS
<1> QED
  BY <1>1 DEF Joins

\* Where the elements of two lists are when one is appended to the other.
AreJoined(all, a, b) ==
  /\ Len(all) = Len(a) + Len(b)
  /\ \A i \in 1..Len(a) : all[i] = a[i]
  /\ \A i \in 1..Len(b) : all[Len(a) + i] = b[i]

\* Appending puts them there.
LEMMA Joined ==
  ASSUME NEW V, NEW a \in Seq(V), NEW b \in Seq(V)
  PROVE  a \o b \in Seq(V) /\ AreJoined(a \o b, a, b)
<1>1. a \o b \in Seq(V) /\ Len(a \o b) = Len(a) + Len(b)
  OBVIOUS
<1>2. \A i \in 1..Len(a) : (a \o b)[i] = a[i]
  OBVIOUS
<1>3. \A i \in 1..Len(b) : (a \o b)[Len(a) + i] = b[i]
  OBVIOUS
<1> QED
  BY <1>1, <1>2, <1>3 DEF AreJoined

\* Bytes that begin with a label, the field u and its end, followed by r.
Holds(all, u, r) ==
  /\ Len(all) = Len(u) + 3 + Len(r)
  /\ \A i \in 1..Len(u) : all[i + 2] = u[i]
  /\ all[Len(u) + 3] = ID!Separator
  /\ \A i \in 1..Len(r) : all[Len(u) + 3 + i] = r[i]

\* Where the bytes of a field are, and those after it.
LEMMA WrittenField ==
  ASSUME NEW label \in Symbols, NEW u \in Seq(Symbols), NEW r \in Seq(Symbols)
  PROVE  /\ ID!WriteString(label, u) \in Seq(Symbols)
         /\ ID!WriteString(label, u) \o r \in Seq(Symbols)
         /\ Holds(ID!WriteString(label, u) \o r, u, r)
<1> DEFINE head == <<label, ID!Separator>>
           end == <<ID!Separator>>
           start == head \o u
           field == start \o end
           all == field \o r
<1>1. ID!Separator \in Symbols
  BY ContributorInputsAssumption
<1>2. /\ head \in Seq(Symbols) /\ Len(head) = 2
      /\ end \in Seq(Symbols) /\ Len(end) = 1 /\ end[1] = ID!Separator
  BY <1>1
<1>3. field = ID!WriteString(label, u)
  BY DEF ID!WriteString
<1> HIDE DEF head, end
<1>4. start \in Seq(Symbols) /\ AreJoined(start, head, u)
  BY <1>2, Joined, Zenon
<1> HIDE DEF start
<1>5. field \in Seq(Symbols) /\ AreJoined(field, start, end)
  BY <1>2, <1>4, Joined, Zenon
<1> HIDE DEF field
<1>6. all \in Seq(Symbols) /\ AreJoined(all, field, r)
  BY <1>5, Joined, Zenon
<1> HIDE DEF all
<1> USE DEF AreJoined
<1>7. Len(u) \in Nat /\ Len(r) \in Nat
  OBVIOUS
<1>8. Len(start) = Len(u) + 2 /\ Len(field) = Len(u) + 3
  BY <1>2, <1>4, <1>5, <1>7
<1>9. \A i \in 1..Len(u) : all[i + 2] = u[i]
  <2>1. SUFFICES ASSUME NEW i \in 1..Len(u) PROVE all[i + 2] = u[i]
    OBVIOUS
  <2>2. i + 2 \in 1..Len(start) /\ i + 2 \in 1..Len(field) /\ i + 2 = Len(head) + i
    BY <1>2, <1>7, <1>8
  <2> QED
    BY <1>4, <1>5, <1>6, <2>2
<1>10. all[Len(u) + 3] = ID!Separator
  <2>1. 1 \in 1..Len(end) /\ Len(start) + 1 = Len(u) + 3 /\ Len(u) + 3 \in 1..Len(field)
    BY <1>2, <1>7, <1>8
  <2> QED
    BY <1>2, <1>5, <1>6, <2>1
<1>11. Holds(all, u, r)
  BY <1>6, <1>7, <1>8, <1>9, <1>10 DEF Holds
<1> QED
  BY <1>3, <1>5, <1>6, <1>11 DEF all

\* Bytes hold one field at most up to the first separator.
LEMMA HoldsOnce ==
  ASSUME NEW all, NEW u \in Seq(Symbols), NEW v \in Seq(Symbols),
         NEW r \in Seq(Symbols), NEW s \in Seq(Symbols),
         ID!Separator \notin ToSet(v), Holds(all, u, r), Holds(all, v, s)
  PROVE  ~ (Len(u) < Len(v))
<1>1. SUFFICES ASSUME Len(u) < Len(v) PROVE FALSE
  OBVIOUS
<1>2. \A i \in 1..Len(v) : v[i] # ID!Separator
  BY DEF ToSet
<1>3. Len(u) \in Nat /\ Len(v) \in Nat
  OBVIOUS
<1>4. Len(u) + 1 \in 1..Len(v) /\ (Len(u) + 1) + 2 = Len(u) + 3
  BY <1>1, <1>3
<1>5. all[(Len(u) + 1) + 2] = v[Len(u) + 1]
  BY <1>4 DEF Holds
<1> QED
  BY <1>2, <1>4, <1>5 DEF Holds

\* The field and what comes after it are the same.
Same(u, v, r, s) == u = v /\ r = s

\* A field that does not hold the separator, and what comes after it, can be
\* read back.
LEMMA FieldsReadBack ==
  ASSUME NEW label \in Symbols, NEW u \in Seq(Symbols), NEW v \in Seq(Symbols),
         ID!Separator \notin ToSet(u), ID!Separator \notin ToSet(v),
         NEW r \in Seq(Symbols), NEW s \in Seq(Symbols),
         ID!WriteString(label, u) \o r = ID!WriteString(label, v) \o s
  PROVE  Same(u, v, r, s)
<1> DEFINE all == ID!WriteString(label, u) \o r
<1>1. Holds(all, u, r)
  BY WrittenField
<1>2. Holds(all, v, s)
  <2>1. Holds(ID!WriteString(label, v) \o s, v, s)
    BY WrittenField
  <2> QED
    BY <2>1
<1> HIDE DEF all
<1>3. Len(u) \in Nat /\ Len(v) \in Nat /\ Len(r) \in Nat /\ Len(s) \in Nat
  OBVIOUS
<1>4. ~ (Len(u) < Len(v)) /\ ~ (Len(v) < Len(u))
  BY <1>1, <1>2, HoldsOnce
<1>5. Len(u) = Len(v)
  BY <1>3, <1>4
<1>6. Len(r) = Len(s)
  BY <1>1, <1>2, <1>3, <1>5 DEF Holds
<1>7. \A i \in 1..Len(u) : u[i] = v[i]
  BY <1>1, <1>2, <1>5 DEF Holds
<1>8. \A i \in 1..Len(r) : r[i] = s[i]
  BY <1>1, <1>2, <1>5, <1>6 DEF Holds
<1>9. u = v
  BY <1>5, <1>7
<1>10. r = s
  BY <1>6, <1>8
<1> QED
  BY <1>9, <1>10 DEF Same

\* What is written of the i-th of the first five fields, and of the last one.
Part(c, i) == ID!WriteString(ID!Labels[i], c[ID!Labels[i]])
User(c) == ID!WriteInt64("UserID", c.UserID)

\* The fields are written one after the other.
LEMMA WrittenInOrder ==
  ASSUME NEW c \in Contributors
  PROVE  /\ \A i \in 1..5 : /\ c[ID!Labels[i]] \in Seq(Symbols) /\ ID!Labels[i] \in Symbols
                            /\ ID!Separator \notin ToSet(c[ID!Labels[i]])
                            /\ Part(c, i) \in Seq(Symbols)
         /\ User(c) \in Seq(Symbols)
         /\ ID!Written(c) =
              Part(c, 1) \o (Part(c, 2) \o (Part(c, 3) \o (Part(c, 4) \o (Part(c, 5) \o User(c)))))
<1> DEFINE parts == [i \in DOMAIN ID!Labels |-> Part(c, i)]
           V == Symbols
<1>1. DOMAIN ID!Labels = 1..5 /\ \A i \in 1..5 : ID!Labels[i] \in ToSet(ID!Labels)
  BY DEF ID!Labels, ToSet
<1>2. /\ c.UserID \in Seq(V)
      /\ \A i \in 1..5 : c[ID!Labels[i]] \in Seq(V)
  <2>1. c \in [FirstName : Seq(Symbols), LastName : Seq(Symbols), ORCID : Seq(Symbols),
               MiddleInitial : Seq(Symbols), Degree : Seq(Symbols), UserID : Seq(Symbols)]
    BY ContributorInputsAssumption
  <2>2. \A i \in 1..5 : i \in {1, 2, 3, 4, 5}
    OBVIOUS
  <2> QED
    BY <2>1, <2>2 DEF ID!Labels
<1>3. /\ \A i \in 1..5 : ID!Labels[i] \in V /\ ID!Separator \notin ToSet(c[ID!Labels[i]])
      /\ "UserID" \in V
  BY <1>1, ContributorInputsAssumption
<1>4. \A i \in 1..5 : Part(c, i) \in Seq(V)
  <2>1. <<>> \in Seq(V)
    OBVIOUS
  <2> QED
    BY <1>2, <1>3, <2>1, WrittenField, Zenon DEF Part
<1>5. User(c) \in Seq(V)
  <2>1. <<>> \in Seq(V)
    OBVIOUS
  <2>2. ID!WriteString("UserID", c.UserID) \in Seq(V)
    BY <1>2, <1>3, <2>1, WrittenField, Zenon
  <2> QED
    BY <2>2 DEF User, ID!WriteInt64, ID!WriteString
<1>6. ID!Written(c) = FlattenSeq(parts) \o User(c)
  BY Zenon DEF ID!Written, ID!FlattenSeq, FlattenSeq, Part, User
<1>7. parts \in Seq(Seq(V)) /\ Len(parts) = 5 /\ \A i \in 1..5 : parts[i] = Part(c, i)
  <2>1. parts \in [1..5 -> Seq(V)] /\ \A i \in 1..5 : parts[i] = Part(c, i)
    BY <1>1, <1>4
  <2> QED
    BY <2>1
<1> HIDE DEF parts
<1>8. PICK acc : Flattens(acc, V, parts) /\ FlattenSeq(parts) = acc[5]
  BY <1>7, FlattenSteps
<1>9. ASSUME NEW i \in 1..5, NEW j \in 0..5, i = j + 1,
             NEW rest \in Seq(V), NEW tail, tail = Part(c, i) \o rest
      PROVE  Joins(acc[i], rest, acc[j], tail) /\ tail \in Seq(V)
  <2>1. Part(c, i) \in Seq(V) /\ j = i - 1
    BY <1>4, <1>9
  <2>2. acc[j] \in Seq(V) /\ acc[i] = acc[j] \o Part(c, i)
    BY <1>7, <1>8, <2>1 DEF Flattens
  <2>3. Joins(acc[j] \o Part(c, i), rest, acc[j], Part(c, i) \o rest)
    BY <2>1, <2>2, Associative, Zenon
  <2>4. tail \in Seq(V)
    BY <2>1, <1>9
  <2> QED
    BY <1>9, <2>2, <2>3, <2>4, Zenon
<1> DEFINE r5 == User(c)
           r4 == Part(c, 5) \o r5
           r3 == Part(c, 4) \o r4
           r2 == Part(c, 3) \o r3
           r1 == Part(c, 2) \o r2
           r0 == Part(c, 1) \o r1
<1>17. /\ r5 \in Seq(V) /\ r4 = Part(c, 5) \o r5 /\ r3 = Part(c, 4) \o r4
       /\ r2 = Part(c, 3) \o r3 /\ r1 = Part(c, 2) \o r2 /\ r0 = Part(c, 1) \o r1
       /\ acc[0] = <<>>
  BY <1>5, <1>8 DEF Flattens
<1>18. ID!Written(c) = acc[5] \o r5
  BY <1>6, <1>8, Zenon
<1> HIDE DEF r0, r1, r2, r3, r4, r5, parts
<1>10. Joins(acc[5], r5, acc[4], r4) /\ r4 \in Seq(V)
  <2>1. 5 \in 1..5 /\ 4 \in 0..5 /\ 5 = 4 + 1
    OBVIOUS
  <2> QED
    BY <1>9, <1>17, <2>1, Zenon
<1>11. Joins(acc[4], r4, acc[3], r3) /\ r3 \in Seq(V)
  <2>1. 4 \in 1..5 /\ 3 \in 0..5 /\ 4 = 3 + 1
    OBVIOUS
  <2> QED
    BY <1>9, <1>17, <1>10, <2>1, Zenon
<1>12. Joins(acc[3], r3, acc[2], r2) /\ r2 \in Seq(V)
  <2>1. 3 \in 1..5 /\ 2 \in 0..5 /\ 3 = 2 + 1
    OBVIOUS
  <2> QED
    BY <1>9, <1>17, <1>11, <2>1, Zenon
<1>13. Joins(acc[2], r2, acc[1], r1) /\ r1 \in Seq(V)
  <2>1. 2 \in 1..5 /\ 1 \in 0..5 /\ 2 = 1 + 1
    OBVIOUS
  <2> QED
    BY <1>9, <1>17, <1>12, <2>1, Zenon
<1>14. Joins(acc[1], r1, acc[0], r0) /\ r0 \in Seq(V)
  <2>1. 1 \in 1..5 /\ 0 \in 0..5 /\ 1 = 0 + 1
    OBVIOUS
  <2> QED
    BY <1>9, <1>17, <1>13, <2>1, Zenon
<1>15. acc[0] \o r0 = r0
  BY <1>14, <1>17
<1>16. ID!Written(c) = r0
  BY <1>6, <1>8, <1>10, <1>11, <1>12, <1>13, <1>14, <1>15, <1>18, Zenon DEF Joins
<1> QED
  BY <1>2, <1>3, <1>4, <1>5, <1>16, Zenon DEF r0, r1, r2, r3, r4, r5

\* Different contributors are hashed from different bytes
\* (discover_models.go:154).
LEMMA ContributorsDiffer ==
  ASSUME NEW c \in Contributors, NEW d \in Contributors, ID!Written(c) = ID!Written(d)
  PROVE  c = d
<1> DEFINE u(i) == c[ID!Labels[i]]
           v(i) == d[ID!Labels[i]]
           V == Symbols
<1>1. ASSUME NEW i \in 1..5, NEW r \in Seq(V), NEW s \in Seq(V),
             Part(c, i) \o r = Part(d, i) \o s
      PROVE  Same(u(i), v(i), r, s)
  <2>1. /\ u(i) \in Seq(V) /\ ID!Labels[i] \in V
        /\ ID!Separator \notin ToSet(u(i)) /\ v(i) \in Seq(V)
        /\ ID!Separator \notin ToSet(v(i))
    BY WrittenInOrder
  <2>2. ID!WriteString(ID!Labels[i], u(i)) \o r = ID!WriteString(ID!Labels[i], v(i)) \o s
    BY <1>1 DEF Part
  <2> HIDE DEF u, v
  <2> QED
    BY <2>1, <2>2, FieldsReadBack, Zenon
<1> HIDE DEF u, v
<1> DEFINE t5(x) == User(x)
           t4(x) == Part(x, 5) \o t5(x)
           t3(x) == Part(x, 4) \o t4(x)
           t2(x) == Part(x, 3) \o t3(x)
           t1(x) == Part(x, 2) \o t2(x)
           t0(x) == Part(x, 1) \o t1(x)
<1>2. ASSUME NEW x \in Contributors
      PROVE  /\ t1(x) \in Seq(V) /\ t2(x) \in Seq(V) /\ t3(x) \in Seq(V)
             /\ t4(x) \in Seq(V) /\ t5(x) \in Seq(V)
             /\ ID!Written(x) = t0(x)
  <2>1. User(x) \in Seq(V) /\ ID!Written(x) = t0(x)
    BY WrittenInOrder, Zenon
  <2>2. /\ Part(x, 2) \in Seq(V) /\ Part(x, 3) \in Seq(V) /\ Part(x, 4) \in Seq(V)
        /\ Part(x, 5) \in Seq(V)
    <3>1. 2 \in 1..5 /\ 3 \in 1..5 /\ 4 \in 1..5 /\ 5 \in 1..5
      OBVIOUS
    <3> QED
      BY <3>1, WrittenInOrder, Zenon
  <2> QED
    BY <2>1, <2>2
<1>3. /\ t0(c) = Part(c, 1) \o t1(c) /\ t0(d) = Part(d, 1) \o t1(d)
      /\ t1(c) = Part(c, 2) \o t2(c) /\ t1(d) = Part(d, 2) \o t2(d)
      /\ t2(c) = Part(c, 3) \o t3(c) /\ t2(d) = Part(d, 3) \o t3(d)
      /\ t3(c) = Part(c, 4) \o t4(c) /\ t3(d) = Part(d, 4) \o t4(d)
      /\ t4(c) = Part(c, 5) \o t5(c) /\ t4(d) = Part(d, 5) \o t5(d)
  OBVIOUS
<1> HIDE DEF t0, t1, t2, t3, t4, t5, V
<1>4. 1 \in 1..5 /\ 2 \in 1..5 /\ 3 \in 1..5 /\ 4 \in 1..5 /\ 5 \in 1..5
  OBVIOUS
<1>5. t0(c) = t0(d)
  BY <1>2, Zenon
<1>6. Same(u(1), v(1), t1(c), t1(d))
  BY <1>1, <1>2, <1>3, <1>4, <1>5, Zenon
<1>7. Same(u(2), v(2), t2(c), t2(d))
  <2>1. t1(c) = t1(d)
    BY <1>6 DEF Same
  <2> QED
    BY <1>1, <1>2, <1>3, <1>4, <2>1, Zenon
<1>8. Same(u(3), v(3), t3(c), t3(d))
  <2>1. t2(c) = t2(d)
    BY <1>7 DEF Same
  <2> QED
    BY <1>1, <1>2, <1>3, <1>4, <2>1, Zenon
<1>9. Same(u(4), v(4), t4(c), t4(d))
  <2>1. t3(c) = t3(d)
    BY <1>8 DEF Same
  <2> QED
    BY <1>1, <1>2, <1>3, <1>4, <2>1, Zenon
<1>10. Same(u(5), v(5), t5(c), t5(d))
  <2>1. t4(c) = t4(d)
    BY <1>9 DEF Same
  <2> QED
    BY <1>1, <1>2, <1>3, <1>4, <2>1, Zenon
<1>11. c.UserID = d.UserID
  <2> DEFINE a == ID!WriteString("UserID", c.UserID)
             b == ID!WriteString("UserID", d.UserID)
  <2>1. /\ "UserID" \in V /\ c.UserID \in Seq(V) /\ d.UserID \in Seq(V) /\ <<>> \in Seq(V)
    BY ContributorInputsAssumption DEF V
  <2>2. a = b
    BY <1>10, Zenon DEF Same, t5, User, ID!WriteInt64, ID!WriteString
  <2>3. Holds(a \o <<>>, c.UserID, <<>>) /\ Holds(b \o <<>>, d.UserID, <<>>)
    BY <2>1, WrittenField, Zenon DEF V
  <2> HIDE DEF a, b
  <2>4. Len(c.UserID) = Len(d.UserID) /\ \A i \in 1..Len(c.UserID) : c.UserID[i] = d.UserID[i]
    BY <2>1, <2>2, <2>3 DEF Holds
  <2> QED
    BY <2>1, <2>4
<1>12. \A i \in 1..5 : u(i) = v(i)
  <2>1. \A i \in 1..5 : i \in {1, 2, 3, 4, 5}
    OBVIOUS
  <2>2. u(1) = v(1) /\ u(2) = v(2) /\ u(3) = v(3) /\ u(4) = v(4) /\ u(5) = v(5)
    BY <1>6, <1>7, <1>8, <1>9, <1>10 DEF Same
  <2> QED
    BY <2>1, <2>2
<1>13. /\ c.FirstName = d.FirstName /\ c.LastName = d.LastName /\ c.ORCID = d.ORCID
       /\ c.MiddleInitial = d.MiddleInitial /\ c.Degree = d.Degree
  BY <1>4, <1>12 DEF u, v, ID!Labels
<1>14. \A x \in {c, d} :
         x \in [FirstName : Seq(Symbols), LastName : Seq(Symbols), ORCID : Seq(Symbols),
               MiddleInitial : Seq(Symbols), Degree : Seq(Symbols), UserID : Seq(Symbols)]
  BY ContributorInputsAssumption
<1> QED
  BY <1>11, <1>13, <1>14

\* Different contributors are hashed from different bytes, whatever their
\* fields hold (discover_models.go:154).
THEOREM ContributorsDifferInId == Spec => []ContributorsAreToldApart
<1>1. input \in Inputs => ContributorsAreToldApart
  BY ContributorInputsAssumption, ContributorsDiffer DEF ContributorsAreToldApart
<1> QED
  BY InputStays, <1>1, PTL

-----------------------------------------------------------------------------
(* The DOIs that are let in, published and shown *)

\* Pennsieve's DOIs that Discover does not say are unpublished.
Open(discover) == Pennsieve \ discover.unpublished

\* What is let in is open.
LEMMA NewAreOpen ==
  ASSUME NEW strings \in Seq([doi : DOIs, padded : BOOLEAN]), NEW discover,
         NEW dois \in Seq(Open(discover)), Accepts(strings, dois, discover)
  PROVE  dois \o NewDOIs(strings, dois) \in Seq(Open(discover))
<1> DEFINE new == NewDOIs(strings, dois)
           response == GetDatasetsByDOI(discover, new)
<1>1. new \in Seq(DOIs) /\ ToSet(new) \subseteq Pennsieve
  <2> DEFINE list == CategorizeDOIs(strings).pennsieve
  <2>1. list \in Seq(DOIs) /\ ToSet(list) \subseteq Pennsieve
    BY CategorizedElements
  <2>2. new = Without(list, ToSet(dois))
    BY DEF NewDOIs
  <2> HIDE DEF list, new
  <2>3. Without(list, ToSet(dois)) \in Seq(DOIs)
        /\ ToSet(Without(list, ToSet(dois))) = ToSet(list) \ ToSet(dois)
    BY <2>1, WithoutElements
  <2> QED
    BY <2>1, <2>2, <2>3
<1>2. new # <<>> => response.ok /\ response.unpublished = {}
  BY DEF Accepts, ValidateDiscoverResponse
<1> HIDE DEF new
<1>3. CASE new = <<>>
  BY <1>3 DEF new
<1>4. CASE new # <<>>
  <2>1. response.unpublished = discover.unpublished \cap ToSet(new)
    BY <1>2, <1>4 DEF GetDatasetsByDOI, NoDatasets
  <2>2. ToSet(new) \subseteq Open(discover)
    BY <1>1, <1>2, <1>4, <2>1 DEF Open
  <2>3. new \in Seq(Open(discover))
    BY <1>1, <2>2, ListWithin
  <2>4. dois \o new \in Seq(Open(discover))
    BY <2>3
  <2> QED
    BY <2>4 DEF new
<1> QED
  BY <1>3, <1>4

\* A collection that is built by requests holds open DOIs only.
LEMMA GrownAreOpen ==
  ASSUME NEW requests \in Seq(Seq([doi : DOIs, padded : BOOLEAN])), NEW discover
  PROVE  Grown(requests, discover) \in Seq(Open(discover))
<1> DEFINE s == requests
           V == Seq([doi : DOIs, padded : BOOLEAN])
           R == Seq(Open(discover))
           Add(dois, strings) ==
             IF Accepts(strings, dois, discover) THEN dois \o NewDOIs(strings, dois) ELSE dois
           op == [re \in R \X V |-> Add(re[1], re[2])]
           Eq(h) == h = [t \in SUBSET DOMAIN s |->
                           IF t = {} THEN <<>> ELSE Add(h[t \ {Max(t)}], s[Max(t)])]
           iter == CHOOSE h : Eq(h)
<1>1. IsFold(R, V, <<>>, op, s) /\ \A dois \in R, x \in V : op[<<dois, x>>] = Add(dois, x)
  <2>1. \A dois \in R, x \in V : Add(dois, x) \in R
    BY NewAreOpen
  <2>2. <<>> \in R
    OBVIOUS
  <2> HIDE DEF R, V, Add
  <2> QED
    BY <2>1, <2>2 DEF IsFold, V
<1>2. Grown(s, discover) = iter[DOMAIN s]
  BY DEF Grown, FoldLeft, MapThenFoldSet
<1> HIDE DEF op, Add, R, V
<1>3. s \in Seq(V)
  BY DEF V
<1>4. \E h : Eq(h)
  <2>1. PICK h \in [SUBSET DOMAIN s -> R] : Solves(h, <<>>, op, s)
    BY <1>1, FoldExists
  <2>2. ASSUME NEW t \in SUBSET DOMAIN s
        PROVE  h[t] = IF t = {} THEN <<>> ELSE Add(h[t \ {Max(t)}], s[Max(t)])
    BY <1>1, <1>3, <2>1, MaxOfPositions DEF Solves
  <2>3. Eq(h)
    BY <2>1, <2>2
  <2> QED
    BY <2>3
<1>5. Eq(iter)
  <2> HIDE DEF Eq
  <2> QED
    BY <1>4
<1>6. Satisfies(iter, R, <<>>, op, s)
  <2> HIDE DEF iter
  <2> QED
    BY <1>1, <1>3, <1>5, MaxOfPositions DEF Satisfies
<1> HIDE DEF iter
<1>7. PICK acc : Accumulates(acc, R, <<>>, op, s) /\ iter[DOMAIN s] = acc[Len(s)]
  BY <1>1, <1>6, FoldSteps
<1>8. acc[Len(s)] \in R
  BY <1>3, <1>7 DEF Accumulates
<1> QED
  BY <1>2, <1>7, <1>8 DEF R

\* The DOIs of a collection that are looked up are those of Pennsieve, in order.
LEMMA PennsieveOf ==
  ASSUME NEW dois \in Seq(DOIs)
  PROVE  GroupByDatasource(Sourced(dois)).pennsieve
           = At(dois, {i \in 1..Len(dois) : dois[i] \in Pennsieve})
<1> DEFINE V == [value : DOIs, datasource : {"Pennsieve", "External"}]
           s == Sourced(dois)
           S == {doi \in ToSet(s) : doi.datasource = "Pennsieve"}
           P == {i \in 1..Len(dois) : dois[i] \in Pennsieve}
           r == Values(At(s, P))
<1>0. DOMAIN dois = 1..Len(dois) /\ Len(dois) \in Nat /\ \A i \in 1..Len(dois) : dois[i] \in DOIs
  OBVIOUS
<1>1. /\ s \in Seq(V) /\ Len(s) = Len(dois)
      /\ \A i \in 1..Len(dois) : /\ s[i].value = dois[i]
                                 /\ s[i].datasource = "Pennsieve" <=> dois[i] \in Pennsieve
  <2>1. s \in [1..Len(dois) -> V]
    BY <1>0 DEF Sourced
  <2> QED
    BY <1>0, <2>1 DEF Sourced
<1> HIDE DEF s
<1>2. {i \in 1..Len(s) : s[i] \in S} = P
  <2>1. \A i \in 1..Len(s) : s[i] \in ToSet(s)
    BY <1>1 DEF ToSet
  <2> QED
    BY <1>1, <2>1
<1>3. Kept(s, S) = At(s, P)
  BY <1>1, <1>2, KeptIsAt
<1> HIDE DEF S
<1>4. P \in SUBSET (1..Len(s)) /\ P \in SUBSET (1..Len(dois))
  BY <1>1
<1> HIDE DEF P
<1> DEFINE kept == At(s, P)
<1>5. /\ kept \in Seq(V) /\ Len(kept) = Cardinality(P)
      /\ \A i \in P : kept[Rank(P, i)] = s[i]
  BY <1>1, <1>4, AtRanks
<1>6. /\ \A i \in P : Rank(P, i) \in 1..Cardinality(P)
      /\ Cardinality(P) \in Nat
  BY <1>0, <1>4, RanksAreNumbers, PositionsFinite
<1> HIDE DEF kept
<1>7. DOMAIN kept = 1..Cardinality(P) /\ \A m \in 1..Cardinality(P) : kept[m] \in V
  <2> HIDE DEF V
  <2> QED
    BY <1>5, <1>6
<1>8. r \in Seq(DOIs) /\ Len(r) = Cardinality(P) /\ \A m \in 1..Cardinality(P) : r[m] = kept[m].value
  <2>1. r \in [1..Cardinality(P) -> DOIs] /\ \A m \in 1..Cardinality(P) : r[m] = kept[m].value
    BY <1>7 DEF Values, kept
  <2> QED
    BY <1>6, <2>1
<1> HIDE DEF r
<1>9. \A i \in P : r[Rank(P, i)] = dois[i]
  BY <1>1, <1>4, <1>5, <1>6, <1>8
<1>10. r = At(dois, P)
  BY <1>4, <1>8, <1>9, IsAt
<1> QED
  BY <1>3, <1>10 DEF GroupByDatasource, r, kept, s, S, P

\* What create and patch have let in is what the view looks up.
LEMMA GrownIsLookedUp ==
  ASSUME NEW requests \in Seq(Seq([doi : DOIs, padded : BOOLEAN])), NEW discover
  PROVE  LET dois == Grown(requests, discover) IN
         /\ dois \in Seq(DOIs) /\ ToSet(dois) \subseteq Open(discover)
         /\ dois = GroupByDatasource(Sourced(dois)).pennsieve
<1> DEFINE dois == Grown(requests, discover)
<1>1. dois \in Seq(Open(discover))
  BY GrownAreOpen
<1> HIDE DEF dois
<1>2. dois \in Seq(DOIs) /\ ToSet(dois) \subseteq Open(discover)
  BY <1>1, ListWithin, ElementsOfList, ViewInputsAssumption DEF Open
<1>3. {i \in 1..Len(dois) : dois[i] \in Pennsieve} = 1..Len(dois)
  BY <1>1 DEF Open
<1>4. GroupByDatasource(Sourced(dois)).pennsieve = dois
  BY <1>2, <1>3, PennsieveOf, AllPositions
<1> QED
  BY <1>2, <1>4 DEF dois

\* What the view knows of Discover.
Looked(discover, dois) ==
  IF dois = <<>> THEN NoDatasets(TRUE) ELSE GetDatasetsByDOI(discover, dois)

\* The lookup tells of the DOIs that are looked up what Discover knows of them.
LEMMA LookedUp ==
  ASSUME NEW discover, NEW dois \in Seq(DOIs), Len(dois) <= MaxPerRequest
  PROVE  /\ Looked(discover, dois).ok
         /\ DOMAIN Looked(discover, dois).published = ToSet(dois) \cap DOMAIN discover.published
         /\ \A doi \in ToSet(dois) \cap DOMAIN discover.published :
              Looked(discover, dois).published[doi] = Decoded(doi, discover.published[doi])
         /\ Looked(discover, dois).unpublished = discover.unpublished \cap ToSet(dois)
<1>1. CASE dois = <<>>
  <2>1. ToSet(dois) = {} /\ DOMAIN <<>> = {}
    BY <1>1 DEF ToSet
  <2> QED
    BY <1>1, <2>1 DEF Looked, NoDatasets
<1>2. CASE dois # <<>>
  <2> DEFINE published == [doi \in ToSet(dois) \cap DOMAIN discover.published |->
                            Decoded(doi, discover.published[doi])]
  <2>1. ~ (Len(dois) > MaxPerRequest)
    BY LimitsAssumption
  <2>2. Looked(discover, dois) =
          [ok |-> TRUE, published |-> published, unpublished |-> discover.unpublished \cap ToSet(dois)]
    BY <1>2, <2>1 DEF Looked, GetDatasetsByDOI
  <2>3. /\ DOMAIN published = ToSet(dois) \cap DOMAIN discover.published
        /\ \A doi \in ToSet(dois) \cap DOMAIN discover.published :
             published[doi] = Decoded(doi, discover.published[doi])
    OBVIOUS
  <2> HIDE DEF published
  <2> QED
    BY <2>2, <2>3
<1> QED
  BY <1>1, <1>2

\* What the view lists: the contributors of the datasets that were found, as
\* they come, and the datasets of the DOIs.
Merged(dois, response) ==
  LET found == Kept(dois, DOMAIN response.published)
  IN FlattenSeq([i \in DOMAIN found |-> response.published[found[i]].contributors])

\* A view that shows dois, of which Discover has told the response.
Shows(view, dois, response) ==
  /\ view.banners = CollectBanners(dois, Banners(response.published), MaxBanners)
  /\ view.datasets = [i \in DOMAIN dois |-> Dataset(dois[i], response)]
  /\ view.derivedContributors = Shown(Deduplicated(Merged(dois, response)))

\* The view is made of what was looked up.
LEMMA ViewOf ==
  ASSUME NEW discover, NEW stored, NEW dois \in Seq(DOIs), Len(dois) <= MaxPerRequest,
         dois = GroupByDatasource(stored).pennsieve
  PROVE  Shows(StoreToDTOCollection(stored, discover), dois, Looked(discover, dois))
<1> DEFINE response == Looked(discover, dois)
           banners == CollectBanners(dois, Banners(response.published), MaxBanners)
           datasets == [i \in DOMAIN dois |-> Dataset(dois[i], response)]
           contributors == Shown(Deduplicated(Merged(dois, response)))
           view == StoreToDTOCollection(stored, discover)
<1>1. response.ok
  BY LookedUp
<1>2. view = [banners |-> banners, datasets |-> datasets, derivedContributors |-> contributors]
  BY <1>1, Zenon DEF StoreToDTOCollection, Looked, Merged
<1>3. /\ view.banners = banners /\ view.datasets = datasets
      /\ view.derivedContributors = contributors
  <2> HIDE DEF view, banners, datasets, contributors
  <2> QED
    BY <1>2
<1> QED
  BY <1>3, Zenon DEF Shows

\* The DOIs that create and patch let in are let through by a publish as well,
\* and the view shows each as published or unknown (dois.go:47,
\* publish_collection.go:102, mapping.go:68).
THEOREM AcceptedShown == Spec => []AcceptedDOIsAreShown
<1>1. ASSUME input \in Inputs, input.of = "view"
      PROVE  AcceptedDOIsAreShown
  <2> DEFINE discover == input.discover
             dois == Grown(input.requests, discover)
             stored == Sourced(dois)
             view == StoreToDTOCollection(stored, discover)
             response == Looked(discover, dois)
             known == ToSet(dois) \cap DOMAIN discover.published
  <2>1. input.requests \in Seq(Seq([doi : DOIs, padded : BOOLEAN]))
    BY <1>1, ViewInputsAssumption
  <2>2. dois \in Seq(DOIs) /\ ToSet(dois) \subseteq Open(discover)
        /\ dois = GroupByDatasource(stored).pennsieve
    BY <2>1, GrownIsLookedUp, Zenon
  <2> HIDE DEF dois
  <2>3. GroupByDatasource(stored).pennsieve = dois
    BY <2>2
  <2>4. SUFFICES ASSUME dois # <<>>, Len(dois) <= MaxPerRequest
                 PROVE  /\ MayPublish(stored, discover)
                        /\ [i \in DOMAIN view.datasets |-> view.datasets[i].doi] = dois
                        /\ \A d \in ToSet(view.datasets) :
                             d.status = IF d.doi \in known THEN "PUBLISHED" ELSE "UNKNOWN"
    BY DEF AcceptedDOIsAreShown, dois
  <2>5. /\ response.ok /\ DOMAIN response.published = known
        /\ response.unpublished = {}
    BY <2>2, <2>4, LookedUp DEF Open
  <2>6. MayPublish(stored, discover)
    BY <2>3, <2>4, <2>5 DEF MayPublish, Looked
  <2>7. view.datasets = [i \in DOMAIN dois |-> Dataset(dois[i], response)]
    <3>1. Shows(view, dois, response)
      <4> HIDE DEF stored
      <4> QED
        BY <2>2, <2>3, <2>4, ViewOf, Zenon
    <3> QED
      BY <3>1, Zenon DEF Shows
  <2> HIDE DEF stored, view, response, known
  <2>8. ASSUME NEW i \in DOMAIN dois
        PROVE  /\ Dataset(dois[i], response).doi = dois[i]
               /\ Dataset(dois[i], response).status
                    = IF dois[i] \in known THEN "PUBLISHED" ELSE "UNKNOWN"
    BY <2>5 DEF Dataset
  <2>9. [i \in DOMAIN view.datasets |-> view.datasets[i].doi] = dois
    <3>1. dois = [i \in DOMAIN dois |-> dois[i]]
      BY <2>2
    <3>2. DOMAIN view.datasets = DOMAIN dois
          /\ \A i \in DOMAIN dois : view.datasets[i].doi = dois[i]
      BY <2>7, <2>8
    <3> QED
      BY <3>1, <3>2
  <2>10. ASSUME NEW d \in ToSet(view.datasets)
         PROVE  d.status = IF d.doi \in known THEN "PUBLISHED" ELSE "UNKNOWN"
    <3>1. PICK i \in DOMAIN dois : d = Dataset(dois[i], response)
      BY <2>7 DEF ToSet
    <3> QED
      BY <2>8, <3>1
  <2> QED
    BY <2>6, <2>9, <2>10
<1>2. input \in Inputs => AcceptedDOIsAreShown
  BY <1>1 DEF AcceptedDOIsAreShown
<1> QED
  BY InputStays, <1>2, PTL

-----------------------------------------------------------------------------
(* The contributors of a view *)

\* A contributor in a collection's view, before it is shown.
Held == [name : Names, orcid : Optional([value : ORCIDs, at : DOIs \X Nat])]

\* What is shown of such a contributor.
Face(c) == [name |-> c.name, orcid |-> IF c.orcid = Nil THEN Nil ELSE c.orcid.value]

\* Whom a dataset names and whom its decoded form names are the same people.
SameFaces(list, named) ==
  /\ list \in Seq(Held) /\ Len(list) = Len(named)
  /\ \A i \in 1..Len(named) : Face(list[i]) = named[i]

\* Decoding gives the optional fields addresses and changes nobody's face.
LEMMA DecodedFaces ==
  ASSUME NEW doi \in DOIs, NEW dataset, dataset.contributors \in Seq(Named)
  PROVE  SameFaces(Decoded(doi, dataset).contributors, dataset.contributors)
<1> DEFINE c == dataset.contributors
           Address(i, field) == IF field = Nil THEN Nil ELSE [value |-> field, at |-> <<doi, i>>]
           list == [i \in DOMAIN c |-> [name |-> c[i].name, orcid |-> Address(i, c[i].orcid)]]
<1>1. /\ Len(c) \in Nat /\ DOMAIN c = 1..Len(c)
      /\ \A i \in 1..Len(c) : c[i] \in Named
  OBVIOUS
<1>2. Decoded(doi, dataset).contributors = list
  BY DEF Decoded
<1> HIDE DEF c
<1>3. ASSUME NEW i \in 1..Len(c)
      PROVE  /\ list[i] \in Held /\ Face(list[i]) = c[i]
  <2>1. c[i].name \in Names /\ (c[i].orcid = Nil \/ c[i].orcid \in ORCIDs)
        /\ c[i] = [name |-> c[i].name, orcid |-> c[i].orcid]
    BY <1>1 DEF Named, Optional
  <2>2. list[i] = [name |-> c[i].name, orcid |-> Address(i, c[i].orcid)]
    BY <1>1
  <2>3. i \in Nat
    BY <1>1
  <2>4. CASE c[i].orcid = Nil
    BY <2>1, <2>2, <2>4 DEF Held, Optional, Face
  <2>5. CASE c[i].orcid \in ORCIDs
    <3>1. c[i].orcid # Nil
      BY <2>5, ViewInputsAssumption
    <3> DEFINE a == [value |-> c[i].orcid, at |-> <<doi, i>>]
    <3>2. a \in [value : ORCIDs, at : DOIs \X Nat] /\ a.value = c[i].orcid
      BY <2>3, <2>5
    <3>3. a # Nil
      BY <3>2, ViewInputsAssumption
    <3>4. list[i] = [name |-> c[i].name, orcid |-> a]
      BY <2>2, <3>1
    <3> HIDE DEF a, list
    <3> QED
      BY <2>1, <3>2, <3>3, <3>4 DEF Held, Optional, Face
  <2> QED
    BY <2>1, <2>4, <2>5
<1>4. list \in Seq(Held) /\ Len(list) = Len(c)
  <2>1. list \in [1..Len(c) -> Held]
    BY <1>1, <1>3
  <2> HIDE DEF list
  <2> QED
    BY <1>1, <2>1
<1> HIDE DEF list
<1> QED
  BY <1>2, <1>3, <1>4 DEF SameFaces, c

\* A contributor without an address is told by its face.
LEMMA FaceTells ==
  ASSUME NEW c \in Held, NEW d \in Held, Face(c) = Face(d), Face(c).orcid = Nil
  PROVE  c = d
<1>1. \A e \in Held : /\ Face(e).name = e.name /\ (Face(e).orcid = Nil => e.orcid = Nil)
                      /\ e = [name |-> e.name, orcid |-> e.orcid]
  <2> SUFFICES ASSUME NEW e \in Held
               PROVE  /\ Face(e).name = e.name /\ (Face(e).orcid = Nil => e.orcid = Nil)
                      /\ e = [name |-> e.name, orcid |-> e.orcid]
    OBVIOUS
  <2>1. e.orcid = Nil \/ e.orcid.value # Nil
    BY ViewInputsAssumption DEF Held, Optional
  <2> QED
    BY <2>1 DEF Face, Held
<1> QED
  BY <1>1

\* A list of contributors, given the datasets whose contributors it is made of:
\* nobody is missing or added, and who has no ORCID comes once.
ListsAll(list, published, known) ==
  /\ ToSet(list) = UNION {ToSet(published[doi].contributors) : doi \in known}
  /\ \A i, j \in DOMAIN list : list[i] = list[j] /\ list[i].orcid = Nil => i = j

\* Lists of the same people have the same faces.
LEMMA FacesOfList ==
  ASSUME NEW list, NEW named \in Seq(Named), SameFaces(list, named)
  PROVE  {Face(c) : c \in ToSet(list)} = ToSet(named)
<1>1. DOMAIN named = 1..Len(named) /\ DOMAIN list = 1..Len(named)
  BY DEF SameFaces
<1>2. ToSet(list) = {list[i] : i \in 1..Len(named)} /\ ToSet(named) = {named[i] : i \in 1..Len(named)}
  BY <1>1 DEF ToSet
<1> QED
  BY <1>2 DEF SameFaces

\* What is shown of a list that was deduplicated by addresses.
LEMMA ShownOf ==
  ASSUME NEW merged \in Seq(Held)
  PROVE  LET list == Shown(Deduplicated(merged)) IN
         /\ ToSet(list) = {Face(c) : c \in ToSet(merged)}
         /\ \A i, j \in DOMAIN list : list[i] = list[j] /\ list[i].orcid = Nil => i = j
<1> DEFINE once == Deduplicated(merged)
           list == Shown(once)
<1>1. once \in Seq(Held) /\ ToSet(once) = ToSet(merged) /\ Distinct(once)
  BY DeduplicatedElements
<1> HIDE DEF once
<1>2. DOMAIN list = DOMAIN once /\ \A i \in DOMAIN once : list[i] = Face(once[i])
  BY DEF Shown, Face
<1> HIDE DEF list
<1>3. ToSet(list) = {Face(c) : c \in ToSet(once)}
  BY <1>2 DEF ToSet
<1>4. ASSUME NEW i \in DOMAIN list, NEW j \in DOMAIN list, list[i] = list[j], list[i].orcid = Nil
      PROVE  i = j
  <2>1. once[i] \in Held /\ once[j] \in Held
    BY <1>1, <1>2
  <2>2. once[i] = once[j]
    BY <1>2, <1>4, <2>1, FaceTells
  <2> QED
    BY <1>1, <1>2, <2>2 DEF Distinct
<1> QED
  BY <1>1, <1>3, <1>4 DEF list, once

\* The contributors of a view are those of the datasets that were found.
LEMMA ContributorsOfView ==
  ASSUME NEW discover, NEW dois \in Seq(DOIs), Len(dois) <= MaxPerRequest,
         \A doi \in DOMAIN discover.published : discover.published[doi].contributors \in Seq(Named)
  PROVE  ListsAll(Shown(Deduplicated(Merged(dois, Looked(discover, dois)))),
                  discover.published, ToSet(dois) \cap DOMAIN discover.published)
<1> DEFINE response == Looked(discover, dois)
           known == ToSet(dois) \cap DOMAIN discover.published
           named(doi) == discover.published[doi].contributors
           found == Kept(dois, DOMAIN response.published)
           lists == [i \in DOMAIN found |-> response.published[found[i]].contributors]
           merged == FlattenSeq(lists)
<1>1. /\ DOMAIN response.published = known
      /\ \A doi \in known : response.published[doi] = Decoded(doi, discover.published[doi])
  BY LookedUp
<1>2. found \in Seq(DOIs) /\ ToSet(found) = known
  <2>1. found \in Seq(DOIs) /\ ToSet(found) = ToSet(dois) \cap DOMAIN response.published
    BY KeptElements
  <2> HIDE DEF found, response
  <2> QED
    BY <1>1, <2>1
<1>3. known \subseteq DOIs /\ known \subseteq DOMAIN discover.published
  BY ElementsOfList
<1> HIDE DEF found, response, known
<1>4. /\ Len(found) \in Nat /\ DOMAIN found = 1..Len(found)
      /\ known = {found[i] : i \in 1..Len(found)}
  BY <1>2 DEF ToSet
<1>5. ASSUME NEW i \in 1..Len(found)
      PROVE  SameFaces(lists[i], named(found[i])) /\ named(found[i]) \in Seq(Named)
  <2>1. found[i] \in known
    BY <1>4
  <2>2. named(found[i]) \in Seq(Named) /\ found[i] \in DOIs
    BY <1>3, <2>1
  <2>3. lists[i] = Decoded(found[i], discover.published[found[i]]).contributors
    BY <1>1, <1>4, <2>1
  <2> HIDE DEF lists
  <2> QED
    BY <2>2, <2>3, DecodedFaces
<1>6. lists \in Seq(Seq(Held)) /\ Len(lists) = Len(found)
  <2>1. \A i \in 1..Len(found) : lists[i] \in Seq(Held)
    BY <1>5 DEF SameFaces
  <2>2. DOMAIN lists = 1..Len(found)
    BY <1>4
  <2>3. lists \in [1..Len(found) -> Seq(Held)]
    BY <1>4, <2>1
  <2> HIDE DEF lists
  <2> QED
    BY <1>4, <2>3
<1> HIDE DEF lists
<1>7. merged \in Seq(Held) /\ Gathers(merged, lists)
  BY <1>6, FlattenElements
<1>8. {Face(c) : c \in ToSet(merged)} = UNION {ToSet(named(doi)) : doi \in known}
  <2>1. \A i \in 1..Len(found) : {Face(c) : c \in ToSet(lists[i])} = ToSet(named(found[i]))
    BY <1>5, FacesOfList
  <2>2. ToSet(merged) = UNION {ToSet(lists[i]) : i \in 1..Len(found)}
    BY <1>6, <1>7 DEF Gathers
  <2> HIDE DEF merged, named
  <2>3. {Face(c) : c \in ToSet(merged)} = UNION {ToSet(named(found[i])) : i \in 1..Len(found)}
    <3> DEFINE A == {Face(c) : c \in ToSet(merged)}
               B == UNION {ToSet(named(found[i])) : i \in 1..Len(found)}
    <3>1. ASSUME NEW x \in A
          PROVE  x \in B
      <4>1. PICK i \in 1..Len(found) : \E c \in ToSet(lists[i]) : x = Face(c)
        BY <2>2
      <4>2. x \in ToSet(named(found[i]))
        BY <2>1, <4>1
      <4> QED
        BY <4>2
    <3>2. ASSUME NEW x \in B
          PROVE  x \in A
      <4>1. PICK i \in 1..Len(found) : x \in ToSet(named(found[i]))
        OBVIOUS
      <4>2. PICK c \in ToSet(lists[i]) : x = Face(c)
        BY <2>1, <4>1
      <4> QED
        BY <2>2, <4>2
    <3> QED
      BY <3>1, <3>2, Zenon
  <2> QED
    BY <1>4, <2>3
<1>9. Merged(dois, response) = merged
  BY Zenon DEF Merged, merged, lists, found
<1> HIDE DEF merged
<1> QED
  BY <1>7, <1>8, <1>9, ShownOf DEF ListsAll, response, known

\* The view of a collection lists those whom its datasets name, everybody
\* without an ORCID once (contributors.go:11, mapping.go:68).
THEOREM ContributorsShown == Spec => []ContributorsAreThoseShown
<1>1. ASSUME input \in Inputs, input.of = "view"
      PROVE  ContributorsAreThoseShown
  <2> DEFINE discover == input.discover
             dois == Grown(input.requests, discover)
             stored == Sourced(dois)
             view == StoreToDTOCollection(stored, discover)
             known == ToSet(dois) \cap DOMAIN discover.published
  <2>1. /\ input.requests \in Seq(Seq([doi : DOIs, padded : BOOLEAN]))
        /\ \A doi \in DOMAIN discover.published :
             discover.published[doi].contributors \in Seq(Named)
    BY <1>1, ViewInputsAssumption
  <2>2. dois \in Seq(DOIs) /\ dois = GroupByDatasource(stored).pennsieve
    BY <2>1, GrownIsLookedUp, Zenon
  <2>3. ASSUME Len(dois) <= MaxPerRequest
        PROVE  ListsAll(view.derivedContributors, discover.published, known)
    <3> HIDE DEF stored, dois
    <3>1. Shows(view, dois, Looked(discover, dois))
      BY <2>2, <2>3, ViewOf, Zenon
    <3>2. view.derivedContributors = Shown(Deduplicated(Merged(dois, Looked(discover, dois))))
      BY <3>1, Zenon DEF Shows
    <3> HIDE DEF view, known
    <3> QED
      BY <2>1, <2>2, <2>3, <3>2, ContributorsOfView DEF known
  <2> QED
    BY <2>3, Zenon DEF ContributorsAreThoseShown, ListsAll
<1>2. input \in Inputs => ContributorsAreThoseShown
  BY <1>1 DEF ContributorsAreThoseShown
<1> QED
  BY InputStays, <1>2, PTL

-----------------------------------------------------------------------------
(* The banners of a list *)

\* The banners of those of S that Discover knows.
BannersOf(S, discover) ==
  [doi \in S \cap DOMAIN discover.published |-> discover.published[doi].banner]

\* A batch that fits the URL is answered with the banners of its DOIs.
LEMMA BannersOfBatch ==
  ASSUME NEW discover, NEW batch \in Seq(DOIs), Len(batch) <= MaxPerRequest
  PROVE  Banners(GetDatasetsByDOI(discover, batch).published) = BannersOf(ToSet(batch), discover)
<1> DEFINE known == ToSet(batch) \cap DOMAIN discover.published
           published == [doi \in known |-> Decoded(doi, discover.published[doi])]
<1>1. GetDatasetsByDOI(discover, batch).published = published
  <2>1. ~ (Len(batch) > MaxPerRequest)
    BY LimitsAssumption
  <2>2. GetDatasetsByDOI(discover, batch) =
          [ok |-> TRUE, published |-> published, unpublished |-> discover.unpublished \cap ToSet(batch)]
    BY <2>1 DEF GetDatasetsByDOI
  <2> HIDE DEF published
  <2> QED
    BY <2>2
<1>2. DOMAIN published = known
      /\ \A doi \in known : published[doi].banner = discover.published[doi].banner
  BY DEF Decoded
<1> HIDE DEF published
<1>3. Banners(published) = [doi \in known |-> discover.published[doi].banner]
  BY <1>2 DEF Banners
<1> QED
  BY <1>1, <1>3 DEF BannersOf

\* The answers to two lookups, in one map.
LEMMA BannersJoin ==
  ASSUME NEW discover, NEW S, NEW T
  PROVE  Copied(BannersOf(S, discover), BannersOf(T, discover)) = BannersOf(S \cup T, discover)
BY DEF BannersOf, Copied

\* The batches find what is known of their DOIs: no answer is lost when the
\* next one comes.
LEMMA FetchFinds ==
  ASSUME NEW discover, NEW batches \in Seq(Seq(DOIs)),
         \A k \in 1..Len(batches) : Len(batches[k]) <= MaxPerRequest
  PROVE  FetchInBatches(discover, batches)
           = BannersOf(UNION {ToSet(batches[k]) : k \in 1..Len(batches)}, discover)
<1> DEFINE s == batches
           V == {batch \in Seq(DOIs) : Len(batch) <= MaxPerRequest}
           R == {BannersOf(S, discover) : S \in SUBSET DOIs}
           Add(all, batch) == Copied(all, Banners(GetDatasetsByDOI(discover, batch).published))
           op == [re \in R \X V |-> Add(re[1], re[2])]
           Eq(h) == h = [t \in SUBSET DOMAIN s |->
                           IF t = {} THEN <<>> ELSE Add(h[t \ {Max(t)}], s[Max(t)])]
           iter == CHOOSE h : Eq(h)
           Upto(k) == UNION {ToSet(s[j]) : j \in 1..k}
<1>0. DOMAIN s = 1..Len(s) /\ Len(s) \in Nat /\ \A k \in 1..Len(s) : s[k] \in V
  OBVIOUS
<1>1. \A S \in SUBSET DOIs, x \in V :
         Add(BannersOf(S, discover), x) = BannersOf(S \cup ToSet(x), discover)
  BY BannersOfBatch, BannersJoin
<1>2. IsFold(R, V, <<>>, op, s) /\ \A all \in R, x \in V : op[<<all, x>>] = Add(all, x)
  <2>1. <<>> = BannersOf({}, discover)
    BY DEF BannersOf
  <2>2. <<>> \in R
    BY <2>1
  <2>3. \A all \in R, x \in V : Add(all, x) \in R
    <3>1. \A x \in V : ToSet(x) \in SUBSET DOIs
      BY ElementsOfList
    <3> HIDE DEF Add, V
    <3> QED
      BY <1>1, <3>1
  <2>4. s \in Seq(V)
    BY <1>0
  <2> HIDE DEF R, V, Add
  <2> QED
    BY <2>2, <2>3, <2>4 DEF IsFold
<1>3. FetchInBatches(discover, s) = iter[DOMAIN s]
  BY DEF FetchInBatches, FoldLeft, MapThenFoldSet
<1> HIDE DEF op, Add, R, V
<1>4. s \in Seq(V)
  BY <1>2 DEF IsFold
<1>5. \E h : Eq(h)
  <2>1. PICK h \in [SUBSET DOMAIN s -> R] : Solves(h, <<>>, op, s)
    BY <1>2, FoldExists
  <2>2. ASSUME NEW t \in SUBSET DOMAIN s
        PROVE  h[t] = IF t = {} THEN <<>> ELSE Add(h[t \ {Max(t)}], s[Max(t)])
    BY <1>2, <1>4, <2>1, MaxOfPositions DEF Solves
  <2>3. Eq(h)
    BY <2>1, <2>2
  <2> QED
    BY <2>3
<1>6. Eq(iter)
  <2> HIDE DEF Eq
  <2> QED
    BY <1>5
<1>7. Satisfies(iter, R, <<>>, op, s)
  <2> HIDE DEF iter
  <2> QED
    BY <1>2, <1>4, <1>6, MaxOfPositions DEF Satisfies
<1> HIDE DEF iter
<1>8. PICK acc : Accumulates(acc, R, <<>>, op, s) /\ iter[DOMAIN s] = acc[Len(s)]
  BY <1>2, <1>7, FoldSteps
<1> DEFINE Good == {k \in 0..Len(s) : acc[k] = BannersOf(Upto(k), discover)}
<1>9. 0 \in Good
  <2>1. acc[0] = <<>>
    BY <1>8 DEF Accumulates
  <2>2. Upto(0) = {}
    OBVIOUS
  <2>3. <<>> = BannersOf({}, discover)
    BY DEF BannersOf
  <2>4. 0 \in 0..Len(s)
    BY <1>0
  <2> HIDE DEF Upto
  <2>5. acc[0] = BannersOf(Upto(0), discover)
    BY <2>1, <2>2, <2>3
  <2> QED
    BY <2>4, <2>5
<1>10. ASSUME NEW k \in 1..Len(s), k - 1 \in Good
       PROVE  k \in Good
  <2>1. k - 1 \in 0..Len(s) /\ acc[k - 1] = BannersOf(Upto(k - 1), discover)
    BY <1>10
  <2>2. acc[k - 1] \in R /\ acc[k] = op[<<acc[k - 1], s[k]>>]
    BY <1>8, <2>1 DEF Accumulates
  <2>3. Upto(k - 1) \in SUBSET DOIs
    <3>1. \A j \in 1..Len(s) : ToSet(s[j]) \in SUBSET DOIs
      BY ElementsOfList
    <3>2. \A j \in 1..(k - 1) : j \in 1..Len(s)
      BY <1>0
    <3> QED
      BY <3>1, <3>2
  <2>4. Upto(k - 1) \cup ToSet(s[k]) = Upto(k)
    <3>1. 1..k = (1..(k - 1)) \cup {k}
      BY <1>0
    <3> QED
      BY <3>1
  <2> HIDE DEF Upto
  <2>5. acc[k] = BannersOf(Upto(k - 1) \cup ToSet(s[k]), discover)
    BY <1>0, <1>1, <1>2, <2>1, <2>2, <2>3
  <2>6. acc[k] = BannersOf(Upto(k), discover)
    BY <2>4, <2>5
  <2> QED
    BY <2>6
<1>11. Len(s) \in Good
  <2> HIDE DEF Good
  <2>1. \A k \in 0..Len(s) : k \in Good
    BY <1>0, <1>9, <1>10, StepByStep
  <2> QED
    BY <1>0, <2>1
<1> QED
  BY <1>3, <1>8, <1>11

\* The DOIs of a collection that the list looks up.
Beginning(dois) == SubSeq(dois, 1, Min({MaxBanners, Len(dois)}))

\* What is looked up for a list holds Pennsieve's DOIs of the beginning.
Covers(looked, dois) == ToSet(Beginning(dois)) \cap Pennsieve \subseteq looked

\* The banners of the beginning, found with those of other collections, begin
\* the banners that the view of the whole collection shows.
LEMMA BannersBegin ==
  ASSUME NEW discover, NEW dois \in Seq(DOIs), Len(dois) <= MaxPerRequest,
         NEW looked \in SUBSET Pennsieve, Covers(looked, dois)
  PROVE  IsPrefix(CollectBanners(Beginning(dois), BannersOf(looked, discover), MaxBanners),
                  StoreToDTOCollection(Sourced(dois), discover).banners)
<1> DEFINE known == DOMAIN discover.published
           w == Beginning(dois)
           A == {i \in 1..Len(dois) : dois[i] \in Pennsieve}
           P == {i \in 1..Len(dois) : dois[i] \in Pennsieve \cap known}
           l == At(dois, A)
           p == BannersOf(looked, discover)
           q == Banners(Looked(discover, l).published)
           Q == {k \in 1..Len(l) : l[k] \in DOMAIN q}
           X == {i \in 1..Len(w) : w[i] \in DOMAIN p}
           b == CollectBanners(w, p, MaxBanners)
           c == CollectBanners(l, q, MaxBanners)
           stored == Sourced(dois)
           view == StoreToDTOCollection(stored, discover)
<1>0. /\ Len(dois) \in Nat /\ DOMAIN dois = 1..Len(dois)
      /\ A \in SUBSET (1..Len(dois)) /\ P \in SUBSET (1..Len(dois))
  OBVIOUS
<1>1. w \in Seq(DOIs) /\ Starts(w, dois)
  <2>1. /\ w \in Seq(DOIs) /\ Len(w) = Min({MaxBanners, Len(dois)})
        /\ \A i \in 1..Len(w) : w[i] = dois[i]
    BY LimitsAssumption, FirstElements DEF Beginning
  <2>2. Len(w) <= Len(dois)
    BY <1>0, <2>1, LimitsAssumption, MinOfTwo
  <2> QED
    BY <2>1, <2>2 DEF Starts
<1>2. l \in Seq(DOIs) /\ Len(l) = Cardinality(A) /\ \A i \in A : l[Rank(A, i)] = dois[i]
  BY <1>0, AtRanks
<1>3. /\ Cardinality(A) \in Nat /\ Cardinality(A) <= Len(dois)
      /\ \A i \in A : Rank(A, i) \in 1..Cardinality(A)
      /\ \A i, j \in A : Rank(A, i) = Rank(A, j) => i = j
      /\ \A m \in 1..Cardinality(A) : \E i \in A : Rank(A, i) = m
  <2>1. Cardinality(A) <= Len(dois)
    <3>1. PICK n \in Nat : n = Len(dois)
      BY <1>0
    <3>2. Cardinality(1..n) = n /\ IsFiniteSet(1..n)
      BY FS_Interval
    <3>3. A \in SUBSET (1..n)
      BY <1>0, <3>1
    <3> HIDE DEF A
    <3>4. Cardinality(A) <= Cardinality(1..n)
      BY <3>2, <3>3, FS_Subset
    <3> QED
      BY <3>1, <3>2, <3>4
  <2> HIDE DEF A
  <2>2. A \in SUBSET (1..Len(dois))
    BY <1>0
  <2> QED
    BY <2>1, <2>2, RanksInList
<1>4. /\ DOMAIN q = ToSet(l) \cap known
      /\ \A doi \in ToSet(l) \cap known : q[doi] = discover.published[doi].banner
  <2> DEFINE response == Looked(discover, l)
  <2> HIDE DEF l
  <2>1. /\ DOMAIN response.published = ToSet(l) \cap known
        /\ \A doi \in ToSet(l) \cap known : response.published[doi] = Decoded(doi, discover.published[doi])
    BY <1>2, <1>3, LookedUp, LimitsAssumption
  <2> HIDE DEF response
  <2>2. q = [doi \in DOMAIN response.published |-> response.published[doi].banner]
    BY DEF response, Banners
  <2>3. \A doi, dataset : Decoded(doi, dataset).banner = dataset.banner
    BY DEF Decoded
  <2> HIDE DEF q
  <2> QED
    BY <2>1, <2>2, <2>3
<1>5. /\ DOMAIN p = looked \cap known
      /\ \A doi \in looked \cap known : p[doi] = discover.published[doi].banner
  BY DEF BannersOf
<1> HIDE DEF p, q, w
<1>6. Q = {k \in 1..Len(l) : l[k] \in known} /\ Q \in SUBSET (1..Len(l))
      /\ Q \in SUBSET (1..Cardinality(A))
  <2> HIDE DEF l
  <2>1. \A k \in 1..Len(l) : l[k] \in ToSet(l)
    <3>1. DOMAIN l = 1..Len(l)
      BY <1>2
    <3> QED
      BY <3>1, Zenon DEF ToSet
  <2> QED
    BY <1>2, <1>4, <2>1
<1>7. Through(A, Q) = P
  <2> HIDE DEF l
  <2>1. \A i \in A : Rank(A, i) \in Q <=> dois[i] \in known
    BY <1>2, <1>3, <1>6
  <2> HIDE DEF Q
  <2> QED
    BY <2>1 DEF Through
<1>8. At(l, Q) = At(dois, P)
  <2> HIDE DEF A, Q, P
  <2> QED
    BY <1>0, <1>6, <1>7, AtOfAt
<1>9. X = P \cap 1..Len(w) /\ X \in SUBSET (1..Len(w))
  <2>1. /\ \A i \in 1..Len(w) : w[i] = dois[i] /\ i \in 1..Len(dois) /\ w[i] \in ToSet(w)
    <3>1. Len(w) \in Nat /\ DOMAIN w = 1..Len(w)
      BY <1>1
    <3> QED
      BY <1>0, <1>1, <3>1 DEF Starts, ToSet
  <2>2. \A i \in 1..Len(w) : w[i] \in Pennsieve <=> w[i] \in looked
    BY <2>1 DEF Covers, w
  <2> QED
    BY <1>5, <2>1, <2>2
<1>10. Starts(At(w, X), At(dois, P))
  <2> HIDE DEF X, P
  <2> QED
    BY <1>0, <1>1, <1>9, AtOfBeginning
<1>11. /\ AreOfFirst(b, At(w, X), p, MaxBanners) /\ b \in Seq({p[x] : x \in DOIs})
       /\ AreOfFirst(c, At(l, Q), q, MaxBanners) /\ c \in Seq({q[x] : x \in DOIs})
  <2> HIDE DEF l
  <2>1. w \in Seq(DOIs) /\ l \in Seq(DOIs) /\ MaxBanners \in Nat
    BY <1>1, <1>2, LimitsAssumption
  <2>2. AreOfFirst(b, At(w, X), p, MaxBanners) /\ b \in Seq({p[x] : x \in DOIs})
    BY <2>1, CollectBannersAreFirst, Zenon
  <2>3. AreOfFirst(c, At(l, Q), q, MaxBanners) /\ c \in Seq({q[x] : x \in DOIs})
    BY <2>1, CollectBannersAreFirst, Zenon
  <2> QED
    BY <2>2, <2>3
<1> DEFINE f == At(w, X)
           g == At(l, Q)
<1>12. /\ f \in Seq(DOIs) /\ ToSet(f) = {w[i] : i \in X}
       /\ g \in Seq(DOIs) /\ ToSet(g) = {l[k] : k \in Q}
  <2> HIDE DEF X, l, Q
  <2>1. /\ w \in Seq(DOIs) /\ X \in SUBSET (1..Len(w))
        /\ l \in Seq(DOIs) /\ Q \in SUBSET (1..Len(l))
    BY <1>1, <1>2, <1>6, <1>9
  <2>2. f \in Seq(DOIs) /\ g \in Seq(DOIs)
    BY <2>1, AtRanks
  <2>3. ToSet(f) = {w[i] : i \in X}
    BY <2>1, ElementsAt, Zenon
  <2>4. ToSet(g) = {l[k] : k \in Q}
    BY <2>1, ElementsAt, Zenon
  <2> QED
    BY <2>2, <2>3, <2>4
<1>13. Starts(f, g)
  BY <1>8, <1>10
<1>14. ASSUME NEW m \in 1..Len(f)
       PROVE  p[f[m]] = q[f[m]]
  <2> DEFINE x == f[m]
  <2>1. x = g[m] /\ m \in DOMAIN f /\ m \in DOMAIN g
    <3> HIDE DEF f, g
    <3> QED
      BY <1>12, <1>13 DEF Starts
  <2>2. x \in ToSet(f) /\ x \in ToSet(g)
    <3> HIDE DEF f, g
    <3> QED
      BY <2>1 DEF ToSet
  <2>3. x \in DOMAIN p /\ x \in DOMAIN q
    <3> HIDE DEF f, g, x, l
    <3> QED
      BY <1>12, <2>2
  <2> HIDE DEF x, l
  <2>4. p[x] = q[x]
    BY <1>4, <1>5, <2>3
  <2> QED
    BY <2>4 DEF x
<1> HIDE DEF f, g
<1>15. IsPrefix(b, c)
  <2> DEFINE B == {p[x] : x \in DOIs} \cup {q[x] : x \in DOIs}
  <2> HIDE DEF b, c, l
  <2>1. b \in Seq(B) /\ c \in Seq(B)
    BY <1>11
  <2> HIDE DEF B
  <2>2. AreOfFirst(b, f, p, MaxBanners) /\ AreOfFirst(c, g, q, MaxBanners)
    BY <1>11 DEF f, g
  <2>3. Len(f) \in Nat /\ Len(g) \in Nat /\ MaxBanners \in Nat
    BY <1>12, LimitsAssumption
  <2> QED
    BY <1>13, <1>14, <2>1, <2>2, <2>3, BannersOfBeginning
<1>16. view.banners = c
  <2>1. l = GroupByDatasource(stored).pennsieve
    BY PennsieveOf
  <2>2. Len(l) <= MaxPerRequest
    BY <1>2, <1>3, LimitsAssumption
  <2> HIDE DEF stored, l
  <2>3. Shows(view, l, Looked(discover, l))
    BY <1>2, <2>1, <2>2, ViewOf, Zenon
  <2> QED
    BY <2>3, Zenon DEF Shows, c, q
<1> QED
  BY <1>15, <1>16 DEF w, p, b

\* What a list looks up of a stored collection.
LEMMA BeginningOfStored ==
  ASSUME NEW dois \in Seq(DOIs)
  PROVE  Values(SubSeq(Sourced(dois), 1, Min({MaxBanners, Len(Sourced(dois))}))) = Beginning(dois)
<1> DEFINE s == Sourced(dois)
           V == [value : DOIs, datasource : {"Pennsieve", "External"}]
           m == Min({MaxBanners, Len(dois)})
<1>0. DOMAIN dois = 1..Len(dois) /\ Len(dois) \in Nat /\ \A i \in 1..Len(dois) : dois[i] \in DOIs
  OBVIOUS
<1>1. /\ s \in Seq(V) /\ Len(s) = Len(dois)
      /\ \A i \in 1..Len(dois) : s[i].value = dois[i]
  <2>1. s \in [1..Len(dois) -> V]
    BY <1>0 DEF Sourced
  <2> QED
    BY <1>0, <2>1 DEF Sourced
<1> HIDE DEF s, V
<1>2. m \in Nat /\ m <= Len(dois)
  BY <1>0, LimitsAssumption, MinOfTwo
<1> HIDE DEF m
<1> DEFINE t == SubSeq(s, 1, m)
           w == SubSeq(dois, 1, m)
<1>3. /\ DOMAIN t = 1..m /\ \A i \in 1..m : t[i] = s[i]
      /\ w \in Seq(DOIs) /\ Len(w) = m /\ \A i \in 1..m : w[i] = dois[i]
  BY <1>0, <1>1, <1>2
<1> HIDE DEF t, w
<1>4. [i \in DOMAIN t |-> t[i].value] = w
  <2>1. \A i \in 1..m : t[i].value = w[i]
    BY <1>1, <1>2, <1>3
  <2>2. DOMAIN w = 1..m /\ w = [i \in 1..m |-> w[i]]
    BY <1>3
  <2> QED
    BY <1>3, <2>1, <2>2
<1>5. SubSeq(s, 1, Min({MaxBanners, Len(s)})) = t
  BY <1>1 DEF t, m
<1> QED
  BY <1>4, <1>5, Zenon DEF Values, Beginning, w, m, s

\* What a list looks up, of all of its collections.
Gathered(collections) == FlattenSeq([i \in DOMAIN collections |-> Beginning(collections[i])])

\* Stored DOIs as the strings of a request.
Unpadded(dois) == [i \in DOMAIN dois |-> [doi |-> dois[i], padded |-> FALSE]]

\* The DOIs that the batches of a list are made of.
LookedFor(collections) == CategorizeDOIs(Unpadded(Gathered(collections))).pennsieve

\* They are Pennsieve's, and cover every collection of the list.
LEMMA LookedForCovers ==
  ASSUME NEW collections \in Seq(Seq(DOIs))
  PROVE  /\ LookedFor(collections) \in Seq(DOIs)
         /\ ToSet(LookedFor(collections)) \subseteq Pennsieve
         /\ \A i \in DOMAIN collections : Covers(ToSet(LookedFor(collections)), collections[i])
<1> DEFINE firsts == [i \in DOMAIN collections |-> Beginning(collections[i])]
           all == Gathered(collections)
           strings == Unpadded(all)
           looked == LookedFor(collections)
<1>0. /\ DOMAIN collections = 1..Len(collections) /\ Len(collections) \in Nat
      /\ \A i \in 1..Len(collections) : collections[i] \in Seq(DOIs)
  OBVIOUS
<1>1. firsts \in Seq(Seq(DOIs)) /\ Len(firsts) = Len(collections)
  <2>1. \A i \in 1..Len(collections) : Beginning(collections[i]) \in Seq(DOIs)
    BY <1>0, LimitsAssumption, FirstElements DEF Beginning
  <2>2. firsts \in [1..Len(collections) -> Seq(DOIs)]
    BY <1>0, <2>1
  <2> HIDE DEF firsts
  <2> QED
    BY <1>0, <2>2
<1>2. \A i \in DOMAIN collections : firsts[i] = Beginning(collections[i])
  OBVIOUS
<1>3. all = FlattenSeq(firsts)
  BY DEF Gathered
<1> HIDE DEF firsts, all
<1>4. all \in Seq(DOIs) /\ Gathers(all, firsts)
  BY <1>1, <1>3, FlattenElements
<1>5. strings \in Seq([doi : DOIs, padded : BOOLEAN]) /\ {x.doi : x \in ToSet(strings)} = ToSet(all)
  <2>1. DOMAIN all = 1..Len(all) /\ Len(all) \in Nat /\ \A i \in 1..Len(all) : all[i] \in DOIs
    BY <1>4
  <2> DEFINE D == [doi : DOIs, padded : BOOLEAN]
  <2>2. /\ strings \in [1..Len(all) -> D]
        /\ DOMAIN strings = 1..Len(all) /\ \A i \in 1..Len(all) : strings[i].doi = all[i]
    BY <2>1 DEF Unpadded
  <2> HIDE DEF strings, D
  <2>3. strings \in Seq(D)
    BY <2>1, <2>2
  <2>4. {x.doi : x \in ToSet(strings)} = ToSet(all)
    BY <2>1, <2>2 DEF ToSet
  <2> QED
    BY <2>3, <2>4 DEF D
<1>6. looked \in Seq(DOIs) /\ ToSet(looked) = ToSet(all) \cap Pennsieve
  <2> HIDE DEF strings
  <2>1. /\ CategorizeDOIs(strings).pennsieve \in Seq(DOIs)
        /\ ToSet(CategorizeDOIs(strings).pennsieve) = {x.doi : x \in ToSet(strings)} \cap Pennsieve
    BY <1>5, CategorizedElements
  <2>2. looked = CategorizeDOIs(strings).pennsieve
    BY DEF LookedFor, strings, all
  <2> HIDE DEF looked
  <2> QED
    BY <1>5, <2>1, <2>2
<1> HIDE DEF looked
<1>7. ASSUME NEW i \in DOMAIN collections
      PROVE  Covers(ToSet(looked), collections[i])
  <2>1. ToSet(firsts[i]) \subseteq ToSet(all)
    BY <1>0, <1>1, <1>4 DEF Gathers
  <2> QED
    BY <1>2, <1>6, <2>1 DEF Covers
<1> QED
  BY <1>6, <1>7 DEF looked

\* The list shows the banners that its batches have found.
LEMMA ListShows ==
  ASSUME NEW discover, NEW collections \in Seq(Seq(DOIs))
  PROVE  LET stored == [i \in DOMAIN collections |-> Sourced(collections[i])]
             found == BannersOf(ToSet(LookedFor(collections)), discover)
         IN \A i \in DOMAIN collections :
              ListBanners(stored, discover)[i]
                = CollectBanners(Beginning(collections[i]), found, MaxBanners)
<1> DEFINE stored == [i \in DOMAIN collections |-> Sourced(collections[i])]
           BannerDOIs(dois) == Values(SubSeq(dois, 1, Min({MaxBanners, Len(dois)})))
           looked == LookedFor(collections)
           batches == Batches(looked, MaxPerRequest)
           fetched == FetchInBatches(discover, batches)
           found == BannersOf(ToSet(looked), discover)
<1>1. \A i \in DOMAIN collections : BannerDOIs(stored[i]) = Beginning(collections[i])
  <2>1. \A i \in DOMAIN collections : stored[i] = Sourced(collections[i]) /\ collections[i] \in Seq(DOIs)
    OBVIOUS
  <2> HIDE DEF stored
  <2> QED
    BY <2>1, BeginningOfStored, Zenon
<1>2. DOMAIN stored = DOMAIN collections
  OBVIOUS
<1> HIDE DEF stored, BannerDOIs
<1> DEFINE all == FlattenSeq([i \in DOMAIN stored |-> BannerDOIs(stored[i])])
           lists == CategorizeDOIs([i \in DOMAIN all |-> [doi |-> all[i], padded |-> FALSE]])
<1>3. [i \in DOMAIN stored |-> BannerDOIs(stored[i])] = [i \in DOMAIN collections |-> Beginning(collections[i])]
  BY <1>1, <1>2
<1>4. all = Gathered(collections)
  BY <1>3 DEF Gathered
<1>5. lists.pennsieve = looked
  <2> HIDE DEF all
  <2> QED
    BY <1>4 DEF LookedFor, Unpadded
<1>6. ListBanners(stored, discover)
        = [i \in DOMAIN stored |->
             CollectBanners(BannerDOIs(stored[i]),
                            FetchInBatches(discover, Batches(lists.pennsieve, MaxPerRequest)), MaxBanners)]
  BY Zenon DEF ListBanners, BannerDOIs
<1> HIDE DEF lists, all
<1>7. fetched = found
  <2>1. looked \in Seq(DOIs)
    BY LookedForCovers
  <2> HIDE DEF looked
  <2>2. MaxPerRequest \in Nat \ {0}
    BY LimitsAssumption
  <2>3. batches \in Seq(Seq(DOIs))
    BY <2>1, <2>2, BatchesCover
  <2>4. /\ FlattenSeq(batches) = looked
        /\ \A k \in DOMAIN batches : Len(batches[k]) \in 1..MaxPerRequest
    BY <2>1, <2>2, BatchesCover
  <2> HIDE DEF batches
  <2>5. Gathers(looked, batches)
    BY <2>3, <2>4, FlattenElements
  <2>6. \A k \in 1..Len(batches) : Len(batches[k]) <= MaxPerRequest
    BY <2>2, <2>3, <2>4
  <2>7. fetched = BannersOf(UNION {ToSet(batches[k]) : k \in 1..Len(batches)}, discover)
    BY <2>3, <2>6, FetchFinds
  <2> QED
    BY <2>5, <2>7 DEF Gathers
<1> HIDE DEF found
<1>8. \A i \in DOMAIN collections :
         ListBanners(stored, discover)[i] = CollectBanners(Beginning(collections[i]), found, MaxBanners)
  <2>1. FetchInBatches(discover, Batches(lists.pennsieve, MaxPerRequest)) = found
    BY <1>5, <1>7
  <2> QED
    BY <1>1, <1>2, <1>6, <2>1
<1> QED
  BY <1>8, Zenon DEF stored, found, looked

\* The list of collections shows the first banners of the view of each one
\* (get_collections.go:53 and :96).
THEOREM ListBannersBegin == Spec => []ListBannersArePrefixes
<1>1. ASSUME input \in Inputs, input.of = "list"
      PROVE  ListBannersArePrefixes
  <2> DEFINE collections == input.collections
             discover == input.discover
             stored == [i \in DOMAIN collections |-> Sourced(collections[i])]
             looked == ToSet(LookedFor(collections))
  <2>1. collections \in Seq(Seq(DOIs))
    BY <1>1, ViewInputsAssumption
  <2> SUFFICES ASSUME NEW i \in DOMAIN collections, Len(collections[i]) <= MaxPerRequest
               PROVE  IsPrefix(ListBanners(stored, discover)[i],
                               StoreToDTOCollection(Sourced(collections[i]), discover).banners)
    BY Zenon DEF ListBannersArePrefixes
  <2>2. collections[i] \in Seq(DOIs)
    BY <2>1
  <2> HIDE DEF collections, discover
  <2>3. looked \in SUBSET Pennsieve /\ Covers(looked, collections[i])
    BY <2>1, LookedForCovers
  <2>4. ListBanners(stored, discover)[i]
          = CollectBanners(Beginning(collections[i]), BannersOf(looked, discover), MaxBanners)
    BY <2>1, ListShows, Zenon
  <2> HIDE DEF stored, looked
  <2>5. IsPrefix(CollectBanners(Beginning(collections[i]), BannersOf(looked, discover), MaxBanners),
                 StoreToDTOCollection(Sourced(collections[i]), discover).banners)
    BY <2>2, <2>3, BannersBegin
  <2> QED
    BY <2>4, <2>5
<1>2. input \in Inputs => ListBannersArePrefixes
  BY <1>1 DEF ListBannersArePrefixes
<1> QED
  BY InputStays, <1>2, PTL

=============================================================================
