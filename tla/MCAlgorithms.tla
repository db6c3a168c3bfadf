---------------------------- MODULE MCAlgorithms ----------------------------
(***************************************************************************)
(* An instance of Algorithms for TLC, which takes one initial state per    *)
(* input; there are no steps.                                              *)
(***************************************************************************)
EXTENDS Algorithms

CONSTANTS Banner,    \* a banner of a dataset
          MaxLength  \* bound: how long the lists of the inputs are

Strings == [doi : DOIs, padded : BOOLEAN]
NoBanner == "none"
Rests == UNION {{10^k + d : d \in -12..12} : k \in 2..6}
Tables == BoundedSeq([access : BOOLEAN, dois : {SubSeq(<<1, 2, 3>>, 1, n) : n \in 0..3}], 3)

\* Datasets with an owner known by name only, with one who has an ORCID, or both.
Ann == [name |-> "Ann", orcid |-> Nil]
Bob == [name |-> "Bob", orcid |-> "0000"]
OtherBob == [name |-> "Bob", orcid |-> "0001"]
Datasets ==
  {[banner |-> Banner, collection |-> FALSE, contributors |-> <<Ann, Bob>>],
   [banner |-> NoBanner, collection |-> FALSE, contributors |-> <<OtherBob, Ann>>],
   [banner |-> NoBanner, collection |-> TRUE, contributors |-> <<>>]}
Knowledge ==
  UNION {[published : [D -> Datasets], unpublished : SUBSET (Pennsieve \ D)] : D \in SUBSET Pennsieve}
Collections == {s \in BoundedSeq(DOIs, 2) : IsInjective(s)}
Requests == BoundedSeq([doi : DOIs, padded : {FALSE}], 2)

\* Texts around the limit, in one byte or three bytes per character.
Lengths == {[bytes |-> n, chars |-> n] : n \in {0, 1, 255, 256}}
             \cup {[bytes |-> 3 * n, chars |-> n] : n \in {1, 85, 86}}
Strings255 == {[kind |-> "other", padded |-> b] @@ l : l \in Lengths, b \in BOOLEAN}
Licenses == {[kind |-> k, bytes |-> n, chars |-> n, padded |-> b] :
               k \in {"license", "other"}, n \in {3}, b \in BOOLEAN} \cup {Nil, Text!EmptyString}
TagLists == {Nil, <<>>} \cup
  {<<[kind |-> "other", bytes |-> n, chars |-> n, padded |-> b]>> : n \in 0..1, b \in BOOLEAN}
Fields == [name : Strings255, description : Strings255, license : Licenses, tags : TagLists]
Patches == [name : {Nil}, description : Strings255 \cup {Nil}, license : Licenses, tags : TagLists]
Plain == [kind |-> "other", bytes |-> 1, chars |-> 1, padded |-> FALSE]
Bare == [name |-> Plain, description |-> Text!EmptyString, license |-> Nil, tags |-> Nil]
Complete == [name |-> Plain, description |-> Plain,
             license |-> [kind |-> "license", bytes |-> 3, chars |-> 3, padded |-> FALSE], tags |-> <<Plain>>]

SomeSymbols == ToSet(ID!Labels) \cup {"UserID", ID!Separator, "a"}
FieldTexts == BoundedSeq({"a", "LastName"}, 1)
SomeContributors ==
  [FirstName : FieldTexts, LastName : FieldTexts, ORCID : {<<>>, <<"a">>}, MiddleInitial : {<<>>, <<"a">>},
   Degree : {<<>>}, UserID : {<<"0", "a">>, <<"a", "0">>}]

Served == [id : 1..2, need : Instance!Services \cup {Nil}, ssm : Keys \cup {Failed}]
SomeResponses == {[status |-> 0, readable |-> FALSE]} \cup [status : {200, 400, 404, 500}, readable : BOOLEAN]

SmallInputs ==
  [of : {"categorize"}, strings : BoundedSeq(Strings, MaxLength)]
    \cup [of : {"banners"}, dois : BoundedSeq(DOIs, MaxLength),
          published : UNION {[D -> {NoBanner, Banner}] : D \in SUBSET DOIs}, max : 1..3]
    \cup [of : {"batches"}, dois : {[i \in 1..n |-> i] : n \in 0..10}, size : 1..4]
    \cup [of : {"page"}, table : Tables, limit : 0..3, offset : 0..4]
    \cup [of : {"manifest"}, rest : Rests]
    \cup [of : {"view"}, requests : Requests \X Requests, discover : Knowledge]
    \cup [of : {"list"}, collections : BoundedSeq(Collections, 2), discover : Knowledge]
    \cup [of : {"create"}, request : Fields]
    \cup [of : {"patch"}, current : {Bare, Complete}, request : Patches]
    \cup [of : {"contributor"}, contributor : SomeContributors]
    \cup [of : {"instance"}, requests : BoundedSeq(Served, 3)]
    \cup [of : {"get"}, request : [nodeID : BOOLEAN, flag : {"absent", "true", "malformed"}],
          world : [store : {"found", "notFound", "error"}, dois : BOOLEAN, client : BOOLEAN,
                   publishStatus : SomeResponses, datasets : SomeResponses, doi : SomeResponses]]

=============================================================================
