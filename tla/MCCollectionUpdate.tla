------------------------- MODULE MCCollectionUpdate -------------------------
(***************************************************************************)
(* Instances of CollectionUpdate for TLC.                                  *)
(***************************************************************************)
EXTENDS CollectionUpdate

CONSTANTS d1, d2,       \* two published datasets
          draft,        \* an unpublished one
          foreign,      \* a DOI that is not Pennsieve's
          text1, text2

AllDOIs == {d1, d2, draft, foreign}
PennsieveDOIs == {d1, d2, draft}
TwoTexts == {text1, text2}

String(doi) == [doi |-> doi, padded |-> FALSE]
Padded(doi) == [doi |-> doi, padded |-> TRUE]

\* Additions in both orders, with removals that cross them, with and without a
\* text, one that repeats a DOI and one each that is refused.
SomePatches ==
  [text : {None}, add : {<<>>, <<String(d1)>>, <<String(d2)>>}, remove : {{}, {d1}, {d2}}]
    \cup [text : {text1}, add : {<<>>, <<String(d1)>>}, remove : {{}, {d2}}]
    \cup [text : {None}, add : {<<String(d1), String(d2)>>, <<String(d2), Padded(d1)>>}, remove : {{}}]
    \cup [text : {text2}, add : {<<>>, <<String(d1), Padded(d1)>>}, remove : {{d1, d2}}]
    \cup [text : {text1}, add : {<<String(d1), String(draft)>>, <<String(foreign)>>}, remove : {{d2}}]

=============================================================================
