-------------------------- MODULE MCCollectionsList --------------------------
(***************************************************************************)
(* An instance of CollectionsList for TLC.                                 *)
(***************************************************************************)
EXTENDS CollectionsList

CONSTANTS d1, d2, text1, text2

\* One collection without DOIs, one with more than are shown.
TwoContents == {[text |-> text1, dois |-> <<>>], [text |-> text2, dois |-> <<d1, d2>>]}

=============================================================================
