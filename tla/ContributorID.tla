--------------------------- MODULE ContributorID ----------------------------
(***************************************************************************)
(* InternalContributorBuilder (service/discover_models.go): the id of the  *)
(* contributor sent with a publish is a hash of the contributor's fields.  *)
(* The hash is left out; what it is computed of is the sequence of bytes   *)
(* below.                                                                  *)
(*                                                                         *)
(* A string is a sequence of symbols.  The text of a label may occur in a  *)
(* string, the byte 0 may not: the fields come from Postgres, which does   *)
(* not store it in a text.                                                 *)
(***************************************************************************)
EXTENDS Sequences, SequencesExt

Labels == <<"FirstName", "LastName", "ORCID", "MiddleInitial", "Degree">>
Separator == "0"

\* Mutation: no separators.
WrittenWithoutSeparators(label, value) == <<label>> \o value

WriteString(label, value) == <<label, Separator>> \o value \o <<Separator>>

\* Eight bytes, any of which may be 0.
WriteInt64(label, bytes) == <<label, Separator>> \o bytes \o <<Separator>>

\* What Build hashes, always in the same order.
Written(contributor) ==
  FlattenSeq([i \in DOMAIN Labels |-> WriteString(Labels[i], contributor[Labels[i]])])
    \o WriteInt64("UserID", contributor.UserID)

=============================================================================
