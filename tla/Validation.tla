----------------------------- MODULE Validation -----------------------------
(***************************************************************************)
(* The checks on the text of a collection: ValidateCreateRequest,          *)
(* ValidatePatchRequest and validateCollection (routes/) with the checks   *)
(* they share (validate/validate.go), and what the tables of Postgres      *)
(* accept.                                                                 *)
(*                                                                         *)
(* A string is [kind, bytes, chars, padded]: its length without the blanks *)
(* around it, in bytes and in characters, and whether there are such       *)
(* blanks; kind tells whether it is the name of a valid license.  A tag is *)
(* a string too.  Nil is a field that is left out.                         *)
(***************************************************************************)
EXTENDS Integers, Sequences, SequencesExt

CONSTANTS Nil, Failed

VarChar == 255

TrimSpace(s) == [s EXCEPT !.padded = FALSE]
Length(s) == s.bytes + (IF s.padded THEN 1 ELSE 0)
Characters(s) == s.chars + (IF s.padded THEN 1 ELSE 0)
EmptyString == [kind |-> "other", bytes |-> 0, chars |-> 0, padded |-> FALSE]

-----------------------------------------------------------------------------
(* validate.go.  Lengths are counted in bytes. *)

CollectionName(s) == Length(s) \in 1..VarChar

\* Mutation: the length of a description is not checked.
AnyDescription(s) == TRUE

CollectionDescription(s) == Length(s) <= VarChar

License(s, required) ==
  IF s = Nil THEN ~required
  ELSE IF Length(s) = 0 THEN ~required
  ELSE s.kind = "license" /\ ~s.padded

Tags(tags, required) ==
  IF tags = Nil THEN ~required
  ELSE IF tags = <<>> THEN ~required
  ELSE \A i \in DOMAIN tags : tags[i].bytes > 0

-----------------------------------------------------------------------------
(* Create and patch: what is stored of a request, or Failed. *)

\* Mutation: the license is trimmed for the check only.
CreatedWithLicenseAsSent(request) ==
  LET stored == [request EXCEPT !.name = TrimSpace(@), !.description = TrimSpace(@)]
      license == IF request.license = Nil THEN Nil ELSE TrimSpace(request.license)
  IN IF /\ CollectionName(stored.name) /\ CollectionDescription(stored.description)
        /\ License(license, FALSE) /\ Tags(stored.tags, FALSE)
     THEN stored ELSE Failed

\* The name and the description are trimmed, the license is not.
Created(request) ==
  LET stored == [request EXCEPT !.name = TrimSpace(@), !.description = TrimSpace(@)]
  IN IF /\ CollectionName(stored.name)
        /\ CollectionDescription(stored.description)
        /\ License(stored.license, FALSE)
        /\ Tags(stored.tags, FALSE)
     THEN stored ELSE Failed

\* Any field may be left out, and then stays as it is; the license is trimmed
\* here.
Patched(current, request) ==
  LET Trimmed(s) == IF s = Nil THEN Nil ELSE TrimSpace(s)
      name == Trimmed(request.name)
      description == Trimmed(request.description)
      license == Trimmed(request.license)
      Or(new, old) == IF new = Nil THEN old ELSE new
  IN IF /\ name # Nil => CollectionName(name)
        /\ description # Nil => CollectionDescription(description)
        /\ License(license, FALSE)
        /\ Tags(request.tags, FALSE)
     THEN [name |-> Or(name, current.name),
           description |-> Or(description, current.description),
           license |-> Or(license, current.license),
           tags |-> Or(request.tags, current.tags)]
     ELSE Failed

\* validateCollection, before a publish.
ReadyToPublish(stored) ==
  /\ Length(stored.description) > 0
  /\ License(stored.license, TRUE)
  /\ Tags(stored.tags, TRUE)

-----------------------------------------------------------------------------
(* The tables: VARCHAR(255) counts characters, and a name is not blank. *)

FitsTheTables(stored) ==
  /\ Characters(stored.name) <= VarChar
  /\ stored.name.bytes > 0
  /\ Characters(stored.description) <= VarChar
  /\ stored.license # Nil => Characters(stored.license) <= VarChar

=============================================================================
