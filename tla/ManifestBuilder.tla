-------------------------- MODULE ManifestBuilder ---------------------------
(***************************************************************************)
(* ManifestBuilder.Build (publishing/manifests.go): the manifest lists     *)
(* itself among its files, with its own size, and the digits of that       *)
(* number are part of the size.  Only the length of the marshalled         *)
(* document matters here.                                                  *)
(***************************************************************************)
EXTENDS Integers, FiniteSets

NumberOfDigits(size) == IF size = 0 THEN 1 ELSE Cardinality({k \in 0..9 : 10^k <= size})

\* The length of the document that states the given size, when all the rest of
\* it takes `rest` bytes.
Marshalled(rest, stated) == rest + NumberOfDigits(stated)

\* Mutation: no adjustment at a power of ten.
BuildUnadjusted(rest) ==
  LET withoutSize == Marshalled(rest, 0) - 1
  IN withoutSize + NumberOfDigits(withoutSize)

\* The document is marshalled with the size 0, whose one byte is subtracted.
Build(rest) ==
  LET withoutSize == Marshalled(rest, 0) - 1
      digits == NumberOfDigits(withoutSize)
      size == withoutSize + digits
  IN IF NumberOfDigits(size) > digits THEN size + 1 ELSE size

=============================================================================
