---------------------------- MODULE AtomicEdits -----------------------------
(***************************************************************************)
(* What PATCH promises of a collection that several requests change at     *)
(* once.  A collection maps its keys (its text, and each DOI) to values,   *)
(* and a request is a set of changes [key, value].  A request that is      *)
(* answered with success has each of its changes either found true already *)
(* at some moment, or made; those it made it made all at one moment.  A    *)
(* request that fails has made all that it found not true, or none.        *)
(*                                                                         *)
(* It does not promise that the requests take effect one after the other:  *)
(* the moment at which a change is found true may lie before the moment at *)
(* which the others are made.                                              *)
(***************************************************************************)
CONSTANTS Keys, Values, Editors,
          Empty  \* what a deleted collection maps the keys to

VARIABLES coll,   \* coll[k]: the value of the key k
          status, \* status[e]: whether e's request is open, or how the last one ended
          asked   \* asked[e]: the changes of e's request still to be made

atomicVars == <<coll, status, asked>>

Changes == [key : Keys, value : Values]

AtomicTypeOK ==
  /\ coll \in [Keys -> Values]
  /\ status \in [Editors -> {"none", "open", "ok", "failed"}]
  /\ asked \in [Editors -> SUBSET Changes]

Init ==
  /\ coll \in [Keys -> Values]
  /\ status = [e \in Editors |-> "none"]
  /\ asked = [e \in Editors |-> {}]

Ask(e) ==
  /\ status[e] # "open"
  /\ status' = [status EXCEPT ![e] = "open"]
  /\ asked'[e] \subseteq Changes
  /\ asked' = [asked EXCEPT ![e] = asked'[e]]
  /\ UNCHANGED coll

\* Some changes are true already.
FindTrue(e) ==
  /\ asked'[e] \subseteq asked[e]
  /\ \A change \in asked[e] \ asked'[e] : coll[change.key] = change.value
  /\ asked' = [asked EXCEPT ![e] = asked'[e]]
  /\ UNCHANGED <<coll, status>>

\* All that is left is made, at once.
Make(e) ==
  /\ coll' \in [Keys -> Values]
  /\ \A k \in Keys :
       IF \E change \in asked[e] : change.key = k
       THEN [key |-> k, value |-> coll'[k]] \in asked[e]
       ELSE coll'[k] = coll[k]
  /\ asked' = [asked EXCEPT ![e] = {}]
  /\ UNCHANGED status

Succeed(e) ==
  /\ status[e] = "open" /\ asked[e] = {}
  /\ status' = [status EXCEPT ![e] = "ok"]
  /\ UNCHANGED <<coll, asked>>

\* The request is answered with an error, made or not.
Fail(e) ==
  /\ status[e] = "open"
  /\ status' = [status EXCEPT ![e] = "failed"]
  /\ asked' = [asked EXCEPT ![e] = {}]
  /\ UNCHANGED coll

Delete ==
  /\ coll' = Empty
  /\ UNCHANGED <<status, asked>>

Next == Delete \/ \E e \in Editors : Ask(e) \/ FindTrue(e) \/ Make(e) \/ Succeed(e) \/ Fail(e)

Spec == Init /\ [][Next]_atomicVars

=============================================================================
