------------------------------ MODULE Discover ------------------------------
(***************************************************************************)
(* The Discover service, which is not part of this repository: modelled    *)
(* from the calls that service/internal_discover.go makes and from what    *)
(* the publish and unpublish handlers do with the answers.  A publish      *)
(* opens a new version, a finalize closes it as published or as failed, an *)
(* unpublish takes the collection down.  Nothing is assumed of Discover    *)
(* that the handlers do not rely on: it accepts calls in any order.        *)
(***************************************************************************)
EXTENDS Publishing, Integers

CONSTANTS FinalizeReplies,  \* what it answers to a finalize with PublishSuccess = true
          RemovalReplies    \* what it answers to an unpublish of a dataset it knows

\* The handlers translate any of the answers, to either of the two requests.
ASSUME RepliesAssumption == FinalizeReplies \subseteq Replies /\ RemovalReplies \subseteq Replies

VARIABLES versions,  \* versions[c]: how many versions Discover has opened
          pending,   \* pending[c]: the versions opened and not yet finalized
          live,      \* live[c]: the version the public sees, 0 if none
          sent       \* sent[c]: the content of the version opened last

discoverVars == <<versions, pending, live, sent>>

DiscoverTypeOK ==
  /\ versions \in [Collections -> Nat]
  /\ pending \in [Collections -> SUBSET Nat]
  /\ live \in [Collections -> Nat]
  /\ sent \in [Collections -> Contents \cup {None}]

DiscoverInit ==
  /\ versions = [c \in Collections |-> 0]
  /\ pending = [c \in Collections |-> {}]
  /\ live = [c \in Collections |-> 0]
  /\ sent = [c \in Collections |-> None]

\* POST /collection/{id}/publish: the answer carries the new version.
OpenVersion(c, x) ==
  /\ versions' = [versions EXCEPT ![c] = @ + 1]
  /\ pending' = [pending EXCEPT ![c] = @ \cup {versions[c] + 1}]
  /\ sent' = [sent EXCEPT ![c] = x]
  /\ UNCHANGED live

\* POST /collection/{id}/finalize with PublishSuccess = true.
FinalizeSuccess(c, v, reply) ==
  /\ pending' = [pending EXCEPT ![c] = @ \ {v}]
  /\ \/ reply # "PUBLISH_FAILED" /\ live' = [live EXCEPT ![c] = v]
     \/ reply # "PUBLISH_SUCCEEDED" /\ UNCHANGED live
  /\ UNCHANGED <<versions, sent>>

\* POST /collection/{id}/finalize with PublishSuccess = false.  Whether it
\* takes down a version that is live already is Discover's business.
FinalizeFailure(c, v) ==
  /\ pending' = [pending EXCEPT ![c] = @ \ {v}]
  /\ \/ live[c] = v /\ live' = [live EXCEPT ![c] = 0]
     \/ UNCHANGED live
  /\ UNCHANGED <<versions, sent>>

\* Discover answers 204 when it knows of no published version.
NeverPublished(c) == live[c] = 0

\* POST /collection/{id}/unpublish, answered UNPUBLISHED.
TakeDown(c) ==
  /\ versions[c] > 0
  /\ live' = [live EXCEPT ![c] = 0]
  /\ UNCHANGED <<versions, pending, sent>>

=============================================================================
