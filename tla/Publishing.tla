----------------------------- MODULE Publishing -----------------------------
(***************************************************************************)
(* The vocabulary of a collection's publication: what a row of the         *)
(* publish_status table says, the translation of Discover's answers into   *)
(* it, and the two tests the handlers make on it before they act.          *)
(* (publishing/status.go, dto/collection.go, routes/delete_collection.go,  *)
(* routes/unpublish_collection.go)                                         *)
(***************************************************************************)

CONSTANTS Collections,  \* identifiers of collections; an id is never reused
          Contents,     \* what a collection may hold
          None          \* no value

ASSUME NoneAssumption == None \notin Collections \cup Contents

Statuses == {"InProgress", "Completed", "Failed"}

\* Revision exists in status.go, but nothing in the service ever writes it.
Types == {"Publication", "Removal"}

\* A collection without a row in publish_status; the API shows it as a draft.
NoPublication == [status |-> "Draft", type |-> "None"]

Publications == [status : Statuses, type : Types] \cup {NoPublication}

\* What Discover's answer to a finalize or an unpublish request may say; which
\* of these it says to which of the two, Discover.tla leaves open.
Replies == {"PUBLISH_SUCCEEDED", "PUBLISH_FAILED", "PUBLISH_IN_PROGRESS",
            "UNPUBLISHED"}

\* Mutation: Discover's answer is stored as it is.
ToPublishingStatusRaw(reply) == reply

\* Mutation: every answer without an error counts as success.
ToPublishingStatusAlwaysCompleted(reply) == "Completed"

\* Any answer that is not one of the two successes counts as a failure.
ToPublishingStatus(reply) ==
  IF reply \in {"PUBLISH_SUCCEEDED", "UNPUBLISHED"} THEN "Completed" ELSE "Failed"

\* An unpublish request is turned away when there was no attempt to publish,
\* when one is running, and when the collection is already unpublished.
ValidForUnpublish(publication) ==
  /\ publication # NoPublication
  /\ publication.status # "InProgress"
  /\ publication # [status |-> "Completed", type |-> "Removal"]

\* A delete request passes only before the first attempt to publish and after
\* a completed removal.
ValidForDelete(publication) ==
  publication \in {NoPublication, [status |-> "Completed", type |-> "Removal"]}

=============================================================================
