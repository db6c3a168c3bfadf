------------------------------ MODULE Answers -------------------------------
(***************************************************************************)
(* The status codes with which GET /{nodeId} and GET /{nodeId}/doi answer  *)
(* (routes/get_collection.go, routes/get_doi.go), depending on what        *)
(* Postgres, SSM and the other services answer to them (shared/util/       *)
(* http.go, service/).                                                     *)
(*                                                                         *)
(* The response of a service is [status, readable]; the status 0 stands    *)
(* for no response.  The world is a record of the store's outcome (found,  *)
(* notFound or error), whether the collection has DOIs, whether the        *)
(* container has the internal client, and the responses to the lookups of  *)
(* the publish status, of the datasets and of the DOI.                     *)
(***************************************************************************)
EXTENDS Integers

\* Invoke and UnmarshallResponse: an error, with the status of the response if
\* there is one, or a result.
Invoke(response) ==
  IF response.status = 0 THEN [ok |-> FALSE, status |-> 0]
  ELSE IF response.status \in 400..599 THEN [ok |-> FALSE, status |-> response.status]
  ELSE [ok |-> response.readable, status |-> 0]

\* Mutation: every error of the client's kind is taken for a missing DOI.
GetLatestDOIAnyClientError(response) ==
  IF Invoke(response).ok THEN "ok"
  ELSE IF Invoke(response).status \in 400..499 THEN "notFound"
  ELSE "error"

GetLatestDOI(response) ==
  IF Invoke(response).ok THEN "ok"
  ELSE IF Invoke(response).status = 404 THEN "notFound"
  ELSE "error"

\* A request has a node id or not; the flag is absent, true or not a Boolean.
GetCollection(request, world) ==
  IF ~request.nodeID \/ request.flag = "malformed" THEN 400
  ELSE IF world.store = "notFound" THEN 404
  ELSE IF world.store = "error" THEN 500
  ELSE IF request.flag = "true" /\ ~(world.client /\ Invoke(world.publishStatus).ok) THEN 500
  ELSE IF world.dois /\ ~Invoke(world.datasets).ok THEN 500
  ELSE 200

GetDOI(request, world) ==
  IF ~request.nodeID THEN 400
  ELSE IF world.store = "notFound" THEN 404
  ELSE IF world.store = "error" \/ ~world.client THEN 500
  ELSE CASE GetLatestDOI(world.doi) = "ok" -> 200
         [] GetLatestDOI(world.doi) = "notFound" -> 404
         [] GetLatestDOI(world.doi) = "error" -> 500

=============================================================================
