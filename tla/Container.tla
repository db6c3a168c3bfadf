----------------------------- MODULE Container ------------------------------
(***************************************************************************)
(* One instance of the Lambda: it answers one request after the other and  *)
(* keeps its Container (container/container.go), whose clients are made    *)
(* when a request first needs them.  The clients of the internal services  *)
(* sign with a key that is read from SSM (config/ssm.go) and kept.         *)
(*                                                                         *)
(* A request is [id, need, ssm]: the internal service its handler asks the *)
(* container for, if any, and what SSM would answer meanwhile, a key or    *)
(* Failed.  A client is [key, logger]; the logger is that of a request.    *)
(***************************************************************************)
EXTENDS Sequences, SequencesExt

CONSTANTS Nil, Failed

Services == {"internalDiscover", "doi"}

\* NewContainerFromConfig.
NewContainer ==
  [value |-> Nil, logger |-> Nil, internalDiscover |-> Nil, doi |-> Nil]

\* Mutation: the value is not kept.
LoadEachTime(container, ssm) == [container |-> container, key |-> ssm]

\* SSMSetting.Load: SSM is asked until it has answered once; an error is not
\* kept.
Load(container, ssm) ==
  IF container.value # Nil THEN [container |-> container, key |-> container.value]
  ELSE IF ssm = Failed THEN [container |-> container, key |-> Failed]
  ELSE [container |-> [container EXCEPT !.value = ssm], key |-> ssm]

\* Mutation: a client is made even though there is no key.
GetWithAnyKey(container, service, ssm) ==
  IF container[service] # Nil THEN container
  ELSE LET loaded == Load(container, ssm)
       IN [loaded.container EXCEPT ![service] = [key |-> loaded.key, logger |-> container.logger]]

\* InternalDiscover and DOI: without a key there is no client, and the next
\* request tries again.
Get(container, service, ssm) ==
  IF container[service] # Nil THEN container
  ELSE LET loaded == Load(container, ssm)
       IN IF loaded.key = Failed THEN container
          ELSE [loaded.container EXCEPT
                  ![service] = [key |-> loaded.key, logger |-> container.logger]]

\* CollectionsServiceAPIHandler sets the logger of the request before the
\* handler runs.
Serve(container, request) ==
  LET own == [container EXCEPT !.logger = request.id]
  IN IF request.need = Nil THEN own ELSE Get(own, request.need, request.ssm)

\* The container after some requests.
After(requests) == FoldLeft(Serve, NewContainer, requests)

=============================================================================
