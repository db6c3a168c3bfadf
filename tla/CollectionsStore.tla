-------------------------- MODULE CollectionsStore --------------------------
(***************************************************************************)
(* The Postgres store (store/collections/collections.go): the collections  *)
(* rows with their DOIs, and publish_status, which has at most one row per *)
(* collection and goes with it (ON DELETE CASCADE).  Every operation below *)
(* is one SQL statement or one transaction, hence one atomic step; the     *)
(* handlers share nothing else inside the service.                         *)
(*                                                                         *)
(* What a collection holds (name, description, license, tags, DOIs) is     *)
(* abstracted to a member of Contents, told apart by what a publish makes  *)
(* of it.                                                                  *)
(***************************************************************************)
EXTENDS Publishing

VARIABLES row,          \* row[c]: "unborn", "present" or "deleted"
          content,      \* content[c]: what the row holds
          publication   \* publication[c]: the publish_status row

storeVars == <<row, content, publication>>

StoreTypeOK ==
  /\ row \in [Collections -> {"unborn", "present", "deleted"}]
  /\ content \in [Collections -> Contents \cup {None}]
  /\ publication \in [Collections -> Publications]

StoreInit ==
  /\ row = [c \in Collections |-> "unborn"]
  /\ content = [c \in Collections |-> None]
  /\ publication = [c \in Collections |-> NoPublication]

InsertCollection(c, x) ==
  /\ row[c] = "unborn"
  /\ row' = [row EXCEPT ![c] = "present"]
  /\ content' = [content EXCEPT ![c] = x]
  /\ UNCHANGED publication

\* The update of the row and of its DOIs is one transaction; any content may
\* come out of it, because a request may set any of the fields.
UpdateRow(c, x) ==
  /\ row[c] = "present"
  /\ content' = [content EXCEPT ![c] = x]
  /\ UNCHANGED <<row, publication>>

\* Deleting a row that is gone already is reported as an error and changes
\* nothing.
DeleteRow(c) ==
  IF row[c] = "present"
  THEN /\ row' = [row EXCEPT ![c] = "deleted"]
       /\ content' = [content EXCEPT ![c] = None]
       /\ publication' = [publication EXCEPT ![c] = NoPublication]
  ELSE UNCHANGED storeVars

\* Mutation: INSERT ... ON CONFLICT DO UPDATE without its WHERE clause.
PublishInProgressNever(c) == FALSE

\* The upsert of StartPublish touches no row when one is in progress; the
\* caller then gets ErrPublishInProgress.
PublishInProgress(c) == publication[c].status = "InProgress"

\* The upsert itself.  It breaks the foreign key when the collection is gone.
UpsertInProgress(c, type) ==
  /\ row[c] = "present"
  /\ ~PublishInProgress(c)
  /\ publication' = [publication EXCEPT ![c] = [status |-> "InProgress", type |-> type]]
  /\ UNCHANGED <<row, content>>

HasStatus(c) == publication[c] # NoPublication

\* FinishPublish overwrites the status whoever wrote it, and keeps the type.
FinishPublish(c, status) ==
  /\ publication' = IF HasStatus(c)
                    THEN [publication EXCEPT
                            ![c] = [status |-> status, type |-> publication[c].type]]
                    ELSE publication
  /\ UNCHANGED <<row, content>>

=============================================================================
