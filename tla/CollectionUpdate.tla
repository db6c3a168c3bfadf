-------------------------- MODULE CollectionUpdate --------------------------
(***************************************************************************)
(* PATCH /{nodeId} (routes/patch_collection.go) and the transaction of     *)
(* UpdateCollection (store/collections/collections.go) on one collection,  *)
(* with several requests and a DELETE at the same time.  A request reads   *)
(* the collection, keeps of its changes those that differ from what it     *)
(* read, has new DOIs checked by Discover, and then runs up to three       *)
(* statements in one transaction.                                          *)
(*                                                                         *)
(* Postgres runs them at READ COMMITTED: a statement sees what others have *)
(* committed, and waits for a row that another transaction has written.    *)
(* Name, description, license and tags are one text; the order in which    *)
(* the DOIs were added is left out.                                        *)
(***************************************************************************)
EXTENDS Lists

CONSTANTS Editors,      \* PATCH requests that may run at the same time
          DOIs, Texts, None,
          Unpublished,  \* the DOIs that Discover does not know as published datasets
          Patches,      \* the requests, each [text, add, remove]
          Failing       \* whether calls to Discover and Postgres may fail

\* In a request, the text may be left out, DOIs to add are strings and may be
\* repeated.  A DOI to remove counts only if it is spelled as it is stored.
ASSUME PatchesAssumption ==
  \A p \in Patches :
    /\ p.text \in Texts \cup {None}
    /\ p.add \in Seq([doi : DOIs, padded : BOOLEAN])
    /\ p.remove \subseteq DOIs
ASSUME PennsieveAssumption == Pennsieve \subseteq DOIs
ASSUME NoneAssumption == None \notin Texts
ASSUME FailingAssumption == Failing \in BOOLEAN

VARIABLES present,  \* whether the collection's row is there
          text,     \* its text, as committed
          dois,     \* its DOIs, as committed
          pc,       \* pc[e]: what e does next
          patch,    \* patch[e]: the request of e, until it has read the collection
          update,   \* update[e]: the changes whose statements are still to be run
          written,  \* written[e]: what the open transaction of e has written
          answer    \* answer[e]: the last answer to e

storeVars == <<present, text, dois>>
vars == <<storeVars, pc, patch, update, written, answer>>

Labels == {"idle", "read", "check", "row", "remove", "add", "commit", "lookup"}
Answers == {"none", "ok", "badRequest", "notFound", "error"}

NoPatch == [text |-> None, add |-> <<>>, remove |-> {}]
Nothing == [text |-> None, add |-> {}, remove |-> {}]

\* The DOIs of an update are new or present, as its editor saw them; only a
\* running transaction has written anything.
TypeOK ==
  /\ present \in BOOLEAN
  /\ text \in Texts \cup {None}
  /\ dois \subseteq DOIs
  /\ pc \in [Editors -> Labels]
  /\ patch \in [Editors -> Patches \cup {NoPatch}]
  /\ answer \in [Editors -> Answers]
  /\ update \in [Editors -> [text : Texts \cup {None}, add : Seq(DOIs), remove : SUBSET DOIs]]
  /\ written \in [Editors -> [text : Texts \cup {None}, add : SUBSET DOIs, remove : SUBSET DOIs]]
  /\ \A e \in Editors :
       /\ update[e].remove \cap ToSet(update[e].add) = {}
       /\ written[e] # Nothing => present /\ pc[e] \in {"remove", "add", "commit"}

Init ==
  /\ present = TRUE
  /\ text \in Texts
  /\ dois \in SUBSET (Pennsieve \ Unpublished)
  /\ pc = [e \in Editors |-> "idle"]
  /\ patch = [e \in Editors |-> NoPatch]
  /\ update = [e \in Editors |-> NoPatch]
  /\ written = [e \in Editors |-> Nothing]
  /\ answer = [e \in Editors |-> "none"]

-----------------------------------------------------------------------------
(* The handler, up to the update. *)

\* Mutation: an open transaction is not rolled back.
ReplyWithoutRollback(e, a) ==
  /\ pc' = [pc EXCEPT ![e] = "idle"]
  /\ patch' = [patch EXCEPT ![e] = NoPatch]
  /\ update' = [update EXCEPT ![e] = NoPatch]
  /\ UNCHANGED written
  /\ answer' = [answer EXCEPT ![e] = a]

\* The answer ends the request; an open transaction is rolled back.
Reply(e, a) ==
  /\ pc' = [pc EXCEPT ![e] = "idle"]
  /\ patch' = [patch EXCEPT ![e] = NoPatch]
  /\ update' = [update EXCEPT ![e] = NoPatch]
  /\ written' = [written EXCEPT ![e] = Nothing]
  /\ answer' = [answer EXCEPT ![e] = a]

Request(e) ==
  /\ pc[e] = "idle"
  /\ \E p \in Patches : patch' = [patch EXCEPT ![e] = p]
  /\ pc' = [pc EXCEPT ![e] = "read"]
  /\ answer' = [answer EXCEPT ![e] = "none"]
  /\ UNCHANGED <<storeVars, update, written>>

\* Which statement of the transaction an update comes to next.
Statement(u) ==
  IF u.text # None THEN "row"
  ELSE IF u.remove # {} THEN "remove"
  ELSE IF u.add # <<>> THEN "add"
  ELSE "commit"

\* Mutation: the DOIs to add are not compared with those that are there.
GetUpdateRequestKeepsAdds(p) ==
  [text |-> IF p.text = text THEN None ELSE p.text,
   add |-> CategorizeDOIs(p.add).pennsieve,
   remove |-> p.remove \cap dois]

\* What of the request differs from the current state.
GetUpdateRequest(p) ==
  [text |-> IF p.text = text THEN None ELSE p.text,
   add |-> Without(CategorizeDOIs(p.add).pennsieve, dois),
   remove |-> p.remove \cap dois]

Read(e) ==
  LET u == GetUpdateRequest(patch[e]) IN
  /\ pc[e] = "read"
  /\ \/ ~present /\ Reply(e, "notFound")
     \/ present /\ CategorizeDOIs(patch[e].add).external # <<>> /\ Reply(e, "badRequest")
     \/ /\ present /\ CategorizeDOIs(patch[e].add).external = <<>>
        /\ update' = [update EXCEPT ![e] = u]
        /\ patch' = [patch EXCEPT ![e] = NoPatch]
        /\ pc' = [pc EXCEPT ![e] = IF u.add # <<>> THEN "check" ELSE Statement(u)]
        /\ UNCHANGED <<written, answer>>
  /\ UNCHANGED storeVars

\* Discover is asked about the DOIs to add only.
Check(e) ==
  /\ pc[e] = "check"
  /\ IF ToSet(update[e].add) \cap Unpublished # {}
     THEN Reply(e, "badRequest")
     ELSE /\ pc' = [pc EXCEPT ![e] = Statement(update[e])]
          /\ UNCHANGED <<patch, update, written, answer>>
  /\ UNCHANGED storeVars

-----------------------------------------------------------------------------
(* UpdateCollection.  A statement is done when its part of the update is    *)
(* moved to what the transaction has written.                              *)

Done(e, u, w) ==
  /\ update' = [update EXCEPT ![e] = u]
  /\ written' = [written EXCEPT ![e] = w]
  /\ pc' = [pc EXCEPT ![e] = Statement(u)]
  /\ UNCHANGED <<patch, answer>>

\* The rows that e's next statement has to write and f has written.
Waits(e, f) ==
  /\ e # f
  /\ \/ pc[e] = "row" /\ written[f].text # None
     \/ pc[e] = "remove" /\ update[e].remove \cap written[f].remove # {}
     \/ pc[e] = "add" /\ Head(update[e].add) \in written[f].add \cup written[f].remove

Blocked(e) == \E f \in Editors : Waits(e, f)

\* UPDATE collections.  It is the only statement that notices that the
\* collection is gone.
UpdateRow(e) ==
  /\ pc[e] = "row"
  /\ ~Blocked(e)
  /\ IF present
     THEN Done(e, [update[e] EXCEPT !.text = None], [written[e] EXCEPT !.text = update[e].text])
     ELSE Reply(e, "notFound")
  /\ UNCHANGED storeVars

\* Mutation: the DELETE is not part of the transaction.
RemoveDOIsAtOnce(e) ==
  /\ pc[e] = "remove"
  /\ ~Blocked(e)
  /\ Done(e, [update[e] EXCEPT !.remove = {}], written[e])
  /\ dois' = dois \ update[e].remove
  /\ UNCHANGED <<present, text>>

\* DELETE FROM dois: rows that have gone in the meantime are not found.
RemoveDOIs(e) ==
  /\ pc[e] = "remove"
  /\ ~Blocked(e)
  /\ Done(e, [update[e] EXCEPT !.remove = {}],
             [written[e] EXCEPT !.remove = update[e].remove \cap dois])
  /\ UNCHANGED storeVars

\* INSERT INTO dois ... ON CONFLICT DO NOTHING, row by row.  A DOI that is
\* there in the meantime is left alone; without the collection the foreign
\* key is broken.
AddDOI(e) ==
  LET doi == Head(update[e].add)
      u == [update[e] EXCEPT !.add = Tail(@)]
  IN
  /\ pc[e] = "add"
  /\ ~Blocked(e)
  /\ IF ~present THEN Reply(e, "error")
     ELSE IF doi \in dois THEN Done(e, u, written[e])
     ELSE Done(e, u, [written[e] EXCEPT !.add = @ \cup {doi}])
  /\ UNCHANGED storeVars

Commit(e) ==
  /\ pc[e] = "commit"
  /\ text' = IF written[e].text # None THEN written[e].text ELSE text
  /\ dois' = (dois \ written[e].remove) \cup written[e].add
  /\ UNCHANGED present
  /\ pc' = [pc EXCEPT ![e] = "lookup"]
  /\ written' = [written EXCEPT ![e] = Nothing]
  /\ UNCHANGED <<patch, update, answer>>

\* The collection is read again for the answer, outside the transaction.
Lookup(e) ==
  /\ pc[e] = "lookup"
  /\ Reply(e, IF present THEN "ok" ELSE "notFound")
  /\ UNCHANGED storeVars

\* Postgres ends one of the transactions that wait for each other.
AbortDeadlock(e) ==
  /\ \E deadlocked \in SUBSET Editors :
       /\ e \in deadlocked
       /\ \A f \in deadlocked :
            /\ \E g \in deadlocked : Waits(f, g)
            /\ \E g \in deadlocked : Waits(g, f)
  /\ Reply(e, "error")
  /\ UNCHANGED storeVars

\* A call fails.  A commit that took effect and reports an error is a commit
\* whose lookup fails: both are answered as errors.
CallFails(e) ==
  /\ Failing
  /\ pc[e] # "idle"
  /\ Reply(e, "error")
  /\ UNCHANGED storeVars

\* DELETE /{nodeId}: the rows of the collection and of its DOIs have to be free.
DeleteCollection ==
  /\ present
  /\ \A e \in Editors : written[e] = Nothing
  /\ present' = FALSE
  /\ text' = None
  /\ dois' = {}
  /\ UNCHANGED <<pc, patch, update, written, answer>>

-----------------------------------------------------------------------------

Step(e) ==
  \/ Read(e) \/ Check(e) \/ UpdateRow(e) \/ RemoveDOIs(e) \/ AddDOI(e) \/ Commit(e) \/ Lookup(e)

Next ==
  \/ DeleteCollection
  \/ \E e \in Editors : Request(e) \/ Step(e) \/ AbortDeadlock(e) \/ CallFails(e)

Spec == Init /\ [][Next]_vars

\* A request that waits for rows is next when they are free (Postgres serves
\* the waiting transactions in turn), and a deadlock is found in the end.
Fairness ==
  /\ \A e \in Editors : SF_vars(Step(e))
  /\ WF_vars(\E e \in Editors : AbortDeadlock(e))

FairSpec == Spec /\ Fairness

-----------------------------------------------------------------------------
(* Properties *)

TextKey == "text"

\* A DOI is no key of anything else.
ASSUME TextKeyAssumption == TextKey \notin DOIs

ChangesOf(t, add, remove) ==
  (IF t = None THEN {} ELSE {[key |-> TextKey, value |-> t]})
    \cup [key : add, value : {"in"}]
    \cup [key : remove, value : {"out"}]

\* What of e's request is neither made nor found true.
askedBar ==
  [e \in Editors |->
     ChangesOf(patch[e].text, {s.doi : s \in ToSet(patch[e].add)}, patch[e].remove)
       \cup ChangesOf(update[e].text, ToSet(update[e].add), update[e].remove)
       \cup ChangesOf(written[e].text, written[e].add, written[e].remove)]

\* Whether a request is open at the label c, or how it ended with the answer a.
StatusAt(c, a) ==
  IF c # "idle" THEN "open"
  ELSE IF a \in {"none", "ok"} THEN a
  ELSE "failed"

statusBar == [e \in Editors |-> StatusAt(pc[e], answer[e])]

CollBar(t, ds) ==
  [k \in DOIs \cup {TextKey} |->
     IF k = TextKey THEN t ELSE IF k \in ds THEN "in" ELSE "out"]

Atomic == INSTANCE AtomicEdits WITH
  Keys <- DOIs \cup {TextKey},
  Values <- Texts \cup {None, "in", "out"},
  Empty <- CollBar(None, {}),
  coll <- CollBar(text, dois),
  status <- statusBar,
  asked <- askedBar

\* Whatever updates and deletions overlap: each change of a request that
\* succeeds was found true or was made, and a request makes its changes all at
\* once or, if it fails, none of them (the transaction of UpdateCollection,
\* collections.go:410).
AtomicSpec == Atomic!Spec

\* Every request is answered, although requests wait for each other's rows.
EveryPatchAnswered == \A e \in Editors : pc[e] # "idle" ~> pc[e] = "idle"

=============================================================================
