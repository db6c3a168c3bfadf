-------------------------- MODULE PublishLifecycle --------------------------
(***************************************************************************)
(* The handlers that move a collection through its publication: publish,   *)
(* unpublish and delete (routes/publish_collection.go,                     *)
(* routes/unpublish_collection.go, routes/delete_collection.go), together  *)
(* with creation and update, against the Postgres store, Discover and the  *)
(* publish bucket.                                                         *)
(*                                                                         *)
(* Each request runs in a Lambda invocation of its own.  A process p is a  *)
(* slot for one invocation; pc[p] names the call it makes next, and the    *)
(* slot is "idle" again once the request is answered.  Between two calls   *)
(* any other invocation may run, or this one may be killed.                *)
(***************************************************************************)
EXTENDS CollectionsStore, Discover, ManifestStore

CONSTANTS Procs,        \* invocations that may run at the same time
          Publishable,  \* the contents that validateCollection accepts and that have DOIs
          MaxVersion,   \* bound: no publish is taken up once Discover has this many versions
          Refused,      \* calls that may fail without having had an effect
          Lost,         \* calls that may report an error after they took effect
          MayCrash      \* whether an invocation may be killed

\* The calls that change state outside the invocation, and Prepare, which
\* stands for the lookups between StartPublish and the publish request.
Calls == {"StartPublish", "FinishPublish", "Prepare", "PublishCollection",
          "SaveManifest", "DeleteManifestVersion", "FinalizeCollectionPublish",
          "UnpublishCollection", "DeleteCollection"}

ASSUME PublishableAssumption == Publishable \subseteq Contents
ASSUME CallsAssumption == Refused \subseteq Calls /\ Lost \subseteq Calls
ASSUME BoundAssumption == MaxVersion \in Nat
ASSUME CrashAssumption == MayCrash \in BOOLEAN

\* Invocations are told apart from the states of a lock nobody holds.
ASSUME LockAssumption == Procs \cap {"free", "orphaned", "closed"} = {}

VARIABLES pc,        \* pc[p]: the call p makes next
          target,    \* target[p]: the collection of p's request
          snapshot,  \* snapshot[p]: what GetCollection returned of it to a publish
          version,   \* version[p]: the version Discover opened for p
          outcome,   \* outcome[p]: the status p will finish with
          todo       \* todo[p]: the cleanup functions p still has to run

localVars == <<pc, target, snapshot, version, outcome, todo>>
vars == <<storeVars, discoverVars, objects, localVars>>

Labels == {"idle", "startPublication", "prepare", "publish", "save", "finalize",
           "finishPublication", "startRemoval", "unpublish", "finishRemoval",
           "delete", "cleanup"}

Cleanups == {"statusIfExists", "status", "manifest", "finalize"}

LocalTypeOK ==
  /\ pc \in [Procs -> Labels]
  /\ target \in [Procs -> Collections \cup {None}]
  /\ snapshot \in [Procs -> Contents \cup {None}]
  /\ version \in [Procs -> Nat]
  /\ outcome \in [Procs -> Statuses \cup {None}]
  /\ todo \in [Procs -> SUBSET Cleanups]
  /\ \A p \in Procs :
       /\ pc[p] # "idle" => target[p] \in Collections
       /\ pc[p] \in {"finishPublication", "finishRemoval"} => outcome[p] \in Statuses

\* Every variable has its type; a running invocation has a collection, and one
\* that is about to finish has a status to write.
TypeOK == StoreTypeOK /\ DiscoverTypeOK /\ ManifestTypeOK /\ LocalTypeOK

Init ==
  /\ StoreInit
  /\ DiscoverInit
  /\ ManifestInit
  /\ pc = [p \in Procs |-> "idle"]
  /\ target = [p \in Procs |-> None]
  /\ snapshot = [p \in Procs |-> None]
  /\ version = [p \in Procs |-> 0]
  /\ outcome = [p \in Procs |-> None]
  /\ todo = [p \in Procs |-> {}]

-----------------------------------------------------------------------------
(* How an invocation moves on. *)

Goto(p, label) ==
  /\ pc' = [pc EXCEPT ![p] = label]
  /\ UNCHANGED <<target, snapshot, version, outcome, todo>>

\* A request is taken up: GetCollection found it and the checks on it passed.
Enter(p, c, label, read) ==
  /\ pc[p] = "idle"
  /\ pc' = [pc EXCEPT ![p] = label]
  /\ target' = [target EXCEPT ![p] = c]
  /\ snapshot' = [snapshot EXCEPT ![p] = read]
  /\ UNCHANGED <<version, outcome, todo, storeVars, discoverVars, objects>>

\* The request is answered and its invocation keeps nothing.
Return(p) ==
  /\ pc' = [pc EXCEPT ![p] = "idle"]
  /\ target' = [target EXCEPT ![p] = None]
  /\ snapshot' = [snapshot EXCEPT ![p] = None]
  /\ version' = [version EXCEPT ![p] = 0]
  /\ outcome' = [outcome EXCEPT ![p] = None]
  /\ todo' = [todo EXCEPT ![p] = {}]

\* cleanupOnError: the handler fails, and these functions run before it returns.
CleanUp(p, cleanups) ==
  /\ pc' = [pc EXCEPT ![p] = "cleanup"]
  /\ todo' = [todo EXCEPT ![p] = cleanups]
  /\ UNCHANGED <<target, snapshot, version, outcome>>

\* A call reports an error, whether or not it took effect.
Fails(call, Effect, before) ==
  \/ call \in Refused /\ UNCHANGED before
  \/ call \in Lost /\ Effect

-----------------------------------------------------------------------------
(* Steps that publish and unpublish share. *)

\* Mutation: ErrPublishInProgress is cleaned up like any other error.
StartPublishCleansConflict(p, type, at, next) ==
  /\ pc[p] = at
  /\ \/ UpsertInProgress(target[p], type) /\ Goto(p, next)
     \/ /\ row[target[p]] # "present" \/ PublishInProgress(target[p])
        /\ UNCHANGED storeVars
        /\ CleanUp(p, {"statusIfExists"})
  /\ UNCHANGED <<discoverVars, objects>>

\* When a publish is in progress the caller gets 409 and leaves the status
\* alone.  Any other error, a broken foreign key among them, is cleaned up.
StartPublish(p, type, at, next) ==
  /\ pc[p] = at
  /\ \/ UpsertInProgress(target[p], type) /\ Goto(p, next)
     \/ PublishInProgress(target[p]) /\ UNCHANGED storeVars /\ Return(p)
     \/ /\ \/ row[target[p]] # "present" /\ UNCHANGED storeVars
           \/ Fails("StartPublish", UpsertInProgress(target[p], type), storeVars)
        /\ CleanUp(p, {"statusIfExists"})
  /\ UNCHANGED <<discoverVars, objects>>

\* Mutation: the handler waits for a status row that is not there.
FinishWaiting(p, at, cleanups) ==
  /\ pc[p] = at
  /\ \/ HasStatus(target[p]) /\ FinishPublish(target[p], outcome[p]) /\ Return(p)
     \/ /\ Fails("FinishPublish", FinishPublish(target[p], outcome[p]), storeVars)
        /\ CleanUp(p, cleanups)
  /\ UNCHANGED <<discoverVars, objects>>

\* FinishPublish is strict here: a missing status row is an error.
Finish(p, at, cleanups) ==
  /\ pc[p] = at
  /\ \/ HasStatus(target[p]) /\ FinishPublish(target[p], outcome[p]) /\ Return(p)
     \/ /\ \/ ~HasStatus(target[p]) /\ UNCHANGED storeVars
           \/ Fails("FinishPublish", FinishPublish(target[p], outcome[p]), storeVars)
        /\ CleanUp(p, cleanups)
  /\ UNCHANGED <<discoverVars, objects>>

-----------------------------------------------------------------------------
(* POST /{nodeId}/publish *)

PublishRead(p, c) ==
  /\ row[c] = "present"
  /\ versions[c] < MaxVersion
  /\ Enter(p, c, "startPublication", content[c])

PublishStart(p) == StartPublish(p, "Publication", "startPublication", "prepare")

\* Mutation: a failed check answers at once, without cleanupStatus.
PrepareNoCleanup(p) ==
  /\ pc[p] = "prepare"
  /\ \/ snapshot[p] \in Publishable /\ Goto(p, "publish")
     \/ (snapshot[p] \notin Publishable \/ "Prepare" \in Refused) /\ Return(p)
  /\ UNCHANGED <<storeVars, discoverVars, objects>>

\* The checks on what was read before the publish was started, and the
\* lookups of the DOIs, of the user and of Discover's credentials.
Prepare(p) ==
  /\ pc[p] = "prepare"
  /\ \/ snapshot[p] \in Publishable /\ Goto(p, "publish")
     \/ /\ snapshot[p] \notin Publishable \/ "Prepare" \in Refused
        /\ CleanUp(p, {"status"})
  /\ UNCHANGED <<storeVars, discoverVars, objects>>

\* Mutation: the collection is read again for the publish request.
PublishToDiscoverRereading(p) ==
  /\ pc[p] = "publish"
  /\ OpenVersion(target[p], content[target[p]])
  /\ pc' = [pc EXCEPT ![p] = "save"]
  /\ version' = [version EXCEPT ![p] = versions[target[p]] + 1]
  /\ UNCHANGED <<target, snapshot, outcome, todo, storeVars, objects>>

PublishToDiscover(p) ==
  /\ pc[p] = "publish"
  /\ \/ /\ OpenVersion(target[p], snapshot[p])
        /\ pc' = [pc EXCEPT ![p] = "save"]
        /\ version' = [version EXCEPT ![p] = versions[target[p]] + 1]
        /\ UNCHANGED <<target, snapshot, outcome, todo>>
     \/ /\ Fails("PublishCollection", OpenVersion(target[p], snapshot[p]), discoverVars)
        /\ CleanUp(p, {"status"})
  /\ UNCHANGED <<storeVars, objects>>

\* Mutation: the version that was opened is not finalized as failed.
SaveNoFinalize(p) ==
  /\ pc[p] = "save"
  /\ \/ SaveManifest(target[p], version[p]) /\ Goto(p, "finalize")
     \/ /\ Fails("SaveManifest", SaveManifest(target[p], version[p]), objects)
        /\ CleanUp(p, {"status"})
  /\ UNCHANGED <<storeVars, discoverVars>>

\* Mutation: the error of SaveManifest is not looked at.
SaveGoesOn(p) ==
  /\ pc[p] = "save"
  /\ \/ SaveManifest(target[p], version[p])
     \/ Fails("SaveManifest", SaveManifest(target[p], version[p]), objects)
  /\ Goto(p, "finalize")
  /\ UNCHANGED <<storeVars, discoverVars>>

\* Building the manifest may fail too; it is cleaned up in the same way.
Save(p) ==
  /\ pc[p] = "save"
  /\ \/ SaveManifest(target[p], version[p]) /\ Goto(p, "finalize")
     \/ /\ Fails("SaveManifest", SaveManifest(target[p], version[p]), objects)
        /\ CleanUp(p, {"status", "finalize"})
  /\ UNCHANGED <<storeVars, discoverVars>>

Finalize(p) ==
  /\ pc[p] = "finalize"
  /\ \E reply \in FinalizeReplies :
       \/ /\ FinalizeSuccess(target[p], version[p], reply)
          /\ pc' = [pc EXCEPT ![p] = "finishPublication"]
          /\ outcome' = [outcome EXCEPT ![p] = ToPublishingStatus(reply)]
          /\ UNCHANGED <<target, snapshot, version, todo>>
       \/ /\ Fails("FinalizeCollectionPublish",
                   FinalizeSuccess(target[p], version[p], reply), discoverVars)
          /\ CleanUp(p, {"status", "manifest", "finalize"})
  /\ UNCHANGED <<storeVars, objects>>

PublishFinish(p) == Finish(p, "finishPublication", {"status", "manifest", "finalize"})

-----------------------------------------------------------------------------
(* POST /{nodeId}/unpublish *)

UnpublishRead(p, c) ==
  /\ row[c] = "present"
  /\ ValidForUnpublish(publication[c])
  /\ Enter(p, c, "startRemoval", None)

UnpublishStart(p) == StartPublish(p, "Removal", "startRemoval", "unpublish")

\* Only UNPUBLISHED says that the dataset was taken down.  Any other answer
\* without an error finishes the removal all the same, without a cleanup, with
\* the status it translates to: PUBLISH_SUCCEEDED with Completed.
Unpublish(p) ==
  LET c == target[p]
      Answered(reply) ==
        /\ pc' = [pc EXCEPT ![p] = "finishRemoval"]
        /\ outcome' = [outcome EXCEPT ![p] = ToPublishingStatus(reply)]
        /\ UNCHANGED <<target, snapshot, version, todo>>
  IN
  /\ pc[p] = "unpublish"
  /\ \/ /\ "UNPUBLISHED" \in RemovalReplies
        /\ TakeDown(c) /\ RemoveObjects(c) /\ Answered("UNPUBLISHED")
     \/ /\ versions[c] > 0
        /\ UNCHANGED <<discoverVars, objects>>
        /\ \E reply \in RemovalReplies \ {"UNPUBLISHED"} : Answered(reply)
     \/ /\ \/ NeverPublished(c) /\ UNCHANGED <<discoverVars, objects>>
           \/ Fails("UnpublishCollection", TakeDown(c) /\ RemoveObjects(c),
                    <<discoverVars, objects>>)
        /\ CleanUp(p, {"status"})
  /\ UNCHANGED storeVars

UnpublishFinish(p) == Finish(p, "finishRemoval", {"status"})

-----------------------------------------------------------------------------
(* DELETE /{nodeId}, POST / and PATCH /{nodeId} *)

DeleteRead(p, c) ==
  /\ row[c] = "present"
  /\ ValidForDelete(publication[c])
  /\ Enter(p, c, "delete", None)

\* The row is deleted by its id alone; the answer is 204 or 500.
Delete(p) ==
  /\ pc[p] = "delete"
  /\ \/ DeleteRow(target[p])
     \/ "DeleteCollection" \in Refused /\ UNCHANGED storeVars
  /\ Return(p)
  /\ UNCHANGED <<discoverVars, objects>>

\* Creation checks the DOIs with Discover and then inserts in one statement.
Create(c, x) ==
  /\ InsertCollection(c, x)
  /\ UNCHANGED <<discoverVars, objects, localVars>>

\* An update writes what the request changes, whatever the publish status.
Patch(c, x) ==
  /\ UpdateRow(c, x)
  /\ UNCHANGED <<discoverVars, objects, localVars>>

\* A request that is turned away before it writes: a missing collection, a
\* role that is too low, a status that does not allow it.
Refuse(p) ==
  /\ pc[p] = "idle"
  /\ UNCHANGED vars

-----------------------------------------------------------------------------
(* cleanupOnError runs its functions in order and keeps going on errors.   *)
(* The status comes first, then the manifest, then Discover.               *)

CleanupDone(p, done) ==
  LET rest == todo[p] \ done IN
  IF rest = {}
  THEN Return(p)
  ELSE todo' = [todo EXCEPT ![p] = rest] /\ UNCHANGED <<pc, target, snapshot, version, outcome>>

StatusCleanups == {"statusIfExists", "status"}

\* Mutation: the status is left as it is.
CleanupStatusSkipped(p) ==
  /\ pc[p] = "cleanup"
  /\ todo[p] \cap StatusCleanups # {}
  /\ CleanupDone(p, StatusCleanups)
  /\ UNCHANGED <<storeVars, discoverVars, objects>>

CleanupStatus(p) ==
  /\ pc[p] = "cleanup"
  /\ todo[p] \cap StatusCleanups # {}
  /\ \/ FinishPublish(target[p], "Failed")
     \/ "FinishPublish" \in Refused /\ UNCHANGED storeVars
  /\ CleanupDone(p, StatusCleanups)
  /\ UNCHANGED <<discoverVars, objects>>

CleanupManifest(p) ==
  /\ pc[p] = "cleanup"
  /\ todo[p] \cap StatusCleanups = {}
  /\ "manifest" \in todo[p]
  /\ \/ DeleteManifestVersion(target[p], version[p])
     \/ "DeleteManifestVersion" \in Refused /\ UNCHANGED objects
  /\ CleanupDone(p, {"manifest"})
  /\ UNCHANGED <<storeVars, discoverVars>>

CleanupDiscover(p) ==
  /\ pc[p] = "cleanup"
  /\ todo[p] = {"finalize"}
  /\ \/ FinalizeFailure(target[p], version[p])
     \/ "FinalizeCollectionPublish" \in Refused /\ UNCHANGED discoverVars
  /\ CleanupDone(p, {"finalize"})
  /\ UNCHANGED <<storeVars, objects>>

\* The Lambda runtime kills the invocation: its 900 seconds are over, or it
\* ran out of memory.  No cleanup runs.
Crash(p) ==
  /\ MayCrash
  /\ pc[p] # "idle"
  /\ Return(p)
  /\ UNCHANGED <<storeVars, discoverVars, objects>>

-----------------------------------------------------------------------------

\* An invocation that has taken up a request makes its next call.
Step(p) ==
  \/ PublishStart(p) \/ Prepare(p) \/ PublishToDiscover(p) \/ Save(p) \/ Finalize(p)
  \/ PublishFinish(p)
  \/ UnpublishStart(p) \/ Unpublish(p) \/ UnpublishFinish(p)
  \/ Delete(p)
  \/ CleanupStatus(p) \/ CleanupManifest(p) \/ CleanupDiscover(p)

Request(p) ==
  \/ \E c \in Collections : PublishRead(p, c) \/ UnpublishRead(p, c) \/ DeleteRead(p, c)
  \/ Refuse(p)

Next ==
  \/ \E p \in Procs : Request(p) \/ Step(p) \/ Crash(p)
  \/ \E c \in Collections, x \in Contents : Create(c, x) \/ Patch(c, x)

Spec == Init /\ [][Next]_vars

\* A running invocation is scheduled until it answers; nobody has to send a
\* request, and nothing has to crash.
Fairness == \A p \in Procs : WF_vars(Step(p))

FairSpec == Spec /\ Fairness

-----------------------------------------------------------------------------
(* Properties *)

\* p is between the StartPublish that let it in and the call that writes the
\* outcome: the collection's InProgress status is p's.
Holding(p) ==
  \/ pc[p] \in {"prepare", "publish", "save", "finalize", "finishPublication",
                "unpublish", "finishRemoval"}
  \/ pc[p] = "cleanup" /\ "status" \in todo[p]

\* Two publish or unpublish processes never run for one collection at the
\* same time.  This is what StartPublish is for ("Make sure there is no
\* in-progress publish for this collection", publish_collection.go:59).
Exclusive ==
  \A p, q \in Procs : p # q /\ Holding(p) /\ Holding(q) => target[p] # target[q]

\* While a process runs, the collection says so, unless it was deleted under
\* it: no other request overwrites the status.
RunningMeansInProgress ==
  \A p \in Procs :
    Holding(p) /\ row[target[p]] = "present" => PublishInProgress(target[p])

\* A collection that says InProgress has a process that will end it.  It needs
\* that invocations are not killed and that FinishPublish does not fail.
InProgressIsOwned ==
  \A c \in Collections :
    PublishInProgress(c) => \E p \in Procs : Holding(p) /\ target[p] = c

\* A Completed status is true of Discover: published collections are live,
\* removed ones are not, whatever requests overlap.  It needs that StartPublish
\* and FinishPublish do not fail (Overlap.cfg), and that Discover says
\* PUBLISH_SUCCEEDED to a finalize only and UNPUBLISHED to a removal only, since
\* ToPublishingStatus makes Completed of both (dto/collection.go:333).
CompletedAgreesWithDiscover ==
  \A c \in Collections :
    /\ publication[c] = [status |-> "Completed", type |-> "Publication"] => live[c] # 0
    /\ publication[c] = [status |-> "Completed", type |-> "Removal"] => live[c] = 0

\* A collection that says it is published has, in the bucket, the manifest of
\* the version the public sees, whichever calls failed or lost their answers
\* on the way and whatever the clean-ups of other versions delete.
CompletedHasManifest ==
  \A c \in Collections :
    publication[c] = [status |-> "Completed", type |-> "Publication"] => live[c] \in objects[c]

\* c is public, with its manifest, and the process that published it is gone.
Settled(c) ==
  /\ live[c] # 0 /\ live[c] \in objects[c]
  /\ \A p \in Procs : target[p] = c => version[p] # live[c]

\* Nothing takes the manifest of a settled version away while it stays public:
\* neither a later publish that fails, whatever its clean-up gets to, nor a
\* removal that Discover does not carry out.
SettledManifestStays ==
  [][\A c \in Collections :
       Settled(c) /\ live'[c] = live[c] => live[c] \in objects'[c]]_vars

\* Only content that passed the checks reaches Discover, even when updates
\* come in between the check and the publish request.
PublishedIsPublishable ==
  \A c \in Collections : sent[c] # None => sent[c] \in Publishable

\* A version that Discover opened stays pending only while the process that
\* asked for it is still going to finalize it, as published or as failed.
PendingIsOwned ==
  \A c \in Collections : \A v \in pending[c] :
    \E p \in Procs :
      /\ target[p] = c
      /\ version[p] = v
      /\ pc[p] \in {"save", "finalize"} \/ "finalize" \in todo[p]

\* A collection that is gone, and that no invocation is busy with, is not
\* public ("cannot delete collection until it is unpublished",
\* delete_collection.go:60).
DeletedMeansUnpublished ==
  \A c \in Collections :
    row[c] = "deleted" /\ (\A p \in Procs : target[p] # c) => live[c] = 0

\* Every request is answered, by its last call or by its last cleanup.
EveryRequestAnswered ==
  \A p \in Procs : pc[p] # "idle" ~> pc[p] = "idle"

\* "InProgressStatus means there is a publication process in progress. Should
\* be a temporary state" (publishing/status.go:8).
InProgressIsTemporary ==
  \A c \in Collections : PublishInProgress(c) ~> ~PublishInProgress(c)

\* The lock that publish_status stands for, as the handlers see it.
LockState(c) ==
  IF row[c] = "deleted" THEN "closed"
  ELSE IF PublishInProgress(c) THEN "orphaned"
  ELSE "free"

Holders(c) == {p \in Procs : Holding(p) /\ target[p] = c}

lockBar ==
  [c \in Collections |->
     IF Holders(c) # {} THEN CHOOSE p \in Holders(c) : TRUE ELSE LockState(c)]

Lock == INSTANCE PublishLock WITH lock <- lockBar

\* StartPublish and FinishPublish keep the promise of a try-lock: whatever the
\* handlers and their failures do, a process is let in only when nobody is,
\* and nobody but the holder opens the collection to others again.
LockSpec == Lock!Spec

-----------------------------------------------------------------------------
(* What the repository says of the code, and what the code does otherwise. *)


=============================================================================
