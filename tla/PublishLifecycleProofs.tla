----------------------- MODULE PublishLifecycleProofs -----------------------
(***************************************************************************)
(* Theorems about PublishLifecycle, for any collections, contents and      *)
(* number of invocations, and any failures the assumptions leave open.     *)
(***************************************************************************)
EXTENDS PublishLifecycle, TLAPS

-----------------------------------------------------------------------------
(* Type correctness: first the operations of each part, then the steps. *)

\* What the store's operations write has its type.
LEMMA StoreOperationsType ==
  ASSUME StoreTypeOK, NEW c \in Collections, NEW x \in Contents \cup {None},
         NEW type \in Types, NEW status \in Statuses,
         \/ InsertCollection(c, x) \/ UpdateRow(c, x) \/ DeleteRow(c)
         \/ UpsertInProgress(c, type) \/ FinishPublish(c, status)
         \/ UNCHANGED storeVars
  PROVE  StoreTypeOK'
<1>1. CASE InsertCollection(c, x)
  BY <1>1 DEF InsertCollection, StoreTypeOK
<1>2. CASE UpdateRow(c, x)
  BY <1>2 DEF UpdateRow, StoreTypeOK
<1>3. CASE DeleteRow(c)
  BY <1>3 DEF DeleteRow, StoreTypeOK, Publications, storeVars
<1>4. CASE UpsertInProgress(c, type)
  BY <1>4 DEF UpsertInProgress, StoreTypeOK, Publications, Statuses
<1>5. CASE FinishPublish(c, status)
  BY <1>5 DEF FinishPublish, HasStatus, StoreTypeOK, Publications
<1>6. CASE UNCHANGED storeVars
  BY <1>6 DEF StoreTypeOK, storeVars
<1>7. QED
  BY <1>1, <1>2, <1>3, <1>4, <1>5, <1>6

\* What Discover's operations leave has its type.
LEMMA DiscoverOperationsType ==
  ASSUME DiscoverTypeOK, NEW c \in Collections, NEW x \in Contents \cup {None},
         NEW v \in Nat, NEW reply,
         \/ OpenVersion(c, x) \/ FinalizeSuccess(c, v, reply) \/ FinalizeFailure(c, v)
         \/ TakeDown(c) \/ UNCHANGED discoverVars
  PROVE  DiscoverTypeOK'
<1>1. CASE OpenVersion(c, x)
  BY <1>1 DEF OpenVersion, DiscoverTypeOK
<1>2. CASE FinalizeSuccess(c, v, reply)
  BY <1>2 DEF FinalizeSuccess, DiscoverTypeOK
<1>3. CASE FinalizeFailure(c, v)
  BY <1>3 DEF FinalizeFailure, DiscoverTypeOK
<1>4. CASE TakeDown(c)
  BY <1>4 DEF TakeDown, DiscoverTypeOK
<1>5. CASE UNCHANGED discoverVars
  BY <1>5 DEF discoverVars, DiscoverTypeOK
<1>6. QED
  BY <1>1, <1>2, <1>3, <1>4, <1>5

\* What the bucket's operations leave has its type.
LEMMA ManifestOperationsType ==
  ASSUME ManifestTypeOK, NEW c \in Collections, NEW v \in Nat,
         \/ SaveManifest(c, v) \/ DeleteManifestVersion(c, v) \/ RemoveObjects(c)
         \/ UNCHANGED objects
  PROVE  ManifestTypeOK'
BY DEF SaveManifest, DeleteManifestVersion, RemoveObjects, ManifestTypeOK

\* An invocation that moves on, starts its cleanup or returns keeps the types.
LEMMA MovesType ==
  ASSUME LocalTypeOK, NEW p \in Procs, pc[p] # "idle",
         NEW label \in Labels \ {"finishPublication", "finishRemoval"},
         NEW cleanups \in SUBSET Cleanups,
         Goto(p, label) \/ CleanUp(p, cleanups) \/ Return(p) \/ UNCHANGED localVars
  PROVE  LocalTypeOK'
<1>1. CASE Goto(p, label)
  BY <1>1 DEF Goto, LocalTypeOK
<1>2. CASE CleanUp(p, cleanups)
  BY <1>2 DEF CleanUp, LocalTypeOK, Labels
<1>3. CASE Return(p)
  BY <1>3 DEF Return, LocalTypeOK, Labels
<1>4. CASE UNCHANGED localVars
  BY <1>4 DEF localVars, LocalTypeOK
<1>5. QED
  BY <1>1, <1>2, <1>3, <1>4

\* StartPublish of either kind keeps the types.
LEMMA StartPublishType ==
  ASSUME TypeOK, NEW p \in Procs, NEW type \in Types, NEW at \in Labels \ {"idle"},
         NEW next \in Labels \ {"finishPublication", "finishRemoval"},
         StartPublish(p, type, at, next)
  PROVE  TypeOK'
<1>1. pc[p] # "idle" /\ target[p] \in Collections
  BY DEF StartPublish, TypeOK, LocalTypeOK
<1>2. StoreTypeOK'
  <2>1. UpsertInProgress(target[p], type) \/ UNCHANGED storeVars
    BY DEF StartPublish, Fails
  <2>2. "Failed" \in Statuses
    BY DEF Statuses
  <2>3. QED
    BY <1>1, <2>1, <2>2, StoreOperationsType DEF TypeOK
<1>3. DiscoverTypeOK' /\ ManifestTypeOK'
  BY DEF StartPublish, TypeOK, DiscoverTypeOK, ManifestTypeOK, discoverVars
<1>4. LocalTypeOK'
  <2>1. {"statusIfExists"} \in SUBSET Cleanups
    BY DEF Cleanups
  <2>2. Goto(p, next) \/ CleanUp(p, {"statusIfExists"}) \/ Return(p)
    BY DEF StartPublish
  <2>3. QED
    BY <1>1, <2>1, <2>2, MovesType DEF TypeOK
<1>5. QED
  BY <1>2, <1>3, <1>4 DEF TypeOK

\* FinishPublish of either kind keeps the types.
LEMMA FinishType ==
  ASSUME TypeOK, NEW p \in Procs, NEW at \in Labels \ {"idle"},
         at \in {"finishPublication", "finishRemoval"},
         NEW cleanups \in SUBSET Cleanups,
         Finish(p, at, cleanups)
  PROVE  TypeOK'
<1>1. pc[p] # "idle" /\ target[p] \in Collections /\ outcome[p] \in Statuses
  BY DEF Finish, TypeOK, LocalTypeOK
<1>2. StoreTypeOK'
  <2>1. FinishPublish(target[p], outcome[p]) \/ UNCHANGED storeVars
    BY DEF Finish, Fails
  <2>2. QED
    BY <1>1, <2>1, StoreOperationsType DEF TypeOK, Types
<1>3. DiscoverTypeOK' /\ ManifestTypeOK'
  BY DEF Finish, TypeOK, DiscoverTypeOK, ManifestTypeOK, discoverVars
<1>4. LocalTypeOK'
  <2>1. CleanUp(p, cleanups) \/ Return(p)
    BY DEF Finish
  <2>2. QED
    BY <1>1, <2>1, MovesType DEF TypeOK, Labels
<1>5. QED
  BY <1>2, <1>3, <1>4 DEF TypeOK

\* A call of an invocation that is running keeps the types.
LEMMA StepType ==
  ASSUME TypeOK, NEW p \in Procs, Step(p)
  PROVE  TypeOK'
<1> DEFINE c == target[p]
<1>0. /\ pc[p] \in Labels
      /\ pc[p] # "idle" => c \in Collections
      /\ version[p] \in Nat
      /\ snapshot[p] \in Contents \cup {None}
      /\ versions \in [Collections -> Nat]
  BY DEF TypeOK, LocalTypeOK, DiscoverTypeOK
<1>1. CASE PublishStart(p)
  BY <1>1, StartPublishType DEF PublishStart, Types, Labels
<1>2. CASE UnpublishStart(p)
  BY <1>2, StartPublishType DEF UnpublishStart, Types, Labels
<1>3. CASE PublishFinish(p)
  BY <1>3, FinishType DEF PublishFinish, Labels, Cleanups
<1>4. CASE UnpublishFinish(p)
  BY <1>4, FinishType DEF UnpublishFinish, Labels, Cleanups
<1>5. CASE Prepare(p)
  <2>1. LocalTypeOK'
    BY <1>5, MovesType DEF Prepare, TypeOK, Labels, Cleanups
  <2>2. QED
    BY <1>5, <2>1 DEF Prepare, TypeOK, StoreTypeOK, DiscoverTypeOK, ManifestTypeOK,
                      storeVars, discoverVars
<1>6. CASE PublishToDiscover(p)
  <2>1. OpenVersion(c, snapshot[p]) \/ UNCHANGED discoverVars
    BY <1>6 DEF PublishToDiscover, Fails
  <2>2. DiscoverTypeOK'
    BY <1>0, <1>6, <2>1, DiscoverOperationsType DEF PublishToDiscover, TypeOK
  <2>3. LocalTypeOK'
    <3>1. CASE CleanUp(p, {"status"})
      BY <1>6, <3>1, MovesType DEF PublishToDiscover, TypeOK, Labels, Cleanups
    <3>2. CASE /\ pc' = [pc EXCEPT ![p] = "save"]
               /\ version' = [version EXCEPT ![p] = versions[target[p]] + 1]
               /\ UNCHANGED <<target, snapshot, outcome, todo>>
      <4>1. versions[target[p]] + 1 \in Nat
        BY <1>0, <1>6 DEF PublishToDiscover
      <4>2. QED
        BY <1>0, <1>6, <3>2, <4>1 DEF PublishToDiscover, TypeOK, LocalTypeOK, Labels
    <3>3. QED
      BY <1>6, <3>1, <3>2 DEF PublishToDiscover
  <2>4. StoreTypeOK' /\ ManifestTypeOK'
    BY <1>6 DEF PublishToDiscover, TypeOK, StoreTypeOK, ManifestTypeOK, storeVars
  <2>5. QED
    BY <2>2, <2>3, <2>4 DEF TypeOK
<1>7. CASE Save(p)
  <2>1. SaveManifest(c, version[p]) \/ UNCHANGED objects
    BY <1>7 DEF Save, Fails
  <2>2. ManifestTypeOK'
    BY <1>0, <1>7, <2>1, ManifestOperationsType DEF Save, TypeOK
  <2>3. LocalTypeOK'
    BY <1>7, MovesType DEF Save, TypeOK, Labels, Cleanups
  <2>4. QED
    BY <1>7, <2>2, <2>3 DEF Save, TypeOK, StoreTypeOK, DiscoverTypeOK, storeVars,
                            discoverVars
<1>8. CASE Finalize(p)
  <2>1. PICK reply \in FinalizeReplies :
          \/ /\ FinalizeSuccess(c, version[p], reply)
             /\ pc' = [pc EXCEPT ![p] = "finishPublication"]
             /\ outcome' = [outcome EXCEPT ![p] = ToPublishingStatus(reply)]
             /\ UNCHANGED <<target, snapshot, version, todo>>
          \/ /\ Fails("FinalizeCollectionPublish",
                      FinalizeSuccess(c, version[p], reply), discoverVars)
             /\ CleanUp(p, {"status", "manifest", "finalize"})
    BY <1>8 DEF Finalize
  <2>2. DiscoverTypeOK'
    <3>1. FinalizeSuccess(c, version[p], reply) \/ UNCHANGED discoverVars
      BY <2>1 DEF Fails
    <3>2. QED
      BY <1>0, <1>8, <3>1, DiscoverOperationsType DEF Finalize, TypeOK
  <2>3. LocalTypeOK'
    <3>1. CASE CleanUp(p, {"status", "manifest", "finalize"})
      BY <1>8, <3>1, MovesType DEF Finalize, TypeOK, Labels, Cleanups
    <3>2. CASE /\ pc' = [pc EXCEPT ![p] = "finishPublication"]
               /\ outcome' = [outcome EXCEPT ![p] = ToPublishingStatus(reply)]
               /\ UNCHANGED <<target, snapshot, version, todo>>
      <4>1. ToPublishingStatus(reply) \in Statuses
        BY DEF ToPublishingStatus, Statuses
      <4>2. QED
        BY <1>0, <1>8, <3>2, <4>1 DEF Finalize, TypeOK, LocalTypeOK, Labels
    <3>3. QED
      BY <2>1, <3>1, <3>2
  <2>4. QED
    BY <1>8, <2>2, <2>3 DEF Finalize, TypeOK, StoreTypeOK, ManifestTypeOK, storeVars
<1>9. CASE Unpublish(p)
  <2>1. pc[p] = "unpublish" /\ c \in Collections /\ UNCHANGED storeVars
    BY <1>0, <1>9 DEF Unpublish
  <2>2. DiscoverTypeOK' /\ ManifestTypeOK'
    <3>1. \/ TakeDown(c) /\ RemoveObjects(c)
          \/ UNCHANGED <<discoverVars, objects>>
      BY <1>9 DEF Unpublish, Fails
    <3>2. CASE TakeDown(c) /\ RemoveObjects(c)
      BY <2>1, <3>2 DEF TypeOK, TakeDown, RemoveObjects, DiscoverTypeOK, ManifestTypeOK
    <3>3. CASE UNCHANGED <<discoverVars, objects>>
      BY <3>3 DEF TypeOK, DiscoverTypeOK, ManifestTypeOK, discoverVars
    <3>4. QED
      BY <3>1, <3>2, <3>3
  <2>3. LocalTypeOK'
    <3>1. CASE CleanUp(p, {"status"})
      BY <2>1, <3>1, MovesType DEF TypeOK, Labels, Cleanups
    <3>2. CASE \E reply \in RemovalReplies :
                 /\ pc' = [pc EXCEPT ![p] = "finishRemoval"]
                 /\ outcome' = [outcome EXCEPT ![p] = ToPublishingStatus(reply)]
                 /\ UNCHANGED <<target, snapshot, version, todo>>
      <4>1. \A reply : ToPublishingStatus(reply) \in Statuses
        BY DEF ToPublishingStatus, Statuses
      <4>2. QED
        BY <2>1, <3>2, <4>1 DEF TypeOK, LocalTypeOK, Labels
    <3>3. QED
      BY <1>9, <3>1, <3>2 DEF Unpublish
  <2>4. QED
    BY <2>1, <2>2, <2>3 DEF TypeOK, StoreTypeOK, storeVars
<1>10. CASE Delete(p)
  <2>1. StoreTypeOK'
    <3>1. DeleteRow(c) \/ UNCHANGED storeVars
      BY <1>10 DEF Delete
    <3>2. QED
      BY <1>0, <1>10, <3>1, StoreOperationsType DEF Delete, TypeOK, Types, Statuses
  <2>2. LocalTypeOK'
    BY <1>10, MovesType DEF Delete, TypeOK, Labels
  <2>3. QED
    BY <1>10, <2>1, <2>2 DEF Delete, TypeOK, DiscoverTypeOK, ManifestTypeOK, discoverVars
<1>11. ASSUME NEW done \in SUBSET Cleanups, pc[p] = "cleanup", CleanupDone(p, done)
       PROVE  LocalTypeOK'
  <2>1. CASE Return(p)
    BY <1>11, <2>1, MovesType DEF TypeOK, Labels
  <2>2. CASE /\ todo' = [todo EXCEPT ![p] = todo[p] \ done]
             /\ UNCHANGED <<pc, target, snapshot, version, outcome>>
    BY <2>2 DEF TypeOK, LocalTypeOK
  <2>3. QED
    BY <1>11, <2>1, <2>2 DEF CleanupDone
<1>12. CASE CleanupStatus(p)
  <2>1. StoreTypeOK'
    <3>1. FinishPublish(c, "Failed") \/ UNCHANGED storeVars
      BY <1>12 DEF CleanupStatus
    <3>2. QED
      BY <1>0, <1>12, <3>1, StoreOperationsType DEF CleanupStatus, TypeOK, Types, Statuses
  <2>2. LocalTypeOK'
    BY <1>11, <1>12 DEF CleanupStatus, StatusCleanups, Cleanups
  <2>3. QED
    BY <1>12, <2>1, <2>2 DEF CleanupStatus, TypeOK, DiscoverTypeOK, ManifestTypeOK,
                             discoverVars
<1>13. CASE CleanupManifest(p)
  <2>1. ManifestTypeOK'
    BY <1>0, <1>13, ManifestOperationsType DEF CleanupManifest, TypeOK
  <2>2. LocalTypeOK'
    BY <1>11, <1>13 DEF CleanupManifest, Cleanups
  <2>3. QED
    BY <1>13, <2>1, <2>2 DEF CleanupManifest, TypeOK, StoreTypeOK, DiscoverTypeOK,
                             storeVars, discoverVars
<1>14. CASE CleanupDiscover(p)
  <2>1. DiscoverTypeOK'
    BY <1>0, <1>14, DiscoverOperationsType DEF CleanupDiscover, TypeOK
  <2>2. LocalTypeOK'
    BY <1>11, <1>14 DEF CleanupDiscover, Cleanups
  <2>3. QED
    BY <1>14, <2>1, <2>2 DEF CleanupDiscover, TypeOK, StoreTypeOK, ManifestTypeOK, storeVars
<1>15. QED
  BY <1>1, <1>2, <1>3, <1>4, <1>5, <1>6, <1>7, <1>8, <1>9, <1>10, <1>12, <1>13, <1>14
  DEF Step

\* Taking up a request, being killed, creating and updating keep the types.
LEMMA OtherStepsType ==
  ASSUME TypeOK,
         \/ \E p \in Procs : Request(p) \/ Crash(p)
         \/ \E c \in Collections, x \in Contents : Create(c, x) \/ Patch(c, x)
         \/ UNCHANGED vars
  PROVE  TypeOK'
<1>1. ASSUME NEW p \in Procs, NEW c \in Collections, NEW label \in {"startPublication", "startRemoval", "delete"},
             NEW read \in Contents \cup {None}, Enter(p, c, label, read)
      PROVE  TypeOK'
  <2>1. LocalTypeOK'
    BY <1>1 DEF Enter, TypeOK, LocalTypeOK, Labels
  <2>2. QED
    BY <1>1, <2>1 DEF Enter, TypeOK, StoreTypeOK, DiscoverTypeOK, ManifestTypeOK, storeVars,
                      discoverVars
<1>2. CASE \E p \in Procs : Request(p)
  <2>1. PICK p \in Procs : Request(p)
    BY <1>2
  <2>2. CASE Refuse(p)
    BY <2>2 DEF Refuse, vars, localVars, storeVars, discoverVars, TypeOK, StoreTypeOK,
                DiscoverTypeOK, ManifestTypeOK, LocalTypeOK
  <2>3. CASE \E c \in Collections : PublishRead(p, c) \/ UnpublishRead(p, c) \/ DeleteRead(p, c)
    <3>1. PICK c \in Collections : PublishRead(p, c) \/ UnpublishRead(p, c) \/ DeleteRead(p, c)
      BY <2>3
    <3>2. content[c] \in Contents \cup {None}
      BY DEF TypeOK, StoreTypeOK
    <3>3. QED
      BY <1>1, <3>1, <3>2 DEF PublishRead, UnpublishRead, DeleteRead
  <2>4. QED
    BY <2>1, <2>2, <2>3 DEF Request
<1>3. CASE \E p \in Procs : Crash(p)
  <2>1. PICK p \in Procs : Crash(p)
    BY <1>3
  <2>2. LocalTypeOK'
    BY <2>1, MovesType DEF Crash, TypeOK, Labels
  <2>3. QED
    BY <2>1, <2>2 DEF Crash, TypeOK, StoreTypeOK, DiscoverTypeOK, ManifestTypeOK, storeVars,
                      discoverVars
<1>4. CASE \E c \in Collections, x \in Contents : Create(c, x) \/ Patch(c, x)
  <2>1. PICK c \in Collections, x \in Contents : Create(c, x) \/ Patch(c, x)
    BY <1>4
  <2>2. StoreTypeOK'
    BY <2>1 DEF Create, Patch, InsertCollection, UpdateRow, TypeOK, StoreTypeOK
  <2>3. QED
    BY <2>1, <2>2 DEF Create, Patch, TypeOK, DiscoverTypeOK, ManifestTypeOK, LocalTypeOK,
                      discoverVars, localVars
<1>5. CASE UNCHANGED vars
  BY <1>5 DEF vars, localVars, storeVars, discoverVars, TypeOK, StoreTypeOK, DiscoverTypeOK,
              ManifestTypeOK, LocalTypeOK
<1>6. QED
  BY <1>2, <1>3, <1>4, <1>5

LEMMA InitType == Init => TypeOK
BY DEF Init, StoreInit, DiscoverInit, ManifestInit, TypeOK, StoreTypeOK, DiscoverTypeOK,
       ManifestTypeOK, LocalTypeOK, Publications, Labels

LEMMA NextType == TypeOK /\ [Next]_vars => TypeOK'
BY StepType, OtherStepsType DEF Next

\* Every variable keeps its type, a running invocation always has a collection
\* to work on, and what is written as the outcome is always a status.
THEOREM TypeCorrect == Spec => []TypeOK
BY InitType, NextType, PTL DEF Spec

-----------------------------------------------------------------------------
(* Exclusion.  Exclusive alone is not inductive: that the status says      *)
(* InProgress keeps others out, and that nobody but the holder ends it     *)
(* rests on who may still be running cleanupStatusIfExists.                *)

\* The errors of the two calls the lock is made of that would break it: an
\* error of StartPublish other than ErrPublishInProgress and a broken foreign
\* key, and an error of a FinishPublish that took effect.
LockCallsReliable ==
  "StartPublish" \notin Refused \cup Lost /\ "FinishPublish" \notin Lost

LockInv ==
  /\ TypeOK
  /\ Exclusive
  /\ RunningMeansInProgress
  /\ \A c \in Collections : row[c] # "present" => publication[c] = NoPublication
  /\ \A p \in Procs :
       /\ pc[p] # "idle" => row[target[p]] # "unborn"
       /\ pc[p] = "cleanup" /\ "statusIfExists" \in todo[p] =>
            row[target[p]] = "deleted" /\ "status" \notin todo[p]

\* What a call of p leaves to the other invocations.
OthersUntouched(p) ==
  \A q \in Procs \ {p} :
    pc'[q] = pc[q] /\ target'[q] = target[q] /\ todo'[q] = todo[q]

\* A call that changes neither rows nor statuses, and lets nobody in, keeps
\* the invariant.
LEMMA QuietStep ==
  ASSUME LockInv, TypeOK', NEW p \in Procs, OthersUntouched(p),
         UNCHANGED <<row, publication>>,
         pc'[p] # "idle" => pc[p] # "idle" /\ target'[p] = target[p],
         Holding(p)' => Holding(p),
         pc'[p] = "cleanup" /\ "statusIfExists" \in todo'[p] =>
           pc[p] = "cleanup" /\ "statusIfExists" \in todo[p] /\ todo'[p] \subseteq todo[p]
  PROVE  LockInv'
<1>1. \A q \in Procs : Holding(q)' => Holding(q) /\ target'[q] = target[q]
  BY DEF OthersUntouched, Holding
<1>2. Exclusive' /\ RunningMeansInProgress'
  BY <1>1 DEF LockInv, Exclusive, RunningMeansInProgress, PublishInProgress
<1>3. QED
  BY <1>2 DEF LockInv, OthersUntouched

\* The holder writes the status and holds no more.  The other holders have
\* other collections.
LEMMA ReleaseStep ==
  ASSUME LockInv, TypeOK', NEW p \in Procs, OthersUntouched(p), Holding(p), ~Holding(p)',
         NEW status, FinishPublish(target[p], status),
         pc'[p] # "idle" => target'[p] = target[p],
         ~(pc'[p] = "cleanup" /\ "statusIfExists" \in todo'[p])
  PROVE  LockInv'
<1>1. pc[p] # "idle" /\ target[p] \in Collections
  BY DEF Holding, LockInv, TypeOK, LocalTypeOK
<1>2. \A q \in Procs : Holding(q)' =>
        q # p /\ Holding(q) /\ target'[q] = target[q] /\ target[q] # target[p]
  BY DEF OthersUntouched, Holding, LockInv, Exclusive
<1>3. /\ UNCHANGED row
      /\ \A c \in Collections : c # target[p] => publication'[c] = publication[c]
      /\ publication[target[p]] = NoPublication => UNCHANGED publication
  BY <1>1 DEF FinishPublish, HasStatus, LockInv, TypeOK, StoreTypeOK
<1>4. \A q \in Procs : Holding(q) => target[q] \in Collections
  BY DEF Holding, LockInv, TypeOK, LocalTypeOK
<1>5. Exclusive' /\ RunningMeansInProgress'
  BY <1>2, <1>3, <1>4 DEF LockInv, Exclusive, RunningMeansInProgress, PublishInProgress
<1>6. \A c \in Collections : row'[c] # "present" => publication'[c] = NoPublication
  BY <1>3 DEF LockInv
<1>7. QED
  BY <1>1, <1>3, <1>5, <1>6 DEF LockInv, OthersUntouched

\* StartPublish keeps the invariant: it lets p in only when nobody is.
LEMMA StartPublishLock ==
  ASSUME LockInv, TypeOK', LockCallsReliable, NEW p \in Procs, NEW type \in Types,
         NEW at \in {"startPublication", "startRemoval"},
         NEW next \in {"prepare", "unpublish"}, StartPublish(p, type, at, next)
  PROVE  LockInv'
<1>1. /\ pc[p] = at
      /\ target[p] \in Collections
      /\ pc \in [Procs -> Labels]
      /\ target \in [Procs -> Collections \cup {None}]
      /\ todo \in [Procs -> SUBSET Cleanups]
      /\ row[target[p]] # "unborn"
  BY DEF StartPublish, LockInv, TypeOK, LocalTypeOK
<1>2. CASE UpsertInProgress(target[p], type) /\ Goto(p, next)
  <2>1. OthersUntouched(p) /\ target'[p] = target[p] /\ pc'[p] = next
    BY <1>1, <1>2 DEF Goto, OthersUntouched
  <2>2. \A q \in Procs : Holding(q) => target[q] # target[p]
    BY <1>2 DEF UpsertInProgress, LockInv, RunningMeansInProgress
  <2>3. Exclusive'
    BY <2>1, <2>2 DEF Exclusive, LockInv, OthersUntouched, Holding
  <2>4. /\ UNCHANGED row
        /\ row[target[p]] = "present"
        /\ publication' = [publication EXCEPT
                             ![target[p]] = [status |-> "InProgress", type |-> type]]
        /\ publication \in [Collections -> Publications]
    BY <1>2 DEF UpsertInProgress, LockInv, TypeOK, StoreTypeOK
  <2>5. RunningMeansInProgress'
    <3>1. SUFFICES ASSUME NEW q \in Procs, Holding(q)', row'[target'[q]] = "present"
                   PROVE  publication'[target'[q]].status = "InProgress"
      BY DEF RunningMeansInProgress, PublishInProgress
    <3>2. CASE q = p
      BY <1>1, <2>1, <2>4, <3>2
    <3>3. CASE q # p
      <4>1. Holding(q) /\ target'[q] = target[q] /\ target[q] # target[p]
        BY <2>1, <2>2, <3>1, <3>3 DEF OthersUntouched, Holding
      <4>2. QED
        BY <2>4, <3>1, <4>1 DEF LockInv, RunningMeansInProgress, PublishInProgress
    <3>4. QED
      BY <3>2, <3>3
  <2>6. QED
    BY <1>1, <2>1, <2>3, <2>4, <2>5 DEF LockInv, OthersUntouched
<1>3. CASE UNCHANGED storeVars /\ Return(p)
  BY <1>1, <1>3, QuietStep DEF Return, OthersUntouched, storeVars, Holding
<1>4. CASE /\ row[target[p]] # "present"
           /\ UNCHANGED storeVars
           /\ CleanUp(p, {"statusIfExists"})
  <2>1. row[target[p]] = "deleted"
    BY <1>1, <1>4 DEF LockInv, TypeOK, StoreTypeOK
  <2>2. /\ OthersUntouched(p)
        /\ target' = target
        /\ pc'[p] = "cleanup"
        /\ todo'[p] = {"statusIfExists"}
        /\ ~Holding(p)'
    BY <1>1, <1>4 DEF CleanUp, OthersUntouched, Holding
  <2>3. \A q \in Procs : Holding(q)' => Holding(q)
    BY <2>2 DEF OthersUntouched, Holding
  <2>4. Exclusive' /\ RunningMeansInProgress'
    BY <1>4, <2>2, <2>3 DEF LockInv, Exclusive, RunningMeansInProgress, PublishInProgress,
                            storeVars
  <2>5. QED
    BY <1>1, <1>4, <2>1, <2>2, <2>4 DEF LockInv, OthersUntouched, storeVars
<1>5. QED
  BY <1>2, <1>3, <1>4 DEF StartPublish, Fails, LockCallsReliable

\* Finish keeps the invariant: the holder writes the outcome and leaves, or
\* goes on holding until its cleanup has written Failed.
LEMMA FinishLock ==
  ASSUME LockInv, TypeOK', LockCallsReliable, NEW p \in Procs,
         NEW at \in {"finishPublication", "finishRemoval"},
         NEW cleanups \in SUBSET (Cleanups \ {"statusIfExists"}), Finish(p, at, cleanups)
  PROVE  LockInv'
<1>1. /\ pc[p] = at
      /\ pc \in [Procs -> Labels]
      /\ target \in [Procs -> Collections \cup {None}]
      /\ todo \in [Procs -> SUBSET Cleanups]
      /\ Holding(p)
  BY DEF Finish, LockInv, TypeOK, LocalTypeOK, Holding
<1>2. CASE FinishPublish(target[p], outcome[p]) /\ Return(p)
  BY <1>1, <1>2, ReleaseStep DEF Return, OthersUntouched, Holding
<1>3. CASE UNCHANGED storeVars /\ CleanUp(p, cleanups)
  BY <1>1, <1>3, QuietStep DEF CleanUp, OthersUntouched, storeVars
<1>4. QED
  BY <1>2, <1>3 DEF Finish, Fails, LockCallsReliable

\* A call of a running invocation keeps the invariant.
LEMMA StepLock ==
  ASSUME LockInv, TypeOK', LockCallsReliable, NEW p \in Procs, Step(p)
  PROVE  LockInv'
<1>0. /\ pc \in [Procs -> Labels]
      /\ target \in [Procs -> Collections \cup {None}]
      /\ todo \in [Procs -> SUBSET Cleanups]
  BY DEF LockInv, TypeOK, LocalTypeOK
<1>1. CASE PublishStart(p)
  BY <1>1, StartPublishLock DEF PublishStart, Types
<1>2. CASE UnpublishStart(p)
  BY <1>2, StartPublishLock DEF UnpublishStart, Types
<1>3. CASE PublishFinish(p)
  BY <1>3, FinishLock DEF PublishFinish, Cleanups
<1>4. CASE UnpublishFinish(p)
  BY <1>4, FinishLock DEF UnpublishFinish, Cleanups
<1>5. CASE Prepare(p)
  <2>1. Holding(p) /\ pc[p] = "prepare"
    BY <1>5 DEF Prepare, Holding
  <2>2. Goto(p, "publish") \/ CleanUp(p, {"status"})
    BY <1>5 DEF Prepare
  <2>3. OthersUntouched(p)
    BY <1>0, <2>2 DEF Goto, CleanUp, OthersUntouched
  <2>4. target' = target /\ (pc'[p] = "cleanup" => todo'[p] = {"status"})
    BY <1>0, <2>2 DEF Goto, CleanUp
  <2>5. UNCHANGED <<row, publication>>
    BY <1>5 DEF Prepare, storeVars
  <2>6. QED
    BY <2>1, <2>3, <2>4, <2>5, QuietStep
<1>6. CASE PublishToDiscover(p)
  BY <1>0, <1>6, QuietStep DEF PublishToDiscover, CleanUp, OthersUntouched, Holding, storeVars
<1>7. CASE Save(p)
  BY <1>0, <1>7, QuietStep DEF Save, Goto, CleanUp, OthersUntouched, Holding, storeVars
<1>8. CASE Finalize(p)
  <2>1. /\ pc[p] = "finalize"
        /\ UNCHANGED <<row, publication>>
        /\ \/ pc' = [pc EXCEPT ![p] = "finishPublication"] /\ UNCHANGED <<target, todo>>
           \/ CleanUp(p, {"status", "manifest", "finalize"})
    BY <1>8 DEF Finalize, storeVars
  <2>2. QED
    BY <1>0, <2>1, QuietStep DEF CleanUp, OthersUntouched, Holding
<1>9. CASE Unpublish(p)
  <2>1. /\ pc[p] = "unpublish"
        /\ UNCHANGED <<row, publication>>
        /\ \/ pc' = [pc EXCEPT ![p] = "finishRemoval"] /\ UNCHANGED <<target, todo>>
           \/ CleanUp(p, {"status"})
    BY <1>9 DEF Unpublish, storeVars
  <2>2. QED
    BY <1>0, <2>1, QuietStep DEF CleanUp, OthersUntouched, Holding
<1>10. CASE Delete(p)
  <2>1. /\ pc[p] = "delete" /\ ~Holding(p) /\ target[p] \in Collections
        /\ pc'[p] = "idle" /\ ~Holding(p)'
        /\ OthersUntouched(p)
    BY <1>0, <1>10 DEF Delete, Return, OthersUntouched, Holding, LockInv, TypeOK, LocalTypeOK
  <2>2. CASE UNCHANGED storeVars
    BY <2>1, <2>2, QuietStep DEF storeVars
  <2>3. CASE /\ row' = [row EXCEPT ![target[p]] = "deleted"]
             /\ publication' = [publication EXCEPT ![target[p]] = NoPublication]
    <3>1. /\ row \in [Collections -> {"unborn", "present", "deleted"}]
          /\ publication \in [Collections -> Publications]
          /\ \A q \in Procs : pc[q] # "idle" => target[q] \in Collections
      BY DEF LockInv, TypeOK, StoreTypeOK, LocalTypeOK
    <3>2. \A q \in Procs : Holding(q)' => Holding(q) /\ target'[q] = target[q]
      BY <2>1 DEF OthersUntouched, Holding
    <3>3. Exclusive'
      BY <3>2 DEF LockInv, Exclusive
    <3>4. \A c \in Collections :
            \/ row'[c] = "deleted" /\ publication'[c] = NoPublication
            \/ row'[c] = row[c] /\ publication'[c] = publication[c]
      BY <2>1, <2>3, <3>1
    <3>5. RunningMeansInProgress'
      BY <3>1, <3>2, <3>4 DEF LockInv, RunningMeansInProgress, PublishInProgress, Holding
    <3>6. \A q \in Procs : pc'[q] # "idle" =>
            /\ q # p /\ pc[q] # "idle" /\ target'[q] = target[q] /\ target[q] \in Collections
            /\ pc'[q] = pc[q] /\ todo'[q] = todo[q]
      BY <2>1, <3>1 DEF OthersUntouched
    <3>7. \A c \in Collections : row'[c] # "present" => publication'[c] = NoPublication
      BY <3>4 DEF LockInv
    <3>8. \A q \in Procs :
            /\ pc'[q] # "idle" => row'[target'[q]] # "unborn"
            /\ pc'[q] = "cleanup" /\ "statusIfExists" \in todo'[q] =>
                 row'[target'[q]] = "deleted" /\ "status" \notin todo'[q]
      BY <3>4, <3>6 DEF LockInv
    <3>9. QED
      BY <3>3, <3>5, <3>7, <3>8 DEF LockInv
  <2>4. QED
    BY <1>10, <2>2, <2>3 DEF Delete, DeleteRow
<1>11. CASE CleanupStatus(p)
  <2>1. /\ pc[p] = "cleanup"
        /\ OthersUntouched(p)
        /\ ~Holding(p)'
        /\ pc'[p] # "idle" => target'[p] = target[p]
        /\ ~(pc'[p] = "cleanup" /\ "statusIfExists" \in todo'[p])
    BY <1>0, <1>11 DEF CleanupStatus, CleanupDone, StatusCleanups, Return, OthersUntouched,
                       Holding
  <2>2. CASE UNCHANGED storeVars
    BY <2>1, <2>2, QuietStep DEF storeVars
  <2>3. CASE FinishPublish(target[p], "Failed") /\ "status" \in todo[p]
    BY <2>1, <2>3, ReleaseStep DEF Holding
  <2>4. CASE FinishPublish(target[p], "Failed") /\ "statusIfExists" \in todo[p]
    <3>1. target[p] \in Collections /\ row[target[p]] = "deleted"
      BY <2>1, <2>4 DEF LockInv, TypeOK, LocalTypeOK
    <3>2. UNCHANGED storeVars
      BY <2>4, <3>1 DEF FinishPublish, HasStatus, LockInv, storeVars
    <3>3. QED
      BY <2>2, <3>2
  <2>5. QED
    BY <1>11, <2>2, <2>3, <2>4 DEF CleanupStatus, StatusCleanups
<1>12. CASE CleanupManifest(p)
  BY <1>0, <1>12, QuietStep DEF CleanupManifest, CleanupDone, StatusCleanups, Return,
                                OthersUntouched, Holding, storeVars
<1>13. CASE CleanupDiscover(p)
  BY <1>0, <1>13, QuietStep DEF CleanupDiscover, CleanupDone, Return, OthersUntouched, Holding,
                                storeVars
<1>14. QED
  BY <1>1, <1>2, <1>3, <1>4, <1>5, <1>6, <1>7, <1>8, <1>9, <1>10, <1>11, <1>12, <1>13
  DEF Step

\* Requests that are taken up or turned away, kills, creations and updates keep
\* the invariant.
LEMMA OtherStepsLock ==
  ASSUME LockInv, TypeOK',
         \/ \E p \in Procs : Request(p) \/ Crash(p)
         \/ \E c \in Collections, x \in Contents : Create(c, x) \/ Patch(c, x)
         \/ UNCHANGED vars
  PROVE  LockInv'
<1>0. /\ pc \in [Procs -> Labels]
      /\ target \in [Procs -> Collections \cup {None}]
      /\ todo \in [Procs -> SUBSET Cleanups]
      /\ row \in [Collections -> {"unborn", "present", "deleted"}]
  BY DEF LockInv, TypeOK, LocalTypeOK, StoreTypeOK
<1>1. ASSUME NEW p \in Procs, NEW c \in Collections, row[c] = "present",
             NEW label \in {"startPublication", "startRemoval", "delete"},
             NEW read, Enter(p, c, label, read)
      PROVE  LockInv'
  <2>1. /\ UNCHANGED <<row, publication, todo>>
        /\ OthersUntouched(p)
        /\ target'[p] = c /\ pc'[p] = label
    BY <1>0, <1>1 DEF Enter, OthersUntouched, storeVars
  <2>2. \A q \in Procs : Holding(q)' => Holding(q) /\ target'[q] = target[q]
    BY <1>1, <2>1 DEF OthersUntouched, Holding
  <2>3. Exclusive' /\ RunningMeansInProgress'
    BY <2>1, <2>2 DEF LockInv, Exclusive, RunningMeansInProgress, PublishInProgress
  <2>4. QED
    BY <1>1, <2>1, <2>3 DEF LockInv, OthersUntouched
<1>2. CASE \E p \in Procs : Request(p) /\ ~UNCHANGED vars
  BY <1>1, <1>2 DEF Request, Refuse, PublishRead, UnpublishRead, DeleteRead
<1>3. CASE \E p \in Procs : Crash(p)
  <2>1. PICK p \in Procs : Crash(p)
    BY <1>3
  <2>2. /\ UNCHANGED <<row, publication>>
        /\ OthersUntouched(p)
        /\ pc'[p] = "idle"
    BY <1>0, <2>1 DEF Crash, Return, OthersUntouched, storeVars
  <2>3. QED
    BY <2>2, QuietStep DEF Holding
<1>4. CASE \E c \in Collections, x \in Contents : Create(c, x) \/ Patch(c, x)
  <2>1. PICK c \in Collections, x \in Contents : Create(c, x) \/ Patch(c, x)
    BY <1>4
  <2>2. UNCHANGED <<pc, target, todo, publication>>
    BY <2>1 DEF Create, Patch, InsertCollection, UpdateRow, localVars
  <2>3. \A d \in Collections : row'[d] = row[d] \/ (row[d] = "unborn" /\ row'[d] = "present")
    BY <1>0, <2>1 DEF Create, Patch, InsertCollection, UpdateRow
  <2>4. \A q \in Procs : pc[q] # "idle" =>
          target[q] \in Collections /\ row'[target[q]] = row[target[q]]
    BY <2>3 DEF LockInv, TypeOK, LocalTypeOK
  <2>5. Exclusive' /\ RunningMeansInProgress'
    BY <2>2, <2>4 DEF LockInv, Exclusive, RunningMeansInProgress, PublishInProgress, Holding
  <2>6. \A d \in Collections : row'[d] # "present" => publication'[d] = NoPublication
    BY <2>2, <2>3 DEF LockInv
  <2>7. QED
    BY <2>2, <2>4, <2>5, <2>6 DEF LockInv
<1>5. CASE UNCHANGED vars
  BY <1>5 DEF vars, localVars, storeVars, LockInv, Exclusive, RunningMeansInProgress,
              PublishInProgress, Holding
<1>6. QED
  BY <1>2, <1>3, <1>4, <1>5

LEMMA InitLock == Init => LockInv
BY InitType DEF Init, StoreInit, LockInv, Exclusive, RunningMeansInProgress, Holding

LEMMA NextLock == LockCallsReliable /\ LockInv /\ [Next]_vars => LockInv'
<1> SUFFICES ASSUME LockCallsReliable, LockInv, [Next]_vars
             PROVE  LockInv'
  OBVIOUS
<1>1. TypeOK'
  BY NextType DEF LockInv
<1>2. QED
  BY <1>1, StepLock, OtherStepsLock DEF Next

\* While the calls that set the status neither fail nor lie, every process that
\* works on a collection holds its lock, and no other does.
THEOREM LockInvariant ==
  ASSUME LockCallsReliable
  PROVE  Spec => []LockInv
BY InitLock, NextLock, PTL DEF Spec

\* However many invocations overlap and whichever of the other calls fail, two
\* publish or unpublish processes never run for one collection at a time.
THEOREM Exclusion ==
  ASSUME LockCallsReliable
  PROVE  Spec => []Exclusive
<1>1. LockInv => Exclusive
  BY DEF LockInv
<1>2. QED
  BY <1>1, LockInvariant, PTL

\* While a publish or unpublish process runs, its collection says InProgress
\* or was deleted.
THEOREM RunningSaysInProgress ==
  ASSUME LockCallsReliable
  PROVE  Spec => []RunningMeansInProgress
<1>1. LockInv => RunningMeansInProgress
  BY DEF LockInv
<1>2. QED
  BY <1>1, LockInvariant, PTL

-----------------------------------------------------------------------------
(* Refinement: the status rows and the handlers implement PublishLock. *)

\* A collection has at most one holder, and lockBar names it.
LEMMA LockBarValue ==
  ASSUME LockInv, NEW c \in Collections
  PROVE  /\ \A p \in Procs : Holding(p) /\ target[p] = c => lockBar[c] = p
         /\ (\A p \in Procs : ~(Holding(p) /\ target[p] = c)) => lockBar[c] = LockState(c)
<1>1. ASSUME NEW p \in Procs, Holding(p), target[p] = c
      PROVE  lockBar[c] = p
  <2>1. Holders(c) = {p}
    BY <1>1 DEF Holders, LockInv, Exclusive
  <2>2. (CHOOSE q \in Holders(c) : TRUE) = p
    BY <2>1
  <2>3. QED
    BY <2>1, <2>2 DEF lockBar
<1>2. ASSUME \A p \in Procs : ~(Holding(p) /\ target[p] = c)
      PROVE  lockBar[c] = LockState(c)
  BY <1>2 DEF Holders, lockBar
<1>3. QED
  BY <1>1, <1>2

\* The same of the state after a step.
LEMMA LockBarValueNext ==
  ASSUME LockInv', NEW c \in Collections
  PROVE  /\ \A p \in Procs : Holding(p)' /\ target'[p] = c => lockBar'[c] = p
         /\ (\A p \in Procs : ~(Holding(p)' /\ target'[p] = c)) => lockBar'[c] = LockState(c)'
<1>1. ASSUME NEW p \in Procs, Holding(p)', target'[p] = c
      PROVE  lockBar'[c] = p
  <2>1. Holders(c)' = {p}
    BY <1>1 DEF Holders, LockInv, Exclusive
  <2>2. (CHOOSE q \in Holders(c)' : TRUE) = p
    BY <2>1
  <2>3. QED
    BY <2>1, <2>2 DEF lockBar
<1>2. ASSUME \A p \in Procs : ~(Holding(p)' /\ target'[p] = c)
      PROVE  lockBar'[c] = LockState(c)'
  BY <1>2 DEF Holders, lockBar
<1>3. QED
  BY <1>1, <1>2

\* A step that changes the lock of one collection at most.
LEMMA LockBarUpdate ==
  ASSUME NEW c \in Collections, NEW s,
         \A d \in Collections \ {c} : lockBar'[d] = lockBar[d],
         lockBar'[c] = s
  PROVE  lockBar' = [lockBar EXCEPT ![c] = s]
<1>1. lockBar = [d \in Collections |-> lockBar[d]] /\ lockBar' = [d \in Collections |-> lockBar'[d]]
  BY DEF lockBar
<1>2. QED
  BY <1>1

\* A step that changes the lock of no collection.
LEMMA LockBarSame ==
  ASSUME \A d \in Collections : lockBar'[d] = lockBar[d]
  PROVE  lockBar' = lockBar
<1>1. lockBar = [d \in Collections |-> lockBar[d]] /\ lockBar' = [d \in Collections |-> lockBar'[d]]
  BY DEF lockBar
<1>2. QED
  BY <1>1

\* What a call of p on its collection does to the lock.
LEMMA CallOnLock ==
  ASSUME LockInv, LockInv', NEW p \in Procs, OthersUntouched(p),
         NEW c \in Collections, target[p] = c,
         pc[p] # "idle",
         pc'[p] # "idle" => target'[p] = c,
         \A d \in Collections \ {c} :
           row'[d] = row[d] /\ publication'[d] = publication[d],
         \/ Holding(p)
         \/ Holding(p)' /\ row[c] = "present" /\ ~PublishInProgress(c)
         \/ /\ ~Holding(p)'
            /\ \/ UNCHANGED <<row, publication>>
               \/ row'[c] = "deleted"
  PROVE  [Lock!Next]_lockBar
<1>2. \A q \in Procs \ {p} : (Holding(q)' <=> Holding(q)) /\ target'[q] = target[q]
  BY DEF OthersUntouched, Holding
<1>3. Holding(p)' => target'[p] = c
  BY DEF Holding
<1>4. \A d \in Collections \ {c} : lockBar'[d] = lockBar[d]
  <2>1. SUFFICES ASSUME NEW d \in Collections \ {c}
                 PROVE  lockBar'[d] = lockBar[d]
    OBVIOUS
  <2>2. LockState(d)' = LockState(d)
    BY DEF LockState, PublishInProgress
  <2>3. CASE \E q \in Procs : Holding(q) /\ target[q] = d
    BY <1>2, <2>3, LockBarValue, LockBarValueNext
  <2>4. CASE \A q \in Procs : ~(Holding(q) /\ target[q] = d)
    <3>1. \A q \in Procs : ~(Holding(q)' /\ target'[q] = d)
      BY <1>2, <1>3, <2>4
    <3>2. QED
      BY <2>2, <2>4, <3>1, LockBarValue, LockBarValueNext
  <2>5. QED
    BY <2>3, <2>4
<1>5. CASE Holding(p) /\ Holding(p)'
  <2>1. lockBar[c] = p /\ lockBar'[c] = p
    BY <1>3, <1>5, LockBarValue, LockBarValueNext
  <2>2. lockBar' = lockBar
    BY <1>4, <2>1, LockBarSame
  <2>3. QED
    BY <2>2
<1>6. CASE Holding(p) /\ ~Holding(p)'
  <2>1. lockBar[c] = p
    BY <1>6, LockBarValue
  <2>2. \A q \in Procs : ~(Holding(q)' /\ target'[q] = c)
    BY <1>2, <1>6 DEF LockInv, Exclusive
  <2>3. lockBar'[c] = LockState(c)'
    BY <2>2, LockBarValueNext
  <2>4. lockBar'[c] \in {"free", "orphaned", "closed"}
    BY <2>3 DEF LockState
  <2>5. lockBar' = [lockBar EXCEPT ![c] = lockBar'[c]]
    BY <1>4, LockBarUpdate
  <2>6. QED
    BY <2>1, <2>4, <2>5 DEF Lock!Next, Lock!Release, Lock!Free, Lock!Orphaned, Lock!Closed
<1>7. CASE ~Holding(p) /\ Holding(p)'
  <2>1. row[c] = "present" /\ ~PublishInProgress(c)
    BY <1>7
  <2>2. \A q \in Procs : ~(Holding(q) /\ target[q] = c)
    BY <2>1 DEF LockInv, RunningMeansInProgress
  <2>3. lockBar[c] = "free"
    BY <2>1, <2>2, LockBarValue DEF LockState
  <2>4. lockBar'[c] = p
    BY <1>3, <1>7, LockBarValueNext
  <2>5. lockBar' = [lockBar EXCEPT ![c] = p]
    BY <1>4, <2>4, LockBarUpdate
  <2>6. QED
    BY <2>3, <2>5 DEF Lock!Next, Lock!Acquire, Lock!Free
<1>8. CASE ~Holding(p) /\ ~Holding(p)'
  <2>1. CASE \E q \in Procs : Holding(q) /\ target[q] = c
    <3>1. lockBar'[c] = lockBar[c]
      BY <1>2, <1>8, <2>1, LockBarValue, LockBarValueNext
    <3>2. lockBar' = lockBar
      BY <1>4, <3>1, LockBarSame
    <3>3. QED
      BY <3>2
  <2>2. CASE \A q \in Procs : ~(Holding(q) /\ target[q] = c)
    <3>1. \A q \in Procs : ~(Holding(q)' /\ target'[q] = c)
      BY <1>2, <1>8, <2>2
    <3>2. lockBar[c] = LockState(c) /\ lockBar'[c] = LockState(c)'
      BY <2>2, <3>1, LockBarValue, LockBarValueNext
    <3>3. lockBar' = [lockBar EXCEPT ![c] = lockBar'[c]]
      BY <1>4, LockBarUpdate
    <3>4. lockBar'[c] = lockBar[c] \/ lockBar'[c] = "closed"
      BY <1>8, <3>2 DEF LockState, PublishInProgress
    <3>5. lockBar[c] \in {"free", "orphaned", "closed"}
      BY <3>2 DEF LockState
    <3>6. CASE lockBar'[c] = lockBar[c]
      BY <1>4, <3>6, LockBarSame
    <3>7. CASE lockBar'[c] = "closed" /\ lockBar[c] \in {"free", "orphaned"}
      BY <3>3, <3>7 DEF Lock!Next, Lock!Close, Lock!Free, Lock!Orphaned, Lock!Closed
    <3>8. QED
      BY <3>4, <3>5, <3>6, <3>7
  <2>3. QED
    BY <2>1, <2>2
<1>9. QED
  BY <1>5, <1>6, <1>7, <1>8

\* What StartPublish leaves alone, and whom it lets in.
LEMMA StartPublishEffect ==
  ASSUME TypeOK, LockCallsReliable, NEW p \in Procs, NEW c \in Collections, target[p] = c,
         NEW type \in Types, NEW at \in {"startPublication", "startRemoval"},
         NEW next \in {"prepare", "unpublish"}, StartPublish(p, type, at, next)
  PROVE  /\ pc[p] = at
         /\ OthersUntouched(p)
         /\ pc'[p] # "idle" => target'[p] = c
         /\ \A d \in Collections \ {c} : row'[d] = row[d] /\ publication'[d] = publication[d]
         /\ \/ Holding(p)' /\ row[c] = "present" /\ ~PublishInProgress(c)
            \/ ~Holding(p)' /\ UNCHANGED <<row, publication>>
<1>0. /\ pc \in [Procs -> Labels]
      /\ target \in [Procs -> Collections \cup {None}]
      /\ todo \in [Procs -> SUBSET Cleanups]
      /\ publication \in [Collections -> Publications]
  BY DEF TypeOK, LocalTypeOK, StoreTypeOK
<1>1. CASE UpsertInProgress(target[p], type) /\ Goto(p, next)
  BY <1>0, <1>1 DEF StartPublish, UpsertInProgress, Goto, OthersUntouched, Holding
<1>2. CASE UNCHANGED storeVars /\ Return(p)
  BY <1>0, <1>2 DEF StartPublish, Return, OthersUntouched, Holding, storeVars
<1>3. CASE UNCHANGED storeVars /\ CleanUp(p, {"statusIfExists"})
  BY <1>0, <1>3 DEF StartPublish, CleanUp, OthersUntouched, Holding, storeVars
<1>4. QED
  BY <1>1, <1>2, <1>3 DEF StartPublish, Fails, LockCallsReliable

\* The same of every other call of a running invocation: only the holder of a
\* collection writes its status, and only a deletion its row.
LEMMA StepEffect ==
  ASSUME LockInv, LockCallsReliable, NEW p \in Procs, NEW c \in Collections, target[p] = c,
         Step(p), ~PublishStart(p), ~UnpublishStart(p)
  PROVE  /\ pc[p] # "idle"
         /\ OthersUntouched(p)
         /\ pc'[p] # "idle" => target'[p] = c
         /\ \A d \in Collections \ {c} : row'[d] = row[d] /\ publication'[d] = publication[d]
         /\ \/ Holding(p)
            \/ ~Holding(p)' /\ (UNCHANGED <<row, publication>> \/ row'[c] = "deleted")
<1>0. /\ pc \in [Procs -> Labels]
      /\ target \in [Procs -> Collections \cup {None}]
      /\ todo \in [Procs -> SUBSET Cleanups]
      /\ row \in [Collections -> {"unborn", "present", "deleted"}]
      /\ publication \in [Collections -> Publications]
  BY DEF LockInv, TypeOK, LocalTypeOK, StoreTypeOK
<1>1. CASE PublishFinish(p) \/ UnpublishFinish(p)
  <2>1. PICK at \in {"finishPublication", "finishRemoval"}, cleanups \in SUBSET Cleanups :
          Finish(p, at, cleanups)
    BY <1>1 DEF PublishFinish, UnpublishFinish, Cleanups
  <2>2. Holding(p)
    BY <2>1 DEF Finish, Holding
  <2>3. OthersUntouched(p) /\ (pc'[p] # "idle" => target'[p] = c)
    BY <1>0, <2>1 DEF Finish, Return, CleanUp, OthersUntouched
  <2>4. \A d \in Collections \ {c} : row'[d] = row[d] /\ publication'[d] = publication[d]
    BY <1>0, <2>1 DEF Finish, Fails, LockCallsReliable, FinishPublish, storeVars
  <2>5. QED
    BY <2>2, <2>3, <2>4 DEF Holding
<1>2. CASE Prepare(p) \/ PublishToDiscover(p) \/ Save(p)
  BY <1>0, <1>2 DEF Prepare, PublishToDiscover, Save, Goto, CleanUp, OthersUntouched, Holding,
                    storeVars
<1>3. CASE Finalize(p) \/ Unpublish(p)
  <2>1. /\ Holding(p)
        /\ UNCHANGED <<row, publication>>
        /\ \/ /\ \E label : pc' = [pc EXCEPT ![p] = label]
              /\ UNCHANGED <<target, todo>>
           \/ \E cleanups : CleanUp(p, cleanups)
    BY <1>3 DEF Finalize, Unpublish, storeVars, Holding
  <2>2. QED
    BY <1>0, <2>1 DEF CleanUp, OthersUntouched, Holding
<1>4. CASE Delete(p)
  BY <1>0, <1>4 DEF Delete, DeleteRow, Return, OthersUntouched, Holding, storeVars
<1>5. CASE CleanupStatus(p)
  <2>1. /\ pc[p] = "cleanup"
        /\ OthersUntouched(p)
        /\ pc'[p] # "idle" => target'[p] = c
        /\ ~Holding(p)'
    BY <1>0, <1>5 DEF CleanupStatus, CleanupDone, StatusCleanups, Return, OthersUntouched,
                      Holding
  <2>2. \A d \in Collections \ {c} : row'[d] = row[d] /\ publication'[d] = publication[d]
    BY <1>0, <1>5 DEF CleanupStatus, FinishPublish, storeVars
  <2>3. CASE "status" \in todo[p]
    BY <2>1, <2>2, <2>3 DEF Holding
  <2>4. CASE "statusIfExists" \in todo[p]
    <3>1. row[c] = "deleted" /\ ~HasStatus(c)
      BY <2>1, <2>4 DEF LockInv, HasStatus
    <3>2. UNCHANGED <<row, publication>>
      BY <1>5, <3>1 DEF CleanupStatus, FinishPublish, storeVars
    <3>3. QED
      BY <2>1, <2>2, <3>2
  <2>5. QED
    BY <1>5, <2>3, <2>4 DEF CleanupStatus, StatusCleanups
<1>6. CASE CleanupManifest(p) \/ CleanupDiscover(p)
  BY <1>0, <1>6 DEF CleanupManifest, CleanupDiscover, CleanupDone, StatusCleanups, Return,
                    OthersUntouched, Holding, storeVars
<1>7. QED
  BY <1>1, <1>2, <1>3, <1>4, <1>5, <1>6 DEF Step

\* A call of a running invocation is a step of the lock, or none.
LEMMA StepOnLock ==
  ASSUME LockInv, LockInv', LockCallsReliable, NEW p \in Procs, Step(p)
  PROVE  [Lock!Next]_lockBar
<1>1. pc[p] # "idle"
  BY DEF Step, PublishStart, UnpublishStart, StartPublish, Prepare, PublishToDiscover, Save,
         Finalize, PublishFinish, UnpublishFinish, Finish, Unpublish, Delete, CleanupStatus,
         CleanupManifest, CleanupDiscover
<1>2. PICK c \in Collections : target[p] = c
  BY <1>1 DEF LockInv, TypeOK, LocalTypeOK
<1>3. CASE PublishStart(p) \/ UnpublishStart(p)
  <2>1. PICK type \in Types, at \in {"startPublication", "startRemoval"},
             next \in {"prepare", "unpublish"} : StartPublish(p, type, at, next)
    BY <1>3 DEF PublishStart, UnpublishStart, Types
  <2>2. QED
    BY <1>1, <1>2, <2>1, StartPublishEffect, CallOnLock DEF LockInv
<1>4. CASE ~PublishStart(p) /\ ~UnpublishStart(p)
  BY <1>1, <1>2, <1>4, StepEffect, CallOnLock
<1>5. QED
  BY <1>3, <1>4

\* Requests, kills, creations and updates are steps of the lock, or none.
LEMMA OtherStepsOnLock ==
  ASSUME LockInv, LockInv',
         \/ \E p \in Procs : Request(p) \/ Crash(p)
         \/ \E c \in Collections, x \in Contents : Create(c, x) \/ Patch(c, x)
         \/ UNCHANGED vars
  PROVE  [Lock!Next]_lockBar
<1>0. /\ pc \in [Procs -> Labels]
      /\ target \in [Procs -> Collections \cup {None}]
      /\ todo \in [Procs -> SUBSET Cleanups]
      /\ row \in [Collections -> {"unborn", "present", "deleted"}]
      /\ publication \in [Collections -> Publications]
  BY DEF LockInv, TypeOK, LocalTypeOK, StoreTypeOK
<1>1. ASSUME \A q \in Procs : (Holding(q)' <=> Holding(q)) /\ (Holding(q) => target'[q] = target[q]),
             \A d \in Collections : LockState(d)' = LockState(d)
      PROVE  lockBar' = lockBar
  <2>1. SUFFICES ASSUME NEW d \in Collections
                 PROVE  lockBar'[d] = lockBar[d]
    BY LockBarSame
  <2>2. CASE \E q \in Procs : Holding(q) /\ target[q] = d
    BY <1>1, <2>2, LockBarValue, LockBarValueNext
  <2>3. CASE \A q \in Procs : ~(Holding(q) /\ target[q] = d)
    <3>1. \A q \in Procs : ~(Holding(q)' /\ target'[q] = d)
      BY <1>1, <2>3
    <3>2. QED
      BY <1>1, <2>3, <3>1, LockBarValue, LockBarValueNext
  <2>4. QED
    BY <2>2, <2>3
<1>2. ASSUME NEW p \in Procs, NEW c \in Collections,
             NEW label \in {"startPublication", "startRemoval", "delete"},
             NEW read, Enter(p, c, label, read)
      PROVE  lockBar' = lockBar
  <2>1. \A q \in Procs :
          (Holding(q)' <=> Holding(q)) /\ (Holding(q) => target'[q] = target[q])
    BY <1>0, <1>2 DEF Enter, Holding
  <2>2. \A d \in Collections : LockState(d)' = LockState(d)
    BY <1>2 DEF Enter, storeVars, LockState, PublishInProgress
  <2>3. QED
    BY <1>1, <2>1, <2>2
<1>3. CASE \E p \in Procs : Request(p) /\ ~UNCHANGED vars
  BY <1>2, <1>3 DEF Request, Refuse, PublishRead, UnpublishRead, DeleteRead
<1>4. CASE \E p \in Procs : Crash(p)
  <2>1. PICK p \in Procs : Crash(p)
    BY <1>4
  <2>2. PICK c \in Collections : target[p] = c
    BY <2>1 DEF Crash, LockInv, TypeOK, LocalTypeOK
  <2>3. /\ UNCHANGED <<row, publication>>
        /\ OthersUntouched(p)
        /\ pc[p] # "idle"
        /\ pc'[p] = "idle"
        /\ ~Holding(p)'
    BY <1>0, <2>1 DEF Crash, Return, OthersUntouched, storeVars, Holding
  <2>4. QED
    BY <2>2, <2>3, CallOnLock
<1>5. CASE \E c \in Collections, x \in Contents : Create(c, x) \/ Patch(c, x)
  <2>1. PICK c \in Collections, x \in Contents : Create(c, x) \/ Patch(c, x)
    BY <1>5
  <2>2. UNCHANGED <<pc, target, todo, publication>>
    BY <2>1 DEF Create, Patch, InsertCollection, UpdateRow, localVars
  <2>3. \A d \in Collections : row'[d] = row[d] \/ (row[d] = "unborn" /\ row'[d] = "present")
    BY <1>0, <2>1 DEF Create, Patch, InsertCollection, UpdateRow
  <2>4. \A d \in Collections : LockState(d)' = LockState(d)
    BY <2>2, <2>3 DEF LockState, PublishInProgress
  <2>5. QED
    BY <1>1, <2>2, <2>4 DEF Holding
<1>6. CASE UNCHANGED vars
  BY <1>1, <1>6 DEF vars, localVars, storeVars, Holding, LockState, PublishInProgress
<1>7. QED
  BY <1>3, <1>4, <1>5, <1>6

LEMMA InitOnLock == Init => Lock!Init
<1> SUFFICES ASSUME Init
             PROVE  lockBar = [c \in Collections |-> "free"]
  BY DEF Lock!Init, Lock!Free
<1>1. \A p \in Procs : ~Holding(p)
  BY DEF Init, Holding
<1>2. \A c \in Collections : LockState(c) = "free"
  BY DEF Init, StoreInit, LockState, PublishInProgress, NoPublication
<1>3. \A c \in Collections : lockBar[c] = "free"
  BY <1>1, <1>2, InitLock, LockBarValue
<1>4. QED
  BY <1>3 DEF lockBar

LEMMA NextOnLock == LockCallsReliable /\ LockInv /\ LockInv' /\ [Next]_vars => [Lock!Next]_lockBar
BY StepOnLock, OtherStepsOnLock DEF Next

\* The status rows and the way the handlers use them are a try-lock: a process
\* is let in only where nobody is, and only the holder lets others in again.
THEOREM LockRefinement ==
  ASSUME LockCallsReliable
  PROVE  Spec => LockSpec
BY InitOnLock, NextOnLock, LockInvariant, PTL DEF Spec, LockSpec, Lock!Spec

=============================================================================
