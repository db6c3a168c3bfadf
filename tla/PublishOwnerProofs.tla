------------------------- MODULE PublishOwnerProofs -------------------------
(***************************************************************************)
(* Theorems about what a publish leaves behind: a collection that says     *)
(* InProgress, and a version that is pending in Discover, have a process   *)
(* that will end them.  This holds only while invocations are not killed   *)
(* and the calls that end them do not fail.                                *)
(***************************************************************************)
EXTENDS PublishLifecycleProofs

\* FinishPublish never fails, so that cleanupStatus works.
StatusIsWritten == ~MayCrash /\ LockCallsReliable /\ "FinishPublish" \notin Refused

\* The answer to a publish request is not lost, so that the caller knows the
\* version it opened, and a finalize takes effect even if its answer is lost.
VersionsAreClosed ==
  ~MayCrash /\ "PublishCollection" \notin Lost /\ "FinalizeCollectionPublish" \notin Refused

-----------------------------------------------------------------------------
(* InProgress has a process.                                               *)

\* A process never finishes with the status InProgress.
OwnerInv ==
  /\ LockInv
  /\ \A p \in Procs :
       pc[p] \in {"finishPublication", "finishRemoval"} => outcome[p] \in {"Completed", "Failed"}
  /\ InProgressIsOwned

\* The calls of a running invocation, and what each leaves to the others.
LEMMA StepRuns ==
  ASSUME LockInv, LockCallsReliable, NEW p \in Procs, Step(p)
  PROVE  /\ pc[p] # "idle" /\ target[p] \in Collections
         /\ OthersUntouched(p)
         /\ pc'[p] # "idle" => target'[p] = target[p]
         /\ \A d \in Collections \ {target[p]} : publication'[d] = publication[d]
         /\ \/ Holding(p)
            \/ Holding(p)'
            \/ UNCHANGED publication \/ row'[target[p]] = "deleted"
<1>1. pc[p] # "idle"
  BY DEF Step, PublishStart, UnpublishStart, StartPublish, Prepare, PublishToDiscover, Save,
         Finalize, PublishFinish, UnpublishFinish, Finish, Unpublish, Delete, CleanupStatus,
         CleanupManifest, CleanupDiscover
<1>2. target[p] \in Collections /\ TypeOK
  BY <1>1 DEF LockInv, TypeOK, LocalTypeOK
<1>3. CASE PublishStart(p) \/ UnpublishStart(p)
  <2>1. PICK type \in Types, at \in {"startPublication", "startRemoval"},
             next \in {"prepare", "unpublish"} : StartPublish(p, type, at, next)
    BY <1>3 DEF PublishStart, UnpublishStart, Types
  <2>2. QED
    BY <1>1, <1>2, <2>1, StartPublishEffect
<1>4. CASE ~PublishStart(p) /\ ~UnpublishStart(p)
  BY <1>1, <1>2, <1>4, StepEffect
<1>5. QED
  BY <1>3, <1>4

\* What p writes at its end is Completed or Failed.
LEMMA StepOutcome ==
  ASSUME TypeOK, NEW p \in Procs, Step(p), pc'[p] \in {"finishPublication", "finishRemoval"}
  PROVE  outcome'[p] \in {"Completed", "Failed"}
<1>0. /\ pc \in [Procs -> Labels]
      /\ outcome \in [Procs -> Statuses \cup {None}]
  BY DEF TypeOK, LocalTypeOK
<1>1. Finalize(p) \/ Unpublish(p)
  BY <1>0 DEF Step, PublishStart, UnpublishStart, StartPublish, Prepare, PublishToDiscover, Save,
         PublishFinish, UnpublishFinish, Finish, Delete, CleanupStatus, CleanupManifest,
         CleanupDiscover, CleanupDone, Goto, CleanUp, Return
<1>2. \E reply : outcome' = [outcome EXCEPT ![p] = ToPublishingStatus(reply)]
  BY <1>0, <1>1 DEF Finalize, Unpublish, CleanUp
<1>3. QED
  BY <1>0, <1>2 DEF ToPublishingStatus

\* A process that holds a collection holds it on, or writes that it is done.
LEMMA HolderEnds ==
  ASSUME OwnerInv, StatusIsWritten, NEW p \in Procs, Step(p), Holding(p)
  PROVE  Holding(p)' \/ publication'[target[p]].status # "InProgress"
<1>0. /\ pc \in [Procs -> Labels]
      /\ todo \in [Procs -> SUBSET Cleanups]
      /\ publication \in [Collections -> Publications]
      /\ pc[p] # "idle" => target[p] \in Collections
  BY DEF OwnerInv, LockInv, TypeOK, LocalTypeOK, StoreTypeOK
<1>1. ASSUME NEW status \in {"Completed", "Failed"}, target[p] \in Collections,
             FinishPublish(target[p], status)
      PROVE  publication'[target[p]].status # "InProgress"
  BY <1>0, <1>1 DEF FinishPublish, HasStatus, NoPublication
<1>2. CASE PublishStart(p) \/ UnpublishStart(p) \/ Delete(p)
  BY <1>2 DEF PublishStart, UnpublishStart, StartPublish, Delete, Holding
<1>3. CASE PublishFinish(p) \/ UnpublishFinish(p)
  <2>1. PICK at \in {"finishPublication", "finishRemoval"},
             cleanups \in {{"status"}, {"status", "manifest", "finalize"}} : Finish(p, at, cleanups)
    BY <1>3 DEF PublishFinish, UnpublishFinish
  <2>2. target[p] \in Collections /\ outcome[p] \in {"Completed", "Failed"}
    BY <1>0, <2>1 DEF Finish, OwnerInv
  <2>3. CASE FinishPublish(target[p], outcome[p])
    BY <1>1, <2>2, <2>3
  <2>4. CASE CleanUp(p, cleanups)
    BY <1>0, <2>1, <2>4 DEF CleanUp, Holding
  <2>5. QED
    BY <2>1, <2>3, <2>4 DEF Finish
<1>4. CASE Prepare(p) \/ PublishToDiscover(p) \/ Save(p)
  BY <1>0, <1>4 DEF Prepare, PublishToDiscover, Save, Goto, CleanUp, Holding
<1>5. CASE Finalize(p) \/ Unpublish(p)
  <2>1. \/ \E label \in {"finishPublication", "finishRemoval"} : pc' = [pc EXCEPT ![p] = label]
        \/ \E cleanups : CleanUp(p, cleanups) /\ "status" \in cleanups
    BY <1>5 DEF Finalize, Unpublish
  <2>2. QED
    BY <1>0, <2>1 DEF CleanUp, Holding
<1>6. CASE CleanupStatus(p)
  <2>1. target[p] \in Collections /\ FinishPublish(target[p], "Failed")
    BY <1>0, <1>6 DEF CleanupStatus, StatusIsWritten
  <2>2. QED
    BY <1>1, <2>1
<1>7. CASE CleanupManifest(p) \/ CleanupDiscover(p)
  BY <1>7 DEF CleanupManifest, CleanupDiscover, StatusCleanups, Holding
<1>8. QED
  BY <1>2, <1>3, <1>4, <1>5, <1>6, <1>7 DEF Step

\* A call of a running invocation keeps InProgress owned.
LEMMA StepOwner ==
  ASSUME OwnerInv, StatusIsWritten, LockInv', NEW p \in Procs, Step(p)
  PROVE  InProgressIsOwned'
<1>0. LockInv /\ LockCallsReliable /\ InProgressIsOwned
  BY DEF OwnerInv, StatusIsWritten
<1>1. /\ OthersUntouched(p)
      /\ Holding(p)' => target'[p] = target[p]
      /\ \A d \in Collections \ {target[p]} : publication'[d] = publication[d]
      /\ \/ Holding(p)
         \/ Holding(p)'
         \/ UNCHANGED publication \/ row'[target[p]] = "deleted"
  BY <1>0, StepRuns DEF Holding
<1>2. SUFFICES ASSUME NEW c \in Collections, PublishInProgress(c)'
               PROVE  \E q \in Procs : Holding(q)' /\ target'[q] = c
  BY DEF InProgressIsOwned
<1>3. ASSUME NEW q \in Procs, q # p, Holding(q), target[q] = c
      PROVE  Holding(q)' /\ target'[q] = c
  BY <1>1, <1>3 DEF OthersUntouched, Holding
<1>4. CASE target[p] = c /\ (Holding(p) \/ Holding(p)')
  <2>1. Holding(p)'
    BY <1>2, <1>4, HolderEnds DEF PublishInProgress
  <2>2. QED
    BY <1>1, <1>4, <2>1
<1>5. CASE target[p] # c \/ (~Holding(p) /\ ~Holding(p)')
  <2>1. publication'[c] = publication[c]
    <3>1. row'[c] # "deleted"
      BY <1>2 DEF LockInv, PublishInProgress, NoPublication
    <3>2. QED
      BY <1>1, <1>5, <3>1
  <2>2. PICK q \in Procs : Holding(q) /\ target[q] = c
    BY <1>0, <1>2, <2>1 DEF InProgressIsOwned, PublishInProgress
  <2>3. q # p
    BY <1>5, <2>2
  <2>4. QED
    BY <1>3, <2>2, <2>3
<1>6. QED
  BY <1>4, <1>5

\* Requests, creations and updates write no status and stop no process.
LEMMA OtherStepsOwner ==
  ASSUME OwnerInv, ~MayCrash,
         \/ \E p \in Procs : Request(p) \/ Crash(p)
         \/ \E c \in Collections, x \in Contents : Create(c, x) \/ Patch(c, x)
         \/ UNCHANGED vars
  PROVE  /\ UNCHANGED publication
         /\ \A q \in Procs :
              /\ Holding(q) => Holding(q)' /\ target'[q] = target[q]
              /\ pc'[q] \in {"finishPublication", "finishRemoval"} =>
                   pc[q] = pc'[q] /\ outcome'[q] = outcome[q]
<1>0. /\ pc \in [Procs -> Labels]
      /\ target \in [Procs -> Collections \cup {None}]
  BY DEF OwnerInv, LockInv, TypeOK, LocalTypeOK
<1>1. ASSUME NEW p \in Procs, NEW c \in Collections,
             NEW label \in {"startPublication", "startRemoval", "delete"},
             NEW read, Enter(p, c, label, read)
      PROVE  /\ UNCHANGED publication
             /\ \A q \in Procs :
                  /\ Holding(q) => Holding(q)' /\ target'[q] = target[q]
                  /\ pc'[q] \in {"finishPublication", "finishRemoval"} =>
                       pc[q] = pc'[q] /\ outcome'[q] = outcome[q]
  BY <1>0, <1>1 DEF Enter, Holding, storeVars
<1>2. CASE \E p \in Procs : Request(p) /\ ~UNCHANGED vars
  BY <1>1, <1>2 DEF Request, Refuse, PublishRead, UnpublishRead, DeleteRead
<1>3. CASE \E c \in Collections, x \in Contents : Create(c, x) \/ Patch(c, x)
  BY <1>3 DEF Create, Patch, InsertCollection, UpdateRow, localVars, Holding
<1>4. CASE UNCHANGED vars
  BY <1>4 DEF vars, storeVars, localVars, Holding
<1>5. QED
  BY <1>2, <1>3, <1>4 DEF Crash

LEMMA InitOwner == Init => OwnerInv
BY InitLock DEF Init, StoreInit, NoPublication, PublishInProgress, OwnerInv, InProgressIsOwned

LEMMA NextOwner == StatusIsWritten /\ OwnerInv /\ [Next]_vars => OwnerInv'
<1> SUFFICES ASSUME StatusIsWritten, OwnerInv, [Next]_vars
             PROVE  OwnerInv'
  OBVIOUS
<1>1. LockInv /\ LockInv' /\ TypeOK /\ LockCallsReliable
  BY NextLock DEF OwnerInv, LockInv, StatusIsWritten
<1>2. ASSUME NEW p \in Procs, Step(p)
      PROVE  OwnerInv'
  <2>1. InProgressIsOwned'
    BY <1>1, <1>2, StepOwner
  <2>2. ASSUME NEW q \in Procs, pc'[q] \in {"finishPublication", "finishRemoval"}
        PROVE  outcome'[q] \in {"Completed", "Failed"}
    <3>1. CASE q = p
      BY <1>1, <1>2, <2>2, <3>1, StepOutcome
    <3>2. CASE q # p
      <4>1. pc'[q] = pc[q]
        BY <1>1, <1>2, <3>2, StepRuns DEF OthersUntouched
      <4>2. outcome'[q] = outcome[q]
        BY <1>1, <1>2, <3>2 DEF TypeOK, LocalTypeOK, Step, PublishStart, UnpublishStart,
           StartPublish, Prepare, PublishToDiscover, Save, Finalize, PublishFinish,
           UnpublishFinish, Finish, Unpublish, Delete, CleanupStatus, CleanupManifest,
           CleanupDiscover, CleanupDone, Goto, CleanUp, Return
      <4>3. QED
        BY <2>2, <4>1, <4>2 DEF OwnerInv
    <3>3. QED
      BY <3>1, <3>2
  <2>3. QED
    BY <1>1, <2>1, <2>2 DEF OwnerInv
<1>3. CASE \/ \E p \in Procs : Request(p) \/ Crash(p)
           \/ \E c \in Collections, x \in Contents : Create(c, x) \/ Patch(c, x)
           \/ UNCHANGED vars
  <2>1. /\ UNCHANGED publication
        /\ \A q \in Procs :
             /\ Holding(q) => Holding(q)' /\ target'[q] = target[q]
             /\ pc'[q] \in {"finishPublication", "finishRemoval"} =>
                  pc[q] = pc'[q] /\ outcome'[q] = outcome[q]
    BY <1>3, OtherStepsOwner DEF StatusIsWritten
  <2>2. InProgressIsOwned'
    BY <2>1 DEF OwnerInv, InProgressIsOwned, PublishInProgress
  <2>3. QED
    BY <1>1, <2>1, <2>2 DEF OwnerInv
<1>4. QED
  BY <1>2, <1>3 DEF Next

\* When no invocation is killed and FinishPublish does not fail, a collection
\* that says InProgress has a process that is going to end it, whichever other
\* calls fail or lose their answers.
THEOREM InProgressHasAnOwner ==
  ASSUME StatusIsWritten
  PROVE  Spec => []InProgressIsOwned
<1>1. OwnerInv => InProgressIsOwned
  BY DEF OwnerInv
<1>2. QED
  BY <1>1, InitOwner, NextOwner, PTL DEF Spec

-----------------------------------------------------------------------------
(* A pending version has a process.                                        *)

\* Nothing is left of an earlier cleanup when an invocation runs its calls.
PendingInv ==
  /\ TypeOK
  /\ \A p \in Procs : pc[p] # "cleanup" => todo[p] = {}
  /\ PendingIsOwned

\* p is still going to finalize its version.
Closing(p) == pc[p] \in {"save", "finalize"} \/ "finalize" \in todo[p]

\* What a call of p does to the versions that are pending and to its own part
\* in them: it opens one and takes it on, keeps it, or closes it.
PendingEffect(p) ==
  LET c == target[p] IN
  /\ \A q \in Procs \ {p} :
       /\ pc'[q] = pc[q] /\ todo'[q] = todo[q]
       /\ target'[q] = target[q] /\ version'[q] = version[q]
  /\ \A d \in Collections \ {c} : pending'[d] = pending[d]
  /\ pc'[p] # "cleanup" => todo'[p] = {}
  /\ \/ /\ ~Closing(p)
        /\ \/ pending'[c] = pending[c]
           \/ /\ pending'[c] = pending[c] \cup {version'[p]}
              /\ Closing(p)' /\ target'[p] = c
     \/ /\ Closing(p) /\ Closing(p)' /\ target'[p] = c /\ version'[p] = version[p]
        /\ pending'[c] \subseteq pending[c]
     \/ pending'[c] \subseteq pending[c] \ {version[p]}

LEMMA StepPending ==
  ASSUME PendingInv, VersionsAreClosed, NEW p \in Procs, Step(p)
  PROVE  PendingEffect(p)
<1>0. /\ pc \in [Procs -> Labels]
      /\ target \in [Procs -> Collections \cup {None}]
      /\ version \in [Procs -> Nat]
      /\ todo \in [Procs -> SUBSET Cleanups]
      /\ pending \in [Collections -> SUBSET Nat]
      /\ pc[p] # "idle" => target[p] \in Collections
      /\ pc[p] # "cleanup" => todo[p] = {}
  BY DEF PendingInv, TypeOK, LocalTypeOK, DiscoverTypeOK
<1>1. CASE PublishStart(p) \/ UnpublishStart(p) \/ Prepare(p)
  BY <1>0, <1>1 DEF PublishStart, UnpublishStart, StartPublish, Prepare, Goto, CleanUp, Return,
                    discoverVars, Closing, PendingEffect
<1>2. CASE PublishFinish(p) \/ UnpublishFinish(p) \/ Delete(p)
  BY <1>0, <1>2 DEF PublishFinish, UnpublishFinish, Finish, Delete, CleanUp, Return,
                    discoverVars, Closing, PendingEffect
<1>3. CASE PublishToDiscover(p)
  <2>1. CASE CleanUp(p, {"status"}) /\ UNCHANGED discoverVars
    BY <1>0, <1>3, <2>1 DEF PublishToDiscover, CleanUp, discoverVars, Closing, PendingEffect
  <2>2. CASE /\ OpenVersion(target[p], snapshot[p])
             /\ pc' = [pc EXCEPT ![p] = "save"]
             /\ version' = [version EXCEPT ![p] = versions[target[p]] + 1]
             /\ UNCHANGED <<target, snapshot, outcome, todo>>
    BY <1>0, <1>3, <2>2 DEF PublishToDiscover, OpenVersion, Closing, PendingEffect
  <2>3. QED
    BY <1>3, <2>1, <2>2 DEF PublishToDiscover, Fails, VersionsAreClosed
<1>4. CASE Save(p)
  <2>1. /\ pc[p] = "save" /\ UNCHANGED <<pending, target, version>>
        /\ \/ pc' = [pc EXCEPT ![p] = "finalize"] /\ UNCHANGED todo
           \/ /\ pc' = [pc EXCEPT ![p] = "cleanup"]
              /\ todo' = [todo EXCEPT ![p] = {"status", "finalize"}]
    BY <1>4 DEF Save, Goto, CleanUp, discoverVars
  <2>2. QED
    BY <1>0, <2>1 DEF Closing, PendingEffect
<1>5. CASE Finalize(p)
  <2>1. /\ pc[p] = "finalize" /\ UNCHANGED <<target, version>>
        /\ pending' = [pending EXCEPT ![target[p]] = @ \ {version[p]}]
        /\ \/ pc' = [pc EXCEPT ![p] = "finishPublication"] /\ UNCHANGED todo
           \/ /\ pc' = [pc EXCEPT ![p] = "cleanup"]
              /\ todo' = [todo EXCEPT ![p] = {"status", "manifest", "finalize"}]
    BY <1>5 DEF Finalize, Fails, FinalizeSuccess, CleanUp, VersionsAreClosed
  <2>2. QED
    BY <1>0, <2>1 DEF PendingEffect
<1>6. CASE Unpublish(p)
  <2>1. /\ pc[p] = "unpublish" /\ UNCHANGED <<target, version, pending>>
        /\ \/ pc' = [pc EXCEPT ![p] = "finishRemoval"] /\ UNCHANGED todo
           \/ /\ pc' = [pc EXCEPT ![p] = "cleanup"]
              /\ todo' = [todo EXCEPT ![p] = {"status"}]
    BY <1>6 DEF Unpublish, Fails, TakeDown, CleanUp, discoverVars
  <2>2. QED
    BY <1>0, <2>1 DEF Closing, PendingEffect
<1>7. CASE CleanupStatus(p) \/ CleanupManifest(p)
  <2>1. PICK done \in {StatusCleanups, {"manifest"}} : CleanupDone(p, done)
    BY <1>7 DEF CleanupStatus, CleanupManifest
  <2>2. pc[p] = "cleanup" /\ UNCHANGED pending /\ "finalize" \notin done
    BY <1>7 DEF CleanupStatus, CleanupManifest, discoverVars, StatusCleanups
  <2>3. CASE todo[p] \ done = {}
    BY <1>0, <2>1, <2>2, <2>3 DEF CleanupDone, Return, Closing, PendingEffect
  <2>4. CASE todo[p] \ done # {}
    BY <1>0, <2>1, <2>2, <2>4 DEF CleanupDone, Closing, PendingEffect
  <2>5. QED
    BY <2>3, <2>4
<1>8. CASE CleanupDiscover(p)
  <2>1. /\ pc[p] = "cleanup" /\ Return(p)
        /\ pending' = [pending EXCEPT ![target[p]] = @ \ {version[p]}]
    BY <1>8 DEF CleanupDiscover, CleanupDone, FinalizeFailure, VersionsAreClosed
  <2>2. QED
    BY <1>0, <2>1 DEF Return, PendingEffect
<1>9. QED
  BY <1>1, <1>2, <1>3, <1>4, <1>5, <1>6, <1>7, <1>8 DEF Step

\* Requests, creations and updates open no version and stop no process.
LEMMA OtherStepsPending ==
  ASSUME PendingInv, ~MayCrash,
         \/ \E p \in Procs : Request(p) \/ Crash(p)
         \/ \E c \in Collections, x \in Contents : Create(c, x) \/ Patch(c, x)
         \/ UNCHANGED vars
  PROVE  /\ UNCHANGED <<pending, todo, version>>
         /\ \A q \in Procs :
              /\ pc[q] # "idle" => pc'[q] = pc[q] /\ target'[q] = target[q]
              /\ pc'[q] = "cleanup" <=> pc[q] = "cleanup"
<1>0. /\ pc \in [Procs -> Labels]
      /\ target \in [Procs -> Collections \cup {None}]
  BY DEF PendingInv, TypeOK, LocalTypeOK
<1>1. ASSUME NEW p \in Procs, NEW c \in Collections,
             NEW label \in {"startPublication", "startRemoval", "delete"},
             NEW read, Enter(p, c, label, read)
      PROVE  /\ UNCHANGED <<pending, todo, version>>
             /\ \A q \in Procs :
                  /\ pc[q] # "idle" => pc'[q] = pc[q] /\ target'[q] = target[q]
                  /\ pc'[q] = "cleanup" <=> pc[q] = "cleanup"
  BY <1>0, <1>1 DEF Enter, discoverVars
<1>2. CASE \E p \in Procs : Request(p) /\ ~UNCHANGED vars
  BY <1>1, <1>2 DEF Request, Refuse, PublishRead, UnpublishRead, DeleteRead
<1>3. CASE \E c \in Collections, x \in Contents : Create(c, x) \/ Patch(c, x)
  BY <1>3 DEF Create, Patch, discoverVars, localVars
<1>4. CASE UNCHANGED vars
  BY <1>4 DEF vars, discoverVars, localVars
<1>5. QED
  BY <1>2, <1>3, <1>4 DEF Crash

LEMMA InitPending == Init => PendingInv
BY InitType DEF Init, DiscoverInit, PendingInv, PendingIsOwned

LEMMA NextPending == VersionsAreClosed /\ PendingInv /\ [Next]_vars => PendingInv'
<1> SUFFICES ASSUME VersionsAreClosed, PendingInv, [Next]_vars
             PROVE  PendingInv'
  OBVIOUS
<1>1. TypeOK'
  BY NextType DEF PendingInv
<1>2. \A c \in Collections : \A v \in pending[c] :
        \E q \in Procs : target[q] = c /\ version[q] = v /\ Closing(q)
  BY DEF PendingInv, PendingIsOwned, Closing
<1>3. ASSUME NEW p \in Procs, Step(p)
      PROVE  PendingInv'
  <2>1. PendingEffect(p)
    BY <1>3, StepPending
  <2>2. ASSUME NEW q \in Procs \ {p}
        PROVE  (Closing(q)' <=> Closing(q)) /\ target'[q] = target[q] /\ version'[q] = version[q]
    BY <2>1 DEF PendingEffect, Closing
  <2>3. ASSUME NEW c \in Collections, NEW v \in pending'[c]
        PROVE  \E q \in Procs : target'[q] = c /\ version'[q] = v /\ Closing(q)'
    <3>1. CASE v \in pending[c]
      <4>1. PICK q \in Procs : target[q] = c /\ version[q] = v /\ Closing(q)
        BY <1>2, <3>1
      <4>2. CASE q # p
        BY <2>2, <4>1, <4>2
      <4>3. CASE q = p
        BY <2>1, <2>3, <4>1, <4>3 DEF PendingEffect
      <4>4. QED
        BY <4>2, <4>3
    <3>2. CASE v \notin pending[c]
      BY <2>1, <2>3, <3>2 DEF PendingEffect
    <3>3. QED
      BY <3>1, <3>2
  <2>4. PendingIsOwned'
    BY <2>3 DEF PendingIsOwned, Closing
  <2>5. \A q \in Procs : pc'[q] # "cleanup" => todo'[q] = {}
    BY <2>1 DEF PendingEffect, PendingInv
  <2>6. QED
    BY <1>1, <2>4, <2>5 DEF PendingInv
<1>4. CASE \/ \E p \in Procs : Request(p) \/ Crash(p)
           \/ \E c \in Collections, x \in Contents : Create(c, x) \/ Patch(c, x)
           \/ UNCHANGED vars
  <2>1. /\ UNCHANGED <<pending, todo, version>>
        /\ \A q \in Procs :
             /\ pc[q] # "idle" => pc'[q] = pc[q] /\ target'[q] = target[q]
             /\ pc'[q] = "cleanup" <=> pc[q] = "cleanup"
    BY <1>4, OtherStepsPending DEF VersionsAreClosed
  <2>2. \A q \in Procs : Closing(q) => Closing(q)' /\ target'[q] = target[q]
    BY <2>1 DEF PendingInv, Closing
  <2>3. \A c \in Collections : \A v \in pending'[c] :
          \E q \in Procs : target'[q] = c /\ version'[q] = v /\ Closing(q)'
    BY <1>2, <2>1, <2>2
  <2>4. PendingIsOwned'
    BY <2>3 DEF PendingIsOwned, Closing
  <2>5. QED
    BY <1>1, <2>1, <2>4 DEF PendingInv
<1>5. QED
  BY <1>3, <1>4 DEF Next

\* When no invocation is killed, the answer to a publish request arrives and a
\* finalize takes effect, a version that is pending in Discover has a process
\* that is going to finalize it.
THEOREM PendingHasAnOwner ==
  ASSUME VersionsAreClosed
  PROVE  Spec => []PendingIsOwned
<1>1. PendingInv => PendingIsOwned
  BY DEF PendingInv
<1>2. QED
  BY <1>1, InitPending, NextPending, PTL DEF Spec

=============================================================================
