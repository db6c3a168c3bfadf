------------------------ MODULE PublishOutcomeProofs ------------------------
(***************************************************************************)
(* Theorems about what PublishLifecycle makes of Discover and the bucket:  *)
(* nothing that was not checked is sent, a Completed status is true of     *)
(* Discover, a collection that says published has the manifest of its live *)
(* version, and nothing takes the manifest of a settled version away.      *)
(***************************************************************************)
EXTENDS PublishLifecycleProofs

-----------------------------------------------------------------------------
(* Only checked content is sent. *)

\* A content that was checked is kept until it is sent.
CheckedInv ==
  /\ TypeOK
  /\ \A p \in Procs : pc[p] = "publish" => snapshot[p] \in Publishable
  /\ PublishedIsPublishable

\* A step that sends nothing, and takes nothing up for sending.
LEMMA CheckedQuiet ==
  ASSUME CheckedInv, TypeOK', UNCHANGED sent,
         \A p \in Procs : pc'[p] = "publish" => pc[p] = "publish" /\ snapshot'[p] = snapshot[p]
  PROVE  CheckedInv'
BY DEF CheckedInv, PublishedIsPublishable

\* Only a publish that passed the checks goes on to send.
LEMMA CheckedStep ==
  ASSUME CheckedInv, TypeOK', NEW p \in Procs, Step(p)
  PROVE  CheckedInv'
<1>0. /\ pc \in [Procs -> Labels]
      /\ snapshot \in [Procs -> Contents \cup {None}]
      /\ sent \in [Collections -> Contents \cup {None}]
  BY DEF CheckedInv, TypeOK, LocalTypeOK, DiscoverTypeOK
<1>1. CASE PublishStart(p) \/ UnpublishStart(p)
  BY <1>0, <1>1, CheckedQuiet DEF PublishStart, UnpublishStart, StartPublish, Goto, CleanUp, Return,
                                  discoverVars
<1>2. CASE PublishFinish(p) \/ UnpublishFinish(p)
  BY <1>0, <1>2, CheckedQuiet DEF PublishFinish, UnpublishFinish, Finish, CleanUp, Return,
                                  discoverVars
<1>3. CASE Prepare(p)
  <2>1. CASE snapshot[p] \in Publishable /\ Goto(p, "publish")
    BY <1>0, <1>3, <2>1 DEF Prepare, Goto, CheckedInv, PublishedIsPublishable, discoverVars
  <2>2. CASE CleanUp(p, {"status"})
    BY <1>0, <1>3, <2>2, CheckedQuiet DEF Prepare, CleanUp, discoverVars
  <2>3. QED
    BY <1>3, <2>1, <2>2 DEF Prepare
<1>4. CASE PublishToDiscover(p)
  <2>1. UNCHANGED snapshot /\ \A q \in Procs : pc'[q] = "publish" => pc[q] = "publish"
    BY <1>0, <1>4 DEF PublishToDiscover, CleanUp
  <2>2. OpenVersion(target[p], snapshot[p]) \/ UNCHANGED discoverVars
    BY <1>4 DEF PublishToDiscover, Fails
  <2>3. snapshot[p] \in Publishable
    BY <1>4 DEF PublishToDiscover, CheckedInv
  <2>4. \A c \in Collections : sent'[c] = sent[c] \/ sent'[c] = snapshot[p]
    BY <1>0, <2>2 DEF OpenVersion, discoverVars
  <2>5. QED
    BY <2>1, <2>3, <2>4 DEF CheckedInv, PublishedIsPublishable
<1>5. CASE Save(p)
  BY <1>0, <1>5, CheckedQuiet DEF Save, Goto, CleanUp, discoverVars
<1>6. CASE Finalize(p)
  <2>1. /\ \/ pc' = [pc EXCEPT ![p] = "finishPublication"] /\ UNCHANGED snapshot
           \/ CleanUp(p, {"status", "manifest", "finalize"})
        /\ UNCHANGED sent
    BY <1>6 DEF Finalize, Fails, FinalizeSuccess, discoverVars
  <2>2. QED
    BY <1>0, <2>1, CheckedQuiet DEF CleanUp
<1>7. CASE Unpublish(p)
  <2>1. /\ \/ pc' = [pc EXCEPT ![p] = "finishRemoval"] /\ UNCHANGED snapshot
           \/ CleanUp(p, {"status"})
        /\ UNCHANGED sent
    BY <1>7 DEF Unpublish, Fails, TakeDown, discoverVars
  <2>2. QED
    BY <1>0, <2>1, CheckedQuiet DEF CleanUp
<1>8. CASE Delete(p)
  BY <1>0, <1>8, CheckedQuiet DEF Delete, Return, discoverVars
<1>9. CASE CleanupStatus(p) \/ CleanupManifest(p) \/ CleanupDiscover(p)
  <2>1. /\ Return(p) \/ UNCHANGED <<pc, snapshot>>
        /\ UNCHANGED sent
    BY <1>9 DEF CleanupStatus, CleanupManifest, CleanupDiscover, CleanupDone, FinalizeFailure,
                discoverVars
  <2>2. QED
    BY <1>0, <2>1, CheckedQuiet DEF Return
<1>10. QED
  BY <1>1, <1>2, <1>3, <1>4, <1>5, <1>6, <1>7, <1>8, <1>9 DEF Step

\* No other step touches what was checked.
LEMMA CheckedNext == CheckedInv /\ [Next]_vars => CheckedInv'
<1> SUFFICES ASSUME CheckedInv, [Next]_vars
             PROVE  CheckedInv'
  OBVIOUS
<1>1. TypeOK'
  BY NextType DEF CheckedInv
<1>2. pc \in [Procs -> Labels] /\ snapshot \in [Procs -> Contents \cup {None}]
  BY DEF CheckedInv, TypeOK, LocalTypeOK
<1>3. CASE \E p \in Procs : Request(p) \/ Crash(p)
  <2>1. PICK p \in Procs : Request(p) \/ Crash(p)
    BY <1>3
  <2>2. CASE Refuse(p)
    BY <1>1, <2>2, CheckedQuiet DEF Refuse, vars, localVars, discoverVars
  <2>3. ASSUME NEW c \in Collections, NEW label \in {"startPublication", "startRemoval", "delete"},
               NEW read, Enter(p, c, label, read)
        PROVE  CheckedInv'
    BY <1>1, <1>2, <2>3, CheckedQuiet DEF Enter, discoverVars
  <2>4. CASE Crash(p)
    BY <1>1, <1>2, <2>4, CheckedQuiet DEF Crash, Return, discoverVars
  <2>5. QED
    BY <2>1, <2>2, <2>3, <2>4 DEF Request, PublishRead, UnpublishRead, DeleteRead
<1>4. CASE \E c \in Collections, x \in Contents : Create(c, x) \/ Patch(c, x)
  BY <1>1, <1>4, CheckedQuiet DEF Create, Patch, localVars, discoverVars
<1>5. CASE UNCHANGED vars
  BY <1>1, <1>5, CheckedQuiet DEF vars, localVars, discoverVars
<1>6. QED
  BY <1>1, <1>3, <1>4, <1>5, CheckedStep DEF Next

\* Whatever fails and whatever updates come in between, Discover is sent only
\* content that passed the checks of a publish.
THEOREM OnlyPublishableIsSent == Spec => []PublishedIsPublishable
<1>1. Init => CheckedInv
  BY InitType DEF Init, DiscoverInit, CheckedInv, PublishedIsPublishable
<1>2. CheckedInv => PublishedIsPublishable
  BY DEF CheckedInv
<1>3. QED
  BY <1>1, <1>2, CheckedNext, PTL DEF Spec

-----------------------------------------------------------------------------
(* A Completed status is true.  A clean-up may still tell Discover that a  *)
(* version failed when another process has taken over; that it does no     *)
(* harm rests on the versions being different.                             *)

PublishLabels == {"prepare", "publish", "save", "finalize", "finishPublication"}
RemovalLabels == {"unpublish", "finishRemoval"}

\* Discover says PUBLISH_SUCCEEDED and UNPUBLISHED, which both translate to
\* Completed, to the request that each of them fits.
RepliesFit ==
  /\ "UNPUBLISHED" \notin FinalizeReplies
  /\ "PUBLISH_SUCCEEDED" \notin RemovalReplies

\* Versions of Discover are given out once, and are the latest when they are.
VersionsInv ==
  /\ \A p \in Procs :
       /\ version[p] # 0 => pc[p] # "idle" /\ version[p] <= versions[target[p]]
       /\ pc[p] \in {"save", "finalize", "finishPublication"} => version[p] # 0
  /\ \A p, q \in Procs :
       p # q /\ version[p] # 0 /\ version[q] # 0 /\ target[p] = target[q] =>
         version[p] # version[q]
  /\ \A c \in Collections : live[c] <= versions[c]

\* The type of the status is the kind of the process that holds it.
TypeInv ==
  \A p \in Procs : row[target[p]] = "present" =>
    /\ pc[p] \in PublishLabels => publication[target[p]].type = "Publication"
    /\ pc[p] \in RemovalLabels => publication[target[p]].type = "Removal"

\* What a process is about to write is true.
OutcomeInv ==
  \A p \in Procs : outcome[p] = "Completed" =>
    /\ pc[p] = "finishPublication" => live[target[p]] = version[p]
    /\ pc[p] = "finishRemoval" => live[target[p]] = 0

\* What is written is true, and nobody is left who could tell Discover that
\* the live version failed.
CompletedInv ==
  \A c \in Collections :
    /\ publication[c] = [status |-> "Completed", type |-> "Publication"] =>
         /\ live[c] # 0
         /\ \A p \in Procs : target[p] = c => version[p] # live[c]
    /\ publication[c] = [status |-> "Completed", type |-> "Removal"] => live[c] = 0

OutcomesInv == LockInv /\ VersionsInv /\ TypeInv /\ OutcomeInv /\ CompletedInv

\* What a call of p leaves to the other invocations.
OthersKept(p) ==
  \A q \in Procs \ {p} :
    /\ pc'[q] = pc[q] /\ target'[q] = target[q]
    /\ version'[q] = version[q] /\ outcome'[q] = outcome[q]

\* What a call of p does to p's version and to the versions of Discover.
VersionEffect(p) ==
  LET c == target[p] IN
  /\ \A d \in Collections \ {c} : versions'[d] = versions[d]
  /\ versions[c] <= versions'[c]
  /\ \/ pc'[p] = "idle" /\ version'[p] = 0 /\ target'[p] = None /\ outcome'[p] = None
     \/ /\ pc[p] = "publish" /\ pc'[p] = "save" /\ target'[p] = c
        /\ version'[p] = versions[c] + 1 /\ versions'[c] = versions[c] + 1
        /\ outcome'[p] = outcome[p]
     \/ /\ pc'[p] # "idle" /\ target'[p] = c /\ version'[p] = version[p]
        /\ pc'[p] \in {"save", "finalize", "finishPublication"} => pc[p] \in {"save", "finalize"}

\* What it does to the version that is live, and what it concludes.
LiveEffect(p) ==
  LET c == target[p] IN
  /\ \A d \in Collections \ {c} : live'[d] = live[d]
  /\ \/ live'[c] = live[c]
     \/ Holding(p) /\ live'[c] \in {0, version[p]}
     \/ live[c] = version[p] /\ live'[c] = 0
  /\ outcome'[p] = "Completed" =>
       /\ pc'[p] = "finishPublication" => live'[c] = version[p]
       /\ pc'[p] = "finishRemoval" => live'[c] = 0

\* What it does to the status of its collection.
StatusEffect(p) ==
  LET c == target[p] IN
  /\ \A d \in Collections \ {c} : row'[d] = row[d] /\ publication'[d] = publication[d]
  /\ \/ /\ row'[c] = row[c] /\ publication'[c] = publication[c]
        /\ pc'[p] \in PublishLabels => pc[p] \in PublishLabels
        /\ pc'[p] \in RemovalLabels => pc[p] \in RemovalLabels
     \/ row'[c] = "deleted" /\ publication'[c] = NoPublication /\ pc'[p] = "idle"
     \/ /\ row[c] = "present" /\ row'[c] = row[c] /\ ~PublishInProgress(c)
        /\ \/ /\ publication'[c] = [status |-> "InProgress", type |-> "Publication"]
              /\ pc'[p] = "prepare"
           \/ /\ publication'[c] = [status |-> "InProgress", type |-> "Removal"]
              /\ pc'[p] = "unpublish"
     \/ /\ Holding(p) /\ row'[c] = row[c] /\ HasStatus(c)
        /\ pc'[p] \in {"idle", "cleanup"}
        /\ \E status \in Statuses :
             /\ publication'[c] = [status |-> status, type |-> publication[c].type]
             /\ status = "Completed" =>
                  /\ pc[p] \in {"finishPublication", "finishRemoval"}
                  /\ outcome[p] = "Completed" /\ pc'[p] = "idle"
                  /\ live' = live

\* A call moves on with the version it was given, or with a new one, or returns.
LEMMA StepVersion ==
  ASSUME LockInv, NEW p \in Procs, Step(p)
  PROVE  OthersKept(p) /\ VersionEffect(p)
<1>0. /\ pc \in [Procs -> Labels]
      /\ target \in [Procs -> Collections \cup {None}]
      /\ version \in [Procs -> Nat]
      /\ outcome \in [Procs -> Statuses \cup {None}]
      /\ versions \in [Collections -> Nat]
      /\ pc[p] # "idle" => target[p] \in Collections
  BY DEF LockInv, TypeOK, LocalTypeOK, DiscoverTypeOK
<1>1. ASSUME Return(p), UNCHANGED versions, target[p] \in Collections
      PROVE  OthersKept(p) /\ VersionEffect(p)
  BY <1>0, <1>1 DEF Return, OthersKept, VersionEffect
<1>2. ASSUME NEW cleanups, CleanUp(p, cleanups), target[p] \in Collections,
             \/ UNCHANGED versions
             \/ versions' = [versions EXCEPT ![target[p]] = @ + 1]
      PROVE  OthersKept(p) /\ VersionEffect(p)
  BY <1>0, <1>2 DEF CleanUp, OthersKept, VersionEffect
<1>3. ASSUME NEW label \in Labels \ {"idle", "save"}, Goto(p, label), UNCHANGED versions,
             target[p] \in Collections,
             label \in {"finalize", "finishPublication"} => pc[p] \in {"save", "finalize"}
      PROVE  OthersKept(p) /\ VersionEffect(p)
  BY <1>0, <1>3 DEF Goto, OthersKept, VersionEffect
<1>4. ASSUME NEW done, pc[p] = "cleanup", CleanupDone(p, done), UNCHANGED versions
      PROVE  OthersKept(p) /\ VersionEffect(p)
  <2>1. CASE Return(p)
    BY <1>0, <1>1, <1>4, <2>1
  <2>2. CASE UNCHANGED <<pc, target, snapshot, version, outcome>>
    BY <1>0, <1>4, <2>2 DEF OthersKept, VersionEffect
  <2>3. QED
    BY <1>4, <2>1, <2>2 DEF CleanupDone
<1>5. CASE PublishStart(p) \/ UnpublishStart(p)
  BY <1>0, <1>1, <1>2, <1>3, <1>5
  DEF PublishStart, UnpublishStart, StartPublish, discoverVars, Labels
<1>6. CASE PublishFinish(p) \/ UnpublishFinish(p)
  BY <1>0, <1>1, <1>2, <1>6 DEF PublishFinish, UnpublishFinish, Finish, discoverVars
<1>7. CASE Prepare(p)
  BY <1>0, <1>2, <1>3, <1>7 DEF Prepare, discoverVars, Labels
<1>8. CASE PublishToDiscover(p)
  <2>1. CASE CleanUp(p, {"status"})
    <3>1. UNCHANGED versions \/ versions' = [versions EXCEPT ![target[p]] = @ + 1]
      BY <1>8 DEF PublishToDiscover, Fails, OpenVersion, discoverVars
    <3>2. QED
      BY <1>0, <1>2, <1>8, <2>1, <3>1 DEF PublishToDiscover
  <2>2. CASE /\ OpenVersion(target[p], snapshot[p])
             /\ pc' = [pc EXCEPT ![p] = "save"]
             /\ version' = [version EXCEPT ![p] = versions[target[p]] + 1]
             /\ UNCHANGED <<target, snapshot, outcome, todo>>
    BY <1>0, <1>8, <2>2 DEF PublishToDiscover, OpenVersion, OthersKept, VersionEffect
  <2>3. QED
    BY <1>8, <2>1, <2>2 DEF PublishToDiscover
<1>9. CASE Save(p)
  BY <1>0, <1>2, <1>3, <1>9 DEF Save, discoverVars, Labels
<1>10. CASE Finalize(p)
  <2>1. /\ pc[p] = "finalize"
        /\ UNCHANGED versions
        /\ \/ /\ pc' = [pc EXCEPT ![p] = "finishPublication"]
              /\ \E status : outcome' = [outcome EXCEPT ![p] = status]
              /\ UNCHANGED <<target, version>>
           \/ CleanUp(p, {"status", "manifest", "finalize"})
    BY <1>10 DEF Finalize, Fails, FinalizeSuccess, discoverVars
  <2>2. QED
    BY <1>0, <1>2, <2>1 DEF OthersKept, VersionEffect
<1>11. CASE Unpublish(p)
  <2>1. /\ pc[p] = "unpublish"
        /\ UNCHANGED versions
        /\ \/ /\ pc' = [pc EXCEPT ![p] = "finishRemoval"]
              /\ \E status : outcome' = [outcome EXCEPT ![p] = status]
              /\ UNCHANGED <<target, version>>
           \/ CleanUp(p, {"status"})
    BY <1>11 DEF Unpublish, Fails, TakeDown, discoverVars
  <2>2. QED
    BY <1>0, <1>2, <2>1 DEF OthersKept, VersionEffect
<1>12. CASE Delete(p)
  BY <1>0, <1>1, <1>12 DEF Delete, discoverVars
<1>13. CASE CleanupStatus(p) \/ CleanupManifest(p) \/ CleanupDiscover(p)
  BY <1>4, <1>13 DEF CleanupStatus, CleanupManifest, CleanupDiscover, FinalizeFailure,
                     discoverVars
<1>14. QED
  BY <1>5, <1>6, <1>7, <1>8, <1>9, <1>10, <1>11, <1>12, <1>13 DEF Step

\* Only the holder makes a version live; a clean-up may only end its own.
LEMMA StepLive ==
  ASSUME LockInv, RepliesFit, NEW p \in Procs, Step(p)
  PROVE  LiveEffect(p)
<1>0. /\ pc \in [Procs -> Labels]
      /\ outcome \in [Procs -> Statuses \cup {None}]
      /\ live \in [Collections -> Nat]
      /\ pc[p] # "idle" => target[p] \in Collections
  BY DEF LockInv, TypeOK, LocalTypeOK, DiscoverTypeOK
<1>1. ASSUME UNCHANGED live, pc'[p] \notin {"finishPublication", "finishRemoval"}
      PROVE  LiveEffect(p)
  BY <1>1 DEF LiveEffect
<1>2. CASE PublishStart(p) \/ UnpublishStart(p)
  BY <1>0, <1>1, <1>2 DEF PublishStart, UnpublishStart, StartPublish, Goto, CleanUp, Return,
                          discoverVars
<1>3. CASE PublishFinish(p) \/ UnpublishFinish(p)
  BY <1>0, <1>1, <1>3 DEF PublishFinish, UnpublishFinish, Finish, CleanUp, Return, discoverVars
<1>4. CASE Prepare(p) \/ PublishToDiscover(p) \/ Save(p)
  BY <1>0, <1>1, <1>4 DEF Prepare, PublishToDiscover, Save, Fails, OpenVersion, Goto, CleanUp,
                          discoverVars
<1>5. CASE Finalize(p)
  <2>1. pc[p] = "finalize" /\ Holding(p) /\ target[p] \in Collections
    BY <1>0, <1>5 DEF Finalize, Holding
  <2>2. PICK reply \in FinalizeReplies :
          \/ /\ FinalizeSuccess(target[p], version[p], reply)
             /\ pc' = [pc EXCEPT ![p] = "finishPublication"]
             /\ outcome' = [outcome EXCEPT ![p] = ToPublishingStatus(reply)]
          \/ /\ FinalizeSuccess(target[p], version[p], reply) \/ UNCHANGED live
             /\ CleanUp(p, {"status", "manifest", "finalize"})
    BY <1>5 DEF Finalize, Fails, discoverVars
  <2>3. UNCHANGED live \/ live' = [live EXCEPT ![target[p]] = version[p]]
    BY <2>2 DEF FinalizeSuccess
  <2>4. outcome'[p] = "Completed" /\ pc'[p] = "finishPublication" =>
          live' = [live EXCEPT ![target[p]] = version[p]]
    <3>1. CASE CleanUp(p, {"status", "manifest", "finalize"})
      BY <1>0, <3>1 DEF CleanUp
    <3>2. CASE /\ FinalizeSuccess(target[p], version[p], reply)
               /\ outcome' = [outcome EXCEPT ![p] = ToPublishingStatus(reply)]
      <4>1. outcome'[p] = "Completed" => reply = "PUBLISH_SUCCEEDED"
        BY <1>0, <2>2, <3>2 DEF ToPublishingStatus, RepliesFit
      <4>2. QED
        BY <3>2, <4>1 DEF FinalizeSuccess
    <3>3. QED
      BY <2>2, <3>1, <3>2
  <2>5. pc'[p] # "finishRemoval"
    BY <1>0, <2>2 DEF CleanUp
  <2>6. QED
    BY <1>0, <2>1, <2>3, <2>4, <2>5 DEF LiveEffect
<1>6. CASE Unpublish(p)
  <2>1. pc[p] = "unpublish" /\ Holding(p) /\ target[p] \in Collections
    BY <1>0, <1>6 DEF Unpublish, Holding
  <2>2. UNCHANGED live \/ live' = [live EXCEPT ![target[p]] = 0]
    BY <1>6 DEF Unpublish, Fails, TakeDown, discoverVars
  <2>3. pc'[p] = "finishRemoval" /\ outcome'[p] = "Completed" =>
          live' = [live EXCEPT ![target[p]] = 0]
    BY <1>0, <1>6 DEF Unpublish, CleanUp, TakeDown, ToPublishingStatus, RepliesFit
  <2>4. pc'[p] # "finishPublication"
    BY <1>0, <1>6 DEF Unpublish, CleanUp
  <2>5. QED
    BY <1>0, <2>1, <2>2, <2>3, <2>4 DEF LiveEffect
<1>7. CASE Delete(p)
  BY <1>0, <1>1, <1>7 DEF Delete, Return, discoverVars
<1>8. CASE CleanupStatus(p) \/ CleanupManifest(p)
  BY <1>0, <1>1, <1>8 DEF CleanupStatus, CleanupManifest, CleanupDone, Return, discoverVars
<1>9. CASE CleanupDiscover(p)
  <2>1. pc[p] = "cleanup" /\ pc'[p] \in {"cleanup", "idle"} /\ target[p] \in Collections
    BY <1>0, <1>9 DEF CleanupDiscover, CleanupDone, Return
  <2>2. \/ UNCHANGED live
        \/ live[target[p]] = version[p] /\ live' = [live EXCEPT ![target[p]] = 0]
    BY <1>9 DEF CleanupDiscover, FinalizeFailure, discoverVars
  <2>3. QED
    BY <1>0, <2>1, <2>2 DEF LiveEffect
<1>10. QED
  BY <1>2, <1>3, <1>4, <1>5, <1>6, <1>7, <1>8, <1>9 DEF Step

\* A call leaves the status of its collection alone, deletes it with the row,
\* starts a publish, or, as the holder, ends one.
LEMMA StepStatus ==
  ASSUME LockInv, LockCallsReliable, NEW p \in Procs, Step(p)
  PROVE  StatusEffect(p)
<1>0. /\ pc \in [Procs -> Labels]
      /\ outcome \in [Procs -> Statuses \cup {None}]
      /\ publication \in [Collections -> Publications]
      /\ row \in [Collections -> {"unborn", "present", "deleted"}]
      /\ pc[p] # "idle" => target[p] \in Collections
      /\ pc[p] \in {"finishPublication", "finishRemoval"} => outcome[p] \in Statuses
  BY DEF LockInv, TypeOK, LocalTypeOK, StoreTypeOK
<1>1. ASSUME UNCHANGED <<row, publication>>,
             pc'[p] \in PublishLabels => pc[p] \in PublishLabels,
             pc'[p] \in RemovalLabels => pc[p] \in RemovalLabels
      PROVE  StatusEffect(p)
  BY <1>1 DEF StatusEffect
<1>2. ASSUME NEW status \in Statuses, target[p] \in Collections, Holding(p), HasStatus(target[p]),
             FinishPublish(target[p], status), pc'[p] \in {"idle", "cleanup"},
             status = "Completed" =>
               /\ pc[p] \in {"finishPublication", "finishRemoval"}
               /\ outcome[p] = "Completed" /\ pc'[p] = "idle"
               /\ live' = live
      PROVE  StatusEffect(p)
  <2>1. /\ publication' = [publication EXCEPT ![target[p]] =
                             [status |-> status, type |-> publication[target[p]].type]]
        /\ UNCHANGED row
    BY <1>2 DEF FinishPublish
  <2>2. QED
    BY <1>0, <1>2, <2>1 DEF StatusEffect
<1>3. CASE PublishStart(p)
  <2>1. target[p] \in Collections
    BY <1>0, <1>3 DEF PublishStart, StartPublish
  <2>2. CASE UpsertInProgress(target[p], "Publication") /\ Goto(p, "prepare")
    BY <1>0, <2>1, <2>2 DEF UpsertInProgress, Goto, StatusEffect
  <2>3. CASE UNCHANGED storeVars /\ (Return(p) \/ CleanUp(p, {"statusIfExists"}))
    BY <1>0, <1>1, <2>3 DEF Return, CleanUp, storeVars, PublishLabels, RemovalLabels
  <2>4. QED
    BY <1>3, <2>2, <2>3 DEF PublishStart, StartPublish, Fails, LockCallsReliable
<1>4. CASE UnpublishStart(p)
  <2>1. target[p] \in Collections
    BY <1>0, <1>4 DEF UnpublishStart, StartPublish
  <2>2. CASE UpsertInProgress(target[p], "Removal") /\ Goto(p, "unpublish")
    BY <1>0, <2>1, <2>2 DEF UpsertInProgress, Goto, StatusEffect
  <2>3. CASE UNCHANGED storeVars /\ (Return(p) \/ CleanUp(p, {"statusIfExists"}))
    BY <1>0, <1>1, <2>3 DEF Return, CleanUp, storeVars, PublishLabels, RemovalLabels
  <2>4. QED
    BY <1>4, <2>2, <2>3 DEF UnpublishStart, StartPublish, Fails, LockCallsReliable
<1>5. CASE PublishFinish(p) \/ UnpublishFinish(p)
  <2>1. PICK at \in {"finishPublication", "finishRemoval"}, cleanups \in SUBSET Cleanups :
          Finish(p, at, cleanups)
    BY <1>5 DEF PublishFinish, UnpublishFinish, Cleanups
  <2>2. pc[p] = at /\ Holding(p) /\ target[p] \in Collections /\ outcome[p] \in Statuses
    BY <1>0, <2>1 DEF Finish, Holding
  <2>3. CASE HasStatus(target[p]) /\ FinishPublish(target[p], outcome[p]) /\ Return(p)
    BY <1>0, <1>2, <2>1, <2>2, <2>3 DEF Return, Finish, discoverVars
  <2>4. CASE UNCHANGED storeVars /\ CleanUp(p, cleanups)
    BY <1>0, <1>1, <2>4 DEF CleanUp, storeVars, PublishLabels, RemovalLabels
  <2>5. QED
    BY <2>1, <2>3, <2>4 DEF Finish, Fails, LockCallsReliable
<1>6. CASE Prepare(p) \/ PublishToDiscover(p) \/ Save(p)
  BY <1>0, <1>1, <1>6 DEF Prepare, PublishToDiscover, Save, Goto, CleanUp, storeVars,
                          PublishLabels, RemovalLabels
<1>7. CASE Finalize(p)
  <2>1. /\ pc[p] = "finalize"
        /\ UNCHANGED <<row, publication>>
        /\ \/ pc' = [pc EXCEPT ![p] = "finishPublication"]
           \/ CleanUp(p, {"status", "manifest", "finalize"})
    BY <1>7 DEF Finalize, storeVars
  <2>2. QED
    BY <1>0, <1>1, <2>1 DEF CleanUp, PublishLabels, RemovalLabels
<1>8. CASE Unpublish(p)
  <2>1. /\ pc[p] = "unpublish"
        /\ UNCHANGED <<row, publication>>
        /\ \/ pc' = [pc EXCEPT ![p] = "finishRemoval"]
           \/ CleanUp(p, {"status"})
    BY <1>8 DEF Unpublish, storeVars
  <2>2. QED
    BY <1>0, <1>1, <2>1 DEF CleanUp, PublishLabels, RemovalLabels
<1>9. CASE Delete(p)
  BY <1>0, <1>9 DEF Delete, DeleteRow, Return, storeVars, StatusEffect, PublishLabels,
                    RemovalLabels
<1>10. CASE CleanupStatus(p)
  <2>1. pc[p] = "cleanup" /\ pc'[p] \in {"cleanup", "idle"} /\ target[p] \in Collections
    BY <1>0, <1>10 DEF CleanupStatus, CleanupDone, Return
  <2>2. CASE UNCHANGED storeVars
    BY <1>1, <2>1, <2>2 DEF storeVars, PublishLabels, RemovalLabels
  <2>3. CASE FinishPublish(target[p], "Failed") /\ ~HasStatus(target[p])
    BY <1>1, <2>1, <2>3 DEF FinishPublish, PublishLabels, RemovalLabels
  <2>4. CASE FinishPublish(target[p], "Failed") /\ HasStatus(target[p])
    <3>1. "status" \in todo[p]
      BY <1>10, <2>1, <2>4 DEF CleanupStatus, StatusCleanups, LockInv, HasStatus
    <3>2. "Failed" \in Statuses
      BY DEF Statuses
    <3>3. QED
      BY <1>2, <2>1, <2>4, <3>1, <3>2 DEF Holding
  <2>5. QED
    BY <1>10, <2>2, <2>3, <2>4 DEF CleanupStatus
<1>11. CASE CleanupManifest(p) \/ CleanupDiscover(p)
  BY <1>0, <1>1, <1>11 DEF CleanupManifest, CleanupDiscover, CleanupDone, Return, storeVars,
                           PublishLabels, RemovalLabels
<1>12. QED
  BY <1>3, <1>4, <1>5, <1>6, <1>7, <1>8, <1>9, <1>10, <1>11 DEF Step

\* The types that the lemmas below need, before and after a step.
LEMMA OutcomeTypes ==
  ASSUME LockInv
  PROVE  /\ \A p \in Procs :
              /\ version[p] \in Nat
              /\ target[p] \in Collections \cup {None}
              /\ pc[p] # "idle" => target[p] \in Collections
         /\ \A c \in Collections : versions[c] \in Nat /\ live[c] \in Nat
         /\ None \notin Collections
BY NoneAssumption DEF LockInv, TypeOK, LocalTypeOK, DiscoverTypeOK

\* The same after a step.
LEMMA OutcomeTypesNext ==
  ASSUME LockInv'
  PROVE  /\ \A p \in Procs :
              /\ version'[p] \in Nat
              /\ target'[p] \in Collections \cup {None}
              /\ pc'[p] # "idle" => target'[p] \in Collections
         /\ \A c \in Collections : versions'[c] \in Nat /\ live'[c] \in Nat
BY DEF LockInv, TypeOK, LocalTypeOK, DiscoverTypeOK

\* A new version is later than every one that is still in use.
LEMMA VersionsKept ==
  ASSUME LockInv, VersionsInv, LockInv', NEW p \in Procs, target[p] \in Collections,
         OthersKept(p), VersionEffect(p), LiveEffect(p)
  PROVE  VersionsInv'
<1>1. \A d \in Collections : versions[d] <= versions'[d]
  BY OutcomeTypes DEF VersionEffect
<1>2. \A q \in Procs : version'[q] # 0 =>
        /\ pc'[q] # "idle"
        /\ target'[q] = target[q]
        /\ version'[q] <= versions'[target[q]]
        /\ version'[q] = version[q] \/ (q = p /\ version'[q] = versions[target[p]] + 1)
  <2>1. SUFFICES ASSUME NEW q \in Procs, version'[q] # 0
                 PROVE  /\ pc'[q] # "idle"
                        /\ target'[q] = target[q]
                        /\ version'[q] <= versions'[target[q]]
                        /\ version'[q] = version[q] \/ (q = p /\ version'[q] = versions[target[p]] + 1)
    OBVIOUS
  <2>2. CASE q # p
    <3>1. /\ pc'[q] = pc[q] /\ target'[q] = target[q] /\ version'[q] = version[q]
          /\ pc[q] # "idle" /\ version[q] <= versions[target[q]]
      BY <2>1, <2>2 DEF OthersKept, VersionsInv
    <3>2. QED
      BY <1>1, <2>1, <3>1, OutcomeTypes, OutcomeTypesNext
  <2>3. CASE q = p
    BY <1>1, <2>1, <2>3, OutcomeTypes, OutcomeTypesNext DEF VersionEffect, VersionsInv
  <2>4. QED
    BY <2>2, <2>3
<1>3. \A q \in Procs : pc'[q] \in {"save", "finalize", "finishPublication"} => version'[q] # 0
  BY OutcomeTypes DEF OthersKept, VersionEffect, VersionsInv
<1>4. \A q, r \in Procs :
        q # r /\ version'[q] # 0 /\ version'[r] # 0 /\ target'[q] = target'[r] =>
          version'[q] # version'[r]
  <2>1. \A q \in Procs : version[q] # 0 /\ target[q] = target[p] => version[q] # versions[target[p]] + 1
    BY OutcomeTypes DEF VersionsInv
  <2>2. QED
    BY <1>2, <2>1 DEF VersionsInv
<1>5. \A c \in Collections : live'[c] <= versions'[c]
  <2>1. SUFFICES ASSUME NEW c \in Collections
                 PROVE  live'[c] <= versions'[c]
    OBVIOUS
  <2>2. live'[c] \in {0, live[c]} \/ (c = target[p] /\ live'[c] = version[p])
    BY DEF LiveEffect
  <2>3. version[p] <= versions[target[p]]
    BY OutcomeTypes DEF VersionsInv
  <2>4. QED
    BY <1>1, <2>2, <2>3, OutcomeTypes, OutcomeTypesNext DEF VersionsInv
<1>6. QED
  BY <1>2, <1>3, <1>4, <1>5 DEF VersionsInv

\* Another process does not write the status of a collection that is held.
LEMMA TypeKept ==
  ASSUME LockInv, TypeInv, LockInv', NEW p \in Procs, target[p] \in Collections,
         OthersKept(p), VersionEffect(p), StatusEffect(p)
  PROVE  TypeInv'
<1>1. SUFFICES ASSUME NEW q \in Procs, pc'[q] \in PublishLabels \cup RemovalLabels,
                      row'[target'[q]] = "present"
               PROVE  /\ pc'[q] \in PublishLabels => publication'[target'[q]].type = "Publication"
                      /\ pc'[q] \in RemovalLabels => publication'[target'[q]].type = "Removal"
  BY DEF TypeInv
<1>2. target'[q] = target[q] /\ target[q] \in Collections
  BY <1>1, OutcomeTypes, OutcomeTypesNext DEF OthersKept, VersionEffect, PublishLabels, RemovalLabels
<1>3. CASE q = p
  BY <1>1, <1>2, <1>3 DEF StatusEffect, TypeInv, PublishLabels, RemovalLabels
<1>4. CASE q # p
  <2>1. pc'[q] = pc[q] /\ Holding(q)
    BY <1>1, <1>4 DEF OthersKept, Holding, PublishLabels, RemovalLabels
  <2>2. CASE row[target[q]] = "present"
    <3>1. PublishInProgress(target[q])
      BY <2>1, <2>2 DEF LockInv, RunningMeansInProgress
    <3>2. Holding(p) => target[p] # target[q]
      BY <1>4, <2>1 DEF LockInv, Exclusive
    <3>3. publication'[target[q]] = publication[target[q]]
      BY <1>1, <1>2, <2>2, <3>1, <3>2 DEF StatusEffect
    <3>4. QED
      BY <1>2, <2>1, <2>2, <3>3 DEF TypeInv
  <2>3. CASE row[target[q]] # "present"
    BY <1>1, <1>2, <2>3 DEF StatusEffect
  <2>4. QED
    BY <2>2, <2>3
<1>5. QED
  BY <1>3, <1>4

\* Another process does not change what is live of a collection that is held,
\* except that a clean-up fails a version that is not the live one.
LEMMA OutcomeKept ==
  ASSUME LockInv, VersionsInv, OutcomeInv, LockInv', NEW p \in Procs, target[p] \in Collections,
         OthersKept(p), VersionEffect(p), LiveEffect(p)
  PROVE  OutcomeInv'
<1>1. SUFFICES ASSUME NEW q \in Procs, outcome'[q] = "Completed"
               PROVE  /\ pc'[q] = "finishPublication" => live'[target'[q]] = version'[q]
                      /\ pc'[q] = "finishRemoval" => live'[target'[q]] = 0
  BY DEF OutcomeInv
<1>2. CASE q = p
  BY <1>1, <1>2 DEF VersionEffect, LiveEffect
<1>3. CASE q # p
  <2>1. /\ pc'[q] = pc[q] /\ target'[q] = target[q] /\ version'[q] = version[q]
        /\ outcome[q] = "Completed"
    BY <1>1, <1>3 DEF OthersKept
  <2>2. SUFFICES ASSUME pc[q] \in {"finishPublication", "finishRemoval"}
                 PROVE  live'[target[q]] = live[target[q]]
    BY <2>1 DEF OutcomeInv
  <2>3. Holding(p) => target[p] # target[q]
    BY <1>3, <2>2 DEF LockInv, Exclusive, Holding
  <2>4. target[q] = target[p] /\ live[target[p]] = version[p] => live[target[p]] = 0
    BY <1>3, <2>1, <2>2 DEF OutcomeInv, VersionsInv
  <2>5. target[q] \in Collections
    BY <2>2, OutcomeTypes
  <2>6. QED
    BY <2>3, <2>4, <2>5 DEF LiveEffect
<1>4. QED
  BY <1>2, <1>3

\* Nobody changes what is live of a collection that is not held, and the holder
\* writes Completed only of what it has seen become true.
LEMMA CompletedKept ==
  ASSUME OutcomesInv, LockInv', NEW p \in Procs, target[p] \in Collections,
         OthersKept(p), VersionEffect(p), LiveEffect(p), StatusEffect(p)
  PROVE  CompletedInv'
<1>0. LockInv /\ VersionsInv /\ TypeInv /\ OutcomeInv /\ CompletedInv
  BY DEF OutcomesInv
<1>1. SUFFICES ASSUME NEW c \in Collections, NEW type \in Types,
                      publication'[c] = [status |-> "Completed", type |-> type]
               PROVE  /\ type = "Publication" =>
                           /\ live'[c] # 0
                           /\ \A q \in Procs : target'[q] = c => version'[q] # live'[c]
                      /\ type = "Removal" => live'[c] = 0
  BY DEF CompletedInv, Types
<1>2. CASE publication[c] = publication'[c]
  <2>1. Holding(p) => target[p] # c
    BY <1>0, <1>1, <1>2 DEF LockInv, RunningMeansInProgress, PublishInProgress, NoPublication
  <2>2. live'[c] = live[c]
    BY <1>0, <1>1, <1>2, <2>1 DEF LiveEffect, CompletedInv, Types
  <2>3. ASSUME NEW q \in Procs, target'[q] = c, live[c] # 0
        PROVE  version'[q] \in {0, version[q]} /\ (version'[q] # 0 => target[q] = c)
    BY <1>0, <2>1, <2>3, OutcomeTypes DEF OthersKept, VersionEffect, Holding
  <2>4. QED
    BY <1>0, <1>1, <1>2, <2>2, <2>3 DEF CompletedInv
<1>3. CASE publication[c] # publication'[c]
  <2>1. /\ c = target[p] /\ HasStatus(c)
        /\ publication[c].type = type
        /\ pc[p] \in {"finishPublication", "finishRemoval"}
        /\ outcome[p] = "Completed" /\ pc'[p] = "idle"
        /\ live' = live
    <3>1. c = target[p]
      BY <1>3 DEF StatusEffect
    <3>2. publication'[c].status = "Completed" /\ publication'[c].type = type
      BY <1>1
    <3>3. HasStatus(c) /\ \E status \in Statuses :
            /\ publication'[c] = [status |-> status, type |-> publication[c].type]
            /\ status = "Completed" =>
                 /\ pc[p] \in {"finishPublication", "finishRemoval"}
                 /\ outcome[p] = "Completed" /\ pc'[p] = "idle"
                 /\ live' = live
      BY <1>3, <3>1, <3>2 DEF StatusEffect, NoPublication
    <3>4. QED
      BY <3>1, <3>2, <3>3
  <2>2. row[c] = "present"
    BY <1>0, <2>1 DEF LockInv, HasStatus
  <2>3. /\ pc[p] = "finishPublication" => type = "Publication"
        /\ pc[p] = "finishRemoval" => type = "Removal"
    BY <1>0, <2>1, <2>2 DEF TypeInv, PublishLabels, RemovalLabels
  <2>4. CASE type = "Publication"
    <3>1. live[c] = version[p] /\ version[p] # 0
      BY <1>0, <2>1, <2>3, <2>4 DEF OutcomeInv, VersionsInv
    <3>2. \A q \in Procs : target'[q] = c => version'[q] # live[c]
      BY <1>0, <2>1, <3>1 DEF OthersKept, VersionEffect, VersionsInv
    <3>3. QED
      BY <2>1, <2>4, <3>1, <3>2
  <2>5. CASE type = "Removal"
    BY <1>0, <2>1, <2>3, <2>5 DEF OutcomeInv
  <2>6. QED
    BY <2>4, <2>5 DEF Types
<1>4. QED
  BY <1>2, <1>3

\* Requests, kills, creations and updates write no outcome.
LEMMA OtherStepsOutcomes ==
  ASSUME OutcomesInv, LockInv',
         \/ \E p \in Procs : Request(p) \/ Crash(p)
         \/ \E c \in Collections, x \in Contents : Create(c, x) \/ Patch(c, x)
         \/ UNCHANGED vars
  PROVE  OutcomesInv'
<1>0. /\ LockInv /\ VersionsInv /\ TypeInv /\ OutcomeInv /\ CompletedInv
      /\ pc \in [Procs -> Labels]
      /\ target \in [Procs -> Collections \cup {None}]
      /\ version \in [Procs -> Nat]
      /\ outcome \in [Procs -> Statuses \cup {None}]
      /\ row \in [Collections -> {"unborn", "present", "deleted"}]
  BY DEF OutcomesInv, LockInv, TypeOK, LocalTypeOK, StoreTypeOK
<1>1. ASSUME NEW p \in Procs, UNCHANGED <<row, publication, versions, live>>,
             \A q \in Procs \ {p} :
               /\ pc'[q] = pc[q] /\ target'[q] = target[q]
               /\ version'[q] = version[q] /\ outcome'[q] = outcome[q],
             version'[p] = 0,
             pc'[p] \notin PublishLabels \cup RemovalLabels
      PROVE  OutcomesInv'
  <2>1. VersionsInv'
    BY <1>0, <1>1, OutcomeTypes DEF VersionsInv, PublishLabels
  <2>2. TypeInv' /\ OutcomeInv'
    BY <1>0, <1>1 DEF TypeInv, OutcomeInv, PublishLabels, RemovalLabels
  <2>3. CompletedInv'
    BY <1>0, <1>1 DEF CompletedInv
  <2>4. QED
    BY <2>1, <2>2, <2>3 DEF OutcomesInv
<1>2. ASSUME NEW p \in Procs, NEW c \in Collections, row[c] = "present",
             NEW label \in {"startPublication", "startRemoval", "delete"},
             NEW read, Enter(p, c, label, read)
      PROVE  OutcomesInv'
  <2>1. version[p] = 0
    BY <1>0, <1>2 DEF Enter, VersionsInv
  <2>2. QED
    BY <1>0, <1>1, <1>2, <2>1 DEF Enter, storeVars, discoverVars, PublishLabels, RemovalLabels
<1>3. CASE \E p \in Procs : Request(p) /\ ~UNCHANGED vars
  BY <1>2, <1>3 DEF Request, Refuse, PublishRead, UnpublishRead, DeleteRead
<1>4. CASE \E p \in Procs : Crash(p)
  <2>1. PICK p \in Procs : Crash(p)
    BY <1>4
  <2>2. QED
    BY <1>0, <1>1, <2>1 DEF Crash, Return, storeVars, discoverVars, PublishLabels, RemovalLabels
<1>5. CASE \E c \in Collections, x \in Contents : Create(c, x) \/ Patch(c, x)
  <2>1. PICK c \in Collections, x \in Contents : Create(c, x) \/ Patch(c, x)
    BY <1>5
  <2>2. UNCHANGED <<localVars, discoverVars, publication>>
    BY <2>1 DEF Create, Patch, InsertCollection, UpdateRow
  <2>3. \A d \in Collections : row'[d] = row[d] \/ row[d] = "unborn"
    BY <1>0, <2>1 DEF Create, Patch, InsertCollection, UpdateRow
  <2>4. \A q \in Procs : pc[q] # "idle" => row'[target[q]] = row[target[q]]
    BY <1>0, <2>3, OutcomeTypes DEF LockInv
  <2>5. VersionsInv' /\ OutcomeInv' /\ CompletedInv'
    BY <1>0, <2>2 DEF VersionsInv, OutcomeInv, CompletedInv, localVars, discoverVars
  <2>6. TypeInv'
    BY <1>0, <2>2, <2>4 DEF TypeInv, localVars, PublishLabels, RemovalLabels
  <2>7. QED
    BY <2>5, <2>6 DEF OutcomesInv
<1>6. CASE UNCHANGED vars
  BY <1>0, <1>6 DEF vars, localVars, storeVars, discoverVars, OutcomesInv, VersionsInv, TypeInv,
                    OutcomeInv, CompletedInv
<1>7. QED
  BY <1>3, <1>4, <1>5, <1>6

LEMMA InitOutcomes == Init => OutcomesInv
<1> SUFFICES ASSUME Init
             PROVE  OutcomesInv
  OBVIOUS
<1>1. LockInv
  BY InitLock
<1>2. VersionsInv
  BY DEF Init, DiscoverInit, VersionsInv
<1>3. TypeInv /\ OutcomeInv
  BY DEF Init, TypeInv, OutcomeInv, PublishLabels, RemovalLabels
<1>4. CompletedInv
  BY DEF Init, StoreInit, NoPublication, CompletedInv
<1>5. QED
  BY <1>1, <1>2, <1>3, <1>4 DEF OutcomesInv

LEMMA NextOutcomes ==
  LockCallsReliable /\ RepliesFit /\ OutcomesInv /\ [Next]_vars => OutcomesInv'
<1> SUFFICES ASSUME LockCallsReliable, RepliesFit, OutcomesInv, [Next]_vars
             PROVE  OutcomesInv'
  OBVIOUS
<1>1. LockInv /\ LockInv'
  BY NextLock DEF OutcomesInv
<1>2. ASSUME NEW p \in Procs, Step(p)
      PROVE  OutcomesInv'
  <2>1. pc[p] # "idle"
    BY <1>2 DEF Step, PublishStart, UnpublishStart, StartPublish, Prepare, PublishToDiscover,
                Save, Finalize, PublishFinish, UnpublishFinish, Finish, Unpublish, Delete,
                CleanupStatus, CleanupManifest, CleanupDiscover
  <2>2. target[p] \in Collections
    BY <1>1, <2>1, OutcomeTypes
  <2>3. OthersKept(p) /\ VersionEffect(p) /\ LiveEffect(p) /\ StatusEffect(p)
    BY <1>1, <1>2, StepVersion, StepLive, StepStatus
  <2>4. QED
    BY <1>1, <2>2, <2>3, VersionsKept, TypeKept, OutcomeKept, CompletedKept DEF OutcomesInv
<1>3. QED
  BY <1>1, <1>2, OtherStepsOutcomes DEF Next

\* Whatever requests overlap, and whichever calls fail that LockCallsReliable
\* lets fail, a collection that says published is live in Discover, and one
\* that says unpublished is not, if Discover's answers fit the requests.
\* Without RepliesFit it is false: the handlers take either success for theirs.
THEOREM CompletedIsTrue ==
  ASSUME LockCallsReliable, RepliesFit
  PROVE  Spec => []CompletedAgreesWithDiscover
<1>1. OutcomesInv => CompletedAgreesWithDiscover
  BY DEF OutcomesInv, CompletedInv, CompletedAgreesWithDiscover
<1>2. QED
  BY <1>1, InitOutcomes, NextOutcomes, PTL DEF Spec

-----------------------------------------------------------------------------
(* What becomes of the manifests in the bucket. *)

\* What a call of p does to the bucket: it saves the manifest of its version
\* or deletes that one, or Discover takes the whole collection down.
ObjectsEffect(p) ==
  LET c == target[p] IN
  /\ \A d \in Collections \ {c} : objects'[d] = objects[d]
  /\ \/ objects'[c] = objects[c]
     \/ pc[p] = "save" /\ objects'[c] = objects[c] \cup {version[p]}
     \/ pc[p] = "unpublish" /\ live'[c] = 0
     \/ pc[p] = "cleanup" /\ objects'[c] = objects[c] \ {version[p]}
  /\ pc'[p] \in {"finalize", "finishPublication"} =>
       \/ pc[p] = "save" /\ version[p] \in objects'[c]
       \/ pc[p] = "finalize" /\ objects' = objects

\* Every call has this effect on the bucket.
LEMMA StepObjects ==
  ASSUME TypeOK, NEW p \in Procs, Step(p)
  PROVE  pc[p] # "idle" /\ target[p] \in Collections /\ ObjectsEffect(p)
<1>0. /\ pc \in [Procs -> Labels]
      /\ objects \in [Collections -> SUBSET Nat]
      /\ live \in [Collections -> Nat]
      /\ pc[p] # "idle" => target[p] \in Collections
  BY DEF TypeOK, LocalTypeOK, ManifestTypeOK, DiscoverTypeOK
<1>1. pc[p] # "idle" /\ target[p] \in Collections
  BY <1>0 DEF Step, PublishStart, UnpublishStart, StartPublish, Prepare, PublishToDiscover, Save,
              Finalize, PublishFinish, UnpublishFinish, Finish, Unpublish, Delete, CleanupStatus,
              CleanupManifest, CleanupDiscover
<1>2. ASSUME UNCHANGED objects, pc'[p] \notin {"finalize", "finishPublication"}
      PROVE  ObjectsEffect(p)
  BY <1>2 DEF ObjectsEffect
<1>3. CASE PublishStart(p) \/ UnpublishStart(p)
  BY <1>0, <1>2, <1>3 DEF PublishStart, UnpublishStart, StartPublish, Goto, CleanUp, Return
<1>4. CASE PublishFinish(p) \/ UnpublishFinish(p)
  BY <1>0, <1>2, <1>4 DEF PublishFinish, UnpublishFinish, Finish, CleanUp, Return
<1>5. CASE Prepare(p) \/ PublishToDiscover(p)
  BY <1>0, <1>2, <1>5 DEF Prepare, PublishToDiscover, Goto, CleanUp
<1>6. CASE Save(p)
  <2>1. CASE SaveManifest(target[p], version[p]) /\ Goto(p, "finalize")
    BY <1>0, <1>1, <1>6, <2>1 DEF Save, SaveManifest, Goto, ObjectsEffect
  <2>2. CASE (SaveManifest(target[p], version[p]) \/ UNCHANGED objects)
             /\ CleanUp(p, {"status", "finalize"})
    BY <1>0, <1>1, <1>6, <2>2 DEF Save, SaveManifest, CleanUp, ObjectsEffect
  <2>3. QED
    BY <1>6, <2>1, <2>2 DEF Save, Fails
<1>7. CASE Finalize(p)
  <2>1. pc[p] = "finalize" /\ objects' = objects
    BY <1>7 DEF Finalize
  <2>2. QED
    BY <1>1, <2>1 DEF ObjectsEffect
<1>8. CASE Unpublish(p)
  <2>1. pc[p] = "unpublish" /\ pc'[p] \notin {"finalize", "finishPublication"}
    BY <1>0, <1>8 DEF Unpublish, CleanUp
  <2>2. \/ UNCHANGED objects
        \/ TakeDown(target[p]) /\ RemoveObjects(target[p])
    BY <1>8 DEF Unpublish, Fails
  <2>3. CASE TakeDown(target[p]) /\ RemoveObjects(target[p])
    BY <1>0, <1>1, <2>1, <2>3 DEF TakeDown, RemoveObjects, ObjectsEffect
  <2>4. CASE UNCHANGED objects
    BY <1>1, <1>2, <2>1, <2>4
  <2>5. QED
    BY <2>2, <2>3, <2>4
<1>9. CASE Delete(p)
  BY <1>0, <1>2, <1>9 DEF Delete, Return
<1>10. CASE CleanupStatus(p) \/ CleanupDiscover(p)
  BY <1>0, <1>2, <1>10 DEF CleanupStatus, CleanupDiscover, CleanupDone, Return
<1>11. CASE CleanupManifest(p)
  <2>1. pc[p] = "cleanup" /\ pc'[p] \in {"cleanup", "idle"}
    BY <1>0, <1>11 DEF CleanupManifest, CleanupDone, Return
  <2>2. UNCHANGED objects \/ DeleteManifestVersion(target[p], version[p])
    BY <1>11 DEF CleanupManifest
  <2>3. QED
    BY <1>0, <1>1, <2>1, <2>2 DEF DeleteManifestVersion, ObjectsEffect
<1>12. QED
  BY <1>1, <1>3, <1>4, <1>5, <1>6, <1>7, <1>8, <1>9, <1>10, <1>11 DEF Step

\* Every other step leaves the bucket alone.
LEMMA OtherStepsObjects ==
  ASSUME \/ \E p \in Procs : Request(p) \/ Crash(p)
         \/ \E c \in Collections, x \in Contents : Create(c, x) \/ Patch(c, x)
         \/ UNCHANGED vars
  PROVE  UNCHANGED objects
BY DEF Request, PublishRead, UnpublishRead, DeleteRead, Enter, Refuse, Crash, Create, Patch, vars

-----------------------------------------------------------------------------
(* A settled version keeps its manifest.  This needs no assumption on      *)
(* failures: who deletes a manifest names a version of his own.            *)

\* No call takes the manifest of a settled version away.
LEMMA SettledStep ==
  ASSUME TypeOK, NEW p \in Procs, Step(p), NEW c \in Collections, Settled(c), live'[c] = live[c]
  PROVE  live[c] \in objects'[c]
<1>1. target[p] \in Collections /\ ObjectsEffect(p)
  BY StepObjects
<1>2. CASE target[p] # c
  BY <1>1, <1>2 DEF ObjectsEffect, Settled
<1>3. CASE target[p] = c
  BY <1>1, <1>3 DEF ObjectsEffect, Settled
<1>4. QED
  BY <1>2, <1>3

\* Whatever requests overlap and whatever fails, a version that is public and
\* whose publish is over keeps its manifest as long as it is public.
THEOREM SettledStays == Spec => SettledManifestStays
<1>1. TypeOK /\ [Next]_vars =>
        [\A c \in Collections :
           Settled(c) /\ live'[c] = live[c] => live[c] \in objects'[c]]_vars
  <2>1. SUFFICES ASSUME TypeOK, [Next]_vars,
                        NEW c \in Collections, Settled(c), live'[c] = live[c]
                 PROVE  live[c] \in objects'[c]
    OBVIOUS
  <2>2. CASE \E p \in Procs : Step(p)
    BY <2>1, <2>2, SettledStep
  <2>3. CASE ~\E p \in Procs : Step(p)
    <3>1. UNCHANGED objects
      BY <2>1, <2>3, OtherStepsObjects DEF Next
    <3>2. QED
      BY <2>1, <3>1 DEF Settled
  <2>4. QED
    BY <2>2, <2>3
<1>2. QED
  BY <1>1, TypeCorrect, PTL DEF Spec, SettledManifestStays

-----------------------------------------------------------------------------
(* A published collection has the manifest of its live version.            *)

\* A process that is past its save has its manifest in the bucket.
SavedInv ==
  \A p \in Procs :
    pc[p] \in {"finalize", "finishPublication"} => version[p] \in objects[target[p]]

ManifestInv == OutcomesInv /\ SavedInv /\ CompletedHasManifest

\* The types that the lemmas below need.
LEMMA ManifestTypes ==
  ASSUME OutcomesInv
  PROVE  /\ LockInv /\ VersionsInv /\ TypeInv /\ OutcomeInv /\ CompletedInv
         /\ objects \in [Collections -> SUBSET Nat]
         /\ \A p \in Procs : pc[p] # "idle" => target[p] \in Collections
BY DEF OutcomesInv, LockInv, TypeOK, LocalTypeOK, ManifestTypeOK

\* Another process deletes manifests of other versions only, and does not take
\* the collection down while it is held.
LEMMA SavedKept ==
  ASSUME OutcomesInv, SavedInv, NEW p \in Procs, target[p] \in Collections,
         OthersKept(p), VersionEffect(p), ObjectsEffect(p)
  PROVE  SavedInv'
<1>0. LockInv /\ VersionsInv
  BY ManifestTypes
<1>1. SUFFICES ASSUME NEW q \in Procs, pc'[q] \in {"finalize", "finishPublication"}
               PROVE  version'[q] \in objects'[target'[q]]
  BY DEF SavedInv
<1>2. CASE q = p
  <2>1. target'[p] = target[p] /\ version'[p] = version[p]
    BY <1>1, <1>2 DEF VersionEffect
  <2>2. version[p] \in objects'[target[p]]
    BY <1>1, <1>2 DEF ObjectsEffect, SavedInv
  <2>3. QED
    BY <1>2, <2>1, <2>2
<1>3. CASE q # p
  <2>1. pc'[q] = pc[q] /\ target'[q] = target[q] /\ version'[q] = version[q]
    BY <1>3 DEF OthersKept
  <2>2. version[q] \in objects[target[q]] /\ version[q] # 0 /\ target[q] \in Collections
    BY <1>0, <1>1, <2>1, ManifestTypes DEF SavedInv, VersionsInv
  <2>3. target[p] = target[q] => pc[p] \notin {"save", "unpublish"} /\ version[p] # version[q]
    BY <1>0, <1>1, <1>3, <2>1, <2>2 DEF LockInv, Exclusive, Holding, VersionsInv
  <2>4. QED
    BY <2>1, <2>2, <2>3 DEF ObjectsEffect
<1>4. QED
  BY <1>2, <1>3

\* Only a publish that is over makes the status Completed, and it has saved the
\* manifest of the version that is live.
LEMMA BecomesPublished ==
  ASSUME OutcomesInv, NEW p \in Procs, target[p] \in Collections, StatusEffect(p),
         NEW c \in Collections,
         publication'[c] = [status |-> "Completed", type |-> "Publication"],
         publication[c] # publication'[c]
  PROVE  /\ c = target[p] /\ pc[p] = "finishPublication"
         /\ live[c] = version[p] /\ live' = live
<1>1. c = target[p]
  BY DEF StatusEffect
<1>2. publication'[c].status = "Completed" /\ publication'[c].type = "Publication"
  OBVIOUS
<1>3. HasStatus(c) /\ \E status \in Statuses :
        /\ publication'[c] = [status |-> status, type |-> publication[c].type]
        /\ status = "Completed" =>
             /\ pc[p] \in {"finishPublication", "finishRemoval"}
             /\ outcome[p] = "Completed" /\ pc'[p] = "idle"
             /\ live' = live
  BY <1>1, <1>2 DEF StatusEffect, NoPublication
<1>4. /\ publication[c].type = "Publication"
      /\ pc[p] \in {"finishPublication", "finishRemoval"} /\ outcome[p] = "Completed"
      /\ live' = live
  BY <1>2, <1>3
<1>5. row[c] = "present"
  BY <1>3, ManifestTypes DEF LockInv, HasStatus
<1>6. pc[p] = "finishPublication"
  BY <1>1, <1>4, <1>5, ManifestTypes DEF TypeInv, RemovalLabels
<1>7. QED
  BY <1>1, <1>4, <1>6, ManifestTypes DEF OutcomeInv

\* A collection that is not held keeps the manifest of its live version.
LEMMA PublishedKept ==
  ASSUME ManifestInv, NEW p \in Procs, target[p] \in Collections,
         LiveEffect(p), StatusEffect(p), ObjectsEffect(p)
  PROVE  CompletedHasManifest'
<1>0. OutcomesInv /\ SavedInv /\ CompletedHasManifest /\ LockInv /\ CompletedInv
  BY ManifestTypes DEF ManifestInv
<1>1. SUFFICES ASSUME NEW c \in Collections,
                      publication'[c] = [status |-> "Completed", type |-> "Publication"]
               PROVE  live'[c] \in objects'[c]
  BY DEF CompletedHasManifest
<1>2. CASE publication[c] = publication'[c]
  <2>1. Holding(p) => target[p] # c
    BY <1>0, <1>1, <1>2 DEF LockInv, RunningMeansInProgress, PublishInProgress, NoPublication
  <2>2. live[c] \in objects[c] /\ live[c] # 0 /\ (target[p] = c => version[p] # live[c])
    BY <1>0, <1>1, <1>2 DEF CompletedHasManifest, CompletedInv
  <2>3. live'[c] = live[c]
    BY <2>1, <2>2 DEF LiveEffect
  <2>4. live[c] \in objects'[c]
    BY <2>1, <2>2 DEF ObjectsEffect, Holding
  <2>5. QED
    BY <2>3, <2>4
<1>3. CASE publication[c] # publication'[c]
  <2>1. c = target[p] /\ pc[p] = "finishPublication" /\ live[c] = version[p] /\ live' = live
    BY <1>0, <1>1, <1>3, BecomesPublished
  <2>2. version[p] \in objects[c]
    BY <1>0, <2>1 DEF SavedInv
  <2>3. QED
    BY <2>1, <2>2 DEF ObjectsEffect
<1>4. QED
  BY <1>2, <1>3

\* Requests, kills, creations and updates touch neither the bucket nor what is
\* published, and no process gets past its save by them.
LEMMA OtherStepsManifest ==
  ASSUME ManifestInv,
         \/ \E p \in Procs : Request(p) \/ Crash(p)
         \/ \E c \in Collections, x \in Contents : Create(c, x) \/ Patch(c, x)
         \/ UNCHANGED vars
  PROVE  SavedInv' /\ CompletedHasManifest'
<1>0. /\ SavedInv /\ CompletedHasManifest
      /\ pc \in [Procs -> Labels]
      /\ target \in [Procs -> Collections \cup {None}]
      /\ version \in [Procs -> Nat]
  BY DEF ManifestInv, OutcomesInv, LockInv, TypeOK, LocalTypeOK
<1>1. UNCHANGED <<objects, live, publication>>
  BY DEF Request, PublishRead, UnpublishRead, DeleteRead, Enter, Refuse, Crash, Create, Patch,
         InsertCollection, UpdateRow, storeVars, discoverVars, vars
<1>2. \A q \in Procs : pc'[q] \in {"finalize", "finishPublication"} =>
        pc[q] = pc'[q] /\ target'[q] = target[q] /\ version'[q] = version[q]
  <2>1. ASSUME NEW p \in Procs, NEW c \in Collections,
               NEW label \in {"startPublication", "startRemoval", "delete"},
               NEW read, Enter(p, c, label, read)
        PROVE  \A q \in Procs : pc'[q] \in {"finalize", "finishPublication"} =>
                 pc[q] = pc'[q] /\ target'[q] = target[q] /\ version'[q] = version[q]
    BY <1>0, <2>1 DEF Enter
  <2>2. ASSUME NEW p \in Procs, Crash(p)
        PROVE  \A q \in Procs : pc'[q] \in {"finalize", "finishPublication"} =>
                 pc[q] = pc'[q] /\ target'[q] = target[q] /\ version'[q] = version[q]
    BY <1>0, <2>2 DEF Crash, Return
  <2>3. CASE UNCHANGED localVars
    BY <2>3 DEF localVars
  <2>4. QED
    BY <2>1, <2>2, <2>3 DEF Request, PublishRead, UnpublishRead, DeleteRead, Refuse, Create,
                            Patch, vars
<1>3. SavedInv'
  BY <1>0, <1>1, <1>2 DEF SavedInv
<1>4. CompletedHasManifest'
  BY <1>0, <1>1 DEF CompletedHasManifest
<1>5. QED
  BY <1>3, <1>4

LEMMA InitManifest == Init => ManifestInv
<1> SUFFICES ASSUME Init
             PROVE  ManifestInv
  OBVIOUS
<1>1. SavedInv
  BY DEF Init, SavedInv
<1>2. CompletedHasManifest
  BY DEF Init, StoreInit, NoPublication, CompletedHasManifest
<1>3. QED
  BY <1>1, <1>2, InitOutcomes DEF ManifestInv

LEMMA NextManifest ==
  LockCallsReliable /\ RepliesFit /\ ManifestInv /\ [Next]_vars => ManifestInv'
<1> SUFFICES ASSUME LockCallsReliable, RepliesFit, ManifestInv, [Next]_vars
             PROVE  ManifestInv'
  OBVIOUS
<1>1. OutcomesInv /\ LockInv /\ TypeOK /\ OutcomesInv'
  BY NextOutcomes DEF ManifestInv, OutcomesInv, LockInv
<1>2. ASSUME NEW p \in Procs, Step(p)
      PROVE  SavedInv' /\ CompletedHasManifest'
  <2>1. target[p] \in Collections /\ ObjectsEffect(p)
    BY <1>1, <1>2, StepObjects
  <2>2. OthersKept(p) /\ VersionEffect(p) /\ LiveEffect(p) /\ StatusEffect(p)
    BY <1>1, <1>2, StepVersion, StepLive, StepStatus
  <2>3. QED
    BY <1>1, <2>1, <2>2, SavedKept, PublishedKept DEF ManifestInv
<1>3. QED
  BY <1>1, <1>2, OtherStepsManifest DEF Next, ManifestInv

\* A collection that says published has the manifest of the version the public
\* sees, whatever requests overlap, and whichever calls fail that
\* LockCallsReliable lets fail, if Discover's answers fit the requests.
THEOREM PublishedHasManifest ==
  ASSUME LockCallsReliable, RepliesFit
  PROVE  Spec => []CompletedHasManifest
<1>1. ManifestInv => CompletedHasManifest
  BY DEF ManifestInv
<1>2. QED
  BY <1>1, InitManifest, NextManifest, PTL DEF Spec

=============================================================================
