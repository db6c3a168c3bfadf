---------------------------- MODULE PublishLock -----------------------------
(***************************************************************************)
(* What StartPublish and FinishPublish promise the handlers: a lock per    *)
(* collection that is tried, never waited for.  Whoever gets it lets it go *)
(* himself, or dies with it; a lock whose holder died is never taken       *)
(* again, and neither is the lock of a collection that was deleted.        *)
(***************************************************************************)
CONSTANTS Collections, Procs

VARIABLE lock  \* lock[c]: a process, or one of the three states below

Free == "free"
Orphaned == "orphaned"  \* the holder died, the collection stays InProgress
Closed == "closed"      \* the collection is gone

LockTypeOK == lock \in [Collections -> Procs \cup {Free, Orphaned, Closed}]

Init == lock = [c \in Collections |-> Free]

Acquire(p, c) == lock[c] = Free /\ lock' = [lock EXCEPT ![c] = p]

\* The holder of a deleted collection has only a closed lock to leave.
Release(p, c) ==
  /\ lock[c] = p
  /\ \E s \in {Free, Orphaned, Closed} : lock' = [lock EXCEPT ![c] = s]

Close(c) ==
  /\ lock[c] \in {Free, Orphaned}
  /\ lock' = [lock EXCEPT ![c] = Closed]

Next == \E c \in Collections : Close(c) \/ \E p \in Procs : Acquire(p, c) \/ Release(p, c)

Spec == Init /\ [][Next]_lock

=============================================================================
