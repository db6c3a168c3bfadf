-------------------------- MODULE WorkerPoolProofs --------------------------
(***************************************************************************)
(* Theorems about WorkerPool, for any number of workers and jobs and any   *)
(* capacities of the channels: the pool keeps its types, never sends on a  *)
(* closed channel, and a map that is returned misses no job.               *)
(***************************************************************************)
EXTENDS WorkerPool, TLAPS

\* x is somewhere on the channel s.
On(s, x) == \E i \in 1..Len(s) : s[i] = x

\* A send adds its value, whoever else is on the channel.
LEMMA OnAppend ==
  ASSUME NEW S, NEW s \in Seq(S), NEW e \in S
  PROVE  \A x : On(Append(s, e), x) <=> On(s, x) \/ x = e
<1>1. ASSUME NEW x, On(Append(s, e), x) PROVE On(s, x) \/ x = e
  <2>1. PICK i \in 1..Len(Append(s, e)) : Append(s, e)[i] = x
    BY <1>1 DEF On
  <2>2. CASE i = Len(s) + 1 BY <2>1, <2>2
  <2>3. CASE i # Len(s) + 1 BY <2>1, <2>3 DEF On
  <2> QED BY <2>2, <2>3
<1>2. ASSUME NEW x, On(s, x) PROVE On(Append(s, e), x)
  <2>1. PICK i \in 1..Len(s) : s[i] = x BY <1>2 DEF On
  <2>2. i \in 1..Len(Append(s, e)) /\ Append(s, e)[i] = x BY <2>1
  <2> QED BY <2>2 DEF On
<1>3. On(Append(s, e), e)
  <2>1. Len(s) + 1 \in 1..Len(Append(s, e)) /\ Append(s, e)[Len(s) + 1] = e OBVIOUS
  <2> QED BY <2>1 DEF On
<1> QED BY <1>1, <1>2, <1>3

\* A receive takes the head and leaves the rest.
LEMMA OnTail ==
  ASSUME NEW S, NEW s \in Seq(S), s # <<>>
  PROVE  \A x : On(s, x) => On(Tail(s), x) \/ x = Head(s)
<1> TAKE x
<1> HAVE On(s, x)
<1>1. PICK i \in 1..Len(s) : s[i] = x BY DEF On
<1>2. CASE i = 1 BY <1>1, <1>2
<1>3. CASE i # 1
  <2>1. i - 1 \in 1..Len(Tail(s)) /\ Tail(s)[i - 1] = x BY <1>1, <1>3
  <2> QED BY <2>1 DEF On
<1> QED BY <1>2, <1>3

-----------------------------------------------------------------------------
(* The invariant. *)

Busy == {"check", "call", "send"}

\* A worker holds something exactly while it works on it, and it holds a
\* result that failed only after the call.
HeldInv ==
  \A w \in Workers :
    /\ pc[w] \in Busy <=> held[w] # Nothing
    /\ pc[w] \in {"check", "call"} => held[w].ok

\* Jobs are closed behind the last one, and results behind the last worker.
ClosedInv ==
  /\ "jobs" \in closed => sent = NumJobs
  /\ "results" \in closed => \A w \in Workers : pc[w] = "done"

\* The pool cancels its context only to return; until then, unless the
\* request was cancelled, workers stop only when there is nothing left to take.
CancelInv ==
  /\ cancelled = "pool" => Returned
  /\ cancelled = "no" =>
       \A w \in Workers : pc[w] = "done" => jobs = <<>> /\ "jobs" \in closed

\* Where a job may be that was sent.
Accounted(j) ==
  \/ j \in got
  \/ On(jobs, j)
  \/ On(results, [job |-> j, ok |-> TRUE]) \/ On(results, [job |-> j, ok |-> FALSE])
  \/ \E w \in Workers : held[w].job = j

\* While the caller collects and nobody has cancelled, no job is lost.
NothingLost ==
  pc[Collector] = "collect" /\ cancelled = "no" => \A j \in 1..sent : Accounted(j)

PoolInv == TypeOK /\ HeldInv /\ ClosedInv /\ CancelInv /\ NothingLost /\ Complete

\* The pool starts with nothing sent and nothing held.
LEMMA PoolInit == Init => PoolInv
<1> SUFFICES ASSUME Init PROVE PoolInv OBVIOUS
<1> USE WorkersAssumption, CapacityAssumption, CallerAssumption
<1>1. TypeOK BY DEF Init, TypeOK, Nothing, Results, Jobs
<1>2. HeldInv BY DEF Init, HeldInv, Busy, Nothing
<1>3. ClosedInv /\ CancelInv /\ Complete
  BY DEF Init, ClosedInv, CancelInv, Complete, Returned
<1>4. NothingLost BY DEF Init, NothingLost
<1> QED BY <1>1, <1>2, <1>3, <1>4 DEF PoolInv

\* Every step of a goroutine keeps the invariant.
LEMMA PoolStep == PoolInv /\ [Next]_vars => PoolInv'
<1> SUFFICES ASSUME PoolInv, [Next]_vars PROVE PoolInv' OBVIOUS
<1> USE WorkersAssumption, CapacityAssumption, CallerAssumption DEF PoolInv
<1>1. CASE Produce
  <2>1. sent + 1 \in Jobs BY <1>1 DEF Produce, TypeOK, Jobs
  <2>2. TypeOK' BY <1>1, <2>1 DEF Produce, TypeOK, Results, Jobs
  <2>3. HeldInv' /\ ClosedInv' /\ CancelInv' /\ Complete'
    BY <1>1 DEF Produce, TypeOK, HeldInv, ClosedInv, CancelInv, Complete, Returned
  <2>4. \A x : On(jobs', x) <=> On(jobs, x) \/ x = sent + 1
    BY <1>1, <2>1, OnAppend DEF Produce, TypeOK
  <2>5. NothingLost'
    <3> SUFFICES ASSUME pc[Collector] = "collect", cancelled = "no", NEW j \in 1..(sent + 1)
                 PROVE  Accounted(j)'
      BY <1>1 DEF Produce, NothingLost
    <3>1. CASE j = sent + 1 BY <2>4, <3>1 DEF Accounted
    <3>2. CASE j # sent + 1
      <4>1. Accounted(j) BY <3>2 DEF NothingLost, TypeOK
      <4> QED BY <1>1, <2>4, <4>1 DEF Produce, Accounted
    <3> QED BY <3>1, <3>2
  <2> QED BY <2>2, <2>3, <2>5
<1>2. CASE CloseJobs
  BY <1>2 DEF CloseJobs, TypeOK, HeldInv, ClosedInv, CancelInv, Complete, NothingLost,
              Accounted, Returned
<1>3. ASSUME NEW w \in Workers, Take(w) PROVE PoolInv'
  <2> USE <1>3 DEF Take, Goto
  <2>1. Head(jobs) \in Jobs /\ Tail(jobs) \in Seq(Jobs) /\ Len(Tail(jobs)) <= Len(jobs)
    BY DEF TypeOK
  <2>2. [job |-> Head(jobs), ok |-> TRUE] # Nothing BY <2>1 DEF Nothing, Jobs
  <2>3. TypeOK' BY <2>1 DEF TypeOK, Results
  <2>4. HeldInv' BY <2>2 DEF TypeOK, HeldInv, Busy
  <2>5. ClosedInv' /\ CancelInv' /\ Complete'
    BY DEF TypeOK, ClosedInv, CancelInv, Complete, Returned
  <2>6. \A x : On(jobs, x) => On(jobs', x) \/ x = Head(jobs)
    BY OnTail DEF TypeOK
  <2>7. held[w].job \notin Jobs BY DEF HeldInv, Busy, Nothing, Jobs
  <2>8. ASSUME NEW j \in Jobs, Accounted(j) PROVE Accounted(j)'
    BY <2>6, <2>7, <2>8 DEF TypeOK, Accounted
  <2>9. NothingLost' BY <2>8 DEF NothingLost, TypeOK, Jobs
  <2> QED BY <2>3, <2>4, <2>5, <2>9
<1>4. ASSUME NEW w \in Workers, RunOut(w) PROVE PoolInv'
  BY <1>4 DEF RunOut, Goto, TypeOK, HeldInv, Busy, ClosedInv, CancelInv, Complete, NothingLost,
              Accounted, Returned
<1>5. ASSUME NEW w \in Workers, Check(w) PROVE PoolInv'
  <2> USE <1>5 DEF Check, Goto
  <2>1. TypeOK' BY DEF TypeOK
  <2>2. HeldInv' BY DEF TypeOK, HeldInv, Busy
  <2>3. ClosedInv' /\ CancelInv' /\ Complete'
    BY DEF TypeOK, ClosedInv, CancelInv, Complete, Returned
  <2>4. NothingLost' BY DEF TypeOK, NothingLost, Accounted
  <2> QED BY <2>1, <2>2, <2>3, <2>4
<1>6. ASSUME NEW w \in Workers, Call(w) PROVE PoolInv'
  <2> USE <1>6 DEF Call, Goto
  <2>1. held[w] \in Results BY DEF TypeOK, HeldInv, Busy
  <2>2. PICK ok \in BOOLEAN : held' = [held EXCEPT ![w] = [job |-> held[w].job, ok |-> ok]]
    <3>1. held = [held EXCEPT ![w] = held[w]] BY DEF TypeOK
    <3>2. held[w] = [job |-> held[w].job, ok |-> held[w].ok] /\ held[w].ok \in BOOLEAN
      BY <2>1 DEF Results
    <3>3. CASE UNCHANGED held BY <3>1, <3>2, <3>3
    <3>4. CASE held' = [held EXCEPT ![w] = [job |-> held[w].job, ok |-> FALSE]] BY <3>4
    <3> QED BY <3>3, <3>4
  <2>3. /\ held' \in [Workers -> Results \cup {Nothing}]
        /\ held'[w] \in Results
        /\ held'[w].job = held[w].job
        /\ \A v \in Workers \ {w} : held'[v] = held[v]
    <3>1. [job |-> held[w].job, ok |-> ok] \in Results BY <2>1 DEF Results
    <3> HIDE DEF Call
    <3> QED BY <2>2, <3>1 DEF TypeOK
  <2>4. TypeOK' BY <2>3 DEF TypeOK
  <2>5. held'[w] # Nothing BY <2>3 DEF Results, Nothing, Jobs
  <2>6. HeldInv' BY <2>3, <2>5 DEF TypeOK, HeldInv, Busy
  <2>7. ClosedInv' /\ CancelInv' /\ Complete'
    BY DEF TypeOK, ClosedInv, CancelInv, Complete, Returned
  <2>8. ASSUME NEW j, Accounted(j) PROVE Accounted(j)'
    BY <2>3, <2>8 DEF Accounted
  <2>9. NothingLost' BY <2>8 DEF TypeOK, NothingLost
  <2> QED BY <2>4, <2>6, <2>7, <2>9
<1>7. ASSUME NEW w \in Workers, Send(w) PROVE PoolInv'
  <2> USE <1>7 DEF Send, Goto
  <2>1. held[w] \in Results BY DEF TypeOK, HeldInv, Busy
  <2>2. TypeOK' BY <2>1 DEF TypeOK
  <2>3. HeldInv' BY DEF TypeOK, HeldInv, Busy
  <2>4. ClosedInv' /\ CancelInv' /\ Complete'
    BY DEF TypeOK, ClosedInv, CancelInv, Complete, Returned
  <2>5. \A x : On(results', x) <=> On(results, x) \/ x = held[w]
    BY <2>1, OnAppend DEF TypeOK
  <2>6. \/ held[w] = [job |-> held[w].job, ok |-> TRUE]
        \/ held[w] = [job |-> held[w].job, ok |-> FALSE]
    BY <2>1 DEF Results
  <2>7. ASSUME NEW j \in Jobs, Accounted(j) PROVE Accounted(j)'
    <3>1. CASE held[w].job = j
      <4>1. On(results', held[w]) BY <2>5
      <4> QED BY <2>6, <3>1, <4>1 DEF Accounted
    <3>2. CASE On(results, [job |-> j, ok |-> TRUE]) \/ On(results, [job |-> j, ok |-> FALSE])
      BY <2>5, <3>2 DEF Accounted
    <3>3. CASE j \in got \/ On(jobs, j) BY <3>3 DEF Accounted
    <3>4. CASE \E v \in Workers \ {w} : held[v].job = j
      BY <3>4 DEF TypeOK, Accounted
    <3> QED BY <2>7, <3>1, <3>2, <3>3, <3>4 DEF Accounted
  <2>8. NothingLost' BY <2>7 DEF NothingLost, TypeOK, Jobs
  <2> QED BY <2>2, <2>3, <2>4, <2>8
<1>8. CASE CloseResults
  BY <1>8 DEF CloseResults, TypeOK, HeldInv, ClosedInv, CancelInv, Complete, NothingLost,
              Accounted, Returned
<1>9. CASE Collect
  <2> USE <1>9 DEF Collect, Goto
  <2>1. Head(results) \in Results /\ Tail(results) \in Seq(Results)
           /\ Len(Tail(results)) <= Len(results)
    BY DEF TypeOK
  <2>2. TypeOK' BY <2>1 DEF TypeOK, Results
  <2>3. HeldInv' BY DEF TypeOK, HeldInv, Busy
  <2>4. ClosedInv' /\ CancelInv' /\ Complete'
    BY DEF TypeOK, ClosedInv, CancelInv, Complete, Returned
  <2>5. \A x : On(results, x) => On(results', x) \/ x = Head(results)
    BY OnTail DEF TypeOK
  <2>6. ASSUME NEW j, Accounted(j), Head(results).ok PROVE Accounted(j)'
    <3>1. got' = got \cup {Head(results).job} BY <2>6
    <3>2. CASE On(results, [job |-> j, ok |-> TRUE])
      BY <2>5, <3>1, <3>2 DEF Accounted
    <3>3. CASE On(results, [job |-> j, ok |-> FALSE])
      BY <2>5, <2>6, <3>3 DEF Accounted
    <3>4. CASE j \in got \/ On(jobs, j) \/ \E w \in Workers : held[w].job = j
      BY <3>1, <3>4 DEF Accounted
    <3> QED BY <2>6, <3>2, <3>3, <3>4 DEF Accounted
  <2>7. NothingLost'
    BY <2>6 DEF TypeOK, NothingLost
  <2> QED BY <2>2, <2>3, <2>4, <2>7
<1>10. CASE ReturnError
  <2> USE <1>10 DEF ReturnError, Goto
  <2>1. TypeOK' BY DEF TypeOK
  <2>2. HeldInv' /\ ClosedInv' BY DEF TypeOK, HeldInv, Busy, ClosedInv
  <2>3. CancelInv' /\ Complete' /\ NothingLost'
    BY DEF TypeOK, CancelInv, Complete, NothingLost, Returned
  <2> QED BY <2>1, <2>2, <2>3
<1>11. CASE ReturnMap
  <2> USE <1>11 DEF ReturnMap, Goto
  <2>1. TypeOK' BY DEF TypeOK
  <2>2. HeldInv' /\ ClosedInv' BY DEF TypeOK, HeldInv, Busy, ClosedInv
  <2>3. CancelInv' /\ NothingLost' BY DEF TypeOK, CancelInv, NothingLost, Returned
  <2>4. ASSUME cancelled = "no" PROVE Jobs \subseteq got
    <3>1. jobs = <<>> /\ sent = NumJobs
      BY <2>4 DEF ClosedInv, CancelInv
    <3>2. \A x : ~On(jobs, x) /\ ~On(results, x) BY <3>1 DEF On
    <3>3. \A w \in Workers : held[w].job \notin Jobs
      BY DEF ClosedInv, HeldInv, Busy, Nothing, Jobs
    <3>4. \A j \in Jobs : Accounted(j) BY <2>4, <3>1 DEF NothingLost, Jobs
    <3> QED BY <3>2, <3>3, <3>4 DEF Accounted
  <2>5. Complete' BY <2>4 DEF Complete, CancelInv, TypeOK, Returned
  <2> QED BY <2>1, <2>2, <2>3, <2>5
<1>12. CASE CallerCancels
  BY <1>12 DEF CallerCancels, TypeOK, HeldInv, ClosedInv, CancelInv, Complete, NothingLost,
               Returned
<1>13. CASE UNCHANGED vars
  BY <1>13 DEF vars, TypeOK, HeldInv, ClosedInv, CancelInv, Complete, NothingLost,
               Accounted, Returned
<1> QED
  BY <1>1, <1>2, <1>3, <1>4, <1>5, <1>6, <1>7, <1>8, <1>9, <1>10, <1>11, <1>12, <1>13
  DEF Next, Producer, Closer, Caller, Worker, Idle

\* The pool keeps its invariant, whatever fails and whoever cancels.
THEOREM PoolInvariant == Spec => []PoolInv
<1> QED BY PoolInit, PoolStep, PTL DEF Spec

\* Types: channels hold what their senders put in, and no more than they have
\* places for (get_collections.go:153 and 220).
THEOREM TypeCorrect == Spec => []TypeOK
<1>1. PoolInv => TypeOK BY DEF PoolInv
<1> QED BY <1>1, PoolInvariant, PTL

\* A map that the list handler returns misses no batch and no collection,
\* unless the request was cancelled (get_collections.go:198-209 and 261-269).
THEOREM MapIsComplete == Spec => []Complete
<1>1. PoolInv => Complete BY DEF PoolInv
<1> QED BY <1>1, PoolInvariant, PTL

\* No worker sends on results after it is closed: the wait group closes it
\* behind the last worker (get_collections.go:193, 256).
THEOREM NoSendPanics == Spec => []NoSendAfterClose
<1>1. PoolInv => NoSendAfterClose
  BY DEF PoolInv, ClosedInv, NoSendAfterClose
<1> QED BY <1>1, PoolInvariant, PTL

=============================================================================
