----------------------------- MODULE WorkerPool -----------------------------
(***************************************************************************)
(* The two concurrent lookups of GET / (routes/get_collections.go):        *)
(* fetchPennsieveDatasetsInBatches and fetchCollectionPublishStatuses.     *)
(* They run the same pool: a producer puts the jobs on one channel, the    *)
(* workers call Discover and put the results on another, a closer closes   *)
(* it when the workers are gone, and the caller collects.  They differ in  *)
(* the capacity of the jobs channel: numWorkers for the batches,           *)
(* len(summaries), hence all of them, for the statuses.                    *)
(***************************************************************************)
EXTENDS Integers, Sequences, FiniteSets

CONSTANTS Workers,          \* the worker goroutines
          NumJobs,          \* how many batches, or collections, there are
          JobsCapacity,     \* capacity of the channel jobs
          ResultsCapacity,  \* capacity of the channel results
          Failing,          \* jobs for which Discover may answer with an error
          CallerMayCancel   \* whether the context of the request may be cancelled

Jobs == 1..NumJobs

ASSUME WorkersAssumption == IsFiniteSet(Workers) /\ Workers # {}
ASSUME CapacityAssumption ==
  NumJobs \in Nat /\ JobsCapacity \in Nat \ {0} /\ ResultsCapacity \in Nat \ {0}
ASSUME FailingAssumption == Failing \subseteq Jobs /\ CallerMayCancel \in BOOLEAN

VARIABLES jobs,       \* the channel of jobs
          results,    \* the channel of results, each [job, ok]
          sent,       \* how many jobs the producer has put on the channel
          closed,     \* the channels that are closed
          pc,         \* where each worker, and the caller, is
          held,       \* held[w]: the job, or the result, a worker holds
          cancelled,  \* "no", "caller" or "pool": whether and by whom ctx is cancelled
          got         \* the jobs whose data the caller has stored

vars == <<jobs, results, sent, closed, pc, held, cancelled, got>>

Collector == "collector"  \* the calling goroutine, beside the workers

ASSUME CallerAssumption == Collector \notin Workers

Nothing == [job |-> 0, ok |-> TRUE]
Results == [job : Jobs, ok : BOOLEAN]

TypeOK ==
  /\ jobs \in Seq(Jobs) /\ Len(jobs) <= JobsCapacity
  /\ results \in Seq(Results) /\ Len(results) <= ResultsCapacity
  /\ sent \in 0..NumJobs
  /\ closed \subseteq {"jobs", "results"}
  /\ DOMAIN pc = Workers \cup {Collector}
  /\ \A w \in Workers : pc[w] \in {"take", "check", "call", "send", "done"}
  /\ pc[Collector] \in {"collect", "cancel", "ok", "error"}
  /\ held \in [Workers -> Results \cup {Nothing}]
  /\ cancelled \in {"no", "caller", "pool"}
  /\ got \subseteq Jobs

Init ==
  /\ jobs = <<>>
  /\ results = <<>>
  /\ sent = 0
  /\ closed = {}
  /\ pc = [g \in Workers \cup {Collector} |-> IF g = Collector THEN "collect" ELSE "take"]
  /\ held = [w \in Workers |-> Nothing]
  /\ cancelled = "no"
  /\ got = {}

Goto(g, label) == pc' = [pc EXCEPT ![g] = label]

-----------------------------------------------------------------------------
(* The producer. *)

\* Mutation: the batches start one job too early.
ProduceFromZero ==
  /\ sent < NumJobs
  /\ Len(jobs) < JobsCapacity
  /\ jobs' = Append(jobs, sent)
  /\ sent' = sent + 1
  /\ UNCHANGED <<results, closed, pc, held, cancelled, got>>

\* The producer does not look at the context.
Produce ==
  /\ sent < NumJobs
  /\ Len(jobs) < JobsCapacity
  /\ jobs' = Append(jobs, sent + 1)
  /\ sent' = sent + 1
  /\ UNCHANGED <<results, closed, pc, held, cancelled, got>>

CloseJobs ==
  /\ sent = NumJobs
  /\ "jobs" \notin closed
  /\ closed' = closed \cup {"jobs"}
  /\ UNCHANGED <<jobs, results, sent, pc, held, cancelled, got>>

-----------------------------------------------------------------------------
(* A worker. *)

Take(w) ==
  /\ pc[w] = "take"
  /\ jobs # <<>>
  /\ jobs' = Tail(jobs)
  /\ held' = [held EXCEPT ![w] = [job |-> Head(jobs), ok |-> TRUE]]
  /\ Goto(w, "check")
  /\ UNCHANGED <<results, sent, closed, cancelled, got>>

\* The range over jobs ends when the channel is closed and empty.
RunOut(w) ==
  /\ pc[w] = "take"
  /\ jobs = <<>>
  /\ "jobs" \in closed
  /\ Goto(w, "done")
  /\ UNCHANGED <<jobs, results, sent, closed, held, cancelled, got>>

\* With a cancelled context the worker returns, and drops the job it took.
Check(w) ==
  /\ pc[w] = "check"
  /\ IF cancelled = "no"
     THEN Goto(w, "call") /\ UNCHANGED held
     ELSE Goto(w, "done") /\ held' = [held EXCEPT ![w] = Nothing]
  /\ UNCHANGED <<jobs, results, sent, closed, cancelled, got>>

\* Mutation: a failed batch is skipped.
CallSkippingErrors(w) ==
  /\ pc[w] = "call"
  /\ \/ Goto(w, "send") /\ UNCHANGED held
     \/ /\ held[w].job \in Failing \/ cancelled # "no"
        /\ Goto(w, "take") /\ held' = [held EXCEPT ![w] = Nothing]
  /\ UNCHANGED <<jobs, results, sent, closed, cancelled, got>>

\* The call to Discover; with a cancelled context it may fail for any job.
Call(w) ==
  /\ pc[w] = "call"
  /\ \/ UNCHANGED held
     \/ /\ held[w].job \in Failing \/ cancelled # "no"
        /\ held' = [held EXCEPT ![w] = [job |-> held[w].job, ok |-> FALSE]]
  /\ Goto(w, "send")
  /\ UNCHANGED <<jobs, results, sent, closed, cancelled, got>>

\* The worker goes on with the next job after an error too.
Send(w) ==
  /\ pc[w] = "send"
  /\ Len(results) < ResultsCapacity
  /\ results' = Append(results, held[w])
  /\ held' = [held EXCEPT ![w] = Nothing]
  /\ Goto(w, "take")
  /\ UNCHANGED <<jobs, sent, closed, cancelled, got>>

-----------------------------------------------------------------------------
(* The closer and the caller. *)

\* Mutation: the results are closed as soon as there are no more jobs.
CloseResultsWithJobs ==
  /\ "jobs" \in closed /\ jobs = <<>>
  /\ "results" \notin closed
  /\ closed' = closed \cup {"results"}
  /\ UNCHANGED <<jobs, results, sent, pc, held, cancelled, got>>

\* Mutation: nobody closes the results.
CloseResultsNever == FALSE /\ UNCHANGED vars

CloseResults ==
  /\ \A w \in Workers : pc[w] = "done"
  /\ "results" \notin closed
  /\ closed' = closed \cup {"results"}
  /\ UNCHANGED <<jobs, results, sent, pc, held, cancelled, got>>

Collect ==
  /\ pc[Collector] = "collect"
  /\ results # <<>>
  /\ results' = Tail(results)
  /\ IF Head(results).ok
     THEN got' = got \cup {Head(results).job} /\ UNCHANGED pc
     ELSE Goto(Collector, "cancel") /\ UNCHANGED got
  /\ UNCHANGED <<jobs, sent, closed, held, cancelled>>

\* The first error cancels the context, and the caller returns it.
ReturnError ==
  /\ pc[Collector] = "cancel"
  /\ cancelled' = IF cancelled = "no" THEN "pool" ELSE cancelled
  /\ Goto(Collector, "error")
  /\ UNCHANGED <<jobs, results, sent, closed, held, got>>

\* All results are read: the map is returned, and the deferred cancel runs.
ReturnMap ==
  /\ pc[Collector] = "collect"
  /\ results = <<>>
  /\ "results" \in closed
  /\ cancelled' = IF cancelled = "no" THEN "pool" ELSE cancelled
  /\ Goto(Collector, "ok")
  /\ UNCHANGED <<jobs, results, sent, closed, held, got>>

CallerCancels ==
  /\ CallerMayCancel
  /\ cancelled = "no"
  /\ pc[Collector] \in {"collect", "cancel"}
  /\ cancelled' = "caller"
  /\ UNCHANGED <<jobs, results, sent, closed, pc, held, got>>

-----------------------------------------------------------------------------

Producer == Produce \/ CloseJobs
Worker(w) == Take(w) \/ RunOut(w) \/ Check(w) \/ Call(w) \/ Send(w)
Closer == CloseResults
Caller == Collect \/ ReturnError \/ ReturnMap

Returned == pc[Collector] \in {"ok", "error"}

AllEnded ==
  /\ Returned
  /\ closed = {"jobs", "results"}
  /\ \A w \in Workers : pc[w] = "done"

\* Nothing is left to do; a pool that stops in any other state is stuck.
Idle == AllEnded /\ UNCHANGED vars

Next ==
  \/ Producer \/ Closer \/ Caller \/ CallerCancels \/ Idle
  \/ \E w \in Workers : Worker(w)

Spec == Init /\ [][Next]_vars

\* Each goroutine that can run is run, and Discover answers every call.
Fairness ==
  /\ WF_vars(Producer) /\ WF_vars(Closer) /\ WF_vars(Caller)
  /\ \A w \in Workers : WF_vars(Worker(w))

FairSpec == Spec /\ Fairness

-----------------------------------------------------------------------------
(* Properties *)

\* A map that is returned holds every job, whatever the order in which the
\* goroutines run, unless the request itself was cancelled.
Complete == pc[Collector] = "ok" /\ cancelled # "caller" => got = Jobs

\* No worker has a result to send once the results are closed; the send would
\* panic.
NoSendAfterClose ==
  "results" \in closed => \A w \in Workers : pc[w] \notin {"call", "send"}

\* The caller gets an answer, with failing calls and with fewer places in the
\* channels than there are results.
Answered == <>Returned

\* "Safe for arbitrary input sizes" (get_collections.go:138): every goroutine
\* that was started ends.
EveryGoroutineEnds == <>AllEnded

=============================================================================
