\* Some calls fail and the request may be cancelled.  The pool may stop with
\* goroutines left over once the caller has returned.
SPECIFICATION FairSpec
CONSTANTS
  Workers = {w1, w2}
  NumJobs = 5
  JobsCapacity = 2
  ResultsCapacity = 2
  Failing = {1, 4}
  CallerMayCancel = TRUE
INVARIANTS
  TypeOK
  Complete
  NoSendAfterClose
PROPERTIES
  Answered
CHECK_DEADLOCK FALSE
