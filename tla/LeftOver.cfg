\* One batch fails.  Goroutines may be left over.
SPECIFICATION FairSpec
CONSTANTS
  Workers = {w1, w2}
  NumJobs = 5
  JobsCapacity = 2
  ResultsCapacity = 2
  Failing = {1}
  CallerMayCancel = FALSE
PROPERTIES
  EveryGoroutineEnds
CHECK_DEADLOCK FALSE
