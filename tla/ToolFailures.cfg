SPECIFICATION FairSpec
CONSTANTS
  w1 = w1
  w2 = w2
  Workers = {w1,w2}
  MaxJobs = 2
  JobType <- ProbeThenMerge
  MaxRetry = 2
  Backend = "local"
  Faults = {"store", "tool"}
INVARIANTS
  TempReclaimed
PROPERTIES
  SubmittedJobsSettle
  ImplementsLifecycle
