SPECIFICATION RestartSpec
CONSTANTS
  w1 = w1
  w2 = w2
  Workers = {w1,w2}
  MaxJobs = 1
  JobType <- ExtractOnly
  MaxRetry = 1
  Backend = "local"
  Faults = {"stop"}
PROPERTIES
  SubmittedJobsSettle
