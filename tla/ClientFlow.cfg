SPECIFICATION FairFlowSpec
CONSTANTS
  w1 = w1
  w2 = w2
  Workers = {w1,w2}
  MaxJobs = 3
  JobType <- ProbeMergeExtract
  MaxRetry = 1
  Backend = "s3"
  Faults = {"tool", "store"}
  Analysis = 1
INVARIANTS
  FlowTypeOK
  NobodyGetsStuck
PROPERTIES
  FlowEnds
