SPECIFICATION SubmissionSpec
CONSTANTS
  w1 = w1
  w2 = w2
  Workers = {w1}
  MaxJobs = 3
  JobType <- ProbeMergeExtract
  MaxRetry = 0
  Backend = "s3"
  Faults = {"ack", "stop"}
INVARIANTS
  SubmissionTypeOK
  AnswersAreTrue
  JobsAreGrounded
