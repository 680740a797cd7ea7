SPECIFICATION LateSpec
CONSTANTS
  w1 = w1
  w2 = w2
  Workers = {w1,w2}
  MaxJobs = 1
  JobType <- ExtractOnly
  MaxRetry = 1
  Backend = "local"
  Faults = {"db", "ack", "timeout", "crash"}
  MaxFlight = 3
SYMMETRY WorkerSymmetry
INVARIANTS
  FlightTypeOK
  ExclusiveClaim
  RetryBudget
  SingleDelivery
  CompletedHasOutput
  DecisionStands
  LateDelivery
PROPERTIES
  NeverRequeued
