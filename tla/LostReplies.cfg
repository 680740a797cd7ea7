SPECIFICATION HangingToolSpec
CONSTANTS
  w1 = w1
  w2 = w2
  Workers = {w1,w2}
  MaxJobs = 2
  JobType <- ProbeThenMerge
  MaxRetry = 1
  Backend = "s3"
  Faults = {"store", "ack", "tool", "timeout", "stop"}
INVARIANTS
  AssetRowHasObject
  SingleDelivery
  IInv
  EventTrail
PROPERTIES
  TerminalFrozen
  ImplementsLifecycle
  WorkersReturn
