SPECIFICATION Spec
CONSTANTS
  w1 = w1
  w2 = w2
  Workers = {w1,w2}
  MaxJobs = 2
  JobType <- ExtractThenProbe
  MaxRetry = 1
  Backend = "local"
  Faults = {"db", "store", "tool", "timeout", "stop", "crash"}
SYMMETRY WorkerSymmetry
INVARIANTS
  TypeOK
  ExclusiveClaim
  IInv
PROPERTIES
  TerminalFrozen
  EveryStepCounts
  ProgressRestartsOnlyOnRetry
