SPECIFICATION TimedSpec
CONSTANTS
  w1 = w1
  w2 = w2
  r1 = r1
  r2 = r2
  Workers = {w1,w2}
  Requests = {r1,r2}
  MaxJobs = 1
  JobType <- ExtractOnly
  MaxRetry = 1
  Backend = "local"
  Faults = {"ack", "tool", "timeout", "stop"}
  LinkTTL = 3
  AssetTTL = 3
  TickPeriod = 2
INVARIANTS
  AssetTypeOK
  LinkHonoured
  ServedWhole
  BareMeansCleanedUp
PROPERTIES
  OldRowsGo
  ImplementsLinkLife
