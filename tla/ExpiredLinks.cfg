SPECIFICATION AssetSpec
CONSTANTS
  w1 = w1
  w2 = w2
  r1 = r1
  r2 = r2
  Workers = {w1}
  Requests = {r1}
  MaxJobs = 1
  JobType <- ExtractOnly
  MaxRetry = 1
  Backend = "local"
  Faults = {}
  LinkTTL = 2
  AssetTTL = 2
  TickPeriod = 2
PROPERTIES
  NoDownloadAfterExpiry
