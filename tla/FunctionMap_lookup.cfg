SPECIFICATION FairSpec
CONSTANTS
  Functions <- MCFunctions
  Tenants = {"t", "tn", "u"}
  Concat <- MCConcat
  Components = {"functions"}
  Workers = {"w1", "w2", "w3"}
  Placement <- MCPlacement
  Named = {"w3"}
  Handlers = {"h1", "h2"}
  QueryTimeout = 1
  MaxRecords = 2
  MaxErrors = 1
  MaxCrashes = 1
INVARIANTS FirstRecordKept WorkerOfFunction CountCoversRunning
CHECK_DEADLOCK FALSE
PROPERTIES EventuallyKnown EventuallyRightWorker
