SPECIFICATION Spec
CONSTANTS
  Nodes = {"n1", "n2"}
  Handlers = {"h1", "h2"}
  Home <- MCHome
  Tenants = {"t1"}
  PlanTypes <- MCPlanTypes
  AuditTexts <- MCAuditTexts
  Ops = {"get", "post", "delete", "garbage"}
  Requests <- PlainRequests
  MaxRecords = 2
  MaxFaults = 1
INVARIANTS TypeOK CacheFromTable RowsWellFormed ReplicaConverged
