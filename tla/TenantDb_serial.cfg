SPECIFICATION FairSpec
CONSTANTS
  Nodes = {"n1", "n2"}
  Handlers = {"h1"}
  Home <- MCHome
  Tenants = {"t1"}
  PlanTypes <- MCPlanTypes
  AuditTexts <- MCAuditTexts
  Ops = {"post", "delete"}
  Requests <- PlainRequests
  MaxRecords = 3
  MaxFaults = 2
INVARIANTS Converged
PROPERTIES EventuallyConverged
