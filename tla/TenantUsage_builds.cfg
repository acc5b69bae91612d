SPECIFICATION FairUsageSpec
CONSTANTS
  Topics = {"t1"}
  UsageTenants = {"acme"}
  Brokers = {"b1", "b2"}
  TenantOf <- MCTenantOf
  Concat <- MCConcat
  Scrapers = {"r1"}
  MaxReceived = 2
  MaxMoves = 2
  MaxErrors = 1
  MaxCrashes = 1
INVARIANTS NeverOverstated
CHECK_DEADLOCK FALSE
PROPERTIES EventuallyMetered EventuallyListed
