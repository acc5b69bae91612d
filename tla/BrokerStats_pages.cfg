SPECIFICATION FairSpec
CONSTANTS
  Brokers = {1, 2, 3}
  Listings <- MCListings
  LimitParams = {0, 1, 2}
  MaxCalls = 2
  MaxChanges = 1
INVARIANTS EveryBrokerOnce
PROPERTIES QueriesEnd Answered
CHECK_DEADLOCK FALSE
