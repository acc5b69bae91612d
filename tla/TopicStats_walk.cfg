SPECIFICATION FairSpec
CONSTANTS
  Topics = {1}
  Partitions = {1}
  MasterOf <- MCMasterOf
  Brokers = {"b1", "b2"}
  Mandatory <- MCMandatory
  PageSizes = {1, 2}
  Expiry = 2
CHECK_DEADLOCK FALSE
PROPERTIES WalkComplete WalkDistinct Forgotten
