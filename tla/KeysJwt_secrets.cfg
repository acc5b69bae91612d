SPECIFICATION FairSpec
CONSTANTS
  Runners = {"init", "healer"}
  OneShot = {"init"}
  Roles <- MCRoles
  InitialSecrets <- MCNamespaces
  Deletable <- Secrets
  Faults = {"get", "create", "crash"}
  MaxDeletions = 1
  MaxFaults = 2
INVARIANTS TypeOK MatchUnlessMixed
PROPERTIES EventuallyComplete NeverReplaced
