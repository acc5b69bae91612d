SPECIFICATION Spec
CONSTANTS
  SuperRoles <- MCSuperRoles
  PulsarJWTEnabled = TRUE
  WordsOf <- MCWordsOf
  Handlers = {h1, h2}
  Tenants = {"acme"}
  Requests <- MCRequests
  Subjects <- MCSubjects
  Plans <- MCPlans
  FreeTier = "free"
  StarterTier = "starter"
  NumOfNamespaces <- MCNumOfNamespaces
  Functions <- MCFunctions
  MaxCounted = 1
INVARIANTS NamespacesBounded OnlyPermitted ReadsServed
CHECK_DEADLOCK FALSE
SYMMETRY Symmetry
