SPECIFICATION Spec
CONSTANTS
  Requests = {r1, r2}
  Tenants = {1, 2}
  SuperRole = 0
  Names = {0, 2}
  scrapeInterval = 2
  ScrapeTimeout = 1
INVARIANTS ServedFresh NotFoundExcused
CHECK_DEADLOCK FALSE
SYMMETRY Symmetry
