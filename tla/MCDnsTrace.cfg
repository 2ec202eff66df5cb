CONSTANTS
  root = root
  tld = tld
  both = both
  own = own
  Bottom = 2
  Servers = {root, tld, both, own}
  Delegates <- MCDelegates
  Glueless = {own}
  Hostings <- MCHostings
  Signings <- MCSignings
  Answers = {"good", "badsig", "partly", "foreign", "absent"}
  MaxQueries = 10
  MaxDepth = 4
  MaxServersPerHop = 3
  MaxSideLookups = 2
SPECIFICATION Spec
INVARIANTS VerdictIsTruth HealthyWalkIsRight QueriesBounded Descends
CHECK_DEADLOCK FALSE
