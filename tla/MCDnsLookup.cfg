CONSTANTS
  Lookups = {l1, l2}
  Keys = {k1, k2}
  Ttls = {0, 1, 5}
  MinTtl = 2
  NegTtl = 2
  MaxTtl = 3
  MaxEntries = 1
  Width = 64
  MaxTime = 3
SPECIFICATION Spec
INVARIANTS OneQueryPerQuestion TtlCountsDown NoNeedlessQuery
PROPERTIES NewestStays EveryLookupReturns
