SPECIFICATION Spec
CONSTANTS
  Slugs = {s1}
  Generated = {}
  Targets = {t1}
  Readers = {r1, r2}
  Writers = {w1}
  NoRow = NoRow
  Never = Never
  NoCode = NoCode
  NoEntry = NoEntry
  Ttls = {1}
  CacheTtl = 1
  CacheMax = 1
  MaxAttempts = 2
  Retention = 1
  MaxClock = 2
  MaxGen = 2
SYMMETRY Symmetry
INVARIANTS Coherent
PROPERTY ImplementsRegister
