SPECIFICATION Spec
CONSTANTS
  Slugs = {s1}
  Generated = {g1}
  Targets = {t1}
  Readers = {r1}
  Writers = {w1, w2}
  NoRow = NoRow
  Never = Never
  NoCode = NoCode
  NoEntry = NoEntry
  Ttls = {}
  CacheTtl = 1
  CacheMax = 1
  MaxAttempts = 2
  Retention = 1
  MaxClock = 0
  MaxGen = 2
INVARIANTS CacheBounded
PROPERTY ImplementsRegister
