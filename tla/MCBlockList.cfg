CONSTANTS
  a1 = a1
  a2 = a2
  n1 = n1
  n2 = n2
  Addresses = {a1, a2}
  Blocks = {n1, n2}
  Covers <- MCCovers
  Routable = {a1}
  Feeds = {"spamhaus-drop"}
  Names <- MCNames
  ChunkSize = 1
  Interval = 2
  Slack = 1
  Ttl = 8
  ProbeTtl = 2
  MaxClock = 60
SPECIFICATION Spec
INVARIANTS CorpusAgeBounded NothingListedExpires ProbesListedThirtyDays
VIEW Ages
