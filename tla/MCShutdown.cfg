SPECIFICATION ProcessSpec
CONSTANTS
  Items = {q1, q2}
  Closers = {"main"}
  CloserWaits = FALSE
  Probes = {q1}
  Syncs = {ipsum}
  Capacity = 1
  NoItem = NoItem
INVARIANTS DrainsBeforeClose SyncsStopOnSignal NoPanic InOnePlace HitsKept
PROPERTY NothingHangs
CHECK_DEADLOCK FALSE
