CONSTANTS
  Hosts = {a, b}
  Denied = {inside}
  MaxHops = 3
  HopTimeout = 2
  Total = 5
  Unset = Unset
SPECIFICATION Spec
INVARIANTS FinalIsTheEnd NothingUnsaid NoPageTwice
PROPERTY TraceEnds
CHECK_DEADLOCK FALSE
