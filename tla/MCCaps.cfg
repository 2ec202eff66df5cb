CONSTANTS
  Clients = {k1, k2, k3}
  Calls = {c1}
  Capacity = 8
  Specs = {"tool", "protocol"}
  Requests = {r1, r2}
  Floor = 1
  Costs = {0, 7, 9}
SPECIFICATION CapsSpec
INVARIANTS SlotsAccounted SharesKept StatusHonest
PROPERTIES RefusedOnlyBesideAnother NotBusyByOneClient EveryCallEnds
