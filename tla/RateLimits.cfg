CONSTANTS
  IPs = {a, b}
  MaxRequests = 2
  WindowSeconds = 2
  MaxTime = 3
  MaxSetBacks = 1
SYMMETRY Symmetry
SPECIFICATION Spec
INVARIANTS WindowLimit RefusalIsDeserved BookkeepingIsExact
