\* Three requests overlap over two instances; the limit of one is reached.
CONSTANTS
  Requests = {r1, r2, r3}
  Ids = {i1, i2}
  PortStart = 10000
  PortEnd = 10001
  MaxInstances = 1
  NoId = NoId
  NoPort = NoPort
SYMMETRY ApiSymmetry
SPECIFICATION ApiSpec
INVARIANTS OrphansExplained DeletionIsFinal MetricsAddUp
CHECK_DEADLOCK FALSE
