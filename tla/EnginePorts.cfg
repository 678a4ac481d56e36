\* Fewer ports than max_instances: the range runs out first.
CONSTANTS
  Ids = {i1, i2, i3, i4, i5}
  PortStart = 10000
  PortEnd = 10002
  MaxInstances = 4
  NoId = NoId
  NoPort = NoPort
SYMMETRY IdSymmetry
SPECIFICATION Spec
INVARIANTS TypeOK PortsMatch StatusMatches
PROPERTIES DestroyedIsFinal ExhaustionIsReal PoolSpec
