\* More ports than max_instances: the instance limit bites first, and the
\* cursor always finds a free port somewhere ahead of it.
CONSTANTS
  Ids = {i1, i2, i3, i4, i5, i6}
  PortStart = 10000
  PortEnd = 10003
  MaxInstances = 3
  NoId = NoId
  NoPort = NoPort
SYMMETRY IdSymmetry
SPECIFICATION Spec
INVARIANTS WithinLimit
PROPERTIES FullLapBeforeReuse
