CONSTANTS
  Ids = {i1, i2, i3, i4}
  Callers = {c1, c2}
  MaxInstances = 2
  MaxInteractions = 2
  NoCount = NoCount
SYMMETRY Symmetry
SPECIFICATION Spec
INVARIANTS CountsFollowInstances BoundedAndDestroyedOnce HeldObjectExplained
PROPERTIES LruSpec
