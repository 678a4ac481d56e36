CONSTANTS
  Events = {e1, e2, e3}
  Publishers = {p1, p2}
  FlushCallers = {f1}
  Loops = {l1, l2}
  Unsendable = {e3}
  MaxQueueSize = 2
  MaxBatch = 2
  MaxOutages = 1
  Stopper = stop
  NoTask = NoTask
SYMMETRY Symmetry
SPECIFICATION Spec
INVARIANTS StatsAreTrue OneHome LifecycleIsSound
PROPERTIES LossOnlyDuringFlush
