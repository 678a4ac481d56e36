\* Small enough for temporal checking without symmetry.
CONSTANTS
  Events = {e1, e2}
  Publishers = {p1}
  FlushCallers = {f1}
  Loops = {l1, l2}
  Unsendable = {e2}
  MaxQueueSize = 2
  MaxBatch = 2
  MaxOutages = 1
  Stopper = stop
  NoTask = NoTask
SPECIFICATION FairSpec
PROPERTIES QueueDrains CallsReturn
