\* A shortest way to lose an event: no outage ends while nothing is posted.
CONSTANTS
  Events = {e1, e2}
  Publishers = {p1, p2}
  FlushCallers = {f1}
  Loops = {l1}
  Unsendable = {}
  MaxQueueSize = 2
  MaxBatch = 1
  MaxOutages = 1
  Stopper = stop
  NoTask = NoTask
SPECIFICATION Spec
INVARIANTS OnlyFullQueueLoses
