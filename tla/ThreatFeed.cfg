\* Small enough for temporal checking without symmetry: a callback publishes
\* while another has yet to begin, and the buffer of one overflows.
CONSTANTS
  Callbacks = {c1, c2}
  MaxHistory = 1
  MaxEvents = 2
  MaxSubscribers = 2
  Outside = Outside
SPECIFICATION FairSpec
INVARIANTS OrderedAndBounded NothingOutlivesPublish
PROPERTIES PublishEnds
