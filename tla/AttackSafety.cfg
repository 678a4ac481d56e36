\* Three events overflow a buffer of two, which is cut to the one replayed.
CONSTANTS
  Clients = {c1, c2}
  MaxEvents = 3
  BufferSize = 2
  ReplaySize = 1
  NoClient = NoClient
SYMMETRY Symmetry
SPECIFICATION Spec
INVARIANTS NothingMissed SentOnceAndForgotten
