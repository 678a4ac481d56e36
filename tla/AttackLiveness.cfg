\* Small enough for temporal checking without symmetry.
CONSTANTS
  Clients = {c1, c2}
  MaxEvents = 2
  BufferSize = 2
  ReplaySize = 1
  NoClient = NoClient
SPECIFICATION FairSpec
PROPERTIES CastEnds ClientsAreReleased
