SPECIFICATION EventsSpec
CONSTANTS
  RefFrames = 2
  N = 2
  Surfaces <- MCSurfaces
  None = None
  MaxEvents = 2
  Inputs = {"show", "serial", "newseq", "reset", "close"}
VIEW EventsView
INVARIANTS
  BatchIntact
  NoLeak
  PoolSufficient
PROPERTIES
  InOrder
