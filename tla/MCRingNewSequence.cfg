SPECIFICATION Spec
CONSTANTS
  RefFrames = 1
  N = 2
  Surfaces <- MCSurfaces
  None = None
  MaxEvents = 2
  Inputs = {"newseq"}
VIEW View
INVARIANTS
  BatchIntact
