SPECIFICATION Spec
CONSTANTS
  RefFrames = 1
  N = 2
  Surfaces <- MCSurfaces
  None = None
  MaxEvents = 1
  Inputs = {"tailerr"}
VIEW View
INVARIANTS
  ReadyTracked
