SPECIFICATION Spec
CONSTANTS
  RefFrames = 1
  N = 2
  Surfaces <- MCSurfaces
  None = None
  MaxEvents = 1
  Inputs = {"serial", "tailerr"}
VIEW View
PROPERTIES
  SerialFinal
