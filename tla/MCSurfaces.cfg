SPECIFICATION PartsSpec
CONSTANTS
  Count = 3
  Formats = {f, g, big}
  Fits = {f, g}
  PoolFormat = f
  MaxBatch = 3
  s1 = s1
  s2 = s2
  None = None
  Slots = {s1, s2}
  Surfaces = {p1, p2, p3}
  Templates <- SentFrames
  Tiles = 2
  MaxUnits = 2
  MaxFrames = 4
SYMMETRY Alike
INVARIANTS NeverInvalid NothingLeaks KeyRecovers 
PROPERTIES ImplementsFree
