SPECIFICATION PartsSpec
CONSTANTS
  s1 = s1
  s2 = s2
  Slots <- TwoSlots
  NoRef = NoRef
  InterRefs = 2
  MaxFrames = 2
  MaxErrors = 4
SYMMETRY Alike
INVARIANTS CountsExact NeverExhausted  WaitsOlder RowsReconstructed FailureTold
