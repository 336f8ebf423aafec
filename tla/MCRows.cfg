SPECIFICATION PartsSpec
CONSTANTS
  Waiters = {w1, w2, w3}
  Done = 2
  Pub = Pub
  Free = Free
  Grids <- TileGrids
  Sb = 2
  ReadSb = 4
  RowsDone = 99
  u1 = u1
  u2 = u2
INVARIANTS NoLostWakeup LoadsSaved StageOrder PublishedFinal
PROPERTIES ImplementsGate RowsEnd
