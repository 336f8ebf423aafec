SPECIFICATION PartsSpec
CONSTANTS
  RowCount = 4
  ColCount = 3
  Workers = 3
  Free = Free
INVARIANTS NeighboursReady RowsFinal NoLostWakeup
PROPERTIES TailEnds
