CONSTANTS
  Q_TILE_CEIL = 12
  Launches <- SomeLaunches
  FUSED_ROWS = 16
  BLOCK = 2
  FusedLaunches <- SomeFused
  RANGE_TILE = 2
  RANGE_STACK_LEN = 3
  WORD = 65536
  Ranges <- AllSequences
  Unset = Unset
  MAX_KV_STACK_LEN = 6
  l1NDynamic = 4
  PRE_LAUNCH = 2
  Runs <- SomeRuns
  VECTOR_SIZE = 8
  Tiles <- SomeTiles
SPECIFICATION Spec
INVARIANTS CursorRight EveryRowOnce DrainsLast RowsFit RowsRight CacheUpdated ReadsSettled RowsOfPages NewRowsInPlace RowsInPlace
