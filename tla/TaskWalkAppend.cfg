CONSTANTS
  Q_TILE_CEIL = 12
  Launches <- SomeWithoutQueries
  FUSED_ROWS = 16
  BLOCK = 2
  FusedLaunches <- NoneOfThem
  RANGE_TILE = 2
  RANGE_STACK_LEN = 3
  WORD = 65536
  Ranges <- NoneOfThem
  Unset = Unset
  MAX_KV_STACK_LEN = 6
  l1NDynamic = 4
  PRE_LAUNCH = 2
  Runs <- NoneOfThem
  VECTOR_SIZE = 8
  Tiles <- NoneOfThem
SPECIFICATION Spec
INVARIANTS CacheUpdatedByEvery
