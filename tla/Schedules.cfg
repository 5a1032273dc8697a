CONSTANTS
  Shapes <- AllShapes
  Q_TILE_CEIL = 128
  MAX_KV_STACK_LEN = 512
  CORE_CAP = 25
  WORD = 1073741824
  DecodeShapes <- SomeDecodes
  DECODE_TILE = 8
  DECODE_STACK_LEN = 2
  DECODE_CAP = 6
  Unwritten = Unwritten
  Garbage = Garbage
  TILE = 2
  Launches <- SomeLaunches
  Unset = Unset
  Calls <- SomeCalls
SPECIFICATION Spec
INVARIANTS EveryBlockOnce NodesComplete WithinReservation EvenLoad AddedByRounds EveryTileOnce
PROPERTIES PartialsKept RowsSpec
