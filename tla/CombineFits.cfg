CONSTANTS
  Shapes <- NoneOfThem
  Q_TILE_CEIL = 128
  MAX_KV_STACK_LEN = 512
  CORE_CAP = 25
  WORD = 1073741824
  DecodeShapes <- WideHalf
  DECODE_TILE = 128
  DECODE_STACK_LEN = 512
  DECODE_CAP = 25
  Unwritten = Unwritten
  Garbage = Garbage
  TILE = 2
  Launches <- NoneOfThem
  Unset = Unset
  Calls <- NoneOfThem
SPECIFICATION Spec
INVARIANTS CombineFits
