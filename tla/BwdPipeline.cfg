SPECIFICATION Spec
CONSTANTS
  CORES = 2
  S1_INNER = 4
  S2_INNER = 4
  KEY_ALIGN = 2
  UNBOUNDED = 1000
  LAUNCHES <- MC_LAUNCHES
INVARIANTS TypeOK EveryPairOnce GroupsSound WorkspaceIntact FlagsBalanced GradientsComplete AddedInOrder
PROPERTIES Finishes
