SPECIFICATION Spec
CONSTANTS
  v1 = v1
  v2 = v2
  PRE_LAUNCH = 2
  Stacks <- MCStacks
  Vec <- MCVec
  Works <- MCWorks
INVARIANTS TypeOK NoSlotRace DelayedContextIntact FlagsBalanced
PROPERTIES TilesSpec Finishes
