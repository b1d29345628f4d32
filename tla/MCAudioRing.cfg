CONSTANTS
  Cap = 4
  Laps = 2
  Frame = {a, b}
  Silence = z
  MaxPush = 2
  MaxWant = 3
SPECIFICATION FairSpec
INVARIANTS RingInv NoSlotShared SpaceIsAPromise
PROPERTIES FifoSpec FullRingDrains
CHECK_DEADLOCK FALSE
