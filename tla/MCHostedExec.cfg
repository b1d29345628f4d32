CONSTANTS
  ta = ta
  tb = tb
  tc = tc
  Task = {ta, tb, tc}
  Boot = Boot
  None = None
  Null = Null
  Casts <- Prototypes
  Val = {0, 1}
  Zero = 0
  Heap = 4
  Sizes = {1, 2}
SPECIFICATION FairSpec
INVARIANTS QueuedOnce NoLostWakeup HeapWhole
PROPERTIES HeapSpec IoSpec EachRuns
CHECK_DEADLOCK FALSE
