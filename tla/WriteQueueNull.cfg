SPECIFICATION Spec
CONSTANTS
  Thread = {t1, t2}
  Nil = Nil
  Sizes = {2}
  SmallSize = 2
  LargeSize = 3
  WriteBufferSize = 1
  CompactionTrigger = 3
  SlowdownTrigger = 3
  StopTrigger = 3
  Ops = {"write", "flush", "range"}
  MaxOps = 4
  MaxFailures = 1
SYMMETRY Threads
INVARIANT CancelledSafely
