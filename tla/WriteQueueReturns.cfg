SPECIFICATION FairSpec
CONSTANTS
  Thread = {t1, t2}
  Nil = Nil
  Sizes = {1, 2}
  SmallSize = 2
  LargeSize = 3
  WriteBufferSize = 1
  CompactionTrigger = 1
  SlowdownTrigger = 1
  StopTrigger = 2
  Ops = {"write", "flush", "range"}
  MaxOps = 3
  MaxFailures = 1
PROPERTY CallsReturn
CHECK_DEADLOCK FALSE
