SPECIFICATION Spec
CONSTANTS
  Thread = {t1, t2, t3}
  Nil = Nil
  Sizes = {2}
  SmallSize = 2
  LargeSize = 3
  WriteBufferSize = 1
  CompactionTrigger = 1
  SlowdownTrigger = 1
  StopTrigger = 2
  Ops = {"write", "flush", "range"}
  MaxOps = 4
  MaxFailures = 1
SYMMETRY Threads
INVARIANTS TypeOK CommitSound AcknowledgedKept NobodyForgotten ManualOutlives
