SPECIFICATION FairSpec
CONSTANTS
  None = None
  Sessions = {s1, s2, s3}
  Instances = {i1, i2}
  Tasks = {t1, t2, t3}
  MinIdle = 1
  MaxInstances = 2
  Callers = {}
INVARIANTS NothingOutlives
PROPERTY NoLostWakeup
CHECK_DEADLOCK FALSE
