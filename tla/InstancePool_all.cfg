SPECIFICATION Spec
CONSTANTS
  None = None
  Sessions = {s1, s2}
  Instances = {i1, i2}
  Tasks = {t1, t2, t3}
  MinIdle = 1
  MaxInstances = 2
  Callers = {"parallel", "late", "overlap", "timeout"}
SYMMETRY Symmetry
INVARIANTS CapacityConserved Isolation
PROPERTY KeepsPromise
CHECK_DEADLOCK FALSE
