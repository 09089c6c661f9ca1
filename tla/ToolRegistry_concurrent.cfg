SPECIFICATION Spec
CONSTANTS
  None = None
  Backends = {a, b}
  Names = {x, y}
  Tasks = {t1, t2}
  Callers = {"boot", "reload"}
  Namespace <- OwnSpace
SYMMETRY Symmetry
INVARIANTS IndexesExact
PROPERTY AliasesHonest
