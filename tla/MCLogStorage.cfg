SPECIFICATION Spec
CONSTANTS
  Tasks = {t1, t2}
  Severities = {0, 1}
  N = 2
  MaxPushes = 4
SYMMETRY Symmetry
INVARIANTS
  ReadsLatest
  WalkEnds
