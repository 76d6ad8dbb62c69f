SPECIFICATION Spec
CONSTANTS
  Procs = {p1, p2}
  MaxVersion = 3
  MinBundle = 1
  EnvPin = 2
  MaxRuns = 1
  MayCrash = FALSE
  Missing = Missing
  Empty = Empty
  Garbage = Garbage
  NoBundle = NoBundle
CHECK_DEADLOCK FALSE
PROPERTIES NoRollback
