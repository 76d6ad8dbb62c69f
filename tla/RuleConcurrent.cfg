SPECIFICATION Spec
CONSTANTS
  Procs = {p1, p2}
  MaxVersion = 3
  MinBundle = 1
  EnvPin = 2
  MaxRuns = 2
  MayCrash = TRUE
  Missing = Missing
  Empty = Empty
  Garbage = Garbage
  NoBundle = NoBundle
CHECK_DEADLOCK FALSE
INVARIANTS AnswersAreCurrent RefusalIsFinal RollbackOnlyByRace
PROPERTIES OnlyVettedIsCached ImplementsTrust
