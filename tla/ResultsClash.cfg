SPECIFICATION Spec
CONSTANTS
  Runs = {r1, r2}
  Sbcs = {edgeSpace, edgeUnder}
  DirOf <- SafeName
  MaxSecond = 1
  MayCrash = FALSE
  Spaced = FALSE
  Absent = Absent
  Torn = Torn
  edgeSpace = edgeSpace
  edgeUnder = edgeUnder
  core = core
CHECK_DEADLOCK FALSE
INVARIANTS HistoryPreserved
