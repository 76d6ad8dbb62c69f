SPECIFICATION Spec
CONSTANTS
  Runs = {r1, r2, r3}
  Sbcs = {edgeUnder, core}
  DirOf <- SafeName
  MaxSecond = 2
  MayCrash = TRUE
  Spaced = TRUE
  Absent = Absent
  Torn = Torn
  edgeSpace = edgeSpace
  edgeUnder = edgeUnder
  core = core
CHECK_DEADLOCK FALSE
SYMMETRY RunSymmetry
INVARIANTS HistoryPreserved DashboardCurrent
PROPERTIES ReportIsNewest
