SPECIFICATION Spec
CONSTANTS
  Threads = {t1, t2}
  TtlOk = 3
  TtlFail = 1
  MaxClock = 5
INVARIANTS FreshAnswer
