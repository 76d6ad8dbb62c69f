SPECIFICATION Spec
CONSTANTS
  Threads = {t1, t2}
  Lines = 2
  MaxWalks = 1
  Console = Console
CHECK_DEADLOCK FALSE
INVARIANTS ReplyExact
