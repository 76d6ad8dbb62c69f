SPECIFICATION ServerSpec
CONSTANTS
  Threads = {t1, t2}
  RateMax = 2
  RateWindow = 1
  MaxClock = 2
  MaxFaults = 2
INVARIANTS QueueBound WindowLimit LoneRequestsDecided StatsCount
PROPERTIES EveryScanEnds
