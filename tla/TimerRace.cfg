\* The interrupt may come inside timer_set_hw_top.
SPECIFICATION FairSpec
CONSTANTS
  Blk = {b1, b2}
  Pid = {p1}
  Tid = {t1, t2}
  Watched = t1
  Intervals = {1, 3}
  TIMER_MIN_INTERVAL = 1
  MAX_SLEEP_INTERVAL = 2
  CAP = 2
INVARIANTS FullInterval
