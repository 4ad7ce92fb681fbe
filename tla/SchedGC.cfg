\* A build with garbage collection and no reliable messages, under the fairness of
\* the scheduler loop.
SPECIFICATION FairSpec
CONSTANTS
  Hdr = {h1, h2, h3}
  Blk = {b1}
  Pid = {ld, p1}
  LOADER = ld
  SCHED = SCHED
  NULL = NULL
  PAYLOAD = PAYLOAD
  FREE = FREE
  FlagSets <- ReleaseFlags
  UseGC = TRUE
INVARIANTS GCSound
PROPERTIES HighPriorityServed
