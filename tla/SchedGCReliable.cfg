\* A build with garbage collection and reliable messages.
SPECIFICATION Spec
CONSTANTS
  Hdr = {h1, h2}
  Blk = {b1}
  Pid = {ld, p1}
  LOADER = ld
  SCHED = SCHED
  NULL = NULL
  PAYLOAD = PAYLOAD
  FREE = FREE
  FlagSets <- ReliableFlags
  UseGC = TRUE
INVARIANTS SendDoneSound
