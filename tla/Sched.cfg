\* Three headers, two blocks, the loader and one module.
SPECIFICATION Spec
CONSTANTS
  Hdr = {h1, h2, h3}
  Blk = {b1, b2}
  Pid = {ld, p1}
  LOADER = ld
  SCHED = SCHED
  NULL = NULL
  PAYLOAD = PAYLOAD
  FREE = FREE
  FlagSets <- PlainFlags
  UseGC = FALSE
SYMMETRY Symmetry
INVARIANTS TypeOK HeadersSound SendDoneSound PayloadsSound
