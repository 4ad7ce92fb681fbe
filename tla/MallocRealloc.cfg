\* A realloc that fails, or moves, after it has grown the old area.
SPECIFICATION MemSpec
CONSTANTS
  BLOCKS = 6
  SHIFT_VALUE = 3
  HEADER = 3
  Owner = {p1, p2}
  Sizes = {4, 5, 20}
  NONE = NONE
INVARIANTS StillValid
