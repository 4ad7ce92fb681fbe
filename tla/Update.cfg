\* A node that fetches three releases in fragments, of which one answer is lost, late
\* or repeated, with memory or without; and three nodes in a line over which two
\* releases spread, with one message lost.
SPECIFICATION Spec
CONSTANTS
  Key = {1, 2}
  ModuleKey = {2}
  MAXFRAG = 2
  MAXVER = 3
  Handle = {1, 2, 3}
  MAX_RETX = 1
  MAX_IN_QUEUE = 1
  Release <- MCRelease
  FailModes <- MCFailModes
  MAXFAULTS = 1
  Quiet = TRUE
  Node = {1, 2, 3}
  Neighbour <- MCNeighbour
  Host = 0
  LAST = 3
  MAXAIR = 1
  MAXLOSS = 1
INVARIANTS UpdateTypeOK  DissSound
PROPERTIES  StaysSettled NeverBack Spreads
CHECK_DEADLOCK FALSE
