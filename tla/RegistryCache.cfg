\* A handler looks a module up before it removes it.
SPECIFICATION Spec
CONSTANTS
  BINS = 2
  SLOTS = 3
  LOADER = 0
  App = {2, 3}
  Thread = {4, 5}
  Calls = {"lookup"}
  Failures = {}
  DEPTH = 1
INVARIANTS GetIsLinked
