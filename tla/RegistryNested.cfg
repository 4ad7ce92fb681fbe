\* A MSG_FINAL handler removes another module.
SPECIFICATION Spec
CONSTANTS
  BINS = 2
  SLOTS = 3
  LOADER = 0
  App = {2, 3}
  Thread = {4, 5}
  Calls = {"nested"}
  Failures = {}
  DEPTH = 2
PROPERTIES Removed
