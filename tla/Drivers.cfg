\* The main loop with three interrupt sources and two messages; two radios, with
\* one byte hit or none, and one retry; three scripts, of which one needs a library.
SPECIFICATION DriversSpec
CONSTANTS
  NUM_INTS = 3
  MaxMsg = 2
  RadioNode = {"a", "b"}
  RadioMsg = {1, 2, 3}
  From <- MCFrom
  Dst <- MCDst
  MsgLen <- MCLen
  BCAST = "all"
  PREAMBLE = 4
  PRECURSOR = 1
  RSSI_SAMPLES = 2
  BACKOFF = {0, 2}
  TX_RETRY = 1
  Plans <- MCPlans
  LAST_CAPSULE = 2
  Lock = {"x", "y"}
  ScriptLocks <- MCScriptLocks
  Trigger <- MCTrigger
  NeedsLib = {1}
  Timed = {2}
  MAXTASKS = 2
  Rough = {}
INVARIANTS LoopSound RadioSound   ContextsSound TaskPosted
PROPERTIES   Arrives ContextServed
