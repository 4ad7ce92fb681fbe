\* Parts of the kernel, one per behaviour: the registry (handlers look modules
\* up and make several calls; memory may run out), code memory (two pages), messages
\* over three links, and the services with three modules.
SPECIFICATION KernelSpec
CONSTANTS
  BINS = 2
  SLOTS = 3
  LOADER = 0
  App = {2, 3}
  Thread = {4, 5}
  Calls = {"lookup", "several"}
  Failures = {"state", "timer"}
  DEPTH = 1
  NPAGES = 2
  PAGE = 2
  Entry = {0, 1}
  SALTS = 3
  Word = {1, 2}
  Hdr = {1, 2, 3}
  Payload = {1, 2}
  Channel <- MCChannel
  SENSOR = SENSOR
  ma = ma
  mb = mb
  mc = mc
  cba = cba
  cbb = cbb
  cbc = cbc
  Module = {SENSOR, ma, mb, mc}
  Kernel = {SENSOR}
  NULL_PID = null
  RUNTIME_PID = rt
  Fid = {1, 2}
  Subscribed <- MCSubscribed
  Provided <- MCProvided
  ShmName = {1, 3}
  SHM_NUM_BINS = 2
  SHM_NUM_WAITER = 2
  MonCb = {cba, cbb, cbc}
  NoMon = nomon
  CbModule <- MCCbModule
  CbType <- MCCbType
INVARIANTS KernelTypeOK
  RegistrySound  NetSound
  LinksCorrect  ShmNames 
PROPERTIES NetAtomic 
