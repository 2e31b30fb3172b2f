\* Multicast: four groups, two of them in one bucket, in a table of three
\* entries whose reference counts saturate at 3: every refusal happens.
\* Audio: two tasks a side; two leases and one Stop; two buffers, two sessions,
\* one late command.
\* Firmware: two bundles with one module each.
SPECIFICATION PartsSpec
CONSTANTS
  o1 = o1
  o2 = o2
  Groups <- MCGroups
  Hash <- MCHash
  MaxEntries = 3
  RefMax = 3
  Openers = {o1, o2}
  a1 = a1
  a2 = a2
  m1 = m1
  m2 = m2
  AhiTasks = {a1, a2}
  MhiTasks = {m1, m2}
  NoTask = "none"
  Slots = 2
  RingCap = 1
  MaxGen = 1
  MaxLeases = 2
  b1 = b1
  b2 = b2
  Bufs = {b1, b2}
  IdlePolls = 1
  MaxSessions = 2
  MaxStops = 1
  MaxFed = 1
  MaxLate = 1
  Mods = {"m1"}
  MaxUpdates = 2
  Archives <- MCArchives
  FwRedirects = 1
  Dirs = {"vol", "root", "sub", "far"}
  RootDir = "root"
  UpOf <- MCUp
  Into <- MCInto
  PathNames = {"s", "l", "f"}
  FdIds = {3}
  MaxRunGen = 2
  MaxReqs = 2
  MaxFlips = 3
  OutCap = 1
  InCap = 1
  MsgCap = 2
  MsgReserve = 1
  MaxOut = 2
  MaxIn = 1
  MaxMsgs = 1
  AudioCap = 4
  BufUnits = 2
  MaxStreams = 3
  MaxSound = 4
SYMMETRY MCSwap
INVARIANTS
  FilterExact TableExact
  OwnershipSafe LeaseSafe PlayerSafe UpdateSafe RunSafe StreamsSafe
PROPERTIES
  BuffersSafe
CHECK_DEADLOCK FALSE
