SPECIFICATION Spec
CONSTANTS
  a = a
  b = b
  ip = ip
  arp = arp
  NoOne = NoOne
  Openers = {a, b}
  Types = {ip, arp}
  PacketType <- MCPacketType
  Overlap = TRUE
  MaxSessions = 2
  MaxReads = 2
  MaxFrames = 2
INVARIANT StageNotFreedInUse
CHECK_DEADLOCK FALSE
