SPECIFICATION FairSpec
CONSTANTS
  a = a
  b = b
  ip = ip
  arp = arp
  NoOne = NoOne
  Openers = {a, b}
  Types = {ip, arp}
  PacketType <- MCPacketType
  Overlap = FALSE
  MaxSessions = 2
  MaxReads = 2
  MaxFrames = 2
INVARIANTS SessionUp QuietWhenClosed ReplyOnce StageNotFreedInUse
PROPERTY CallsReturn
CHECK_DEADLOCK FALSE
