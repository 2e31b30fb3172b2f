CONSTANTS
  i1 = i1
  i2 = i2
  i3 = i3
  u1 = u1
  Iors = {i1, i2, i3}
  Units = {u1}
  UnitOf <- MCUnitOf
  Waits = {i1}
  MayAbort = {i1, i2}
  NumSlots = 2
  SeqMod = 2
  Backoff = 1
  PollMax = 2
SPECIFICATION FairSpec
INVARIANTS HeldByDriver BackoffOfRetried
PROPERTIES RequestSpec RepliesCome
CHECK_DEADLOCK FALSE
