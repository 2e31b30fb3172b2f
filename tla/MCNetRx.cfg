SPECIFICATION FairSpec
CONSTANTS
  Slots = 3
  Starts <- MCStarts
  Budget = 2
  MaxFrames = 4
  MaxDrops = 1
  MaxRestarts = 1
INVARIANTS DeliveredOnce GapExact
PROPERTIES AckTakesFrameRead BacklogDrains
CHECK_DEADLOCK FALSE
