SPECIFICATION FairSpec
CONSTANTS
  Slots = 3
  Starts <- StartsAtWrap
  Budget = 2
  MaxFrames = 2
  MaxDrops = 0
  MaxRestarts = 0
PROPERTY BacklogDrains
CHECK_DEADLOCK FALSE
