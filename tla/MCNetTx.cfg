\* Two senders race for the four slots; from 32765 the count wraps after the
\* third frame.  The card may retire nothing at all.
SPECIFICATION FairSpec
CONSTANTS
  w1 = w1
  w2 = w2
  Writers = {w1, w2}
  Lens <- MCLens
  WaitReads = 2
  InitCounts <- MCInitCounts
  MaxWrites = 7
INVARIANTS TypeOK NoDmaOverwrite NoOrphanDma TxAccounting
PROPERTIES WriteReturns SlotSpec
