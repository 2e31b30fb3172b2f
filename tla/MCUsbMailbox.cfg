\* Callers, flush and realtime ISO on the locks and the quarantine.
SPECIFICATION Spec
CONSTANTS
  NumCmds = 1
  MaxServe = 1
  Work = {"xfer", "reset"}
  Polls = {}
PROPERTY FlushReturns
PROPERTY QuarantineLifts
