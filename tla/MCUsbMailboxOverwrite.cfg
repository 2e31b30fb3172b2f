\* A simple ISO cleanup against a flush that serves realtime ISO.
SPECIFICATION Spec
CONSTANTS
  NumCmds = 1
  MaxServe = 1
  Work = {"iso queue"}
  Polls = {}
PROPERTY PrimaryNotOverwritten
