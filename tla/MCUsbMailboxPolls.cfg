\* Simple ISO with its cleanup, and the polls that hold zz_Lock alone.
SPECIFICATION Spec
CONSTANTS
  NumCmds = 1
  MaxServe = 1
  Work = {"iso queue"}
  Polls = {"port", "int"}
INVARIANT MailboxFenced
PROPERTY RecoveryNeverOverwrites
