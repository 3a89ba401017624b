SPECIFICATION FairSpec
CONSTANTS
  Clients = {telnet}
  UserCommands = {print, set}
  DataCommands = {print}
  Blank = blank
  MaxGlued = 1
  MaxCalls = 4
INVARIANTS ResponseMatchesCommand HistoryPaired
PROPERTIES ImplementsService EverySendReturns
\* a finished behaviour made all its calls
CHECK_DEADLOCK FALSE
