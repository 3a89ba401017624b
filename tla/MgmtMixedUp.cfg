SPECIFICATION Spec
CONSTANTS
  Clients = {telnet, web}
  UserCommands = {print}
  DataCommands = {print}
  Blank = blank
  MaxGlued = 1
  MaxCalls = 2
INVARIANT ResponseMatchesCommand
\* a finished behaviour made all its calls, or waits in recv()
CHECK_DEADLOCK FALSE
