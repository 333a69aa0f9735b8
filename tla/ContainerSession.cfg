CONSTANTS
  None = None
  Clients = {"command","keyslot","fido","u2f","detached","container"}
  ExitCodes = {0,1,5}
  MaxWritten = 3
  Daemons = TRUE
  Paths = {mnt, other}
  MaxBlocks = 3
SPECIFICATION ContainerSpec
INVARIANT BlockLeavesNoContainer
PROPERTIES Promise CommandsEnd SessionsEnd
CHECK_DEADLOCK FALSE
