SPECIFICATION Spec
CONSTANTS
  SramLength = 2
  FlushDelay = 1
  Games = {"none", "game", "dsiware"}
  HostTasks = {"osd"}
  MaxIdent = 5
  None = None
INVARIANTS
  GbaFileFromCart
CHECK_DEADLOCK FALSE
