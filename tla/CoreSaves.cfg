SPECIFICATION FairSpec
CONSTANTS
  SramLength = 2
  FlushDelay = 1
  Games = {"none", "game", "dsiware"}
  HostTasks = {"osd"}
  MaxIdent = 5
  None = None
INVARIANTS
  TypeOK
  NdsBufferTracksCart
  NdsProgressKept
  GbaWritesKept
  FirmwareKept
  TasksFindConsole
PROPERTIES
  PendingFlushHappens
CHECK_DEADLOCK FALSE
