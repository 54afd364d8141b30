SPECIFICATION FairSpec
CONSTANTS
  Players = 2
  Frames = 1
  GamePackets <- OneFromFirst
  SocketCap = 4
  Probe = TRUE
  Faults = {"crash", "boot_fails", "sigterm"}
INVARIANTS
  TypeOK
  InOrderOnce
  NothingLostWhileConnected
  AliveCountAgrees
  StatsAreFinal
PROPERTIES
  SwitchSpec
  RoomEnds
