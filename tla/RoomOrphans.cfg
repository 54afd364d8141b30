SPECIFICATION FairSpec
CONSTANTS
  Players = 3
  Frames = 0
  GamePackets <- NoPackets
  SocketCap = 3
  Probe = TRUE
  Faults = {"fork_fails", "parent_dies"}
PROPERTIES
  OrphansEnd
  ProbeRoundTrip
