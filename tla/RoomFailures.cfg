SPECIFICATION Spec
CONSTANTS
  Players = 2
  Frames = 1
  GamePackets <- NoPackets
  SocketCap = 4
  Probe = TRUE
  Faults = {"boot_fails"}
INVARIANTS
  FailuresReported
