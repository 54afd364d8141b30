SPECIFICATION Spec
CONSTANTS
  Contents <- AllContents
  Settings <- AllSettings
  Disks <- SomeDisks
  MaxWrites = 3
  None = None
INVARIANTS
  SystemFilesFit
  DsiwareSeesNewest
  GeneratedWifiKept
