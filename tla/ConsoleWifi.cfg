SPECIFICATION Spec
CONSTANTS
  Contents <- AllContents
  Settings <- AllSettings
  Disks <- WifiDisks
  MaxWrites = 4
  None = None
INVARIANTS
  NativeWifiKept
