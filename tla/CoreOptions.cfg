SPECIFICATION Spec
CONSTANTS
  Features <- ReleaseBuild
  MaxValues = 7
  Decimal <- ToDecimal
  Contents <- MCContents
  OptionVersions = {0, 2}
  SwitchKeys <- MCSwitchKeys
  PathKeys <- MCPathKeys
  MaxChoices = 2
  MaxDirectories = 1
INVARIANTS
  EveryChoiceCounts
  FirmwareFits
  ConfigIsFresh
  ShownIsRelevant
CHECK_DEADLOCK FALSE
