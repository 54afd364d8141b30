SPECIFICATION FairSpec
CONSTANTS
  Slot = {1}
  Input = {nothing, pressed}
  None = nothing
  Starts = 3
  Bodies = 2
INVARIANTS
  OneRunner
  StateTruthful
  InputIsFresh
PROPERTIES
  StopEnds
