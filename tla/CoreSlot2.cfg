SPECIFICATION Spec
CONSTANTS
  Scenes <- SlotScenes
  PointerReach = 4
  JoystickStep = 255
  FramesPerSecond = 3
  MaxPause = 4
  MaxIdle = 4
  Off = Off
  None = None
INVARIANTS
  SensorIgnoredWithoutSolar
