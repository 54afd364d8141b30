SPECIFICATION Spec
CONSTANTS
  Scenes <- TouchScenes
  PointerReach = 4
  JoystickStep = 15
  FramesPerSecond = 3
  MaxPause = 3
  MaxIdle = 4
  Off = Off
  None = None
INVARIANTS
  JoystickTouchesAtCursor
