SPECIFICATION Spec
CONSTANTS
  Scenes <- FallbackScenes
  PointerReach = 4
  JoystickStep = 255
  FramesPerSecond = 3
  MaxPause = 3
  MaxIdle = 4
  Off = Off
  None = None
INVARIANTS
  PictureFits
