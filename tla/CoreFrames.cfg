SPECIFICATION FairSpec
CONSTANTS
  Scenes <- MCScenes
  PointerReach = 4
  JoystickStep = 255
  FramesPerSecond = 3
  MaxPause = 4
  MaxIdle = 4
  Off = Off
  None = None
INVARIANTS
  HostMicFeedsGame
  TouchFollowsPlayer
  CursorHides
  PictureIsCurrent
  LightSensorRests
  MotorRests
PROPERTIES
  PointerTouchesWhatIsSeen
  PictureComesBack
