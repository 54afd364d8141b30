----------------------------- MODULE InputState -----------------------------
(***************************************************************************)
(* InputState, src/libretro/input: the joypad, the pointer, the cursor the *)
(* two share, and the device in the console's second slot (a solar sensor  *)
(* or a rumble pak).                                                       *)
(*                                                                         *)
(* A poll is what the frontend reports of the player in a frame: the set   *)
(* of pressed buttons with a use beside the console's own keys, the right  *)
(* stick as <<x, y>> with x, y in -1..1, the pointer with its position     *)
(* (<<0, 0>> off the picture).  The stick at its end moves the cursor      *)
(* JoystickStep pixels a frame.  Of the times of last use only their order *)
(* is kept: "newer" says which device was used last.  The three devices'   *)
(* copies of the touch mode are set together and are one field.            *)
(***************************************************************************)
EXTENDS ScreenLayout

CONSTANTS
  JoystickStep,     \* pixels per frame: 15 in the code
  FramesPerSecond   \* frames per second of cursor timeout: 60 in the code

ASSUME InputAssumption ==
  /\ JoystickStep \in Nat \ {0} /\ FramesPerSecond \in Nat \ {0}

TouchModes == {"Auto", "Pointer", "Joystick"}
CursorModes == {"Never", "Touching", "Timeout", "Always"}
Buttons == {"mic", "lid", "cycle", "touch", "up", "down"}

NewInput ==
  [held |-> {}, previous |-> {}, touchButton |-> FALSE, previousTouchButton |-> FALSE,
   direction |-> <<0, 0>>, previousDirection |-> <<0, 0>>,
   pointerTouching |-> FALSE, previousPointerTouching |-> FALSE,
   rawPosition |-> <<0, 0>>, previousRawPosition |-> <<0, 0>>,
   newer |-> "same", touchMode |-> "Auto", cursorMode |-> "Never", maxTimeout |-> 0,
   dirty |-> TRUE, timeout |-> 0,
   joystickAt |-> <<0, 0>>, pointerAt |-> <<0, 0>>, hybridAt |-> <<0, 0>>,
   cursorRaw |-> <<0, 0>>, pointerTouch |-> FALSE, joypadTouch |-> FALSE,
   released |-> FALSE, consoleTouch |-> <<0, 0>>]

UsesJoystick(i) == i.touchMode \in {"Joystick", "Auto"}
UsesPointer(i) == i.touchMode \in {"Pointer", "Auto"}

(* SetConfig of the joypad, the cursor and the pointer.                    *)
SetInputConfig(i, config) ==
  [i EXCEPT !.dirty = @ \/ config.cursorMode # i.cursorMode
                        \/ config.cursorTimeout # i.maxTimeout
                        \/ config.touchMode # i.touchMode,
            !.cursorMode = config.cursorMode, !.maxTimeout = config.cursorTimeout,
            !.touchMode = config.touchMode]

(* JoypadState::Update and PointerState::Update.                           *)
JoypadUsed(i, poll) ==
  UsesJoystick(i) /\ (("touch" \in poll.held) # i.touchButton \/ poll.stick # i.direction)
PointerUsed(i, poll) ==
  UsesPointer(i) /\ (poll.pressed # i.pointerTouching \/ poll.position # i.rawPosition)

PollDevices(i, poll) ==
  LET j == UsesJoystick(i)
      p == UsesPointer(i)
      joypadUsed == JoypadUsed(i, poll)
      pointerUsed == PointerUsed(i, poll)
  IN [i EXCEPT !.previous = i.held, !.held = poll.held,
               !.previousTouchButton = i.touchButton,
               !.touchButton = IF j THEN "touch" \in poll.held ELSE @,
               !.previousDirection = i.direction, !.direction = IF j THEN poll.stick ELSE @,
               !.previousPointerTouching = i.pointerTouching,
               !.pointerTouching = IF p THEN poll.pressed ELSE @,
               !.previousRawPosition = i.rawPosition,
               !.rawPosition = IF p THEN poll.position ELSE @,
               !.newer = CASE joypadUsed /\ pointerUsed -> "same"
                           [] joypadUsed /\ ~pointerUsed -> "joypad"
                           [] pointerUsed /\ ~joypadUsed -> "pointer"
                           [] OTHER -> @]

Pressed(i, button) == button \in i.held \ i.previous

-----------------------------------------------------------------------------
(* CursorState.                                                            *)
TouchPosition(i) ==
  CASE i.touchMode = "Joystick" -> i.joystickAt
    [] i.touchMode = "Pointer" -> i.pointerAt
    [] i.touchMode = "Auto" ->
         IF i.pointerTouch THEN i.pointerAt
         ELSE IF i.joypadTouch THEN i.joystickAt
         ELSE IF i.newer = "pointer" THEN i.pointerAt ELSE i.joystickAt

IsTouching(i) ==
  \/ i.touchMode \in {"Joystick", "Auto"} /\ i.joypadTouch
  \/ i.touchMode \in {"Pointer", "Auto"} /\ i.pointerTouch

(* openBounded leaves out the first row and column.                        *)
Inside(v) == 0 < v[1] /\ v[1] < Width /\ 0 < v[2] /\ v[2] < Height

ConsoleTouchAtPointer(i, l) == OnTouchScreen(TouchPosition(i))  \* mutant of ConsoleTouchPosition
ConsoleTouchPosition(i, l) ==
  OnTouchScreen(
    IF Layout(l) \in HybridBottomLayouts /\ (l.small = "One" \/ ~Inside(TouchPosition(i)))
    THEN i.hybridAt
    ELSE TouchPosition(i))

(* CursorReleased and TouchReleased, of the devices just polled.           *)
ReleasedByBoth(i) ==  \* mutant of Released
  /\ i.previousPointerTouching /\ ~i.pointerTouching
  /\ i.previousTouchButton /\ ~i.touchButton
Released(i) ==
  \/ i.previousPointerTouching /\ ~i.pointerTouching
  \/ i.previousTouchButton /\ ~i.touchButton

PointerActive(i) ==
  i.rawPosition # i.previousRawPosition \/ i.pointerTouching # i.previousPointerTouching
JoystickActive(i) ==
  i.direction # i.previousDirection \/ i.touchButton # i.previousTouchButton

MovedJoystick(i, l, pointerAt) ==
  LET d == Turn(i.direction, l.orientation)
      from == IF i.newer = "pointer" THEN pointerAt ELSE i.joystickAt
  IN IF d = <<0, 0>> THEN i.joystickAt
     ELSE OnTouchScreen(<<from[1] + d[1] * JoystickStep, from[2] + d[2] * JoystickStep>>)

UpdateCursorDirty(i, l) ==  \* mutant of UpdateCursor: the settings stay dirty
  LET timeout == i.maxTimeout * FramesPerSecond
  IN [i EXCEPT !.joypadTouch = i.touchButton, !.pointerTouch = i.pointerTouching,
               !.released = Released(i), !.cursorRaw = i.rawPosition,
               !.timeout = IF i.cursorMode = "Timeout" /\ timeout > 0 THEN timeout - 1 ELSE timeout]
UpdateCursor(i, l) ==
  LET p == UsesPointer(i)
      j == UsesJoystick(i)
      pointerAt == IF p THEN TransformPointerInput(l, i.rawPosition) ELSE i.pointerAt
      active == i.dirty \/ (p /\ PointerActive(i)) \/ (j /\ JoystickActive(i))
      timeout == IF active THEN i.maxTimeout * FramesPerSecond ELSE i.timeout
      cursor ==
        [i EXCEPT !.dirty = FALSE, !.joypadTouch = i.touchButton, !.released = Released(i),
                  !.cursorRaw = IF p THEN i.rawPosition ELSE @,
                  !.pointerTouch = IF p THEN i.pointerTouching ELSE @,
                  !.pointerAt = pointerAt,
                  !.hybridAt = IF p THEN TransformPointerInputToHybridScreen(l, i.rawPosition)
                               ELSE @,
                  !.joystickAt = IF j THEN MovedJoystick(i, l, pointerAt) ELSE @,
                  !.timeout = IF i.cursorMode = "Timeout" /\ timeout > 0 THEN timeout - 1
                              ELSE timeout]
  IN [cursor EXCEPT !.consoleTouch = ConsoleTouchPosition(cursor, l)]

IsCursorInputInBounds(i) ==
  CASE i.touchMode = "Pointer" -> i.cursorRaw # <<0, 0>>
    [] i.touchMode = "Joystick" -> TRUE
    [] i.touchMode = "Auto" -> i.newer = "joypad" \/ i.cursorRaw # <<0, 0>>

CursorVisible(i) ==
  /\ \/ i.cursorMode = "Always"
     \/ i.cursorMode = "Touching" /\ IsTouching(i)
     \/ i.cursorMode = "Timeout" /\ i.timeout > 0
  /\ IsCursorInputInBounds(i)

(* CursorState::Apply: touch is where the console's screen is touched, or  *)
(* off when it is not.                                                     *)
ApplyCursor(i, touch, off) ==
  IF IsTouching(i) THEN i.consoleTouch ELSE IF i.released THEN off ELSE touch

-----------------------------------------------------------------------------
(* The second slot: what the core has in it, the state of a sensor, whether *)
(* the frontend's sensor is enabled, the light the cartridge was given, a   *)
(* rumble pak's timeout in half frames, whether the host's motor is on, and *)
(* whether a RumbleTask runs and a finished one waits to be cleaned up.     *)
NewSlot2 == [kind |-> "none", state |-> "Off", host |-> FALSE, level |-> {},
             pause |-> 0, rumbling |-> FALSE, task |-> FALSE, ending |-> FALSE]

(* SetSlot2Input: a sensor that takes the place of a sensor leaves the     *)
(* frontend's as it is, and one that makes room disables it if it is on.   *)
SetSlot2Input(s, cart) ==
  [s EXCEPT !.kind = IF cart \in {"solar", "rumble"} THEN cart ELSE "none",
            !.state = "Off", !.level = {}, !.pause = 0,
            !.host = @ /\ (cart = "solar" \/ s.state # "On")]

(* SolarSensorState::SetConfig; a frontend that is not ready refuses.      *)
SetSolarConfigKeeping(s, real, ready) ==  \* mutant of SetSolarConfig: the sensor is not disabled
  IF s.kind # "solar" THEN s
  ELSE IF real THEN [s EXCEPT !.host = @ \/ ready, !.state = IF ready THEN "On" ELSE "Deferred"]
  ELSE [s EXCEPT !.state = "Off"]
SetSolarConfig(s, real, ready) ==
  IF s.kind # "solar" THEN s
  ELSE IF real THEN [s EXCEPT !.host = @ \/ ready, !.state = IF ready THEN "On" ELSE "Deferred"]
  ELSE [s EXCEPT !.host = FALSE, !.state = "Off"]

(* SolarSensorState::Update, then Apply to a console that has a solar      *)
(* cartridge: a reading of the real sensor, or the buttons pressed in the  *)
(* frame, which count while it is not on.                                  *)
UpdateSolar(s, i, ready, cart) ==
  IF s.kind # "solar" THEN s
  ELSE LET state == IF s.state # "Deferred" THEN s.state
                    ELSE IF ready THEN "On" ELSE "Unavailable"
       IN [s EXCEPT !.state = state, !.host = @ \/ state = "On",
                    !.level = IF cart # "solar" THEN {} ELSE IF state = "On" THEN {"reading"}
                              ELSE {button \in {"up", "down"} : Pressed(i, button)}]

(* RumbleStart, RumbleStop and the handler of RumbleTask.                  *)
RumbleStart(s, length) ==
  IF s.kind # "rumble" THEN s ELSE [s EXCEPT !.pause = @ + length, !.rumbling = TRUE]
RumbleStop(s) == IF s.kind # "rumble" THEN s ELSE [s EXCEPT !.pause = 0, !.rumbling = FALSE]
RumbleTask(s) ==
  IF ~s.task THEN s
  ELSE LET pause == IF s.pause > 1 THEN s.pause - 1 ELSE 0
       IN [s EXCEPT !.pause = pause, !.rumbling = @ /\ pause > 0]

(* retro::task::check: the handler of a RumbleTask that runs, then the     *)
(* cleanup of one that has finished.  A cancelled one is cleaned up alike. *)
CheckTasks(s) ==
  LET handled == RumbleTask(s)
  IN [handled EXCEPT !.rumbling = @ /\ ~s.ending, !.ending = FALSE]
FinishRumbleNever(s) == s  \* mutant of FinishRumble: the old console's task goes on
FinishRumble(s) == [s EXCEPT !.task = FALSE, !.ending = @ \/ s.task]
CancelTasks(s) == [s EXCEPT !.task = FALSE, !.ending = FALSE,
                            !.rumbling = @ /\ ~s.task /\ ~s.ending]
=============================================================================
