-------------------------- MODULE CoreFrameProofs --------------------------
(***************************************************************************)
(* A frame of the core, proved for every set of scenes: whatever settings  *)
(* the player changes to, whatever the hands, the game and the frontend    *)
(* do, and in whichever order contexts come and go.                        *)
(***************************************************************************)
EXTENDS CoreFrame, TLAPS

-----------------------------------------------------------------------------
(* The inductive invariant *)

Input ==
  [held : SUBSET Buttons, previous : SUBSET Buttons,
   touchButton : BOOLEAN, previousTouchButton : BOOLEAN,
   direction : Point, previousDirection : Point,
   pointerTouching : BOOLEAN, previousPointerTouching : BOOLEAN,
   rawPosition : Point, previousRawPosition : Point,
   newer : {"same", "joypad", "pointer"}, touchMode : TouchModes, cursorMode : CursorModes,
   maxTimeout : Nat, dirty : BOOLEAN, timeout : Nat,
   joystickAt : Point, pointerAt : Point, hybridAt : Point, cursorRaw : Point,
   pointerTouch : BOOLEAN, joypadTouch : BOOLEAN, released : BOOLEAN, consoleTouch : Point]
Slot2 ==
  [kind : {"none", "solar", "rumble"}, state : {"Off", "Deferred", "On", "Unavailable"},
   host : BOOLEAN, level : SUBSET {"reading", "up", "down"}, pause : Nat,
   rumbling : BOOLEAN, task : BOOLEAN, ending : BOOLEAN]
Mic ==
  [inputMode : InputModes, buttonMode : ButtonModes, open : BOOLEAN, active : BOOLEAN,
   shouldCapture : BOOLEAN, down : BOOLEAN]
Matrices == [k : Nat \ {0}, x : Int, y : Int]
LayoutData ==
  [dirty : BOOLEAN, scale : Nat, gap : Nat, small : {"One", "Both"}, ratio : Nat \ {0},
   layouts : Seq(Layouts) \ {<<>>}, index : Nat, orientation : 0..3, angle : 0..3,
   top : Matrices, bottom : Matrices, hybrid : Matrices, size : Point]
Screens == SUBSET [screen : {"top", "bottom"}, at : Matrices]
RenderData ==
  [kind : {"none", "Software", "OpenGl"}, ready : BOOLEAN, needsRefresh : BOOLEAN,
   vertices : Screens, scale : Nat]
GeometryData == [base : Point, max : Point]
Parts ==
  [input : Input, slot2 : Slot2, mic : Mic, layout : LayoutData, render : RenderData,
   console : Console \cup {None}, told : GeometryData]

TypeOK ==
  /\ phase \in {"out", "running", "stopped"} /\ scene \in DOMAIN Scenes
  /\ config \in here.configs /\ pending \in BOOLEAN
  /\ State \in Parts
  /\ layout.index < Len(layout.layouts) /\ (phase # "out" => layout.scale > 0)
  /\ hand \in [poll : Poll, changed : BOOLEAN, drew : BOOLEAN]
  /\ steady \in BOOLEAN /\ idle \in Nat /\ due \in Nat

\* Outside a session everything is new.
SessionFollows ==
  IF phase = "out"
  THEN /\ input = NewInput /\ slot2 = NewSlot2 /\ mic = NewMicrophone
       /\ layout = NewLayout /\ render = NoRenderState /\ console = None
       /\ ~pending /\ ~hand.drew /\ steady /\ idle = 0 /\ due = 0
  ELSE console # None

\* What the core has in the second slot of a console with a cartridge fits that; a
\* sensor is on only for a player who asks for it; and a motor that is on has a task
\* that will turn it off.
KindOf(cart) == IF cart \in {"solar", "rumble"} THEN cart ELSE "none"

SlotFits(x, cart, real) ==
  /\ cart # "absent" => x.kind = KindOf(cart)
  /\ x.task <=> cart = "rumble"
  /\ x.host => x.state = "On"
  /\ x.state \in {"On", "Deferred"} => x.kind = "solar" /\ real
  /\ x.rumbling => x.task \/ x.ending

\* The motor's timeout is what the game has asked for and not had.
Slot2Follows ==
  phase # "out" =>
    /\ SlotFits(slot2, console.cart, config.realSensor)
    /\ console.cart = "rumble" => slot2.pause = due
    /\ hand.drew => ~slot2.ending
    /\ hand.drew /\ slot2.rumbling => slot2.pause > 0

\* The cursor knows what the devices last said, unless its settings changed since.
CursorFollows ==
  /\ input.joypadTouch = input.touchButton /\ input.pointerTouch = input.pointerTouching
  /\ phase # "out" =>
       /\ input.touchMode = config.touchMode /\ input.cursorMode = config.cursorMode
       /\ input.maxTimeout = config.cursorTimeout
       /\ IF input.dirty THEN idle = 0 /\ console.touch = Off /\ ~hand.drew
          ELSE /\ UsesJoystick(input) =>
                    /\ input.touchButton = ("touch" \in hand.poll.held)
                    /\ input.direction = hand.poll.stick
               /\ UsesPointer(input) =>
                    /\ input.pointerTouching = hand.poll.pressed
                    /\ input.rawPosition = hand.poll.position
               /\ input.cursorMode = "Timeout" /\ input.timeout > 0 =>
                    input.timeout + idle <= input.maxTimeout * FramesPerSecond
       /\ steady /\ console.touch # Off => IsTouching(input)
       /\ hand.drew /\ IsTouching(input) => console.touch # Off

\* The matrices and the size are the present layout's.
LaidFor(l, told_) ==
  /\ l.top = TopScreenMatrix(l) /\ l.bottom = BottomScreenMatrix(l)
  /\ l.hybrid = HybridScreenMatrix(l) /\ told_.base = l.size

\* What was drawn or told of the layout is of the present one, or will be anew.
LayoutFollows == phase # "out" => layout.dirty \/ LaidFor(layout, told)

RenderFollows ==
  phase = "running" =>
    /\ render.kind \in {"Software", "OpenGl"} /\ (render.kind = "Software" => render.ready)
    /\ IF pending THEN render.kind = "OpenGl"
       ELSE render.kind = "OpenGl" <=> console.renderer = "gl"
    /\ render.kind = "OpenGl" /\ render.ready =>
         \/ layout.dirty \/ render.needsRefresh \/ render.scale # config.scale
         \/ render.vertices = InitVertices(layout)

IInv ==
  /\ TypeOK /\ SessionFollows /\ HostMicFeedsGame /\ Slot2Follows /\ CursorFollows
  /\ LayoutFollows /\ RenderFollows /\ PictureIsCurrent

-----------------------------------------------------------------------------
(* The devices *)

LEMMA ChosenBoolean ==
  ASSUME NEW c, NEW x \in BOOLEAN, NEW y \in BOOLEAN
  PROVE  (IF c THEN x ELSE y) \in BOOLEAN
  OBVIOUS

\* A poll is read by the devices of the present touch mode; what each held before
\* is kept beside it.
LEMMA PolledDevices ==
  ASSUME NEW i \in Input, NEW poll \in Poll
  PROVE  /\ PollDevices(i, poll) \in Input
         /\ PollDevices(i, poll).held = poll.held
         /\ PollDevices(i, poll).touchButton
              = IF UsesJoystick(i) THEN "touch" \in poll.held ELSE i.touchButton
         /\ PollDevices(i, poll).direction = IF UsesJoystick(i) THEN poll.stick ELSE i.direction
         /\ PollDevices(i, poll).pointerTouching
              = IF UsesPointer(i) THEN poll.pressed ELSE i.pointerTouching
         /\ PollDevices(i, poll).rawPosition
              = IF UsesPointer(i) THEN poll.position ELSE i.rawPosition
         /\ PollDevices(i, poll).previousTouchButton = i.touchButton
         /\ PollDevices(i, poll).previousDirection = i.direction
         /\ PollDevices(i, poll).previousPointerTouching = i.pointerTouching
         /\ PollDevices(i, poll).previousRawPosition = i.rawPosition
         /\ PollDevices(i, poll).touchMode = i.touchMode
         /\ PollDevices(i, poll).cursorMode = i.cursorMode
         /\ PollDevices(i, poll).maxTimeout = i.maxTimeout
         /\ PollDevices(i, poll).dirty = i.dirty /\ PollDevices(i, poll).timeout = i.timeout
         /\ PollDevices(i, poll).joypadTouch = i.joypadTouch
         /\ PollDevices(i, poll).pointerTouch = i.pointerTouch
<1> DEFINE button == IF UsesJoystick(i) THEN "touch" \in poll.held ELSE i.touchButton
           stick == IF UsesJoystick(i) THEN poll.stick ELSE i.direction
           pressed == IF UsesPointer(i) THEN poll.pressed ELSE i.pointerTouching
           position == IF UsesPointer(i) THEN poll.position ELSE i.rawPosition
           newer == CASE JoypadUsed(i, poll) /\ PointerUsed(i, poll) -> "same"
                      [] JoypadUsed(i, poll) /\ ~PointerUsed(i, poll) -> "joypad"
                      [] PointerUsed(i, poll) /\ ~JoypadUsed(i, poll) -> "pointer"
                      [] OTHER -> i.newer
           r == PollDevices(i, poll)
<1>1. newer \in {"same", "joypad", "pointer"} /\ i.touchButton \in BOOLEAN
  BY DEF Input
<1>2. ("touch" \in poll.held) \in BOOLEAN
  OBVIOUS
<1>3. button \in BOOLEAN
  BY <1>1, <1>2, ChosenBoolean, Zenon
<1>4. stick \in Point /\ pressed \in BOOLEAN /\ position \in Point /\ poll.held \in SUBSET Buttons
  BY DEF Input, Poll
<1>5. r = [i EXCEPT !.previous = i.held, !.held = poll.held,
             !.previousTouchButton = i.touchButton, !.touchButton = button,
             !.previousDirection = i.direction, !.direction = stick,
             !.previousPointerTouching = i.pointerTouching, !.pointerTouching = pressed,
             !.previousRawPosition = i.rawPosition, !.rawPosition = position, !.newer = newer]
  BY DEF PollDevices
<1> HIDE DEF button, stick, pressed, position, newer, r
<1>6. /\ r.held = poll.held /\ r.previous = i.held
      /\ r.previousTouchButton = i.touchButton /\ r.touchButton = button
      /\ r.previousDirection = i.direction /\ r.direction = stick
      /\ r.previousPointerTouching = i.pointerTouching /\ r.pointerTouching = pressed
      /\ r.previousRawPosition = i.rawPosition /\ r.rawPosition = position /\ r.newer = newer
  BY <1>5 DEF Input
<1>7. /\ r.touchMode = i.touchMode /\ r.cursorMode = i.cursorMode
      /\ r.maxTimeout = i.maxTimeout /\ r.dirty = i.dirty /\ r.timeout = i.timeout
      /\ r.joystickAt = i.joystickAt /\ r.pointerAt = i.pointerAt /\ r.hybridAt = i.hybridAt
      /\ r.cursorRaw = i.cursorRaw /\ r.pointerTouch = i.pointerTouch
      /\ r.joypadTouch = i.joypadTouch /\ r.released = i.released
      /\ r.consoleTouch = i.consoleTouch
  BY <1>5 DEF Input
<1>8. r = [held |-> r.held, previous |-> r.previous, touchButton |-> r.touchButton,
            previousTouchButton |-> r.previousTouchButton, direction |-> r.direction,
            previousDirection |-> r.previousDirection, pointerTouching
            |-> r.pointerTouching, previousPointerTouching |-> r.previousPointerTouching,
            rawPosition |-> r.rawPosition, previousRawPosition |-> r.previousRawPosition,
            newer |-> r.newer, touchMode |-> r.touchMode, cursorMode |-> r.cursorMode,
            maxTimeout |-> r.maxTimeout, dirty |-> r.dirty, timeout |-> r.timeout,
            joystickAt |-> r.joystickAt, pointerAt |-> r.pointerAt, hybridAt |-> r.hybridAt,
            cursorRaw |-> r.cursorRaw, pointerTouch |-> r.pointerTouch, joypadTouch
            |-> r.joypadTouch, released |-> r.released, consoleTouch |-> r.consoleTouch]
  BY <1>5 DEF Input
<1>9. r \in Input
  BY <1>1, <1>3, <1>4, <1>6, <1>7, <1>8 DEF Input
<1> QED BY <1>6, <1>7, <1>9 DEF r, button, stick, pressed, position

LEMMA ProductIsPositive ==
  ASSUME NEW a \in Nat \ {0}, NEW b \in Nat \ {0}
  PROVE  a * b \in Nat \ {0}
  OBVIOUS

LEMMA TurnedPoint ==
  ASSUME NEW v \in Point, NEW quarters \in 0..3
  PROVE  Turn(v, quarters) \in Point
<1>1. v[1] \in Int /\ v[2] \in Int
  BY DEF Point
<1>2. <<-v[2], v[1]>> \in Point /\ <<-v[1], -v[2]>> \in Point /\ <<v[2], -v[1]>> \in Point
  BY <1>1 DEF Point
<1> QED BY <1>2 DEF Turn

\* No matrix has the scale 0, so a position on the picture is one on the screen.
LEMMA ThroughPoint ==
  ASSUME NEW l \in LayoutData, NEW raw \in Point, NEW m \in Matrices
  PROVE  Through(l, raw, m) \in Point
<1> DEFINE v == Turn(raw, l.angle)
           d == 2 * PointerReach * m.k
           On(axis, offset) ==
             Truncated(l.size[axis] * (PointerReach + v[axis]) - 2 * PointerReach * offset, d)
<1>1. v[1] \in Int /\ v[2] \in Int
  BY TurnedPoint DEF LayoutData, Point
<1>2. l.size[1] \in Int /\ l.size[2] \in Int
  BY DEF LayoutData, Point
<1>3. m.k \in Nat \ {0} /\ m.x \in Int /\ m.y \in Int
  BY DEF Matrices
<1>4. PointerReach \in Nat \ {0} /\ 2 * PointerReach \in Nat \ {0}
  BY PointerReachAssumption
<1>5. d \in Nat \ {0}
  BY <1>3, <1>4, ProductIsPositive
<1>6. ASSUME NEW a \in Int  PROVE Truncated(a, d) \in Int
  <2> HIDE DEF d
  <2> QED BY <1>5 DEF Truncated
<1>7. ASSUME NEW a \in Int, NEW b \in Int, NEW c \in Int
      PROVE  a * (PointerReach + b) - 2 * PointerReach * c \in Int
  BY <1>4
<1> HIDE DEF d, v
<1>8. On(1, m.x) \in Int
  BY <1>1, <1>2, <1>3, <1>6, <1>7
<1>9. On(2, m.y) \in Int
  BY <1>1, <1>2, <1>3, <1>6, <1>7
<1> HIDE DEF On
<1>10. Through(l, raw, m) = <<On(1, m.x), On(2, m.y)>>
  BY DEF Through, On, d, v
<1> QED BY <1>8, <1>9, <1>10 DEF Point

LEMMA OnTouchScreenPoint ==
  ASSUME NEW x \in Int, NEW y \in Int
  PROVE  OnTouchScreen(<<x, y>>) \in Point
  BY DEF OnTouchScreen, ClampedTo, Width, Height, Point

LEMMA ClampedPoint ==
  ASSUME NEW v \in Point
  PROVE  OnTouchScreen(v) \in Point
  BY DEF OnTouchScreen, ClampedTo, Width, Height, Point

LEMMA MovedPoint ==
  ASSUME NEW i \in Input, NEW l \in LayoutData, NEW at \in Point
  PROVE  MovedJoystick(i, l, at) \in Point
<1> DEFINE d == Turn(i.direction, l.orientation)
           from == IF i.newer = "pointer" THEN at ELSE i.joystickAt
<1>1. i.direction \in Point /\ i.joystickAt \in Point /\ l.orientation \in 0..3
  BY DEF Input, LayoutData
<1>2. d \in Point /\ from \in Point
  BY <1>1, TurnedPoint
<1> HIDE DEF d, from
<1>3. d[1] \in Int /\ d[2] \in Int /\ from[1] \in Int /\ from[2] \in Int
  BY <1>2 DEF Point
<1>4. JoystickStep \in Int
  BY InputAssumption
<1>5. from[1] + d[1] * JoystickStep \in Int /\ from[2] + d[2] * JoystickStep \in Int
  BY <1>3, <1>4
<1>6. OnTouchScreen(<<from[1] + d[1] * JoystickStep, from[2] + d[2] * JoystickStep>>) \in Point
  BY <1>5, OnTouchScreenPoint
<1> QED BY <1>1, <1>6 DEF MovedJoystick, d, from

LEMMA TouchPositionPoint ==
  ASSUME NEW i \in Input, NEW l \in LayoutData
  PROVE  ConsoleTouchPosition(i, l) \in Point
<1>1. /\ i.touchMode \in {"Auto", "Pointer", "Joystick"} /\ i.joystickAt \in Point
      /\ i.pointerAt \in Point /\ i.hybridAt \in Point
  BY DEF Input, TouchModes
<1>2. TouchPosition(i) \in Point
  BY <1>1 DEF TouchPosition
<1> QED BY <1>1, <1>2, ClampedPoint DEF ConsoleTouchPosition

\* After its update the cursor holds what the devices hold; it is idle no longer
\* than its timeout says, and starts anew if a device in use was used.
LEMMA UpdatedCursor ==
  ASSUME NEW i \in Input, NEW l \in LayoutData
  PROVE  /\ UpdateCursor(i, l) \in Input
         /\ UpdateCursor(i, l).held = i.held /\ UpdateCursor(i, l).previous = i.previous
         /\ UpdateCursor(i, l).touchButton = i.touchButton
         /\ UpdateCursor(i, l).direction = i.direction
         /\ UpdateCursor(i, l).pointerTouching = i.pointerTouching
         /\ UpdateCursor(i, l).rawPosition = i.rawPosition
         /\ UpdateCursor(i, l).touchMode = i.touchMode
         /\ UpdateCursor(i, l).cursorMode = i.cursorMode
         /\ UpdateCursor(i, l).maxTimeout = i.maxTimeout
         /\ ~UpdateCursor(i, l).dirty
         /\ UpdateCursor(i, l).joypadTouch = i.touchButton
         /\ UpdateCursor(i, l).pointerTouch
              = IF UsesPointer(i) THEN i.pointerTouching ELSE i.pointerTouch
         /\ UpdateCursor(i, l).released = Released(i)
         /\ LET active == \/ i.dirty
                          \/ UsesPointer(i) /\ PointerActive(i)
                          \/ UsesJoystick(i) /\ JoystickActive(i)
                timeout == IF active THEN i.maxTimeout * FramesPerSecond ELSE i.timeout
            IN UpdateCursor(i, l).timeout
                 = IF i.cursorMode = "Timeout" /\ timeout > 0 THEN timeout - 1 ELSE timeout
<1> DEFINE p == UsesPointer(i)
           j == UsesJoystick(i)
           transformed == TransformPointerInput(l, i.rawPosition)
           hybrid == TransformPointerInputToHybridScreen(l, i.rawPosition)
           at == IF p THEN transformed ELSE i.pointerAt
           hybridAt == IF p THEN hybrid ELSE i.hybridAt
           stickAt == IF j THEN MovedJoystick(i, l, at) ELSE i.joystickAt
           raw == IF p THEN i.rawPosition ELSE i.cursorRaw
           touch == IF p THEN i.pointerTouching ELSE i.pointerTouch
           active == i.dirty \/ (p /\ PointerActive(i)) \/ (j /\ JoystickActive(i))
           timeout == IF active THEN i.maxTimeout * FramesPerSecond ELSE i.timeout
           left == IF i.cursorMode = "Timeout" /\ timeout > 0 THEN timeout - 1 ELSE timeout
           released == Released(i)
           c == [i EXCEPT !.dirty = FALSE, !.joypadTouch = i.touchButton, !.released = released,
                          !.cursorRaw = raw, !.pointerTouch = touch, !.pointerAt = at,
                          !.hybridAt = hybridAt, !.joystickAt = stickAt, !.timeout = left]
           r == UpdateCursor(i, l)
<1>1. /\ i.rawPosition \in Point /\ i.pointerAt \in Point /\ i.hybridAt \in Point
      /\ i.joystickAt \in Point /\ i.cursorRaw \in Point
      /\ i.touchButton \in BOOLEAN /\ i.pointerTouching \in BOOLEAN
      /\ i.pointerTouch \in BOOLEAN /\ i.timeout \in Nat /\ i.maxTimeout \in Nat
  BY DEF Input
<1>2. l.bottom \in Matrices /\ l.hybrid \in Matrices
  BY DEF LayoutData
<1>3. transformed \in Point /\ hybrid \in Point
  BY <1>1, <1>2, ThroughPoint DEF TransformPointerInput, TransformPointerInputToHybridScreen
<1>4. at \in Point /\ hybridAt \in Point
  <2> HIDE DEF transformed, hybrid
  <2> QED BY <1>1, <1>3
<1>5. stickAt \in Point
  <2> HIDE DEF at
  <2> QED BY <1>1, <1>4, MovedPoint
<1>6. timeout \in Nat
  <2>1. i.maxTimeout * FramesPerSecond \in Nat
    BY <1>1, InputAssumption
  <2> QED BY <1>1, <2>1
<1>7. left \in Nat
  <2> HIDE DEF timeout
  <2> QED BY <1>6
<1>8. released \in BOOLEAN /\ raw \in Point /\ touch \in BOOLEAN
  BY <1>1 DEF Released
<1>c. c = [i EXCEPT !.dirty = FALSE, !.joypadTouch = i.touchButton, !.released = released,
                !.cursorRaw = raw, !.pointerTouch = touch, !.pointerAt = at,
                !.hybridAt = hybridAt, !.joystickAt = stickAt, !.timeout = left]
  OBVIOUS
<1>9. r = [c EXCEPT !.consoleTouch = ConsoleTouchPosition(c, l)]
  BY DEF UpdateCursor
<1> HIDE DEF p, j, at, hybridAt, stickAt, raw, touch, active, timeout, left, released, c, r
<1>10. /\ c.dirty = FALSE /\ c.joypadTouch = i.touchButton /\ c.released = released
       /\ c.cursorRaw = raw /\ c.pointerTouch = touch /\ c.pointerAt = at
       /\ c.hybridAt = hybridAt /\ c.joystickAt = stickAt /\ c.timeout = left
  BY <1>c DEF Input
<1>11. /\ c.held = i.held /\ c.previous = i.previous /\ c.touchButton = i.touchButton
       /\ c.previousTouchButton = i.previousTouchButton /\ c.direction = i.direction
       /\ c.previousDirection = i.previousDirection /\ c.pointerTouching = i.pointerTouching
       /\ c.previousPointerTouching = i.previousPointerTouching
       /\ c.rawPosition = i.rawPosition /\ c.previousRawPosition = i.previousRawPosition
       /\ c.newer = i.newer /\ c.touchMode = i.touchMode /\ c.cursorMode = i.cursorMode
       /\ c.maxTimeout = i.maxTimeout /\ c.consoleTouch = i.consoleTouch
  BY <1>c DEF Input
<1>12. c = [held |-> c.held, previous |-> c.previous, touchButton |-> c.touchButton,
            previousTouchButton |-> c.previousTouchButton, direction |-> c.direction,
            previousDirection |-> c.previousDirection, pointerTouching
            |-> c.pointerTouching, previousPointerTouching |-> c.previousPointerTouching,
            rawPosition |-> c.rawPosition, previousRawPosition |-> c.previousRawPosition,
            newer |-> c.newer, touchMode |-> c.touchMode, cursorMode |-> c.cursorMode,
            maxTimeout |-> c.maxTimeout, dirty |-> c.dirty, timeout |-> c.timeout,
            joystickAt |-> c.joystickAt, pointerAt |-> c.pointerAt, hybridAt |-> c.hybridAt,
            cursorRaw |-> c.cursorRaw, pointerTouch |-> c.pointerTouch, joypadTouch
            |-> c.joypadTouch, released |-> c.released, consoleTouch |-> c.consoleTouch]
  BY <1>c DEF Input
<1>13. c \in Input
  BY <1>1, <1>4, <1>5, <1>7, <1>8, <1>10, <1>11, <1>12 DEF Input
<1>14. ConsoleTouchPosition(c, l) \in Point
  BY <1>13, TouchPositionPoint
<1>15. r \in Input
  BY <1>9, <1>13, <1>14 DEF Input
<1>16. /\ r.dirty = c.dirty /\ r.joypadTouch = c.joypadTouch /\ r.released = c.released
       /\ r.pointerTouch = c.pointerTouch /\ r.timeout = c.timeout
       /\ r.held = c.held /\ r.previous = c.previous /\ r.touchButton = c.touchButton
       /\ r.direction = c.direction /\ r.pointerTouching = c.pointerTouching
       /\ r.rawPosition = c.rawPosition /\ r.touchMode = c.touchMode
       /\ r.cursorMode = c.cursorMode /\ r.maxTimeout = c.maxTimeout
  BY <1>9, <1>13 DEF Input
<1>17. r.timeout = left /\ r.released = released /\ r.pointerTouch = touch /\ ~r.dirty
  BY <1>10, <1>16
<1>18. /\ r.held = i.held /\ r.previous = i.previous /\ r.touchButton = i.touchButton
       /\ r.direction = i.direction /\ r.pointerTouching = i.pointerTouching
       /\ r.rawPosition = i.rawPosition /\ r.touchMode = i.touchMode
       /\ r.cursorMode = i.cursorMode /\ r.maxTimeout = i.maxTimeout
       /\ r.joypadTouch = i.touchButton
  BY <1>10, <1>11, <1>16
<1>19. r.pointerTouch = IF UsesPointer(i) THEN i.pointerTouching ELSE i.pointerTouch
  BY <1>17 DEF touch, p
<1>20. r.released = Released(i)
  BY <1>17 DEF released
<1>21. LET active_ == \/ i.dirty
                      \/ UsesPointer(i) /\ PointerActive(i)
                      \/ UsesJoystick(i) /\ JoystickActive(i)
           timeout_ == IF active_ THEN i.maxTimeout * FramesPerSecond ELSE i.timeout
       IN r.timeout = IF i.cursorMode = "Timeout" /\ timeout_ > 0 THEN timeout_ - 1 ELSE timeout_
  BY <1>17 DEF left, timeout, active, p, j
<1> QED BY <1>15, <1>17, <1>18, <1>19, <1>20, <1>21 DEF r

\* New settings of the cursor count as a use of it.
LEMMA ConfiguredInput ==
  ASSUME NEW i \in Input, NEW cfg \in Config
  PROVE  /\ SetInputConfig(i, cfg) \in Input
         /\ SetInputConfig(i, cfg).touchMode = cfg.touchMode
         /\ SetInputConfig(i, cfg).cursorMode = cfg.cursorMode
         /\ SetInputConfig(i, cfg).maxTimeout = cfg.cursorTimeout
         /\ SetInputConfig(i, cfg).dirty
              = \/ i.dirty \/ cfg.cursorMode # i.cursorMode
                \/ cfg.cursorTimeout # i.maxTimeout \/ cfg.touchMode # i.touchMode
         /\ SetInputConfig(i, cfg).held = i.held
         /\ SetInputConfig(i, cfg).timeout = i.timeout
         /\ SetInputConfig(i, cfg).touchButton = i.touchButton
         /\ SetInputConfig(i, cfg).direction = i.direction
         /\ SetInputConfig(i, cfg).pointerTouching = i.pointerTouching
         /\ SetInputConfig(i, cfg).rawPosition = i.rawPosition
         /\ SetInputConfig(i, cfg).joypadTouch = i.joypadTouch
         /\ SetInputConfig(i, cfg).pointerTouch = i.pointerTouch
<1> DEFINE dirty == \/ i.dirty \/ cfg.cursorMode # i.cursorMode
                    \/ cfg.cursorTimeout # i.maxTimeout \/ cfg.touchMode # i.touchMode
           r == SetInputConfig(i, cfg)
<1>1. /\ cfg.cursorMode \in CursorModes /\ cfg.cursorTimeout \in Nat
      /\ cfg.touchMode \in TouchModes
  BY DEF Config
<1>2. dirty \in BOOLEAN
  BY DEF Input
<1>3. r = [i EXCEPT !.dirty = dirty, !.cursorMode = cfg.cursorMode,
                    !.maxTimeout = cfg.cursorTimeout, !.touchMode = cfg.touchMode]
  BY DEF SetInputConfig
<1> HIDE DEF dirty, r
<1>4. r \in Input
  BY <1>1, <1>2, <1>3 DEF Input
<1>5. /\ r.touchMode = cfg.touchMode /\ r.cursorMode = cfg.cursorMode
      /\ r.maxTimeout = cfg.cursorTimeout /\ r.dirty = dirty
      /\ r.held = i.held /\ r.timeout = i.timeout /\ r.touchButton = i.touchButton
      /\ r.direction = i.direction /\ r.pointerTouching = i.pointerTouching
      /\ r.rawPosition = i.rawPosition /\ r.joypadTouch = i.joypadTouch
      /\ r.pointerTouch = i.pointerTouch
  BY <1>3 DEF Input
<1> QED BY <1>4, <1>5 DEF dirty, r

\* The frame's reading of the devices: the cursor holds what the player does, a
\* touch that ended is seen to end, and a device in use restarts the timeout.
LEMMA ReadCursor ==
  ASSUME NEW i \in Input, NEW poll \in Poll, NEW l \in LayoutData, NEW r,
         r = UpdateCursor(PollDevices(i, poll), l),
         i.joypadTouch = i.touchButton, i.pointerTouch = i.pointerTouching
  PROVE  /\ r \in Input /\ ~r.dirty
         /\ r.touchMode = i.touchMode /\ r.cursorMode = i.cursorMode
         /\ r.maxTimeout = i.maxTimeout
         /\ r.joypadTouch = r.touchButton /\ r.pointerTouch = r.pointerTouching
         /\ UsesJoystick(r) =>
              r.touchButton = ("touch" \in poll.held) /\ r.direction = poll.stick
         /\ UsesPointer(r) =>
              r.pointerTouching = poll.pressed /\ r.rawPosition = poll.position
         /\ IsTouching(i) => IsTouching(r) \/ r.released
         /\ LET used == i.dirty \/ JoypadUsed(i, poll) \/ PointerUsed(i, poll)
                timeout == IF used THEN i.maxTimeout * FramesPerSecond ELSE i.timeout
            IN r.timeout
                 = IF i.cursorMode = "Timeout" /\ timeout > 0 THEN timeout - 1 ELSE timeout
<1> DEFINE d == PollDevices(i, poll)
<1>1. /\ d \in Input /\ d.touchMode = i.touchMode /\ d.cursorMode = i.cursorMode
      /\ d.maxTimeout = i.maxTimeout /\ d.dirty = i.dirty /\ d.timeout = i.timeout
      /\ d.previousTouchButton = i.touchButton /\ d.previousDirection = i.direction
      /\ d.previousPointerTouching = i.pointerTouching
      /\ d.previousRawPosition = i.rawPosition
      /\ d.pointerTouch = i.pointerTouch
  BY PolledDevices
<1>2. /\ d.touchButton = IF UsesJoystick(i) THEN "touch" \in poll.held ELSE i.touchButton
      /\ d.direction = IF UsesJoystick(i) THEN poll.stick ELSE i.direction
      /\ d.pointerTouching = IF UsesPointer(i) THEN poll.pressed ELSE i.pointerTouching
      /\ d.rawPosition = IF UsesPointer(i) THEN poll.position ELSE i.rawPosition
  BY PolledDevices, Zenon
<1> HIDE DEF d
<1>3. /\ r \in Input /\ ~r.dirty /\ r.touchMode = d.touchMode /\ r.cursorMode = d.cursorMode
      /\ r.maxTimeout = d.maxTimeout /\ r.touchButton = d.touchButton
      /\ r.direction = d.direction /\ r.pointerTouching = d.pointerTouching
      /\ r.rawPosition = d.rawPosition /\ r.joypadTouch = d.touchButton
      /\ r.pointerTouch = (IF UsesPointer(d) THEN d.pointerTouching ELSE d.pointerTouch)
      /\ r.released = Released(d)
  BY <1>1, UpdatedCursor DEF d
<1>4. LET active == \/ d.dirty
                    \/ UsesPointer(d) /\ PointerActive(d)
                    \/ UsesJoystick(d) /\ JoystickActive(d)
          timeout == IF active THEN d.maxTimeout * FramesPerSecond ELSE d.timeout
      IN r.timeout = IF d.cursorMode = "Timeout" /\ timeout > 0 THEN timeout - 1 ELSE timeout
  BY <1>1, UpdatedCursor, Zenon DEF d
<1>5. /\ UsesJoystick(d) = UsesJoystick(i) /\ UsesPointer(d) = UsesPointer(i)
      /\ UsesJoystick(r) = UsesJoystick(i) /\ UsesPointer(r) = UsesPointer(i)
  BY <1>1, <1>3 DEF UsesJoystick, UsesPointer
<1>6. r.pointerTouch = r.pointerTouching /\ r.joypadTouch = r.touchButton
  BY <1>1, <1>2, <1>3, <1>5
<1>7. UsesJoystick(r) => r.touchButton = ("touch" \in poll.held) /\ r.direction = poll.stick
  BY <1>2, <1>3, <1>5
<1>8. UsesPointer(r) => r.pointerTouching = poll.pressed /\ r.rawPosition = poll.position
  BY <1>2, <1>3, <1>5
<1>9. IsTouching(i) => IsTouching(r) \/ r.released
  <2>1. IsTouching(i) = \/ UsesJoystick(i) /\ i.touchButton
                        \/ UsesPointer(i) /\ i.pointerTouching
    BY DEF IsTouching, UsesJoystick, UsesPointer
  <2>2. IsTouching(r) = \/ UsesJoystick(i) /\ r.touchButton
                        \/ UsesPointer(i) /\ r.pointerTouching
    BY <1>5, <1>6 DEF IsTouching, UsesJoystick, UsesPointer
  <2>3. r.released = \/ i.pointerTouching /\ ~r.pointerTouching
                     \/ i.touchButton /\ ~r.touchButton
    BY <1>1, <1>3 DEF Released
  <2> QED BY <2>1, <2>2, <2>3
<1>10. (UsesJoystick(d) /\ JoystickActive(d)) = JoypadUsed(i, poll)
  <2>1. CASE UsesJoystick(i)
    BY <2>1, <1>1, <1>2, <1>5 DEF JoystickActive, JoypadUsed
  <2>2. CASE ~UsesJoystick(i)
    BY <2>2, <1>5 DEF JoypadUsed
  <2> QED BY <2>1, <2>2
<1>11. (UsesPointer(d) /\ PointerActive(d)) = PointerUsed(i, poll)
  <2>1. CASE UsesPointer(i)
    BY <2>1, <1>1, <1>2, <1>5 DEF PointerActive, PointerUsed
  <2>2. CASE ~UsesPointer(i)
    BY <2>2, <1>5 DEF PointerUsed
  <2> QED BY <2>1, <2>2
<1>12. LET used == i.dirty \/ JoypadUsed(i, poll) \/ PointerUsed(i, poll)
           timeout == IF used THEN i.maxTimeout * FramesPerSecond ELSE i.timeout
       IN r.timeout = IF i.cursorMode = "Timeout" /\ timeout > 0 THEN timeout - 1 ELSE timeout
  BY <1>1, <1>4, <1>10, <1>11
<1> QED BY <1>1, <1>3, <1>6, <1>7, <1>8, <1>9, <1>12

-----------------------------------------------------------------------------
(* The second slot and the microphone *)

Slotted(s, cart) == [SetSlot2Input(s, cart) EXCEPT !.task = cart = "rumble"]

LEMMA SlottedSlot2 ==
  ASSUME NEW s \in Slot2, NEW cart \in Carts, cart # "absent", s.host => s.state = "On",
         NEW r, r = Slotted(s, cart)
  PROVE  /\ r \in Slot2 /\ r.kind = KindOf(cart) /\ r.state = "Off"
         /\ r.rumbling = s.rumbling /\ r.ending = s.ending /\ r.pause = 0
         /\ r.task = (cart = "rumble") /\ r.host = (s.host /\ cart = "solar")
<1> DEFINE a == SetSlot2Input(s, cart)
<1>1. /\ (s.host /\ (cart = "solar" \/ s.state # "On")) \in BOOLEAN
      /\ (s.host /\ (cart = "solar" \/ s.state # "On")) = (s.host /\ cart = "solar")
      /\ (cart = "rumble") \in BOOLEAN
  OBVIOUS
<1>2. KindOf(cart) \in {"none", "solar", "rumble"}
  BY DEF KindOf
<1>3. /\ a \in Slot2 /\ a.kind = KindOf(cart) /\ a.state = "Off" /\ a.pause = 0
      /\ a.rumbling = s.rumbling /\ a.ending = s.ending
      /\ a.host = (s.host /\ cart = "solar")
  <2>1. a = [s EXCEPT !.kind = KindOf(cart), !.state = "Off", !.level = {}, !.pause = 0,
                      !.host = s.host /\ (cart = "solar" \/ s.state # "On")]
    BY DEF SetSlot2Input, KindOf, Slot2
  <2> HIDE DEF a
  <2> QED BY <1>1, <1>2, <2>1 DEF Slot2
<1> HIDE DEF a
<1>4. r = [a EXCEPT !.task = cart = "rumble"]
  BY DEF a, Slotted
<1> QED BY <1>1, <1>3, <1>4 DEF Slot2

LEMMA ConfiguredSlot2 ==
  ASSUME NEW s \in Slot2, NEW real \in BOOLEAN, NEW ready \in BOOLEAN, NEW r,
         r = SetSolarConfig(s, real, ready), s.host => ready /\ s.kind = "solar"
  PROVE  /\ r \in Slot2 /\ r.kind = s.kind /\ r.rumbling = s.rumbling /\ r.task = s.task
         /\ r.ending = s.ending /\ r.pause = s.pause /\ (r.host => ready)
         /\ s.kind = "solar" =>
              (r.host => r.state = "On") /\ (r.state \in {"On", "Deferred"} => real)
         /\ s.kind # "solar" => r = s
  BY DEF SetSolarConfig, Slot2

\* New settings keep what fits.
LEMMA ConfiguredFits ==
  ASSUME NEW s \in Slot2, NEW cart, NEW old, NEW real \in BOOLEAN, NEW ready \in BOOLEAN,
         SlotFits(s, cart, old), s.host => ready, NEW r, r = SetSolarConfig(s, real, ready)
  PROVE  SlotFits(r, cart, real) /\ r.pause = s.pause
<1>1. s.host => ready /\ s.kind = "solar"
  BY DEF SlotFits
<1>2. /\ r \in Slot2 /\ r.kind = s.kind /\ r.rumbling = s.rumbling /\ r.task = s.task
      /\ r.ending = s.ending /\ r.pause = s.pause
      /\ s.kind = "solar" =>
           (r.host => r.state = "On") /\ (r.state \in {"On", "Deferred"} => real)
      /\ s.kind # "solar" => r = s
  BY <1>1, ConfiguredSlot2
<1>3. CASE s.kind = "solar"
  BY <1>2, <1>3 DEF SlotFits
<1>4. CASE s.kind # "solar"
  BY <1>2, <1>4 DEF SlotFits
<1> QED BY <1>2, <1>3, <1>4

LEMMA UpdatedSlot2 ==
  ASSUME NEW s \in Slot2, NEW i \in Input, NEW ready \in BOOLEAN, NEW cart, NEW real,
         SlotFits(s, cart, real), NEW r, r = UpdateSolar(s, i, ready, cart)
  PROVE  r \in Slot2 /\ SlotFits(r, cart, real) /\ r.pause = s.pause
<1>1. /\ r \in Slot2 /\ r.kind = s.kind /\ r.rumbling = s.rumbling /\ r.task = s.task
      /\ r.ending = s.ending /\ r.pause = s.pause /\ (r.host => r.state = "On")
      /\ r.state \in {"On", "Deferred"} => s.state \in {"On", "Deferred"}
  BY DEF UpdateSolar, Slot2, SlotFits
<1> QED BY <1>1 DEF SlotFits

\* What a motor's timeout is after the game's calls, and after the tasks.
PauseAfter(pause, game) ==
  (IF game.stops THEN 0 ELSE pause) + (IF game.starts THEN game.length ELSE 0)
Shorter(pause) == IF pause > 1 THEN pause - 1 ELSE 0

LEMMA UsedMotor ==
  ASSUME NEW s \in Slot2, s.kind = "rumble", NEW game \in Game, NEW r, r = UseMotor(s, game)
  PROVE  /\ r \in Slot2 /\ r.kind = s.kind /\ r.task = s.task /\ r.ending = s.ending
         /\ r.host = s.host /\ r.state = s.state /\ r.pause = PauseAfter(s.pause, game)
<1> DEFINE a == IF game.stops THEN RumbleStop(s) ELSE s
<1>1. game.stops \in BOOLEAN /\ game.starts \in BOOLEAN /\ game.length \in Nat
  BY DEF Game
<1>2. /\ a \in Slot2 /\ a.kind = s.kind /\ a.task = s.task /\ a.ending = s.ending
      /\ a.host = s.host /\ a.state = s.state
      /\ a.pause = (IF game.stops THEN 0 ELSE s.pause)
  BY <1>1 DEF RumbleStop, Slot2
<1>3. r = IF game.starts THEN RumbleStart(a, game.length) ELSE a
  BY DEF UseMotor
<1> HIDE DEF a
<1>4. a.pause \in Nat /\ a.pause + game.length \in Nat
  BY <1>1, <1>2 DEF Slot2
<1>5. CASE game.starts
  <2>1. r = [a EXCEPT !.pause = a.pause + game.length, !.rumbling = TRUE]
    BY <1>2, <1>3, <1>5 DEF RumbleStart, Slot2
  <2>2. /\ r \in Slot2 /\ r.kind = a.kind /\ r.task = a.task /\ r.ending = a.ending
        /\ r.host = a.host /\ r.state = a.state /\ r.pause = a.pause + game.length
    BY <1>2, <1>4, <2>1 DEF Slot2
  <2> QED BY <1>2, <1>5, <2>2 DEF PauseAfter
<1>6. CASE ~game.starts
  <2>1. r = a
    BY <1>3, <1>6
  <2>2. a.pause = PauseAfter(s.pause, game)
    BY <1>2, <1>4, <1>6 DEF PauseAfter
  <2> QED BY <1>2, <2>1, <2>2
<1> QED BY <1>1, <1>5, <1>6

LEMMA CheckedTasks ==
  ASSUME NEW s \in Slot2, s.rumbling => s.task \/ s.ending, NEW r, r = CheckTasks(s)
  PROVE  /\ r \in Slot2 /\ r.kind = s.kind /\ r.task = s.task /\ ~r.ending
         /\ r.host = s.host /\ r.state = s.state
         /\ r.rumbling => r.task /\ r.pause > 0
         /\ s.task => r.pause = Shorter(s.pause)
<1> DEFINE a == RumbleTask(s)
<1>1. Shorter(s.pause) \in Nat /\ s.rumbling \in BOOLEAN /\ s.ending \in BOOLEAN
      /\ s.task \in BOOLEAN /\ (s.rumbling /\ Shorter(s.pause) > 0) \in BOOLEAN
  BY DEF Shorter, Slot2
<1>2. a = IF ~s.task THEN s
          ELSE [s EXCEPT !.pause = Shorter(s.pause),
                         !.rumbling = s.rumbling /\ Shorter(s.pause) > 0]
  BY DEF RumbleTask, Shorter, Slot2
<1> HIDE DEF a
<1>3. /\ a \in Slot2 /\ a.kind = s.kind /\ a.task = s.task /\ a.ending = s.ending
      /\ a.host = s.host /\ a.state = s.state
      /\ s.task => a.pause = Shorter(s.pause) /\ (a.rumbling => a.pause > 0)
      /\ a.rumbling => s.rumbling
  BY <1>1, <1>2 DEF Slot2
<1>4. (a.rumbling /\ ~s.ending) \in BOOLEAN
  OBVIOUS
<1>5. r = [a EXCEPT !.rumbling = a.rumbling /\ ~s.ending, !.ending = FALSE]
  BY <1>3 DEF CheckTasks, a, Slot2
<1>6. /\ r \in Slot2 /\ r.kind = a.kind /\ r.task = a.task /\ r.ending = FALSE
      /\ r.host = a.host /\ r.state = a.state /\ r.pause = a.pause
      /\ r.rumbling = (a.rumbling /\ ~s.ending)
  BY <1>3, <1>4, <1>5 DEF Slot2
<1> QED BY <1>3, <1>6

LEMMA CheckedFits ==
  ASSUME NEW s \in Slot2, NEW cart, NEW real, SlotFits(s, cart, real),
         NEW r, r = CheckTasks(s)
  PROVE  /\ r \in Slot2 /\ SlotFits(r, cart, real) /\ ~r.ending
         /\ r.host = s.host /\ (r.rumbling => r.pause > 0)
<1>1. s.rumbling => s.task \/ s.ending
  BY DEF SlotFits
<1>2. /\ r \in Slot2 /\ r.kind = s.kind /\ r.task = s.task /\ ~r.ending
      /\ r.host = s.host /\ r.state = s.state /\ (r.rumbling => r.task /\ r.pause > 0)
  BY <1>1, CheckedTasks
<1> QED BY <1>2 DEF SlotFits

\* The game's calls and the tasks, as Drawn has them.
LEMMA DrawnSlot ==
  ASSUME NEW s \in Slot2, NEW cart, NEW real, SlotFits(s, cart, real), NEW game \in Game,
         NEW r, r = CheckTasks(IF cart = "rumble" THEN UseMotor(s, game) ELSE s)
  PROVE  /\ r \in Slot2 /\ SlotFits(r, cart, real) /\ ~r.ending
         /\ r.rumbling => r.pause > 0
         /\ cart = "rumble" => r.pause = Shorter(PauseAfter(s.pause, game))
<1>1. CASE cart = "rumble"
  <2> DEFINE m == UseMotor(s, game)
  <2>1. s.kind = "rumble" /\ s.task
    BY <1>1 DEF SlotFits, KindOf
  <2>2. /\ m \in Slot2 /\ m.kind = s.kind /\ m.task = s.task /\ m.ending = s.ending
        /\ m.host = s.host /\ m.state = s.state /\ m.pause = PauseAfter(s.pause, game)
    BY <2>1, UsedMotor
  <2>3. r = CheckTasks(m)
    BY <1>1
  <2> HIDE DEF m
  <2>4. SlotFits(m, cart, real)
    BY <2>1, <2>2 DEF SlotFits
  <2>5. m.rumbling => m.task \/ m.ending
    BY <2>4 DEF SlotFits
  <2>6. m.task => r.pause = Shorter(m.pause)
    BY <2>2, <2>3, <2>5, CheckedTasks
  <2> QED BY <2>1, <2>2, <2>3, <2>4, <2>6, CheckedFits
<1>2. CASE cart # "rumble"
  <2>1. r = CheckTasks(s)
    BY <1>2
  <2> QED BY <1>2, <2>1, CheckedFits
<1> QED BY <1>1, <1>2

LEMMA ConfiguredMic ==
  ASSUME NEW m \in Mic, NEW cfg \in Config, NEW opens \in BOOLEAN
  PROVE  SetMicConfig(m, cfg, opens) \in Mic /\ ~SetMicConfig(m, cfg, opens).shouldCapture
<1>1. cfg.micInput \in InputModes /\ cfg.micButton \in ButtonModes
  BY DEF Config
<1>2. SetMicInputMode(m, cfg.micInput, opens) \in Mic
  BY <1>1 DEF SetMicInputMode, Open, Mic
<1>3. ASSUME NEW n \in Mic
      PROVE  SetMicButtonMode(n, cfg.micButton) \in Mic
             /\ ~SetMicButtonMode(n, cfg.micButton).shouldCapture
  BY <1>1 DEF SetMicButtonMode, Mic
<1> QED BY <1>2, <1>3 DEF SetMicConfig

\* The button sets what is recorded whenever it changes what should be.
LEMMA PressedMic ==
  ASSUME NEW m \in Mic, NEW down \in BOOLEAN, m.shouldCapture /\ m.open => m.active, NEW r,
         r = SetMicButtonState(m, down)
  PROVE  r \in Mic /\ (r.shouldCapture /\ r.open => r.active)
<1> DEFINE pressed == down /\ ~m.down
           capture == CASE m.buttonMode = "Hold" -> down
                        [] m.buttonMode = "Toggle" -> m.shouldCapture # pressed
                        [] m.buttonMode = "Always" -> TRUE
           after == [m EXCEPT !.down = down, !.shouldCapture = capture]
<1>1. m.buttonMode \in {"Hold", "Toggle", "Always"} /\ m.shouldCapture \in BOOLEAN
  BY DEF Mic, ButtonModes
<1>2. capture \in BOOLEAN
  <2>1. (m.shouldCapture # pressed) \in BOOLEAN
    OBVIOUS
  <2>2. CASE m.buttonMode = "Hold"
    BY <2>2
  <2>3. CASE m.buttonMode = "Toggle"
    BY <2>1, <2>3
  <2>4. CASE m.buttonMode = "Always"
    BY <2>4
  <2> QED BY <1>1, <2>2, <2>3, <2>4
<1>3. r = IF capture # m.shouldCapture THEN SetActive(after, capture) ELSE after
  BY DEF SetMicButtonState
<1> HIDE DEF capture
<1>4. /\ after \in Mic /\ after.shouldCapture = capture /\ after.open = m.open
      /\ after.active = m.active
  BY <1>2 DEF Mic
<1> HIDE DEF after
<1>5. CASE capture # m.shouldCapture
  BY <1>2, <1>3, <1>4, <1>5 DEF SetActive, Mic
<1>6. CASE capture = m.shouldCapture
  BY <1>3, <1>4, <1>6
<1> QED BY <1>5, <1>6

LEMMA HeardSound ==
  ASSUME NEW m \in Mic
  PROVE  ReadMic(m) \in {"silence", "noise", "blow", "host"}
  BY DEF ReadMic, Mic, InputModes

-----------------------------------------------------------------------------
(* The layout *)

LEMMA MaxOfThree ==
  ASSUME NEW a \in Int, NEW b \in Int, NEW c \in Int
  PROVE  Max({a, b, c}) \in {a, b, c}
<1>1. \E x \in {a, b, c} : \A y \in {a, b, c} : x >= y
  <2>1. CASE a >= b /\ a >= c
    BY <2>1
  <2>2. CASE b >= a /\ b >= c
    BY <2>2
  <2>3. CASE c >= a /\ c >= b
    BY <2>3
  <2> QED BY <2>1, <2>2, <2>3
<1> QED BY <1>1 DEF Max

LEMMA RemainderIsIndex ==
  ASSUME NEW a \in Nat, NEW n \in Nat \ {0}
  PROVE  a % n \in Nat /\ a % n < n
  OBVIOUS

LEMMA LayoutIsOne ==
  ASSUME NEW l \in LayoutData, l.index < Len(l.layouts)
  PROVE  Layout(l) \in Layouts
<1>1. l.layouts \in Seq(Layouts) /\ l.index \in Nat
  BY DEF LayoutData
<1>2. l.index + 1 \in 1..Len(l.layouts)
  BY <1>1
<1> QED BY <1>1, <1>2 DEF Layout

\* The matrices of a layout scale by one or more pixels.
LEMMA LayoutMatrices ==
  ASSUME NEW l \in LayoutData, l.scale > 0
  PROVE  /\ TopScreenMatrix(l) \in Matrices /\ BottomScreenMatrix(l) \in Matrices
         /\ HybridScreenMatrix(l) \in Matrices
<1>1. /\ l.scale \in Nat \ {0} /\ l.ratio \in Nat \ {0} /\ l.gap \in Nat
  BY DEF LayoutData
<1>2. l.scale * l.ratio \in Nat \ {0}
  BY <1>1, ProductIsPositive
<1>3. ASSUME NEW k \in Nat \ {0}, NEW x \in Int, NEW y \in Int
      PROVE  Matrix(k, x, y) \in Matrices
  BY DEF Matrix, Matrices
<1>4. /\ l.scale * (Height + l.gap) \in Int /\ l.scale * Width \in Int
      /\ l.scale * l.ratio * Width \in Int /\ l.scale * Height * (l.ratio - 1) \in Int
  BY <1>1, <1>2 DEF Height, Width
<1>5. 0 \in Int /\ 1 \in Nat \ {0}
  OBVIOUS
<1>6. /\ Northwest(l) \in Matrices /\ Southwest(l) \in Matrices /\ East(l) \in Matrices
      /\ HybridWest(l) \in Matrices /\ HybridNortheast(l) \in Matrices
      /\ HybridSoutheast(l) \in Matrices /\ FlippedHybridEast(l) \in Matrices
      /\ FlippedHybridSouthwest(l) \in Matrices /\ Identity \in Matrices
  BY <1>1, <1>2, <1>3, <1>4, <1>5, Zenon
     DEF Northwest, Southwest, East, HybridWest, HybridNortheast, HybridSoutheast,
         FlippedHybridEast, FlippedHybridSouthwest, Identity
<1> QED BY <1>6 DEF TopScreenMatrix, BottomScreenMatrix, HybridScreenMatrix

\* They depend on nothing but the present layout and its measures.
LEMMA SameMatrices ==
  ASSUME NEW l, NEW m, Layout(m) = Layout(l), m.scale = l.scale, m.gap = l.gap, m.ratio = l.ratio
  PROVE  /\ TopScreenMatrix(m) = TopScreenMatrix(l)
         /\ BottomScreenMatrix(m) = BottomScreenMatrix(l)
         /\ HybridScreenMatrix(m) = HybridScreenMatrix(l)
  BY DEF TopScreenMatrix, BottomScreenMatrix, HybridScreenMatrix, Northwest, Southwest, East,
         HybridWest, HybridNortheast, HybridSoutheast, FlippedHybridEast, FlippedHybridSouthwest

LEMMA UpdatedLayout ==
  ASSUME NEW l \in LayoutData, l.scale > 0, NEW canRotate \in BOOLEAN, NEW r,
         r = Update(l, canRotate)
  PROVE  /\ r \in LayoutData /\ ~r.dirty /\ r.scale = l.scale /\ r.gap = l.gap
         /\ r.small = l.small /\ r.ratio = l.ratio /\ r.layouts = l.layouts
         /\ r.index = l.index /\ Layout(r) = Layout(l)
         /\ r.top = TopScreenMatrix(l) /\ r.bottom = BottomScreenMatrix(l)
         /\ r.hybrid = HybridScreenMatrix(l)
<1> DEFINE top == TopScreenMatrix(l)
           bottom == BottomScreenMatrix(l)
           hybrid == HybridScreenMatrix(l)
           turned == LayoutOrientation(Layout(l))
           width == Max({Right(m) : m \in {top, bottom, hybrid}})
           height == Max({Bottom(m) : m \in {top, bottom, hybrid}})
           angle == IF canRotate THEN turned ELSE 0
           orientation == IF canRotate THEN turned ELSE l.orientation
<1>1. top \in Matrices /\ bottom \in Matrices /\ hybrid \in Matrices
  BY LayoutMatrices
<1>2. turned \in 0..3
  BY DEF LayoutOrientation
<1>3. r = [l EXCEPT !.dirty = FALSE, !.top = top, !.bottom = bottom, !.hybrid = hybrid,
                    !.size = <<width, height>>, !.angle = angle, !.orientation = orientation]
  BY DEF Update
<1> HIDE DEF top, bottom, hybrid, turned
<1>4. ASSUME NEW m \in Matrices  PROVE Right(m) \in Int /\ Bottom(m) \in Int
  BY DEF Right, Bottom, Matrices, Width, Height
<1>5. /\ {Right(m) : m \in {top, bottom, hybrid}} = {Right(top), Right(bottom), Right(hybrid)}
      /\ {Bottom(m) : m \in {top, bottom, hybrid}} = {Bottom(top), Bottom(bottom), Bottom(hybrid)}
  OBVIOUS
<1>6. width \in {Right(top), Right(bottom), Right(hybrid)}
      /\ height \in {Bottom(top), Bottom(bottom), Bottom(hybrid)}
  BY <1>1, <1>4, <1>5, MaxOfThree
<1>7. <<width, height>> \in Point
  BY <1>1, <1>4, <1>6 DEF Point
<1> HIDE DEF width, height
<1>8. angle \in 0..3 /\ orientation \in 0..3
  BY <1>2 DEF LayoutData
<1> HIDE DEF angle, orientation
<1>9. r \in LayoutData
  BY <1>1, <1>3, <1>7, <1>8, ZenonT(60) DEF LayoutData
<1>10. /\ ~r.dirty /\ r.scale = l.scale /\ r.gap = l.gap /\ r.small = l.small
       /\ r.ratio = l.ratio /\ r.layouts = l.layouts /\ r.index = l.index
       /\ r.top = top /\ r.bottom = bottom /\ r.hybrid = hybrid
  BY <1>3 DEF LayoutData
<1>11. Layout(r) = Layout(l)
  BY <1>10 DEF Layout
<1> QED BY <1>9, <1>10, <1>11 DEF top, bottom, hybrid

\* The next layout is one of the list, and marked unless it is the same again.
LEMMA NextOfLayouts ==
  ASSUME NEW l \in LayoutData, l.index < Len(l.layouts), NEW r, r = NextLayout(l)
  PROVE  /\ r \in LayoutData /\ r.index < Len(r.layouts) /\ r.scale = l.scale
         /\ r.gap = l.gap /\ r.small = l.small /\ r.ratio = l.ratio
         /\ r.top = l.top /\ r.bottom = l.bottom /\ r.hybrid = l.hybrid /\ r.size = l.size
         /\ ~r.dirty => ~l.dirty /\ Layout(r) = Layout(l)
<1> DEFINE next == [l EXCEPT !.index = (l.index + 1) % Len(l.layouts)]
<1>1. /\ l.layouts \in Seq(Layouts) /\ l.layouts # <<>> /\ l.index \in Nat
      /\ l.dirty \in BOOLEAN
  BY DEF LayoutData
<1>2. Len(l.layouts) \in Nat \ {0}
  BY <1>1
<1>3. /\ (l.index + 1) % Len(l.layouts) \in Nat
      /\ (l.index + 1) % Len(l.layouts) < Len(l.layouts)
  <2>1. l.index + 1 \in Nat
    BY <1>1
  <2> QED BY <1>2, <2>1, RemainderIsIndex, Zenon
<1>4. /\ next \in LayoutData /\ next.index < Len(next.layouts) /\ next.scale = l.scale
      /\ next.gap = l.gap /\ next.small = l.small /\ next.ratio = l.ratio
      /\ next.top = l.top /\ next.bottom = l.bottom /\ next.hybrid = l.hybrid
      /\ next.size = l.size /\ next.dirty = l.dirty
  BY <1>3 DEF LayoutData
<1>5. r = IF Layout(l) # Layout(next) THEN [next EXCEPT !.dirty = TRUE] ELSE next
  BY DEF NextLayout, Marked
<1> HIDE DEF next
<1>6. CASE Layout(l) # Layout(next)
  BY <1>4, <1>5, <1>6, ZenonT(60) DEF LayoutData
<1>7. CASE Layout(l) = Layout(next)
  BY <1>1, <1>4, <1>5, <1>7
<1> QED BY <1>6, <1>7

LEMMA AppliedLayout ==
  ASSUME NEW l \in LayoutData, l.index < Len(l.layouts), NEW cfg \in Config,
         NEW mode, NEW canRotate \in BOOLEAN, NEW r, r = ApplyLayout(l, cfg, mode, canRotate)
  PROVE  r \in LayoutData /\ r.index < Len(r.layouts) /\ r.scale > 0
<1> DEFINE index == IF l.index >= Len(cfg.layouts) THEN Len(cfg.layouts) - 1 ELSE l.index
           new == [l EXCEPT !.layouts = cfg.layouts, !.index = index]
           set == SetLayouts(l, cfg.layouts)
           scale == IF mode = "Software" THEN 1 ELSE cfg.scale
           all == [set EXCEPT !.scale = scale, !.small = cfg.small, !.gap = cfg.gap,
                              !.ratio = cfg.ratio]
<1>1. /\ cfg.layouts \in Seq(Layouts) \ {<<>>} /\ cfg.scale \in Nat \ {0}
      /\ cfg.small \in {"One", "Both"} /\ cfg.gap \in Nat /\ cfg.ratio \in Nat \ {0}
  BY DEF Config
<1>2. Len(cfg.layouts) \in Nat \ {0} /\ l.index \in Nat
  BY <1>1 DEF LayoutData
<1>3. index \in Nat /\ index < Len(cfg.layouts) /\ scale \in Nat \ {0}
  BY <1>1, <1>2
<1>4. set = IF Layout(l) # Layout(new) THEN [new EXCEPT !.dirty = TRUE] ELSE new
  BY DEF SetLayouts, Marked
<1> HIDE DEF index, scale, set
<1>5. new \in LayoutData /\ new.index = index /\ new.layouts = cfg.layouts
  BY <1>1, <1>3 DEF LayoutData
<1> HIDE DEF new
<1>6. set \in LayoutData /\ set.index = index /\ set.layouts = cfg.layouts
  BY <1>4, <1>5 DEF LayoutData
<1>7. /\ all \in LayoutData /\ all.index = index /\ all.layouts = cfg.layouts
      /\ all.scale = scale
  BY <1>1, <1>3, <1>6 DEF LayoutData
<1>8. r = Update(all, canRotate)
  BY DEF ApplyLayout, set, scale
<1> HIDE DEF all
<1> QED BY <1>3, <1>7, <1>8, UpdatedLayout

-----------------------------------------------------------------------------
(* The renderers *)

RenderPair == [render : RenderData, renderer : {"soft", "gl"}]

\* A render state that a console can be drawn with, or wait for a context with.
Usable(r) == r.kind \in {"Software", "OpenGl"} /\ (r.kind = "Software" => r.ready)

LEMMA SetRendererKind ==
  ASSUME NEW r \in RenderData, NEW configured \in {"Software", "OpenGl"}, NEW offers \in BOOLEAN,
         NEW q, q = SetRenderer(r, configured, offers)
  PROVE  /\ q \in RenderData /\ (q.kind = r.kind => q = r)
         /\ (r.kind = "Software" => r.ready) => Usable(q)
<1>1. /\ NewSoftware = [kind |-> "Software", ready |-> TRUE, needsRefresh |-> FALSE,
                        vertices |-> {}, scale |-> 0]
      /\ NewOpenGl = [kind |-> "OpenGl", ready |-> FALSE, needsRefresh |-> FALSE,
                      vertices |-> {}, scale |-> 0]
  <2>1. NewSoftware = [kind |-> "Software", ready |-> TRUE, needsRefresh |-> FALSE,
                       vertices |-> {}, scale |-> 0]
    BY DEF NewSoftware
  <2>2. NewOpenGl = [NewSoftware EXCEPT !.kind = "OpenGl", !.ready = FALSE]
    BY DEF NewOpenGl
  <2> HIDE DEF NewSoftware, NewOpenGl
  <2> QED BY <2>1, <2>2
<1>2. {} \in Screens
  BY DEF Screens
<1>3. NewSoftware \in RenderData /\ NewOpenGl \in RenderData
  BY <1>1, <1>2 DEF RenderData
<1>4. NewSoftware.kind = "Software" /\ NewSoftware.ready /\ NewOpenGl.kind = "OpenGl"
  BY <1>1
<1>5. CASE configured = r.kind
  BY <1>5 DEF SetRenderer, Usable
<1>6. CASE configured # r.kind /\ configured = "OpenGl" /\ offers
  BY <1>3, <1>4, <1>6 DEF SetRenderer, Usable
<1>7. CASE configured # r.kind /\ ~(configured = "OpenGl" /\ offers)
  <2>1. q = IF r.kind = "Software" THEN r ELSE NewSoftware
    BY <1>7 DEF SetRenderer
  <2> QED BY <2>1, <1>3, <1>4 DEF Usable
<1> QED BY <1>5, <1>6, <1>7

\* After UpdateRenderer the console has the renderer of the render state, which
\* stays ready, and one that is new is refreshed.
LEMMA UpdatedRenderer ==
  ASSUME NEW s \in RenderPair, Usable(s.render), NEW built \in BOOLEAN,
         NEW u, u = UpdateRenderer(s, built)
  PROVE  /\ u \in RenderPair /\ Usable(u.render)
         /\ u.render.kind = "OpenGl" <=> u.renderer = "gl"
         /\ s.render.ready => u.render.ready
         /\ u.render.kind = "OpenGl" => u.render.needsRefresh \/ u.render = s.render
         /\ s.renderer = "soft" /\ ~built => u.render.kind = "Software"
<1>1. /\ NewSoftware \in RenderData /\ NewSoftware.kind = "Software" /\ NewSoftware.ready
  BY DEF NewSoftware, RenderData, Screens
<1>2. s.render \in RenderData /\ s.renderer \in {"soft", "gl"}
  BY DEF RenderPair
<1>3. CASE s.render.kind = "Software"
  <2>1. u = [s EXCEPT !.renderer = "soft"]
    BY <1>3 DEF UpdateRenderer
  <2>2. u \in RenderPair /\ u.renderer = "soft" /\ u.render = s.render
    BY <2>1 DEF RenderPair
  <2> QED BY <1>3, <2>2
<1>4. CASE s.render.kind = "OpenGl" /\ s.renderer = "gl"
  <2>1. u = s
    BY <1>4 DEF UpdateRenderer
  <2> QED BY <1>4, <2>1
<1>5. CASE s.render.kind = "OpenGl" /\ s.renderer = "soft" /\ built
  <2>1. u = [s EXCEPT !.renderer = "gl", !.render.needsRefresh = TRUE]
    BY <1>5 DEF UpdateRenderer
  <2>2. /\ u = [render |-> u.render, renderer |-> u.renderer] /\ u.renderer = "gl"
        /\ u.render = [s.render EXCEPT !.needsRefresh = TRUE]
    BY <2>1 DEF RenderPair
  <2>3. /\ u.render \in RenderData /\ u.render.kind = s.render.kind /\ u.render.needsRefresh
        /\ u.render.ready = s.render.ready
    BY <1>2, <2>2 DEF RenderData
  <2>4. u \in RenderPair
    BY <2>2, <2>3 DEF RenderPair
  <2> QED BY <1>5, <2>2, <2>3, <2>4 DEF Usable
<1>6. CASE s.render.kind = "OpenGl" /\ s.renderer = "soft" /\ ~built
  <2>1. u = [s EXCEPT !.render = NewSoftware]
    BY <1>6 DEF UpdateRenderer
  <2>2. u \in RenderPair /\ u.renderer = "soft" /\ u.render = NewSoftware
    BY <1>1, <1>6, <2>1 DEF RenderPair
  <2> QED BY <1>1, <2>2 DEF Usable
<1> QED BY <1>2, <1>3, <1>4, <1>5, <1>6 DEF Usable

LEMMA ResetContext ==
  ASSUME NEW s \in RenderPair, NEW cfg \in Config, NEW built \in BOOLEAN,
         NEW u, u = ContextReset(s, cfg, built)
  PROVE  /\ u \in RenderPair /\ u.render.kind = s.render.kind
         /\ s.render.ready => u.render.ready
         /\ s.render.kind # "OpenGl" \/ ~built => u.render = s.render
         /\ s.render.kind # "OpenGl" => u = s
         /\ s.render.kind = "OpenGl" /\ ~built => u.renderer = "soft"
         /\ s.render.kind = "OpenGl" /\ built =>
              u.render.ready /\ u.render.needsRefresh /\ u.renderer = "gl"
<1>1. s.render \in RenderData /\ s.renderer \in {"soft", "gl"} /\ cfg.scale \in Nat
  BY DEF RenderPair, Config
<1>2. CASE s.render.kind # "OpenGl"
  <2>1. u = s
    BY <1>2 DEF ContextReset
  <2> QED BY <1>2, <2>1
<1>3. CASE s.render.kind = "OpenGl" /\ ~built
  <2>1. u = [s EXCEPT !.renderer = "soft"]
    BY <1>3 DEF ContextReset
  <2>2. u \in RenderPair /\ u.render = s.render /\ u.renderer = "soft"
    BY <2>1 DEF RenderPair
  <2> QED BY <1>3, <2>2
<1>4. CASE s.render.kind = "OpenGl" /\ built
  <2>1. u = [s EXCEPT !.renderer = "gl", !.render.ready = TRUE, !.render.needsRefresh = TRUE,
                      !.render.scale = cfg.scale]
    BY <1>4 DEF ContextReset
  <2>2. /\ u = [render |-> u.render, renderer |-> u.renderer] /\ u.renderer = "gl"
        /\ u.render = [s.render EXCEPT !.ready = TRUE, !.needsRefresh = TRUE, !.scale = cfg.scale]
    BY <2>1 DEF RenderPair
  <2>3. /\ u.render \in RenderData /\ u.render.kind = s.render.kind /\ u.render.needsRefresh
        /\ u.render.ready
    BY <1>1, <2>2 DEF RenderData
  <2>4. u \in RenderPair
    BY <2>2, <2>3 DEF RenderPair
  <2> QED BY <1>4, <2>2, <2>3, <2>4
<1> QED BY <1>2, <1>3, <1>4

LEMMA ShownSlots ==
  ASSUME NEW l
  PROVE  Shown(l) \subseteq [screen : {"top", "bottom"}, slot : {"top", "bottom", "hybrid"}]
<1> DEFINE Slot(screen, slot, wanted) == IF wanted THEN {[screen |-> screen, slot |-> slot]} ELSE {}
           All == [screen : {"top", "bottom"}, slot : {"top", "bottom", "hybrid"}]
<1>1. SUFFICES Shown(l) \subseteq All
  OBVIOUS
<1>2. CASE Layout(l) \in HybridLayouts
  <2>1. Shown(l) = Slot("top", "hybrid", Layout(l) \in HybridTopLayouts)
            \cup Slot("bottom", "hybrid", Layout(l) \in HybridBottomLayouts)
            \cup Slot("top", "top", l.small = "Both" \/ Layout(l) \in HybridBottomLayouts)
            \cup Slot("bottom", "bottom", l.small = "Both" \/ Layout(l) \in HybridTopLayouts)
    BY <1>2 DEF Shown
  <2> QED BY <2>1
<1>3. CASE Layout(l) \notin HybridLayouts
  <2>1. Shown(l) = Slot("top", "top", Layout(l) # "BottomOnly")
            \cup Slot("bottom", "bottom", Layout(l) # "TopOnly")
    BY <1>3 DEF Shown
  <2> QED BY <2>1
<1> QED BY <1>2, <1>3

LEMMA VerticesAreScreens ==
  ASSUME NEW l \in LayoutData
  PROVE  InitVertices(l) \in Screens
<1>1. l.top \in Matrices /\ l.bottom \in Matrices /\ l.hybrid \in Matrices
  BY DEF LayoutData
<1>2. ASSUME NEW shown \in Shown(l)
      PROVE  [screen |-> shown.screen, at |-> MatrixOf(l, shown.slot)]
               \in [screen : {"top", "bottom"}, at : Matrices]
  <2>1. /\ shown.screen \in {"top", "bottom"} /\ shown.slot \in {"top", "bottom", "hybrid"}
    BY ShownSlots
  <2>2. MatrixOf(l, shown.slot) \in Matrices
    BY <1>1, <2>1 DEF MatrixOf
  <2> QED BY <2>1, <2>2
<1> QED BY <1>2 DEF InitVertices, Screens

\* What is drawn of a layout depends on nothing else of it.
LEMMA SameScreens ==
  ASSUME NEW l, NEW m, Layout(m) = Layout(l), m.small = l.small, m.ratio = l.ratio,
         m.top = l.top, m.bottom = l.bottom, m.hybrid = l.hybrid
  PROVE  InitVertices(m) = InitVertices(l) /\ CombineScreens(m) = CombineScreens(l)
<1>1. Shown(m) = Shown(l)
  BY DEF Shown
<1>2. \A slot : MatrixOf(m, slot) = MatrixOf(l, slot)
  BY DEF MatrixOf
<1> QED BY <1>1, <1>2 DEF InitVertices, CombineScreens

\* A picture that OpenGL draws is one of the vertices of the present layout.
LEMMA RefreshedRender ==
  ASSUME NEW r \in RenderData, NEW cfg \in Config, NEW l \in LayoutData,
         NEW q, q = Refreshed(r, cfg, l)
  PROVE  /\ q \in RenderData /\ q.kind = r.kind /\ q.ready = r.ready
         /\ r.kind = "OpenGl"
              /\ (r.needsRefresh \/ r.scale # cfg.scale \/ r.vertices = InitVertices(l))
              => q.vertices = InitVertices(l)
<1>1. cfg.scale \in Nat /\ InitVertices(l) \in Screens
  BY VerticesAreScreens DEF Config
<1>2. q = IF r.kind = "OpenGl" /\ (r.needsRefresh \/ r.scale # cfg.scale)
          THEN [r EXCEPT !.needsRefresh = FALSE, !.scale = cfg.scale, !.vertices = InitVertices(l)]
          ELSE r
  BY DEF Refreshed, InitFrameState
<1> QED BY <1>1, <1>2 DEF RenderData

-----------------------------------------------------------------------------
(* The core *)

\* The parts but the renderers.
SameDevices(s, t) ==
  /\ s.input = t.input /\ s.slot2 = t.slot2 /\ s.mic = t.mic /\ s.layout = t.layout
  /\ s.told = t.told

LEMMA PartsOf ==
  ASSUME NEW s \in Parts
  PROVE  /\ s.input \in Input /\ s.slot2 \in Slot2 /\ s.mic \in Mic /\ s.layout \in LayoutData
         /\ s.render \in RenderData /\ s.console \in Console \cup {None}
         /\ s.told \in GeometryData
  BY DEF Parts

LEMMA WithRendererParts ==
  ASSUME NEW s \in Parts, s.console \in Console, NEW u \in RenderPair,
         NEW w, w = WithRenderer(s, u)
  PROVE  /\ w \in Parts /\ w.console \in Console /\ SameDevices(w, s)
         /\ w.console.touch = s.console.touch /\ w.console.cart = s.console.cart
         /\ w.render = u.render /\ w.console.renderer = u.renderer
<1>1. u.render \in RenderData /\ u.renderer \in {"soft", "gl"}
  BY DEF RenderPair
<1>2. w = [s EXCEPT !.render = u.render, !.console = [s.console EXCEPT !.renderer = u.renderer]]
  BY DEF WithRenderer, Parts
<1>3. /\ [s.console EXCEPT !.renderer = u.renderer] \in Console
      /\ [s.console EXCEPT !.renderer = u.renderer].renderer = u.renderer
      /\ [s.console EXCEPT !.renderer = u.renderer].touch = s.console.touch
      /\ [s.console EXCEPT !.renderer = u.renderer].cart = s.console.cart
  BY <1>1 DEF Console
<1> DEFINE k == [s.console EXCEPT !.renderer = u.renderer]
<1>4. w = [s EXCEPT !.render = u.render, !.console = k] /\ k \in Console /\ k.touch = s.console.touch
      /\ k.cart = s.console.cart /\ k.renderer = u.renderer
  BY <1>2, <1>3
<1> HIDE DEF k
<1>5. w \in Parts
  BY <1>1, <1>4 DEF Parts
<1>6. w.render = u.render /\ w.console = k
  BY <1>4 DEF Parts
<1>7. SameDevices(w, s)
  BY <1>4 DEF Parts, SameDevices
<1> QED BY <1>4, <1>5, <1>6, <1>7

LEMMA RenderersPair ==
  ASSUME NEW s \in Parts, s.console \in Console
  PROVE  /\ Renderers(s) \in RenderPair /\ Renderers(s).render = s.render
         /\ Renderers(s).renderer = s.console.renderer
<1>1. s.console.renderer \in {"soft", "gl"} /\ s.render \in RenderData
  BY DEF Parts, Console
<1> QED BY <1>1 DEF Renderers, RenderPair

\* A console with the renderer its render state asks for.
Matched(s) == Usable(s.render) /\ (s.render.kind = "OpenGl" <=> s.console.renderer = "gl")

LEMMA StartedConsole ==
  ASSUME NEW s \in Parts, s.console \in Console, Usable(s.render), NEW built \in BOOLEAN,
         NEW w, w = StartConsole(s, built)
  PROVE  /\ w \in Parts /\ w.console \in Console /\ SameDevices(w, s)
         /\ w.console.touch = s.console.touch /\ w.console.cart = s.console.cart /\ Matched(w)
         /\ s.render.ready => w.render.ready
         /\ w.render.kind = "OpenGl" => w.render.needsRefresh \/ w.render = s.render
         /\ s.console.renderer = "soft" /\ ~built => w.render.kind = "Software"
<1> DEFINE u == UpdateRenderer(Renderers(s), built)
<1>1. /\ Renderers(s) \in RenderPair /\ Renderers(s).render = s.render
      /\ Renderers(s).renderer = s.console.renderer
  BY RenderersPair
<1>2. /\ u \in RenderPair /\ Usable(u.render)
      /\ u.render.kind = "OpenGl" <=> u.renderer = "gl"
      /\ s.render.ready => u.render.ready
      /\ u.render.kind = "OpenGl" => u.render.needsRefresh \/ u.render = s.render
      /\ s.console.renderer = "soft" /\ ~built => u.render.kind = "Software"
  BY <1>1, UpdatedRenderer
<1>3. w = WithRenderer(s, u)
  BY DEF StartConsole
<1> HIDE DEF u
<1>4. /\ w \in Parts /\ w.console \in Console /\ SameDevices(w, s)
      /\ w.console.touch = s.console.touch /\ w.console.cart = s.console.cart
      /\ w.render = u.render /\ w.console.renderer = u.renderer
  BY <1>2, <1>3, WithRendererParts
<1> QED BY <1>2, <1>4 DEF Matched

LEMMA GeometryIsData ==
  ASSUME NEW l \in LayoutData, NEW renderer
  PROVE  Geometry(l, renderer) \in GeometryData /\ Geometry(l, renderer).base = l.size
<1>1. ASSUME NEW a \in Int, NEW b \in Int  PROVE Max({a, b}) \in Int
  <2>1. {a, b} = {a, b, b}
    OBVIOUS
  <2> QED BY <2>1, MaxOfThree
<1>2. ASSUME NEW a \in Int, NEW b \in Int, NEW c \in Int  PROVE Max({a, b, c}) \in Int
  BY MaxOfThree
<1>3. /\ Width * 2 \in Int /\ Width * MaxHybridRatio + Width + MaxHybridRatio * 2 \in Int
      /\ Height * 2 + MaxScreenGap \in Int /\ Height * MaxHybridRatio \in Int
      /\ Width * MaxOpenGlScale * 2 \in Int
      /\ Width * MaxOpenGlScale * (MaxHybridRatio + 1) + MaxHybridRatio * 2 \in Int
      /\ MaxOpenGlScale * (Height * 2 + MaxScreenGap) \in Int
      /\ MaxOpenGlScale * Height * MaxHybridRatio \in Int
  BY DEF Width, Height, MaxHybridRatio, MaxScreenGap, MaxOpenGlScale
<1>4. MaxSoftwareSize \in Point /\ MaxOpenGlSize \in Point
  BY <1>1, <1>2, <1>3, Zenon DEF MaxSoftwareSize, MaxOpenGlSize, Point
<1>5. l.size \in Point
  BY DEF LayoutData
<1> QED BY <1>4, <1>5 DEF Geometry, GeometryData

\* What new settings do to the parts, before the renderers are changed.
LEMMA ConfiguredParts ==
  ASSUME NEW s \in Parts, s.layout.index < Len(s.layout.layouts),
         NEW cfg \in Config, NEW answer \in Answer, NEW c, c = Configured(s, cfg, answer),
         s.slot2.host => answer.ready /\ s.slot2.kind = "solar"
  PROVE  /\ c \in Parts /\ c.console = s.console
         /\ c.input = SetInputConfig(s.input, cfg)
         /\ c.slot2 = SetSolarConfig(s.slot2, cfg.realSensor, answer.ready)
         /\ c.mic = SetMicConfig(s.mic, cfg, answer.opens)
         /\ c.render = SetRenderer(s.render, cfg.renderer, answer.offers)
         /\ c.layout.dirty /\ c.layout.scale > 0 /\ c.layout.index < Len(c.layout.layouts)
<1> DEFINE q == SetRenderer(s.render, cfg.renderer, answer.offers)
           l == ApplyLayout(s.layout, cfg, q.kind, answer.rotates)
           dirty == [l EXCEPT !.dirty = TRUE]
           i == SetInputConfig(s.input, cfg)
           x == SetSolarConfig(s.slot2, cfg.realSensor, answer.ready)
           m == SetMicConfig(s.mic, cfg, answer.opens)
           g == IF s.render.kind \notin {"none", q.kind} THEN Geometry(l, q.kind) ELSE s.told
<1>1. /\ s.input \in Input /\ s.slot2 \in Slot2 /\ s.mic \in Mic /\ s.layout \in LayoutData
      /\ s.render \in RenderData /\ s.told \in GeometryData
  BY PartsOf
<1>2. /\ cfg.renderer \in {"Software", "OpenGl"} /\ cfg.realSensor \in BOOLEAN
      /\ answer.offers \in BOOLEAN /\ answer.ready \in BOOLEAN /\ answer.opens \in BOOLEAN
      /\ answer.rotates \in BOOLEAN
  BY DEF Config, Answer
<1>3. q \in RenderData
  BY <1>1, <1>2, SetRendererKind
<1>4. l \in LayoutData /\ l.index < Len(l.layouts) /\ l.scale > 0
  BY <1>1, <1>2, AppliedLayout
<1>5. i \in Input
  BY <1>1, ConfiguredInput
<1>6. x \in Slot2
  BY <1>1, <1>2, ConfiguredSlot2
<1>7. m \in Mic
  BY <1>1, <1>2, ConfiguredMic
<1>8. c = [s EXCEPT !.render = q, !.layout = dirty, !.input = i, !.slot2 = x, !.mic = m,
                    !.told = g]
  BY DEF Configured
<1> HIDE DEF q, l, i, x, m
<1>9. dirty \in LayoutData /\ dirty.dirty /\ dirty.scale > 0 /\ dirty.index < Len(dirty.layouts)
  BY <1>4 DEF LayoutData
<1>10. g \in GeometryData
  BY <1>1, <1>4, GeometryIsData
<1> HIDE DEF dirty, g
<1>11. c \in Parts
  BY <1>3, <1>5, <1>6, <1>7, <1>8, <1>9, <1>10 DEF Parts
<1>12. /\ c.console = s.console /\ c.input = i /\ c.slot2 = x /\ c.mic = m /\ c.render = q
       /\ c.layout = dirty
  BY <1>8 DEF Parts
<1> QED BY <1>9, <1>11, <1>12 DEF q, i, x, m

\* New settings in a session: the parts have them, the layout will be laid out
\* anew, and the console has a renderer that is ready if the old one was.
LEMMA AppliedConfig ==
  ASSUME NEW s \in Parts, s.layout.index < Len(s.layout.layouts), s.console \in Console,
         Usable(s.render), s.render.kind = "OpenGl" => s.render.ready,
         NEW cfg \in Config, NEW answer \in Answer, NEW a, a = ApplyConfig(s, cfg, answer),
         s.slot2.host => answer.ready /\ s.slot2.kind = "solar"
  PROVE  /\ a \in Parts /\ a.console \in Console /\ a.console.touch = s.console.touch
         /\ a.console.cart = s.console.cart
         /\ a.input = SetInputConfig(s.input, cfg)
         /\ a.slot2 = SetSolarConfig(s.slot2, cfg.realSensor, answer.ready)
         /\ a.mic = SetMicConfig(s.mic, cfg, answer.opens)
         /\ a.layout.dirty /\ a.layout.scale > 0 /\ a.layout.index < Len(a.layout.layouts)
         /\ Matched(a) /\ a.render.ready
<1> DEFINE c == Configured(s, cfg, answer)
           switched == s.render.kind \notin {"none", c.render.kind}
           u == ContextReset(Renderers(c), cfg, answer.built)
           reset == IF switched THEN WithRenderer(c, u) ELSE c
<1>1. /\ c \in Parts /\ c.console = s.console
      /\ c.input = SetInputConfig(s.input, cfg)
      /\ c.slot2 = SetSolarConfig(s.slot2, cfg.realSensor, answer.ready)
      /\ c.mic = SetMicConfig(s.mic, cfg, answer.opens)
      /\ c.render = SetRenderer(s.render, cfg.renderer, answer.offers)
      /\ c.layout.dirty /\ c.layout.scale > 0 /\ c.layout.index < Len(c.layout.layouts)
  BY ConfiguredParts
<1>2. answer.built \in BOOLEAN /\ answer.offers \in BOOLEAN /\ s.render \in RenderData
      /\ cfg.renderer \in {"Software", "OpenGl"}
  BY PartsOf DEF Answer, Config
<1>4. a = WithRenderer(reset, UpdateRenderer(Renderers(reset), answer.built))
  BY DEF ApplyConfig, Usable
<1>5. a = StartConsole(reset, answer.built)
  BY <1>4 DEF StartConsole
<1> HIDE DEF c
<1>3. Usable(c.render) /\ (c.render.kind = s.render.kind => c.render = s.render)
  <2>1. s.render.kind = "Software" => s.render.ready
    BY DEF Usable
  <2> QED BY <1>1, <1>2, <2>1, SetRendererKind
<1>6. /\ Renderers(c) \in RenderPair /\ Renderers(c).render = c.render
      /\ Renderers(c).renderer = c.console.renderer
  BY <1>1, RenderersPair
<1>7. /\ u \in RenderPair /\ u.render.kind = c.render.kind
      /\ c.render.ready => u.render.ready
      /\ c.render.kind = "OpenGl" /\ ~answer.built => u.renderer = "soft"
      /\ c.render.kind = "OpenGl" /\ answer.built => u.render.ready
  BY <1>2, <1>6, ResetContext
<1> HIDE DEF u
<1>8. /\ reset \in Parts /\ reset.console \in Console /\ SameDevices(reset, c)
      /\ reset.console.touch = s.console.touch /\ reset.console.cart = s.console.cart
      /\ reset.render.kind = c.render.kind
      /\ Usable(reset.render)
      /\ \/ reset.render.ready
         \/ ~answer.built /\ reset.console.renderer = "soft"
  <2>1. CASE switched
    <3>1. reset = WithRenderer(c, u)
      BY <2>1
    <3> HIDE DEF switched, reset
    <3>2. /\ reset \in Parts /\ reset.console \in Console /\ SameDevices(reset, c)
          /\ reset.console.touch = c.console.touch /\ reset.console.cart = c.console.cart
          /\ reset.render = u.render /\ reset.console.renderer = u.renderer
      BY <1>1, <1>7, <3>1, WithRendererParts
    <3> QED BY <1>1, <1>3, <1>7, <3>2 DEF Usable
  <2>2. CASE ~switched
    <3>1. c.render = s.render
      BY <1>3, <2>2 DEF Usable
    <3>2. reset = c
      BY <2>2
    <3> HIDE DEF switched, reset
    <3> QED BY <1>1, <1>3, <3>1, <3>2 DEF Usable, SameDevices
  <2> QED BY <2>1, <2>2
<1> HIDE DEF reset
<1>9. /\ a \in Parts /\ a.console \in Console /\ SameDevices(a, reset)
      /\ a.console.touch = reset.console.touch /\ a.console.cart = reset.console.cart
      /\ Matched(a)
      /\ reset.render.ready => a.render.ready
      /\ reset.console.renderer = "soft" /\ ~answer.built => a.render.kind = "Software"
  BY <1>2, <1>5, <1>8, StartedConsole
<1>10. SameDevices(a, c)
  BY <1>8, <1>9 DEF SameDevices
<1>11. a.render.ready
  BY <1>8, <1>9 DEF Matched, Usable
<1> QED BY <1>1, <1>8, <1>9, <1>10, <1>11 DEF SameDevices

LEMMA NewConsoleOf ==
  ASSUME scene \in DOMAIN Scenes, NEW cfg \in Config
  PROVE  /\ NewConsole(cfg) \in Console /\ NewConsole(cfg).touch = Off
         /\ NewConsole(cfg).renderer = "soft"
<1>1. here.gba \in Carts
  BY ScenesAssumption DEF here
<1>2. Cart(cfg) \in Carts
  BY <1>1 DEF Cart, Config, Carts
<1> QED BY <1>2 DEF NewConsole, Console

\* The second slot of a new console, whose predecessor's RumbleTask is finished.
LEMMA SlottedParts ==
  ASSUME NEW s \in Parts, s.console \in Console, NEW cfg \in Config, NEW answer \in Answer,
         ~s.slot2.task, s.slot2.rumbling => s.slot2.ending,
         s.slot2.host => s.slot2.state = "On" /\ answer.ready,
         s.slot2.state \in {"On", "Deferred"} => s.slot2.kind = "solar" /\ cfg.realSensor,
         NEW r, r = SetSlot2(s, cfg, answer)
  PROVE  /\ r \in Parts /\ r.console = s.console /\ r.mic = s.mic /\ r.layout = s.layout
         /\ r.render = s.render /\ r.told = s.told
         /\ r.input \in {s.input, SetInputConfig(s.input, cfg)}
         /\ SlotFits(r.slot2, s.console.cart, cfg.realSensor)
         /\ s.console.cart = "rumble" => r.slot2.pause = 0
<1> DEFINE cart == s.console.cart
           x == Slotted(s.slot2, cart)
           y == SetSolarConfig(x, cfg.realSensor, answer.ready)
           i == SetInputConfig(s.input, cfg)
<1>1. /\ s.input \in Input /\ s.slot2 \in Slot2 /\ cart \in Carts
      /\ cfg.realSensor \in BOOLEAN /\ answer.ready \in BOOLEAN
  BY PartsOf DEF Config, Answer, Console
<1>2. CASE cart = "absent"
  <2>1. r = s
    BY <1>2 DEF SetSlot2
  <2> QED BY <1>2, <2>1 DEF SlotFits
<1>3. CASE cart # "absent"
  <2>1. i \in Input
    BY <1>1, ConfiguredInput
  <2>2. /\ x \in Slot2 /\ x.kind = KindOf(cart) /\ x.state = "Off" /\ x.pause = 0
        /\ x.rumbling = s.slot2.rumbling /\ x.ending = s.slot2.ending
        /\ x.task = (cart = "rumble") /\ x.host = (s.slot2.host /\ cart = "solar")
    <3> HIDE DEF cart
    <3> QED BY <1>1, <1>3, SlottedSlot2
  <2>3. r = [s EXCEPT !.slot2 = y, !.input = i]
    BY <1>3 DEF SetSlot2, Parts, Slotted
  <2> HIDE DEF x, i, cart
  <2>4. x.host => answer.ready /\ x.kind = "solar"
    BY <2>2 DEF KindOf
  <2>5. /\ y \in Slot2 /\ y.kind = x.kind /\ y.rumbling = x.rumbling /\ y.task = x.task
        /\ y.ending = x.ending /\ y.pause = x.pause
        /\ x.kind = "solar" =>
             (y.host => y.state = "On") /\ (y.state \in {"On", "Deferred"} => cfg.realSensor)
        /\ x.kind # "solar" => y = x
    BY <1>1, <2>2, <2>4, ConfiguredSlot2
  <2> HIDE DEF y
  <2>6. (y.host => y.state = "On") /\ (y.state \in {"On", "Deferred"} => y.kind = "solar" /\ cfg.realSensor)
    BY <2>2, <2>4, <2>5
  <2>7. SlotFits(y, cart, cfg.realSensor)
    BY <2>2, <2>5, <2>6 DEF SlotFits
  <2>8. /\ r \in Parts /\ r.console = s.console /\ r.mic = s.mic /\ r.layout = s.layout
        /\ r.render = s.render /\ r.told = s.told /\ r.input = i /\ r.slot2 = y
    BY <2>1, <2>3, <2>5 DEF Parts
  <2> QED BY <2>2, <2>5, <2>7, <2>8 DEF i, cart
<1> QED BY <1>2, <1>3

\* What a frame's input does to the parts.
LEMMA ReadParts ==
  ASSUME NEW s \in Parts, s.console \in Console, s.layout.index < Len(s.layout.layouts),
         NEW poll \in Poll, NEW answer \in Answer, NEW r, r = ReadInput(s, poll, answer),
         s.mic.shouldCapture /\ s.mic.open => s.mic.active
  PROVE  /\ r \in Parts /\ r.console \in Console /\ r.console.cart = s.console.cart
         /\ r.input = UpdateCursor(PollDevices(s.input, poll), s.layout)
         /\ r.console.touch = ApplyCursor(r.input, s.console.touch, Off)
         /\ r.console.renderer = s.console.renderer
         /\ r.layout \in {s.layout, NextLayout(s.layout)}
         /\ r.slot2 = UpdateSolar(s.slot2, PollDevices(s.input, poll), answer.ready,
                                  s.console.cart)
         /\ r.mic.shouldCapture /\ r.mic.open => r.mic.active
         /\ r.render = s.render /\ r.told = s.told
<1> DEFINE d == PollDevices(s.input, poll)
           i == UpdateCursor(d, s.layout)
           x == UpdateSolar(s.slot2, d, answer.ready, s.console.cart)
           l == IF Pressed(i, "cycle") THEN NextLayout(s.layout) ELSE s.layout
           m == SetMicButtonState(s.mic, "mic" \in poll.held)
           lid == s.console.lidClosed # Pressed(i, "lid")
           touch == ApplyCursor(i, s.console.touch, Off)
           k == [s.console EXCEPT !.lidClosed = lid, !.touch = touch]
<1>1. /\ s.input \in Input /\ s.slot2 \in Slot2 /\ s.mic \in Mic /\ s.layout \in LayoutData
      /\ s.render \in RenderData /\ s.told \in GeometryData /\ answer.ready \in BOOLEAN
  BY PartsOf DEF Answer
<1>2. d \in Input
  BY <1>1, PolledDevices
<1>3. i \in Input
  <2> HIDE DEF d
  <2> QED BY <1>1, <1>2, UpdatedCursor
<1>4. x \in Slot2
  <2> HIDE DEF d
  <2> QED BY <1>1 DEF UpdateSolar, Slot2
<1>5. l \in LayoutData
  <2> HIDE DEF i
  <2>1. NextLayout(s.layout) \in LayoutData
    BY <1>1, NextOfLayouts
  <2> QED BY <1>1, <2>1
<1>6. m \in Mic /\ (m.shouldCapture /\ m.open => m.active)
  <2>1. ("mic" \in poll.held) \in BOOLEAN
    OBVIOUS
  <2> QED BY <1>1, <2>1, PressedMic, Zenon
<1>7. lid \in BOOLEAN /\ touch \in Point \cup {Off}
  <2> HIDE DEF i
  <2>1. s.console.touch \in Point \cup {Off} /\ i.consoleTouch \in Point
    BY <1>3 DEF Console, Input
  <2>2. touch \in Point \cup {Off}
    BY <2>1 DEF ApplyCursor
  <2> QED BY <2>2
<1>8. r = [s EXCEPT !.input = i, !.slot2 = x, !.layout = l, !.mic = m, !.console = k]
  BY DEF ReadInput, Parts
<1> HIDE DEF d, i, x, l, m, lid, touch
<1>9. /\ k \in Console /\ k.touch = touch /\ k.renderer = s.console.renderer
      /\ k.cart = s.console.cart
  BY <1>7 DEF Console
<1> HIDE DEF k
<1>10. r \in Parts
  BY <1>3, <1>4, <1>5, <1>6, <1>8, <1>9 DEF Parts
<1>11. /\ r.input = i /\ r.slot2 = x /\ r.layout = l /\ r.mic = m /\ r.console = k
       /\ r.render = s.render /\ r.told = s.told
  BY <1>8 DEF Parts
<1>12. l \in {s.layout, NextLayout(s.layout)}
  BY DEF l
<1> QED BY <1>6, <1>9, <1>10, <1>11, <1>12 DEF d, i, touch, x

\* What is laid out is the present layout, and what OpenGL held of another is
\* refreshed.
LEMMA LaidOutParts ==
  ASSUME NEW s \in Parts, s.layout.scale > 0, NEW answer \in Answer,
         NEW r, r = LaidOut(s, answer), s.layout.dirty \/ LaidFor(s.layout, s.told)
  PROVE  /\ r \in Parts /\ r.console = s.console /\ r.input = s.input /\ r.slot2 = s.slot2
         /\ r.mic = s.mic /\ ~r.layout.dirty /\ r.layout.scale > 0
         /\ r.layout.index = s.layout.index /\ r.layout.layouts = s.layout.layouts
         /\ LaidFor(r.layout, r.told)
         /\ r.render.kind = s.render.kind /\ r.render.ready = s.render.ready
         /\ \/ r.layout = s.layout /\ r.render = s.render
            \/ s.render.kind = "OpenGl" => r.render.needsRefresh
<1>1. s.layout \in LayoutData /\ s.render \in RenderData /\ s.told \in GeometryData
  BY PartsOf
<1>2. CASE ~s.layout.dirty
  <2>1. r = s
    BY <1>2 DEF LaidOut
  <2> QED BY <1>2, <2>1
<1>3. CASE s.layout.dirty
  <2> DEFINE l == Update(s.layout, answer.rotates)
             g == [s.told EXCEPT !.base = Geometry(l, RendererOf(s)).base]
             q == RequestRefresh(s.render)
  <2>1. answer.rotates \in BOOLEAN
    BY DEF Answer
  <2>2. /\ l \in LayoutData /\ ~l.dirty /\ l.scale = s.layout.scale /\ l.gap = s.layout.gap
        /\ l.ratio = s.layout.ratio /\ l.layouts = s.layout.layouts
        /\ l.index = s.layout.index /\ Layout(l) = Layout(s.layout)
        /\ l.top = TopScreenMatrix(s.layout) /\ l.bottom = BottomScreenMatrix(s.layout)
        /\ l.hybrid = HybridScreenMatrix(s.layout)
    BY <1>1, <2>1, UpdatedLayout
  <2>3. /\ q \in RenderData /\ q.kind = s.render.kind /\ q.ready = s.render.ready
        /\ s.render.kind = "OpenGl" => q.needsRefresh
    BY <1>1 DEF RequestRefresh, RenderData
  <2>4. r = [s EXCEPT !.layout = l, !.told = g, !.render = q]
    BY <1>3 DEF LaidOut, Parts
  <2> HIDE DEF l, q
  <2>5. Geometry(l, RendererOf(s)).base = l.size /\ l.size \in Point
    BY <2>2, GeometryIsData DEF LayoutData
  <2>6. g \in GeometryData /\ g.base = l.size
    BY <1>1, <2>5 DEF GeometryData
  <2>7. LaidFor(l, g)
    BY <2>2, <2>6, SameMatrices DEF LaidFor
  <2> HIDE DEF g
  <2>8. r \in Parts
    BY <2>2, <2>3, <2>4, <2>6 DEF Parts
  <2>9. /\ r.layout = l /\ r.told = g /\ r.render = q /\ r.console = s.console
        /\ r.input = s.input /\ r.slot2 = s.slot2 /\ r.mic = s.mic
    BY <2>4 DEF Parts
  <2> QED BY <2>2, <2>3, <2>7, <2>8, <2>9
<1> QED BY <1>2, <1>3

LEMMA DrawnParts ==
  ASSUME NEW s \in Parts, s.console \in Console, NEW cfg \in Config, NEW game \in Game,
         SlotFits(s.slot2, s.console.cart, cfg.realSensor), NEW r, r = Drawn(s, cfg, game)
  PROVE  /\ r \in Parts /\ r.console \in Console /\ r.console.touch = s.console.touch
         /\ r.console.renderer = s.console.renderer /\ r.console.cart = s.console.cart
         /\ r.input = s.input /\ r.mic = s.mic /\ r.layout = s.layout /\ r.told = s.told
         /\ r.render = Refreshed(s.render, cfg, s.layout)
         /\ r.slot2 = CheckTasks(IF s.console.cart = "rumble" THEN UseMotor(s.slot2, game)
                                 ELSE s.slot2)
<1> DEFINE x == CheckTasks(IF s.console.cart = "rumble" THEN UseMotor(s.slot2, game)
                           ELSE s.slot2)
           q == Refreshed(s.render, cfg, s.layout)
           k == [s.console EXCEPT !.hears = ReadMic(s.mic)]
<1>1. s.slot2 \in Slot2 /\ s.mic \in Mic /\ s.layout \in LayoutData /\ s.render \in RenderData
  BY PartsOf
<1>2. x \in Slot2
  BY <1>1, DrawnSlot
<1>3. q \in RenderData
  BY <1>1, RefreshedRender
<1>4. /\ k \in Console /\ k.touch = s.console.touch /\ k.renderer = s.console.renderer
      /\ k.cart = s.console.cart
  BY <1>1, HeardSound DEF Console
<1>5. r = [s EXCEPT !.console = k, !.slot2 = x, !.render = q]
  BY DEF Drawn, Parts
<1> HIDE DEF x, q, k
<1>6. r \in Parts
  BY <1>2, <1>3, <1>4, <1>5 DEF Parts
<1>7. /\ r.console = k /\ r.slot2 = x /\ r.render = q /\ r.input = s.input /\ r.mic = s.mic
      /\ r.layout = s.layout /\ r.told = s.told
  BY <1>5 DEF Parts
<1> QED BY <1>4, <1>6, <1>7 DEF q, x

-----------------------------------------------------------------------------
(* The steps *)

\* New settings of the cursor, of what the devices held before.
LEMMA ConfiguredCursor ==
  ASSUME NEW i \in Input, NEW cfg \in Config, NEW r, r = SetInputConfig(i, cfg)
  PROVE  /\ r \in Input /\ r.touchMode = cfg.touchMode /\ r.cursorMode = cfg.cursorMode
         /\ r.maxTimeout = cfg.cursorTimeout /\ (i.dirty => r.dirty)
         /\ (~r.dirty <=> /\ ~i.dirty /\ cfg.cursorMode = i.cursorMode
                          /\ cfg.cursorTimeout = i.maxTimeout
                          /\ cfg.touchMode = i.touchMode)
         /\ r.held = i.held /\ r.timeout = i.timeout
         /\ r.touchButton = i.touchButton /\ r.direction = i.direction
         /\ r.pointerTouching = i.pointerTouching /\ r.rawPosition = i.rawPosition
         /\ r.joypadTouch = i.joypadTouch /\ r.pointerTouch = i.pointerTouch
  BY ConfiguredInput

LEMMA StateIs ==
  ASSUME NEW s \in Parts, Become(s)
  PROVE  /\ input' = s.input /\ slot2' = s.slot2 /\ mic' = s.mic /\ layout' = s.layout
         /\ render' = s.render /\ console' = s.console /\ told' = s.told /\ State' = s
<1>1. /\ input' = s.input /\ slot2' = s.slot2 /\ mic' = s.mic /\ layout' = s.layout
      /\ render' = s.render /\ console' = s.console /\ told' = s.told
  BY DEF Become, BecomeParts
<1>2. s = [input |-> s.input, slot2 |-> s.slot2, mic |-> s.mic, layout |-> s.layout,
           render |-> s.render, console |-> s.console, told |-> s.told]
  BY DEF Parts
<1>3. State' = [input |-> input', slot2 |-> slot2', mic |-> mic', layout |-> layout',
                render |-> render', console |-> console', told |-> told']
  BY DEF State
<1> QED BY <1>1, <1>2, <1>3

LEMMA StateParts ==
  ASSUME TypeOK
  PROVE  /\ State \in Parts /\ State.input = input /\ State.slot2 = slot2 /\ State.mic = mic
         /\ State.layout = layout /\ State.render = render /\ State.console = console
         /\ State.told = told
         /\ input \in Input /\ slot2 \in Slot2 /\ mic \in Mic /\ layout \in LayoutData
         /\ render \in RenderData /\ console \in Console \cup {None} /\ told \in GeometryData
         /\ config \in Config /\ hand.poll \in Poll /\ hand.drew \in BOOLEAN
         /\ here.configs \subseteq Config /\ here.polls \subseteq Poll
         /\ here.games \subseteq Game /\ here.answers \subseteq Answer
<1>1. /\ State.input = input /\ State.slot2 = slot2 /\ State.mic = mic
      /\ State.layout = layout /\ State.render = render /\ State.console = console
      /\ State.told = told
  BY DEF State
<1>2. State \in Parts
  BY DEF TypeOK
<1>3. /\ here.configs \subseteq Config /\ here.polls \subseteq Poll
      /\ here.games \subseteq Game /\ here.answers \subseteq Answer
  BY ScenesAssumption DEF TypeOK, here
<1>4. config \in Config /\ hand.poll \in Poll /\ hand.drew \in BOOLEAN
  BY <1>3 DEF TypeOK
<1>5. /\ input \in Input /\ slot2 \in Slot2 /\ mic \in Mic /\ layout \in LayoutData
      /\ render \in RenderData /\ console \in Console \cup {None} /\ told \in GeometryData
  <2> HIDE DEF State
  <2> QED BY <1>1, <1>2, PartsOf
<1> QED BY <1>1, <1>2, <1>3, <1>4, <1>5

LEMMA NewPartsAre ==
  /\ NewInput \in Input /\ NewSlot2 \in Slot2 /\ NewMicrophone \in Mic /\ NewLayout \in LayoutData
  /\ NoRenderState \in RenderData /\ NoGeometry \in GeometryData
  /\ NewInput.dirty /\ ~NewInput.joypadTouch /\ ~NewInput.touchButton
  /\ ~NewInput.pointerTouch /\ ~NewInput.pointerTouching
  /\ ~NewSlot2.host /\ NewSlot2.state = "Off" /\ ~NewSlot2.rumbling /\ NewSlot2.kind = "none"
  /\ ~NewSlot2.task /\ ~NewSlot2.ending
  /\ ~NewMicrophone.shouldCapture
  /\ NewLayout.index < Len(NewLayout.layouts)
  /\ NoRenderState.kind = "none"
<1>1. <<0, 0>> \in Point /\ {} \in SUBSET Buttons
  BY DEF Point
<1>2. NewInput \in Input
  BY <1>1 DEF NewInput, Input, TouchModes, CursorModes
<1>3. NewSlot2 \in Slot2 /\ NewMicrophone \in Mic
  BY DEF NewSlot2, Slot2, NewMicrophone, Mic, InputModes, ButtonModes
<1>4. <<"TopBottom">> \in Seq(Layouts) \ {<<>>} /\ Len(<<"TopBottom">>) = 1
  BY DEF Layouts
<1>5. Identity \in Matrices
  BY DEF Identity, Matrix, Matrices
<1>6. NewLayout \in LayoutData /\ NewLayout.index < Len(NewLayout.layouts)
  BY <1>1, <1>4, <1>5 DEF NewLayout, LayoutData
<1>7. /\ NewSoftware \in RenderData
  BY DEF NewSoftware, RenderData, Screens
<1>8. NewOpenGl \in RenderData
  <2> HIDE DEF NewSoftware
  <2> QED BY <1>7 DEF NewOpenGl, RenderData
<1>9. NoRenderState \in RenderData /\ NoRenderState.kind = "none"
  <2> HIDE DEF NewOpenGl
  <2> QED BY <1>8 DEF NoRenderState, RenderData
<1>10. NoGeometry \in GeometryData
  BY <1>1 DEF NoGeometry, GeometryData
<1>11. /\ NewInput.dirty /\ ~NewInput.joypadTouch /\ ~NewInput.touchButton
       /\ ~NewInput.pointerTouch /\ ~NewInput.pointerTouching
       /\ ~NewSlot2.host /\ NewSlot2.state = "Off" /\ ~NewSlot2.rumbling
       /\ NewSlot2.kind = "none" /\ ~NewSlot2.task /\ ~NewSlot2.ending
       /\ ~NewMicrophone.shouldCapture
  BY DEF NewInput, NewSlot2, NewMicrophone
<1> QED BY <1>2, <1>3, <1>6, <1>9, <1>10, <1>11

\* Before a session and after it.
Out ==
  /\ phase = "out" /\ scene \in DOMAIN Scenes /\ config \in here.configs
  /\ input = NewInput /\ slot2 = NewSlot2 /\ mic = NewMicrophone /\ layout = NewLayout
  /\ render = NoRenderState /\ console = None /\ told = NoGeometry
  /\ ~pending /\ pending \in BOOLEAN
  /\ hand = NoHand /\ steady = TRUE /\ idle = 0 /\ due = 0

LEMMA OutInv == Out => IInv
<1>0. SUFFICES ASSUME Out PROVE IInv
  OBVIOUS
<1> USE <1>0 DEF Out
<1>1. State \in Parts
  BY NewPartsAre DEF State, Parts
<1>2. hand \in [poll : Poll, changed : BOOLEAN, drew : BOOLEAN] /\ ~hand.drew
  BY DEF NoHand, NoPoll, Poll, Point
<1>3. TypeOK
  BY <1>1, <1>2, NewPartsAre DEF TypeOK
<1>4. SessionFollows /\ Slot2Follows
  BY <1>2, NewPartsAre DEF SessionFollows, Slot2Follows
<1>6. CursorFollows
  <2>1. input \in Input
    BY NewPartsAre
  <2>2. /\ ~input.joypadTouch /\ ~input.touchButton
        /\ ~input.pointerTouch /\ ~input.pointerTouching
    BY NewPartsAre
  <2>3. /\ input.joypadTouch = input.touchButton
        /\ input.pointerTouch = input.pointerTouching
    BY <2>1, <2>2 DEF Input
  <2> QED BY <2>3 DEF CursorFollows
<1>5. HostMicFeedsGame /\ LayoutFollows /\ RenderFollows /\ PictureIsCurrent
  BY <1>2, NewPartsAre DEF HostMicFeedsGame, LayoutFollows, RenderFollows, PictureIsCurrent
<1> QED BY <1>3, <1>4, <1>5, <1>6 DEF IInv

LEMMA InitInv == Init => IInv
  BY OutInv DEF Init, Out

\* In a session the settings, the slot and the cursor belong together.
LEMMA InSession ==
  ASSUME IInv, phase # "out"
  PROVE  /\ console \in Console /\ console # None /\ layout.scale > 0
         /\ layout.index < Len(layout.layouts)
         /\ SlotFits(slot2, console.cart, config.realSensor)
         /\ slot2.host => slot2.kind = "solar"
         /\ console.cart = "rumble" => slot2.pause = due
         /\ mic.shouldCapture /\ mic.open => mic.active
         /\ layout.dirty \/ LaidFor(layout, told)
  BY StateParts
     DEF IInv, TypeOK, SessionFollows, Slot2Follows, SlotFits, HostMicFeedsGame, LayoutFollows

LEMMA LoadInv ==
  ASSUME IInv, NEW answer \in here.answers, Load(answer)
  PROVE  IInv'
<1> DEFINE c == ApplyConfig(State, config, answer)
           n == [c EXCEPT !.console = NewConsole(config)]
           s == SetSlot2(n, config, answer)
           started == IF s.render.kind = "OpenGl" THEN s ELSE StartConsole(s, answer.built)
           f == [started EXCEPT !.told = Geometry(started.layout, started.render.kind)]
<1>1. /\ State \in Parts /\ State.input = input /\ State.slot2 = slot2 /\ State.mic = mic
      /\ State.layout = layout /\ State.render = render /\ State.console = console
      /\ State.told = told /\ config \in Config /\ answer \in Answer
      /\ NewConsole(config) \in Console /\ NewConsole(config).touch = Off
      /\ NewConsole(config).renderer = "soft"
  BY StateParts, NewConsoleOf DEF IInv, TypeOK
<1>2. /\ phase = "out" /\ Become(f) /\ pending' = (s.render.kind = "OpenGl")
      /\ phase' = "running" /\ scene' = scene /\ config' = config /\ hand' = hand
      /\ steady' = steady /\ idle' = idle /\ due' = due
  BY DEF Load, history
<1>3. /\ input = NewInput /\ slot2 = NewSlot2 /\ mic = NewMicrophone /\ layout = NewLayout
      /\ render = NoRenderState /\ ~hand.drew /\ steady /\ idle = 0 /\ due = 0
  BY <1>2 DEF IInv, SessionFollows
<1>4. c = Configured(State, config, answer)
  BY <1>1, <1>3, NewPartsAre DEF ApplyConfig
<1>5. /\ c \in Parts /\ c.console = State.console /\ c.input = SetInputConfig(input, config)
      /\ c.slot2 = SetSolarConfig(slot2, config.realSensor, answer.ready)
      /\ c.mic = SetMicConfig(mic, config, answer.opens)
      /\ c.render = SetRenderer(render, config.renderer, answer.offers)
      /\ c.layout.dirty /\ c.layout.scale > 0 /\ c.layout.index < Len(c.layout.layouts)
  <2>1. State.layout.index < Len(State.layout.layouts) /\ ~State.slot2.host
    BY <1>1, <1>3, NewPartsAre
  <2> HIDE DEF c
  <2> QED BY <1>1, <1>4, <2>1, ConfiguredParts
<1> HIDE DEF c
<1>6. c.slot2 = NewSlot2
  BY <1>3, <1>5, NewPartsAre DEF SetSolarConfig
<1>7. Usable(c.render)
  BY <1>1, <1>3, <1>5, NewPartsAre, SetRendererKind, ZenonT(60) DEF Config, Answer
<1>8. /\ s \in Parts /\ s.console = NewConsole(config) /\ s.mic = c.mic
      /\ s.layout = c.layout /\ s.render = c.render /\ s.told = c.told
      /\ s.input \in {c.input, SetInputConfig(c.input, config)}
      /\ SlotFits(s.slot2, s.console.cart, config.realSensor)
      /\ s.console.cart = "rumble" => s.slot2.pause = 0
  <2>1. /\ n \in Parts /\ n.console = NewConsole(config) /\ n.mic = c.mic /\ n.slot2 = NewSlot2
        /\ n.layout = c.layout /\ n.render = c.render /\ n.told = c.told /\ n.input = c.input
    BY <1>1, <1>5, <1>6 DEF Parts
  <2>2. s = SetSlot2(n, config, answer)
    OBVIOUS
  <2> HIDE DEF n, s
  <2>3. /\ n.console \in Console /\ ~n.slot2.task /\ ~n.slot2.rumbling /\ ~n.slot2.host
        /\ n.slot2.state = "Off"
    BY <1>1, <2>1, NewPartsAre
  <2>4. /\ s \in Parts /\ s.console = n.console /\ s.mic = n.mic /\ s.layout = n.layout
        /\ s.render = n.render /\ s.told = n.told
        /\ s.input \in {n.input, SetInputConfig(n.input, config)}
        /\ SlotFits(s.slot2, n.console.cart, config.realSensor)
        /\ n.console.cart = "rumble" => s.slot2.pause = 0
    BY <1>1, <2>1, <2>2, <2>3, SlottedParts
  <2> QED BY <2>1, <2>4
<1> HIDE DEF n, s
<1>9. /\ started \in Parts /\ started.console \in Console /\ SameDevices(started, s)
      /\ started.console.touch = Off /\ started.console.cart = s.console.cart
      /\ Usable(started.render)
      /\ IF s.render.kind = "OpenGl" THEN started.render = s.render
         ELSE Matched(started)
  <2>1. answer.built \in BOOLEAN
    BY <1>1 DEF Answer
  <2>2. CASE s.render.kind = "OpenGl"
    BY <1>1, <1>7, <1>8, <2>2 DEF SameDevices
  <2>3. CASE s.render.kind # "OpenGl"
    <3>1. started = StartConsole(s, answer.built)
      BY <2>3
    <3> HIDE DEF started
    <3> QED BY <1>1, <1>7, <1>8, <2>1, <2>3, <3>1, StartedConsole DEF Matched
  <2> QED BY <2>2, <2>3
<1> HIDE DEF started
<1>10. /\ f \in Parts /\ f.input = s.input /\ f.slot2 = s.slot2 /\ f.mic = s.mic
       /\ f.layout = s.layout /\ f.render = started.render /\ f.console = started.console
  <2>1. Geometry(started.layout, started.render.kind) \in GeometryData
    BY <1>9, PartsOf, GeometryIsData
  <2> QED BY <1>9, <2>1 DEF Parts, SameDevices
<1> HIDE DEF f
<1>11. /\ input' = f.input /\ slot2' = f.slot2 /\ mic' = f.mic /\ layout' = f.layout
       /\ render' = f.render /\ console' = f.console /\ State' = f
  BY <1>2, <1>10, StateIs
<1>12. TypeOK'
  BY <1>2, <1>5, <1>8, <1>10, <1>11 DEF IInv, TypeOK, here
<1>13. SessionFollows'
  BY <1>2, <1>9, <1>10, <1>11, NoneAssumption DEF SessionFollows
<1>14. HostMicFeedsGame'
  <2>1. ~c.mic.shouldCapture
    BY <1>1, <1>5, PartsOf, ConfiguredMic DEF Answer
  <2> QED BY <1>8, <1>10, <1>11, <2>1 DEF HostMicFeedsGame
<1>15. Slot2Follows'
  BY <1>2, <1>3, <1>8, <1>9, <1>10, <1>11 DEF Slot2Follows
<1>16. CursorFollows'
  <2>1. c.input \in Input /\ input \in Input
    BY <1>1, <1>5, PartsOf
  <2>2. /\ c.input.dirty /\ ~c.input.joypadTouch /\ ~c.input.touchButton
        /\ ~c.input.pointerTouch /\ ~c.input.pointerTouching
    BY <1>1, <1>3, <1>5, <2>1, NewPartsAre, ConfiguredCursor
  <2>3. /\ s.input.dirty /\ ~s.input.joypadTouch /\ ~s.input.touchButton
        /\ ~s.input.pointerTouch /\ ~s.input.pointerTouching
        /\ s.input.touchMode = config.touchMode /\ s.input.cursorMode = config.cursorMode
        /\ s.input.maxTimeout = config.cursorTimeout /\ s.input \in Input
    <3>1. /\ c.input.touchMode = config.touchMode /\ c.input.cursorMode = config.cursorMode
          /\ c.input.maxTimeout = config.cursorTimeout
      BY <1>1, <1>5, <2>1, ConfiguredCursor
    <3> QED BY <1>1, <1>8, <2>1, <2>2, <3>1, ConfiguredCursor
  <2>4. s.input.joypadTouch = s.input.touchButton /\ s.input.pointerTouch = s.input.pointerTouching
    BY <2>3 DEF Input
  <2> QED BY <1>2, <1>3, <1>9, <1>10, <1>11, <2>3, <2>4 DEF CursorFollows
<1>17. LayoutFollows'
  BY <1>5, <1>8, <1>10, <1>11 DEF LayoutFollows
<1>18. RenderFollows'
  BY <1>2, <1>5, <1>8, <1>9, <1>10, <1>11 DEF RenderFollows, Usable, Matched
<1>19. PictureIsCurrent'
  BY <1>2, <1>3 DEF PictureIsCurrent
<1> QED BY <1>12, <1>13, <1>14, <1>15, <1>16, <1>17, <1>18, <1>19 DEF IInv

LEMMA ContextResetInv ==
  ASSUME IInv, NEW answer \in here.answers, ContextIsReset(answer)
  PROVE  IInv'
<1> DEFINE u == ContextReset(Renderers(State), config, answer.built)
           w == WithRenderer(State, u)
<1>1. /\ State \in Parts /\ State.input = input /\ State.slot2 = slot2 /\ State.mic = mic
      /\ State.layout = layout /\ State.render = render /\ State.console = console
      /\ State.told = told /\ config \in Config /\ answer \in Answer /\ answer.built \in BOOLEAN
  BY StateParts DEF IInv, Answer
<1>2. /\ phase = "running" /\ render.kind = "OpenGl" /\ Become(w)
      /\ phase' = (IF answer.built THEN phase ELSE "stopped")
      /\ hand' = [hand EXCEPT !.drew = FALSE] /\ scene' = scene /\ config' = config
      /\ pending' = pending /\ steady' = steady /\ idle' = idle /\ due' = due
  BY DEF ContextIsReset
<1> HIDE DEF State
<1>3. console \in Console
  BY <1>2, InSession
<1>4. /\ u \in RenderPair /\ u.render.kind = "OpenGl"
      /\ answer.built => u.render.ready /\ u.render.needsRefresh /\ u.renderer = "gl"
  <2>1. /\ Renderers(State) \in RenderPair /\ Renderers(State).render = render
    BY <1>1, <1>3, RenderersPair
  <2>2. u = ContextReset(Renderers(State), config, answer.built)
    OBVIOUS
  <2> HIDE DEF u
  <2> QED BY <1>1, <1>2, <2>1, <2>2, ResetContext
<1> HIDE DEF u
<1>5. /\ w \in Parts /\ w.console \in Console /\ SameDevices(w, State)
      /\ w.console.touch = console.touch /\ w.console.cart = console.cart
      /\ w.render = u.render /\ w.console.renderer = u.renderer
  BY <1>1, <1>3, <1>4, WithRendererParts
<1> HIDE DEF w
<1>6. /\ input' = input /\ slot2' = slot2 /\ mic' = mic /\ layout' = layout /\ told' = told
      /\ render' = u.render /\ console' = w.console /\ State' = w
  BY <1>1, <1>2, <1>5, StateIs DEF SameDevices
<1>7. /\ phase' \in {"running", "stopped"} /\ (phase' = "running" => answer.built)
      /\ hand'.poll = hand.poll /\ ~hand'.drew
      /\ hand' \in [poll : Poll, changed : BOOLEAN, drew : BOOLEAN]
  BY <1>2 DEF IInv, TypeOK
<1>8. TypeOK'
  BY <1>2, <1>5, <1>6, <1>7 DEF IInv, TypeOK, here
<1>9. SessionFollows' /\ HostMicFeedsGame' /\ PictureIsCurrent'
  BY <1>5, <1>6, <1>7, NoneAssumption
     DEF IInv, SessionFollows, HostMicFeedsGame, PictureIsCurrent
<1>10. Slot2Follows'
  BY <1>2, <1>5, <1>6, <1>7 DEF IInv, Slot2Follows
<1>11. CursorFollows'
  BY <1>2, <1>5, <1>6, <1>7 DEF IInv, CursorFollows
<1>12. LayoutFollows'
  BY <1>2, <1>6 DEF IInv, LayoutFollows
<1>13. RenderFollows'
  BY <1>2, <1>4, <1>5, <1>6, <1>7 DEF IInv, RenderFollows
<1> QED BY <1>8, <1>9, <1>10, <1>11, <1>12, <1>13 DEF IInv

LEMMA ContextDestroyedInv ==
  ASSUME IInv, ContextIsDestroyed
  PROVE  IInv'
<1>1. /\ phase = "running" /\ render.kind = "OpenGl" /\ render' = ContextDestroyed(render)
      /\ hand' = [hand EXCEPT !.drew = FALSE]
      /\ UNCHANGED <<phase, scene, config, pending, input, slot2, mic, layout, console, told,
                     steady, idle, due>>
  BY DEF ContextIsDestroyed
<1>2. /\ render \in RenderData /\ input \in Input /\ slot2 \in Slot2 /\ mic \in Mic
      /\ layout \in LayoutData /\ console \in Console \cup {None} /\ told \in GeometryData
  BY StateParts DEF IInv
<1>3. render' \in RenderData /\ render'.kind = "OpenGl" /\ ~render'.ready
  BY <1>1, <1>2 DEF ContextDestroyed, RenderData, Screens
<1>4. State' \in Parts
  BY <1>1, <1>2, <1>3 DEF State, Parts
<1>5. /\ hand'.poll = hand.poll /\ ~hand'.drew
      /\ hand' \in [poll : Poll, changed : BOOLEAN, drew : BOOLEAN]
  BY <1>1 DEF IInv, TypeOK
<1>6. TypeOK'
  BY <1>1, <1>4, <1>5 DEF IInv, TypeOK, here
<1>7. SessionFollows' /\ HostMicFeedsGame' /\ PictureIsCurrent'
  BY <1>1, <1>5 DEF IInv, SessionFollows, HostMicFeedsGame, PictureIsCurrent
<1>8. Slot2Follows'
  BY <1>1, <1>5 DEF IInv, Slot2Follows
<1>9. CursorFollows'
  BY <1>1, <1>5 DEF IInv, CursorFollows
<1>10. LayoutFollows'
  BY <1>1 DEF IInv, LayoutFollows
<1>11. RenderFollows'
  BY <1>1, <1>3 DEF IInv, RenderFollows
<1> QED BY <1>6, <1>7, <1>8, <1>9, <1>10, <1>11 DEF IInv

\* The settings of the cursor are those of the session until they change.
LEMMA CursorChange ==
  ASSUME IInv, phase # "out", NEW cfg \in Config, NEW i, i = SetInputConfig(input, cfg)
  PROVE  /\ i \in Input
         /\ i.touchMode = cfg.touchMode /\ i.cursorMode = cfg.cursorMode
         /\ i.maxTimeout = cfg.cursorTimeout
         /\ i.joypadTouch = i.touchButton /\ i.pointerTouch = i.pointerTouching
         /\ i.touchButton = input.touchButton /\ i.direction = input.direction
         /\ i.pointerTouching = input.pointerTouching /\ i.rawPosition = input.rawPosition
         /\ i.joypadTouch = input.joypadTouch /\ i.pointerTouch = input.pointerTouch
         /\ i.timeout = input.timeout
         /\ ~i.dirty <=> ~input.dirty /\ ~CursorSettingsChange(cfg)
         /\ input.dirty => idle = 0 /\ console.touch = Off
         /\ cfg.touchMode = config.touchMode => IsTouching(i) = IsTouching(input)
         /\ ~CursorSettingsChange(cfg) =>
              /\ i.touchMode = input.touchMode /\ i.cursorMode = input.cursorMode
              /\ i.maxTimeout = input.maxTimeout
              /\ UsesJoystick(i) = UsesJoystick(input) /\ UsesPointer(i) = UsesPointer(input)
<1>1. input \in Input
  BY StateParts DEF IInv
<1>2. /\ input.touchMode = config.touchMode /\ input.cursorMode = config.cursorMode
      /\ input.maxTimeout = config.cursorTimeout /\ input.joypadTouch = input.touchButton
      /\ input.pointerTouch = input.pointerTouching
      /\ input.dirty => idle = 0 /\ console.touch = Off
  BY DEF IInv, CursorFollows
<1>3. /\ i \in Input /\ i.touchMode = cfg.touchMode /\ i.cursorMode = cfg.cursorMode
      /\ i.maxTimeout = cfg.cursorTimeout /\ i.timeout = input.timeout
      /\ (~i.dirty <=> /\ ~input.dirty /\ cfg.cursorMode = input.cursorMode
                       /\ cfg.cursorTimeout = input.maxTimeout
                       /\ cfg.touchMode = input.touchMode)
      /\ i.touchButton = input.touchButton /\ i.direction = input.direction
      /\ i.pointerTouching = input.pointerTouching /\ i.rawPosition = input.rawPosition
      /\ i.joypadTouch = input.joypadTouch /\ i.pointerTouch = input.pointerTouch
  BY <1>1, ConfiguredCursor
<1>4. ~i.dirty <=> ~input.dirty /\ ~CursorSettingsChange(cfg)
  BY <1>2, <1>3 DEF CursorSettingsChange
<1>5. cfg.touchMode = config.touchMode => IsTouching(i) = IsTouching(input)
  BY <1>2, <1>3 DEF IsTouching
<1>6. ~CursorSettingsChange(cfg) =>
        /\ i.touchMode = input.touchMode /\ i.cursorMode = input.cursorMode
        /\ i.maxTimeout = input.maxTimeout
        /\ UsesJoystick(i) = UsesJoystick(input) /\ UsesPointer(i) = UsesPointer(input)
  BY <1>2, <1>3 DEF CursorSettingsChange, UsesJoystick, UsesPointer
<1> QED BY <1>2, <1>3, <1>4, <1>5, <1>6

LEMMA ResetInv ==
  ASSUME IInv, NEW cfg \in here.configs, NEW answer \in here.answers, Reset(cfg, answer)
  PROVE  IInv'
<1> DEFINE o == [State EXCEPT !.slot2 = CheckTasks(slot2)]
           a == ApplyConfig(o, cfg, answer)
           n == [a EXCEPT !.console = NewConsole(cfg), !.slot2 = FinishRumble(a.slot2)]
           s == SetSlot2(n, cfg, answer)
           w == StartConsole(s, answer.built)
<1>1. /\ State \in Parts /\ State.input = input /\ State.slot2 = slot2 /\ State.mic = mic
      /\ State.layout = layout /\ State.render = render /\ State.console = console
      /\ State.told = told /\ cfg \in Config /\ answer \in Answer
      /\ answer.built \in BOOLEAN /\ answer.ready \in BOOLEAN /\ answer.opens \in BOOLEAN
      /\ cfg.realSensor \in BOOLEAN /\ slot2 \in Slot2 /\ mic \in Mic
      /\ NewConsole(cfg) \in Console /\ NewConsole(cfg).touch = Off
      /\ NewConsole(cfg).renderer = "soft"
  BY StateParts, NewConsoleOf DEF IInv, TypeOK, Answer, Config
<1>2. /\ phase = "running" /\ HasContext /\ ~pending /\ (slot2.host => answer.ready)
      /\ phase' \in {"running", "stopped"} /\ config' = cfg
      /\ hand' = [hand EXCEPT !.drew = FALSE] /\ scene' = scene
      /\ pending' = pending /\ steady' = TRUE /\ due' = 0
      /\ idle' = IF CursorSettingsChange(cfg) THEN 0 ELSE idle
  BY DEF Reset, Answers
<1>3. /\ console \in Console /\ layout.index < Len(layout.layouts)
      /\ SlotFits(slot2, console.cart, config.realSensor)
  BY <1>2, InSession
<1>4. Usable(render) /\ (render.kind = "OpenGl" => render.ready)
  BY <1>2 DEF IInv, RenderFollows, Usable, HasContext
<1>b. Become(w)
  <2>1. [State EXCEPT !.slot2 = CheckTasks(@)] = o
    BY <1>1
  <2>2. [a EXCEPT !.console = NewConsole(cfg), !.slot2 = FinishRumble(@)] = n
    <3> HIDE DEF a
    <3>1. \A f : [f EXCEPT !.console = NewConsole(cfg), !.slot2 = FinishRumble(@)]
                   = [f EXCEPT !.console = NewConsole(cfg), !.slot2 = FinishRumble(f.slot2)]
      OBVIOUS
    <3> QED BY <3>1
  <2> QED BY <2>1, <2>2 DEF Reset
<1> HIDE DEF State
<1>o. /\ o \in Parts /\ o.input = input /\ o.mic = mic /\ o.layout = layout
      /\ o.render = render /\ o.console = console /\ o.told = told
      /\ o.slot2 \in Slot2 /\ SlotFits(o.slot2, console.cart, config.realSensor)
      /\ ~o.slot2.ending /\ o.slot2.host = slot2.host
  <2> DEFINE x == CheckTasks(slot2)
  <2>1. /\ x \in Slot2 /\ SlotFits(x, console.cart, config.realSensor) /\ ~x.ending
        /\ x.host = slot2.host
    BY <1>1, <1>3, CheckedFits
  <2>2. o = [State EXCEPT !.slot2 = x]
    OBVIOUS
  <2> HIDE DEF x, o
  <2> QED BY <1>1, <2>1, <2>2 DEF Parts
<1>5. /\ a \in Parts /\ a.console \in Console /\ a.input = SetInputConfig(input, cfg)
      /\ a.slot2 = SetSolarConfig(o.slot2, cfg.realSensor, answer.ready)
      /\ a.mic = SetMicConfig(mic, cfg, answer.opens)
      /\ a.layout.dirty /\ a.layout.scale > 0 /\ a.layout.index < Len(a.layout.layouts)
      /\ Matched(a) /\ a.render.ready
  <2>1. a = ApplyConfig(o, cfg, answer)
    OBVIOUS
  <2>2. o.slot2.host => answer.ready /\ o.slot2.kind = "solar"
    BY <1>2, <1>o DEF SlotFits
  <2> HIDE DEF a, o
  <2> QED BY <1>1, <1>3, <1>4, <1>o, <2>1, <2>2, AppliedConfig
<1> HIDE DEF a, o
<1>6. /\ a.slot2 \in Slot2 /\ SlotFits(a.slot2, console.cart, cfg.realSensor)
      /\ ~a.slot2.ending /\ (a.slot2.host => answer.ready)
  <2>1. o.slot2.host => answer.ready /\ o.slot2.kind = "solar"
    BY <1>2, <1>o DEF SlotFits
  <2>2. a.slot2 \in Slot2 /\ a.slot2.ending = o.slot2.ending /\ (a.slot2.host => answer.ready)
    <3>1. /\ a.slot2 = SetSolarConfig(o.slot2, cfg.realSensor, answer.ready)
          /\ o.slot2 \in Slot2 /\ cfg.realSensor \in BOOLEAN /\ answer.ready \in BOOLEAN
      BY <1>1, <1>5, <1>o
    <3> QED BY <2>1, <3>1, ConfiguredSlot2
  <2>3. SlotFits(a.slot2, console.cart, cfg.realSensor)
    BY <1>1, <1>5, <1>o, <2>1, ConfiguredFits
  <2> QED BY <1>o, <2>2, <2>3
<1>7. /\ s \in Parts /\ s.console = NewConsole(cfg) /\ s.mic = a.mic /\ s.layout = a.layout
      /\ s.render = a.render /\ s.told = a.told
      /\ s.input \in {a.input, SetInputConfig(a.input, cfg)}
      /\ SlotFits(s.slot2, s.console.cart, cfg.realSensor)
      /\ s.console.cart = "rumble" => s.slot2.pause = 0
  <2> DEFINE x == FinishRumble(a.slot2)
  <2>1. (a.slot2.ending \/ a.slot2.task) \in BOOLEAN
    OBVIOUS
  <2>2. /\ x \in Slot2 /\ ~x.task /\ x.ending = (a.slot2.ending \/ a.slot2.task)
        /\ x.rumbling = a.slot2.rumbling /\ x.kind = a.slot2.kind
        /\ x.state = a.slot2.state /\ x.host = a.slot2.host
    BY <1>6, <2>1 DEF FinishRumble, Slot2
  <2>3. s = SetSlot2(n, cfg, answer) /\ n = [a EXCEPT !.console = NewConsole(cfg), !.slot2 = x]
    OBVIOUS
  <2> HIDE DEF x, n, s
  <2>4. /\ n \in Parts /\ n.console = NewConsole(cfg) /\ n.mic = a.mic /\ n.slot2 = x
        /\ n.layout = a.layout /\ n.render = a.render /\ n.told = a.told /\ n.input = a.input
    BY <1>1, <1>5, <2>2, <2>3 DEF Parts
  <2>5. /\ ~n.slot2.task /\ (n.slot2.rumbling => n.slot2.ending)
        /\ n.slot2.host => n.slot2.state = "On" /\ answer.ready
        /\ n.slot2.state \in {"On", "Deferred"} => n.slot2.kind = "solar" /\ cfg.realSensor
    BY <1>6, <2>2, <2>4 DEF SlotFits
  <2>7. n.console \in Console
    BY <1>1, <2>4
  <2>6. /\ s \in Parts /\ s.console = n.console /\ s.mic = n.mic /\ s.layout = n.layout
        /\ s.render = n.render /\ s.told = n.told
        /\ s.input \in {n.input, SetInputConfig(n.input, cfg)}
        /\ SlotFits(s.slot2, n.console.cart, cfg.realSensor)
        /\ n.console.cart = "rumble" => s.slot2.pause = 0
    <3>1. cfg \in Config /\ answer \in Answer /\ n \in Parts /\ s = SetSlot2(n, cfg, answer)
      BY <1>1, <2>3, <2>4
    <3> QED BY <2>5, <2>7, <3>1, SlottedParts
  <2> QED BY <2>4, <2>6
<1> HIDE DEF n, s
<1>8. /\ w \in Parts /\ w.console \in Console /\ SameDevices(w, s) /\ w.console.touch = Off
      /\ w.console.cart = s.console.cart /\ Matched(w)
  <2>1. w = StartConsole(s, answer.built)
    OBVIOUS
  <2> HIDE DEF w
  <2>2. /\ s \in Parts /\ s.console \in Console /\ Usable(s.render) /\ answer.built \in BOOLEAN
        /\ s.console.touch = Off
    BY <1>1, <1>5, <1>7 DEF Matched
  <2> QED BY <2>1, <2>2, StartedConsole
<1> HIDE DEF w
<1>9. /\ input' = s.input /\ slot2' = s.slot2 /\ mic' = s.mic /\ layout' = s.layout
      /\ render' = w.render /\ console' = w.console /\ State' = w
  BY <1>b, <1>8, StateIs DEF SameDevices
<1>10. /\ hand'.poll = hand.poll /\ ~hand'.drew
       /\ hand' \in [poll : Poll, changed : BOOLEAN, drew : BOOLEAN]
  BY <1>2 DEF IInv, TypeOK
<1>11. TypeOK'
  <2>1. idle' \in Nat
    BY <1>2 DEF IInv, TypeOK
  <2> QED BY <1>2, <1>5, <1>7, <1>8, <1>9, <1>10, <2>1 DEF IInv, TypeOK, here
<1>12. SessionFollows' /\ PictureIsCurrent'
  BY <1>2, <1>8, <1>9, <1>10, NoneAssumption DEF SessionFollows, PictureIsCurrent
<1>13. HostMicFeedsGame'
  BY <1>1, <1>5, <1>7, <1>9, ConfiguredMic DEF HostMicFeedsGame
<1>14. Slot2Follows'
  BY <1>2, <1>7, <1>8, <1>9, <1>10 DEF Slot2Follows
<1>15. CursorFollows'
  <2>1. /\ a.input \in Input
        /\ a.input.touchMode = cfg.touchMode /\ a.input.cursorMode = cfg.cursorMode
        /\ a.input.maxTimeout = cfg.cursorTimeout
        /\ a.input.joypadTouch = a.input.touchButton
        /\ a.input.pointerTouch = a.input.pointerTouching
        /\ a.input.touchButton = input.touchButton /\ a.input.direction = input.direction
        /\ a.input.pointerTouching = input.pointerTouching
        /\ a.input.rawPosition = input.rawPosition /\ a.input.timeout = input.timeout
        /\ (~a.input.dirty <=> ~input.dirty /\ ~CursorSettingsChange(cfg))
        /\ (input.dirty => idle = 0)
        /\ ~CursorSettingsChange(cfg) =>
             /\ a.input.cursorMode = input.cursorMode /\ a.input.maxTimeout = input.maxTimeout
             /\ UsesJoystick(a.input) = UsesJoystick(input)
             /\ UsesPointer(a.input) = UsesPointer(input)
    BY <1>1, <1>2, <1>5, CursorChange
  <2>2. /\ s.input \in Input
        /\ s.input.touchMode = cfg.touchMode /\ s.input.cursorMode = cfg.cursorMode
        /\ s.input.maxTimeout = cfg.cursorTimeout
        /\ s.input.joypadTouch = s.input.touchButton
        /\ s.input.pointerTouch = s.input.pointerTouching
        /\ s.input.touchButton = a.input.touchButton
        /\ s.input.direction = a.input.direction
        /\ s.input.pointerTouching = a.input.pointerTouching
        /\ s.input.rawPosition = a.input.rawPosition /\ s.input.timeout = a.input.timeout
        /\ s.input.dirty <=> a.input.dirty
    BY <1>1, <1>7, <2>1, ConfiguredCursor
  <2>3. UsesJoystick(s.input) = UsesJoystick(a.input) /\ UsesPointer(s.input) = UsesPointer(a.input)
    BY <2>1, <2>2 DEF UsesJoystick, UsesPointer
  <2>4. CASE s.input.dirty
    <3>1. idle' = 0
      BY <1>2, <2>1, <2>2, <2>4
    <3> QED BY <1>2, <1>8, <1>9, <1>10, <2>2, <2>4, <3>1 DEF CursorFollows
  <2>5. CASE ~s.input.dirty
    <3>1. ~input.dirty /\ ~CursorSettingsChange(cfg) /\ idle' = idle
      BY <1>2, <2>1, <2>2, <2>5
    <3>2. /\ UsesJoystick(input) =>
               /\ input.touchButton = ("touch" \in hand.poll.held)
               /\ input.direction = hand.poll.stick
          /\ UsesPointer(input) =>
               /\ input.pointerTouching = hand.poll.pressed
               /\ input.rawPosition = hand.poll.position
          /\ input.cursorMode = "Timeout" /\ input.timeout > 0 =>
               input.timeout + idle <= input.maxTimeout * FramesPerSecond
      BY <1>2, <3>1 DEF IInv, CursorFollows
    <3> QED BY <1>2, <1>8, <1>9, <1>10, <2>1, <2>2, <2>3, <2>5, <3>1, <3>2 DEF CursorFollows
  <2> QED BY <2>4, <2>5
<1>16. LayoutFollows'
  BY <1>5, <1>7, <1>9 DEF LayoutFollows
<1>17. RenderFollows'
  BY <1>2, <1>5, <1>7, <1>8, <1>9 DEF RenderFollows, Usable, Matched
<1> QED BY <1>11, <1>12, <1>13, <1>14, <1>15, <1>16, <1>17 DEF IInv

LEMMA CloseInv ==
  ASSUME IInv, Close
  PROVE  IInv'
<1>1. phase # "out"
  BY DEF Close
<1>2. (slot2.host /\ slot2.state # "On") = FALSE /\ CancelTasks(slot2).rumbling = FALSE
  <2>1. SlotFits(slot2, console.cart, config.realSensor) /\ slot2 \in Slot2
    BY <1>1, InSession, StateParts DEF IInv
  <2>2. CancelTasks(slot2).rumbling = (slot2.rumbling /\ ~slot2.task /\ ~slot2.ending)
    BY <2>1 DEF CancelTasks, Slot2
  <2> QED BY <2>1, <2>2 DEF SlotFits
<1>3. [NewParts EXCEPT !.slot2.host = FALSE, !.slot2.rumbling = FALSE].slot2 = NewSlot2
  BY DEF NewParts, NewSlot2
<1>4. /\ input' = NewInput /\ slot2' = NewSlot2 /\ mic' = NewMicrophone
      /\ layout' = NewLayout /\ render' = NoRenderState
  BY <1>2, <1>3 DEF Close, BecomeParts, NewParts
<1>5. /\ phase' = "out" /\ scene' = scene /\ config' = config /\ ~pending' /\ pending' \in BOOLEAN
      /\ console' = None /\ told' = NoGeometry /\ hand' = NoHand /\ steady' = TRUE /\ idle' = 0
      /\ due' = 0
  BY DEF Close
<1>6. scene' \in DOMAIN Scenes /\ config' \in here'.configs
  BY <1>5 DEF IInv, TypeOK, here
<1>7. Out'
  BY <1>4, <1>5, <1>6 DEF Out
<1>8. Out' => IInv'
  BY OutInv, PTL
<1> QED BY <1>7, <1>8

LEMMA StutterInv ==
  ASSUME IInv, UNCHANGED vars
  PROVE  IInv'
<1>1. /\ phase' = phase /\ scene' = scene /\ config' = config /\ pending' = pending
      /\ input' = input /\ slot2' = slot2 /\ mic' = mic /\ layout' = layout /\ render' = render
      /\ console' = console /\ told' = told /\ picture' = picture /\ hand' = hand
      /\ steady' = steady /\ idle' = idle /\ due' = due
  BY DEF vars, parts, history
<1>2. State' = State /\ here' = here
  BY <1>1 DEF State, here
<1>3. TypeOK' /\ SessionFollows' /\ HostMicFeedsGame' /\ Slot2Follows'
  <2> HIDE DEF State, here
  <2> QED BY <1>1, <1>2 DEF IInv, TypeOK, SessionFollows, HostMicFeedsGame, Slot2Follows
<1>4. CursorFollows' /\ LayoutFollows' /\ RenderFollows'
  BY <1>1 DEF IInv, CursorFollows, LayoutFollows, RenderFollows
<1>5. PictureIsCurrent'
  <2> HIDE DEF State
  <2> QED BY <1>1, <1>2 DEF IInv, PictureIsCurrent
<1> QED BY <1>3, <1>4, <1>5 DEF IInv

-----------------------------------------------------------------------------
(* A frame *)

\* What Run has prepared before the render state is asked whether it is ready: one
\* that is not is the state the call found.
LEMMA PreparedParts ==
  ASSUME IInv, phase = "running", NEW changed \in BOOLEAN, NEW cfg \in here.configs,
         NEW answer \in here.answers, slot2.host => answer.ready,
         pending \/ changed => HasContext, ~changed => cfg = config,
         NEW p, p = Prepared(changed, cfg, answer)
  PROVE  /\ p \in Parts /\ p.console \in Console /\ p.console.touch = console.touch
         /\ p.input = IF changed THEN SetInputConfig(input, cfg) ELSE input
         /\ p.console.cart = console.cart /\ p.slot2.pause = slot2.pause
         /\ SlotFits(p.slot2, console.cart, cfg.realSensor)
         /\ p.mic.shouldCapture /\ p.mic.open => p.mic.active
         /\ p.layout.scale > 0 /\ p.layout.index < Len(p.layout.layouts)
         /\ p.layout.dirty \/ LaidFor(p.layout, p.told)
         /\ Matched(p)
         /\ p.render.kind = "OpenGl" /\ p.render.ready =>
              \/ p.layout.dirty \/ p.render.needsRefresh \/ p.render.scale # cfg.scale
              \/ p.render.vertices = InitVertices(p.layout)
         /\ ~p.render.ready => ~changed /\ ~pending /\ p = State
<1> DEFINE w == Started(State, answer)
<1>1. /\ State \in Parts /\ State.input = input /\ State.slot2 = slot2 /\ State.mic = mic
      /\ State.layout = layout /\ State.render = render /\ State.console = console
      /\ State.told = told /\ cfg \in Config /\ answer \in Answer
      /\ answer.built \in BOOLEAN /\ answer.ready \in BOOLEAN /\ answer.opens \in BOOLEAN
      /\ cfg.realSensor \in BOOLEAN /\ slot2 \in Slot2 /\ mic \in Mic
      /\ pending \in BOOLEAN
  BY StateParts DEF IInv, Answer, Config, TypeOK
<1> HIDE DEF State
<1>2. /\ console \in Console /\ layout.scale > 0 /\ layout.index < Len(layout.layouts)
      /\ SlotFits(slot2, console.cart, config.realSensor) /\ (slot2.host => slot2.kind = "solar")
      /\ mic.shouldCapture /\ mic.open => mic.active
      /\ layout.dirty \/ LaidFor(layout, told)
  BY InSession
<1>3. /\ Usable(render)
      /\ ~pending => (render.kind = "OpenGl" <=> console.renderer = "gl")
      /\ render.kind = "OpenGl" /\ render.ready =>
           \/ layout.dirty \/ render.needsRefresh \/ render.scale # config.scale
           \/ render.vertices = InitVertices(layout)
  BY DEF IInv, RenderFollows, Usable
<1>4. pending \/ changed => render.ready
  BY <1>3 DEF HasContext, Usable
<1>5. /\ w \in Parts /\ w.console \in Console /\ SameDevices(w, State)
      /\ w.console.touch = console.touch /\ w.console.cart = console.cart /\ Matched(w)
      /\ (render.ready => w.render.ready)
      /\ (w.render.kind = "OpenGl" => w.render.needsRefresh \/ w.render = render)
      /\ (~pending => w = State)
  <2>1. CASE pending
    <3>1. w = StartConsole(State, answer.built)
      BY <2>1 DEF Started
    <3> HIDE DEF w
    <3> QED BY <1>1, <1>2, <1>3, <2>1, <3>1, StartedConsole
  <2>2. CASE ~pending
    <3>1. w = State
      BY <2>2 DEF Started
    <3> HIDE DEF w
    <3> QED BY <1>1, <1>2, <1>3, <2>2, <3>1 DEF SameDevices, Matched
  <2> QED BY <2>1, <2>2
<1>6. p = IF changed THEN ApplyConfig(w, cfg, answer) ELSE w
  BY DEF Prepared
<1> HIDE DEF w
<1>7. /\ w.input = input /\ w.slot2 = slot2 /\ w.mic = mic /\ w.layout = layout
      /\ w.told = told
  BY <1>1, <1>5 DEF SameDevices
<1>8. CASE ~changed
  <2>1. p = w /\ cfg = config
    BY <1>6, <1>8
  <2>2. p.render.kind = "OpenGl" /\ p.render.ready =>
          \/ p.layout.dirty \/ p.render.needsRefresh \/ p.render.scale # cfg.scale
          \/ p.render.vertices = InitVertices(p.layout)
    BY <1>3, <1>5, <1>7, <2>1
  <2>3. ~p.render.ready => ~changed /\ ~pending /\ p = State
    BY <1>4, <1>5, <1>8, <2>1
  <2> QED BY <1>2, <1>5, <1>7, <1>8, <2>1, <2>2, <2>3
<1>9. CASE changed
  <2>1. p = ApplyConfig(w, cfg, answer)
    BY <1>6, <1>9
  <2>2. w.layout.index < Len(w.layout.layouts)
    BY <1>2, <1>7
  <2>3. Usable(w.render) /\ (w.render.kind = "OpenGl" => w.render.ready)
    BY <1>4, <1>5, <1>9 DEF Matched
  <2>4. w.slot2.host => answer.ready /\ w.slot2.kind = "solar"
    BY <1>2, <1>7
  <2>5. /\ p \in Parts /\ p.console \in Console /\ p.console.touch = w.console.touch
        /\ p.console.cart = w.console.cart
        /\ p.input = SetInputConfig(w.input, cfg)
        /\ p.slot2 = SetSolarConfig(w.slot2, cfg.realSensor, answer.ready)
        /\ p.mic = SetMicConfig(w.mic, cfg, answer.opens)
        /\ p.layout.dirty /\ p.layout.scale > 0 /\ p.layout.index < Len(p.layout.layouts)
        /\ Matched(p) /\ p.render.ready
    BY <1>1, <1>5, <2>1, <2>2, <2>3, <2>4, AppliedConfig
  <2>6. ~p.mic.shouldCapture
    BY <1>1, <1>7, <2>5, ConfiguredMic
  <2>7. SlotFits(p.slot2, console.cart, cfg.realSensor) /\ p.slot2.pause = slot2.pause
    BY <1>1, <1>2, <1>7, <2>5, ConfiguredFits
  <2> QED BY <1>2, <1>5, <1>7, <1>9, <2>5, <2>6, <2>7
<1> QED BY <1>8, <1>9

\* The cycle button leaves a layout that is not dirty as it was.
LEMMA ReadLayout ==
  ASSUME NEW l \in LayoutData, l.index < Len(l.layouts), l.scale > 0, NEW m,
         m \in {l, NextLayout(l)}
  PROVE  /\ m \in LayoutData /\ m.index < Len(m.layouts) /\ m.scale > 0
         /\ ~m.dirty => ~l.dirty /\ InitVertices(m) = InitVertices(l)
         /\ \A told_ : ~m.dirty /\ LaidFor(l, told_) => LaidFor(m, told_)
<1>1. CASE m = l
  BY <1>1
<1>2. CASE m = NextLayout(l)
  <2>1. /\ m \in LayoutData /\ m.index < Len(m.layouts) /\ m.scale = l.scale
        /\ m.gap = l.gap /\ m.small = l.small /\ m.ratio = l.ratio
        /\ m.top = l.top /\ m.bottom = l.bottom /\ m.hybrid = l.hybrid /\ m.size = l.size
        /\ ~m.dirty => ~l.dirty /\ Layout(m) = Layout(l)
    BY <1>2, NextOfLayouts
  <2>2. ASSUME ~m.dirty
        PROVE  InitVertices(m) = InitVertices(l)
    BY <2>1, <2>2, SameScreens
  <2>3. ASSUME NEW told_, ~m.dirty, LaidFor(l, told_)
        PROVE  LaidFor(m, told_)
    <3>1. /\ TopScreenMatrix(m) = TopScreenMatrix(l)
          /\ BottomScreenMatrix(m) = BottomScreenMatrix(l)
          /\ HybridScreenMatrix(m) = HybridScreenMatrix(l)
      BY <2>1, <2>3, SameMatrices
    <3> QED BY <2>1, <2>3, <3>1 DEF LaidFor
  <2> QED BY <2>1, <2>2, <2>3
<1> QED BY <1>1, <1>2

\* What a frame makes of the prepared parts.
LEMMA FrameParts ==
  ASSUME NEW p \in Parts, p.console \in Console, p.layout.scale > 0,
         p.layout.index < Len(p.layout.layouts), p.layout.dirty \/ LaidFor(p.layout, p.told),
         NEW cfg \in Config, SlotFits(p.slot2, p.console.cart, cfg.realSensor),
         p.mic.shouldCapture /\ p.mic.open => p.mic.active,
         Matched(p), p.render.ready,
         NEW poll \in Poll, NEW answer \in Answer, NEW game \in Game,
         p.render.kind = "OpenGl" =>
           \/ p.layout.dirty \/ p.render.needsRefresh \/ p.render.scale # cfg.scale
           \/ p.render.vertices = InitVertices(p.layout),
         NEW r, r = ReadInput(p, poll, answer), NEW l, l = LaidOut(r, answer),
         NEW d, d = Drawn(l, cfg, game)
  PROVE  /\ d \in Parts /\ d.console \in Console
         /\ d.input = UpdateCursor(PollDevices(p.input, poll), p.layout)
         /\ d.console.touch = ApplyCursor(d.input, p.console.touch, Off)
         /\ d.console.cart = p.console.cart /\ SlotFits(d.slot2, p.console.cart, cfg.realSensor)
         /\ ~d.slot2.ending /\ (d.slot2.rumbling => d.slot2.pause > 0)
         /\ p.console.cart = "rumble" =>
              d.slot2.pause = Shorter(PauseAfter(p.slot2.pause, game))
         /\ d.mic.shouldCapture /\ d.mic.open => d.mic.active
         /\ d.layout.scale > 0 /\ d.layout.index < Len(d.layout.layouts)
         /\ ~d.layout.dirty /\ LaidFor(d.layout, d.told)
         /\ Matched(d) /\ d.render.ready
         /\ d.render.kind = "OpenGl" => d.render.vertices = InitVertices(d.layout)
<1>1. /\ p.slot2 \in Slot2 /\ p.layout \in LayoutData /\ p.render \in RenderData
      /\ p.input \in Input /\ answer.ready \in BOOLEAN
  BY PartsOf DEF Answer
<1>2. /\ r \in Parts /\ r.console \in Console
      /\ r.input = UpdateCursor(PollDevices(p.input, poll), p.layout)
      /\ r.console.touch = ApplyCursor(r.input, p.console.touch, Off)
      /\ r.console.renderer = p.console.renderer
      /\ r.layout \in {p.layout, NextLayout(p.layout)}
      /\ r.console.cart = p.console.cart
      /\ r.slot2 = UpdateSolar(p.slot2, PollDevices(p.input, poll), answer.ready,
                               p.console.cart)
      /\ (r.mic.shouldCapture /\ r.mic.open => r.mic.active)
      /\ r.render = p.render /\ r.told = p.told
  BY ReadParts
<1>3. PollDevices(p.input, poll) \in Input
  BY <1>1, PolledDevices
<1>4. /\ r.slot2 \in Slot2 /\ SlotFits(r.slot2, p.console.cart, cfg.realSensor)
      /\ r.slot2.pause = p.slot2.pause
  BY <1>1, <1>2, <1>3, UpdatedSlot2
<1>5. /\ r.layout \in LayoutData /\ r.layout.index < Len(r.layout.layouts) /\ r.layout.scale > 0
      /\ ~r.layout.dirty => ~p.layout.dirty /\ InitVertices(r.layout) = InitVertices(p.layout)
      /\ \A told_ : ~r.layout.dirty /\ LaidFor(p.layout, told_) => LaidFor(r.layout, told_)
  BY <1>1, <1>2, ReadLayout
<1>6. r.layout.dirty \/ LaidFor(r.layout, r.told)
  BY <1>2, <1>5
<1>7. /\ l \in Parts /\ l.console = r.console /\ l.input = r.input /\ l.slot2 = r.slot2
      /\ l.mic = r.mic /\ ~l.layout.dirty /\ l.layout.scale > 0
      /\ l.layout.index = r.layout.index /\ l.layout.layouts = r.layout.layouts
      /\ LaidFor(l.layout, l.told)
      /\ l.render.kind = r.render.kind /\ l.render.ready = r.render.ready
      /\ \/ l.layout = r.layout /\ l.render = r.render
         \/ r.render.kind = "OpenGl" => l.render.needsRefresh
  BY <1>2, <1>5, <1>6, LaidOutParts
<1>8. l.layout \in LayoutData /\ l.render \in RenderData
  BY <1>7, PartsOf
<1>9. l.render.kind = "OpenGl" =>
        \/ l.render.needsRefresh \/ l.render.scale # cfg.scale
        \/ l.render.vertices = InitVertices(l.layout)
  <2>1. CASE l.layout = r.layout /\ l.render = r.render
    <3>1. ~r.layout.dirty
      BY <1>7, <2>1
    <3> QED BY <1>2, <1>5, <2>1, <3>1
  <2>2. CASE r.render.kind = "OpenGl" => l.render.needsRefresh
    BY <1>7, <2>2
  <2> QED BY <1>7, <2>1, <2>2
<1>10. /\ l.console.cart = p.console.cart /\ l.slot2 \in Slot2
       /\ SlotFits(l.slot2, p.console.cart, cfg.realSensor)
       /\ l.slot2.pause = p.slot2.pause
  BY <1>2, <1>4, <1>7
<1>12. l.console \in Console
  BY <1>2, <1>7
<1>13. /\ d \in Parts /\ d.console \in Console /\ d.console.touch = l.console.touch
       /\ d.console.renderer = l.console.renderer
       /\ d.input = l.input /\ d.mic = l.mic /\ d.layout = l.layout /\ d.told = l.told
       /\ d.render = Refreshed(l.render, cfg, l.layout)
       /\ d.console.cart = l.console.cart
       /\ d.slot2 = CheckTasks(IF l.console.cart = "rumble" THEN UseMotor(l.slot2, game)
                               ELSE l.slot2)
  BY <1>7, <1>10, <1>12, DrawnParts
<1>14. /\ d.render.kind = l.render.kind /\ d.render.ready = l.render.ready
       /\ d.render.kind = "OpenGl" => d.render.vertices = InitVertices(d.layout)
  BY <1>8, <1>9, <1>13, RefreshedRender
<1>15. Matched(d) /\ d.render.ready
  BY <1>2, <1>7, <1>13, <1>14 DEF Matched, Usable
<1>16. /\ d.console.cart = p.console.cart
       /\ SlotFits(d.slot2, p.console.cart, cfg.realSensor)
       /\ ~d.slot2.ending /\ (d.slot2.rumbling => d.slot2.pause > 0)
       /\ p.console.cart = "rumble" =>
            d.slot2.pause = Shorter(PauseAfter(p.slot2.pause, game))
  BY <1>10, <1>13, DrawnSlot
<1>17. /\ d.input = UpdateCursor(PollDevices(p.input, poll), p.layout)
       /\ d.console.touch = ApplyCursor(d.input, p.console.touch, Off)
  BY <1>2, <1>7, <1>13
<1>18. d.mic.shouldCapture /\ d.mic.open => d.mic.active
  BY <1>2, <1>7, <1>13
<1>19. /\ d.layout.scale > 0 /\ d.layout.index < Len(d.layout.layouts)
       /\ ~d.layout.dirty /\ LaidFor(d.layout, d.told)
  BY <1>5, <1>7, <1>13
<1> QED BY <1>13, <1>14, <1>15, <1>16, <1>17, <1>18, <1>19

LEMMA NotReadyInv ==
  ASSUME IInv, NEW changed \in BOOLEAN, NEW cfg \in here.configs, NEW answer \in here.answers,
         phase = "running", slot2.host => answer.ready, pending \/ changed => HasContext,
         ~changed => cfg = config,
         NEW p, p = Prepared(changed, cfg, answer), ~p.render.ready, Become(p),
         hand' = [hand EXCEPT !.drew = FALSE, !.changed = changed],
         steady' = steady, idle' = idle, due' = due, pending' = FALSE, config' = cfg, scene' = scene,
         phase' = (IF changed /\ ShutsDown(State, cfg, answer) THEN "stopped" ELSE phase)
  PROVE  IInv'
<1>1. ~changed /\ ~pending /\ p = State
  BY PreparedParts
<1>2. /\ phase' = phase /\ config' = config /\ pending' = pending /\ Become(State)
  BY <1>1 DEF IInv, TypeOK
<1>3. /\ State \in Parts /\ State.input = input /\ State.slot2 = slot2 /\ State.mic = mic
      /\ State.layout = layout /\ State.render = render /\ State.console = console
      /\ State.told = told
  BY StateParts DEF IInv
<1>4. /\ input' = input /\ slot2' = slot2 /\ mic' = mic /\ layout' = layout /\ render' = render
      /\ console' = console /\ told' = told
  <2> HIDE DEF State
  <2> QED BY <1>2, <1>3, StateIs
<1>5. /\ hand'.poll = hand.poll /\ ~hand'.drew
      /\ hand' \in [poll : Poll, changed : BOOLEAN, drew : BOOLEAN]
  BY DEF IInv, TypeOK
<1>6. State' = State /\ here' = here
  BY <1>4 DEF State, here
<1>7. TypeOK'
  <2> HIDE DEF State, here
  <2> QED BY <1>2, <1>4, <1>5, <1>6 DEF IInv, TypeOK
<1>8. SessionFollows' /\ HostMicFeedsGame' /\ PictureIsCurrent'
  BY <1>2, <1>4, <1>5 DEF IInv, SessionFollows, HostMicFeedsGame, PictureIsCurrent
<1>9. Slot2Follows'
  <2> HIDE DEF here
  <2> QED BY <1>2, <1>4, <1>5, <1>6 DEF IInv, Slot2Follows
<1>10. CursorFollows'
  BY <1>2, <1>4, <1>5 DEF IInv, CursorFollows
<1>11. LayoutFollows' /\ RenderFollows'
  BY <1>2, <1>4 DEF IInv, LayoutFollows, RenderFollows
<1> QED BY <1>7, <1>8, <1>9, <1>10, <1>11 DEF IInv

\* A picture of parts that belong together is current.
LEMMA DrawnPicture ==
  ASSUME NEW d \in Parts, Matched(d), ~d.layout.dirty, d.layout.scale > 0,
         LaidFor(d.layout, d.told),
         d.render.kind = "OpenGl" => d.render.vertices = InitVertices(d.layout),
         NEW shown, shown = Render(d.render, d.layout)
  PROVE  /\ shown.size = d.told.base /\ shown.by = RendererOf(d)
         /\ shown.screens = IF shown.by = "OpenGl" THEN InitVertices(Update(d.layout, TRUE))
                            ELSE CombineScreens(Update(d.layout, TRUE))
<1> DEFINE u == Update(d.layout, TRUE)
<1>1. d.layout \in LayoutData
  BY PartsOf
<1>2. /\ u.small = d.layout.small /\ u.ratio = d.layout.ratio /\ Layout(u) = Layout(d.layout)
      /\ u.top = TopScreenMatrix(d.layout) /\ u.bottom = BottomScreenMatrix(d.layout)
      /\ u.hybrid = HybridScreenMatrix(d.layout)
  BY <1>1, UpdatedLayout
<1> HIDE DEF u
<1>3. u.top = d.layout.top /\ u.bottom = d.layout.bottom /\ u.hybrid = d.layout.hybrid
  BY <1>2 DEF LaidFor
<1>4. InitVertices(u) = InitVertices(d.layout) /\ CombineScreens(u) = CombineScreens(d.layout)
  BY <1>2, <1>3, SameScreens
<1>5. /\ shown.by = d.render.kind /\ shown.size = d.layout.size
      /\ shown.screens = IF d.render.kind = "OpenGl" THEN d.render.vertices
                         ELSE CombineScreens(d.layout)
  BY DEF Render
<1>6. d.render.kind = RendererOf(d)
  BY DEF Matched, Usable, RendererOf
<1>7. shown.size = d.told.base
  BY <1>5 DEF LaidFor
<1> QED BY <1>4, <1>5, <1>6, <1>7 DEF u

LEMMA SmallerIdle ==
  ASSUME NEW n \in Nat
  PROVE  /\ Min({n + 1, MaxIdle}) \in Nat /\ Min({n + 1, MaxIdle}) <= n + 1
<1>1. MaxIdle \in Nat
  BY BoundsAssumption
<1>2. \E x \in {n + 1, MaxIdle} : \A y \in {n + 1, MaxIdle} : x <= y
  <2>1. CASE n + 1 <= MaxIdle
    BY <1>1, <2>1
  <2>2. CASE ~(n + 1 <= MaxIdle)
    BY <1>1, <2>2
  <2> QED BY <2>1, <2>2
<1>3. /\ Min({n + 1, MaxIdle}) \in {n + 1, MaxIdle}
      /\ \A y \in {n + 1, MaxIdle} : Min({n + 1, MaxIdle}) <= y
  BY <1>2 DEF Min
<1> QED BY <1>1, <1>3

IdleAfter(poll, cfg) ==
  IF PlayerUsed(poll) \/ CursorSettingsChange(cfg) THEN 1 ELSE Min({idle + 1, MaxIdle})

\* The cursor after a frame: it holds what the player does, is no more idle than
\* its timeout says, and the console is touched by a touch that began and goes on.
LEMMA FrameCursor ==
  ASSUME IInv, phase = "running", NEW changed \in BOOLEAN, NEW cfg \in here.configs,
         NEW poll \in Poll, NEW l \in LayoutData, ~changed => cfg = config,
         NEW i, i = (IF changed THEN SetInputConfig(input, cfg) ELSE input),
         NEW r, r = UpdateCursor(PollDevices(i, poll), l),
         NEW touch, touch = ApplyCursor(r, console.touch, Off)
  PROVE  /\ r \in Input /\ ~r.dirty /\ IdleAfter(poll, cfg) \in Nat
         /\ r.joypadTouch = r.touchButton /\ r.pointerTouch = r.pointerTouching
         /\ r.touchMode = cfg.touchMode /\ r.cursorMode = cfg.cursorMode
         /\ r.maxTimeout = cfg.cursorTimeout
         /\ UsesJoystick(r) =>
              r.touchButton = ("touch" \in poll.held) /\ r.direction = poll.stick
         /\ UsesPointer(r) => r.pointerTouching = poll.pressed /\ r.rawPosition = poll.position
         /\ r.cursorMode = "Timeout" /\ r.timeout > 0 =>
              r.timeout + IdleAfter(poll, cfg) <= r.maxTimeout * FramesPerSecond
         /\ steady /\ (cfg.touchMode = config.touchMode \/ console.touch = Off) /\ touch # Off
              => IsTouching(r)
         /\ IsTouching(r) => touch # Off
<1>1. input \in Input /\ cfg \in Config /\ config \in Config /\ idle \in Nat
  BY StateParts DEF IInv, TypeOK
<1>2. /\ input.touchMode = config.touchMode /\ input.cursorMode = config.cursorMode
      /\ input.maxTimeout = config.cursorTimeout
      /\ input.joypadTouch = input.touchButton /\ input.pointerTouch = input.pointerTouching
      /\ input.dirty => idle = 0 /\ console.touch = Off
      /\ ~input.dirty =>
           /\ UsesJoystick(input) =>
                /\ input.touchButton = ("touch" \in hand.poll.held)
                /\ input.direction = hand.poll.stick
           /\ UsesPointer(input) =>
                /\ input.pointerTouching = hand.poll.pressed
                /\ input.rawPosition = hand.poll.position
           /\ input.cursorMode = "Timeout" /\ input.timeout > 0 =>
                input.timeout + idle <= input.maxTimeout * FramesPerSecond
      /\ steady /\ console.touch # Off => IsTouching(input)
  BY DEF IInv, CursorFollows
<1>3. /\ i \in Input
      /\ i.touchMode = cfg.touchMode /\ i.cursorMode = cfg.cursorMode
      /\ i.maxTimeout = cfg.cursorTimeout
      /\ i.joypadTouch = i.touchButton /\ i.pointerTouch = i.pointerTouching
      /\ i.touchButton = input.touchButton /\ i.direction = input.direction
      /\ i.pointerTouching = input.pointerTouching /\ i.rawPosition = input.rawPosition
      /\ i.timeout = input.timeout
      /\ ~i.dirty <=> ~input.dirty /\ ~CursorSettingsChange(cfg)
      /\ cfg.touchMode = config.touchMode => IsTouching(i) = IsTouching(input)
      /\ ~CursorSettingsChange(cfg) =>
           /\ i.cursorMode = input.cursorMode /\ i.maxTimeout = input.maxTimeout
           /\ UsesJoystick(i) = UsesJoystick(input) /\ UsesPointer(i) = UsesPointer(input)
  <2>1. CASE changed
    <3>1. i = SetInputConfig(input, cfg)
      BY <2>1
    <3> QED BY <1>1, <3>1, CursorChange
  <2>2. CASE ~changed
    <3>1. i = input /\ cfg = config
      BY <2>2
    <3>2. ~CursorSettingsChange(cfg)
      BY <3>1 DEF CursorSettingsChange
    <3> QED BY <1>1, <1>2, <3>1, <3>2
  <2> QED BY <2>1, <2>2
<1>4. /\ r \in Input /\ ~r.dirty
      /\ r.touchMode = i.touchMode /\ r.cursorMode = i.cursorMode
      /\ r.maxTimeout = i.maxTimeout
      /\ r.joypadTouch = r.touchButton /\ r.pointerTouch = r.pointerTouching
      /\ UsesJoystick(r) =>
           r.touchButton = ("touch" \in poll.held) /\ r.direction = poll.stick
      /\ UsesPointer(r) =>
           r.pointerTouching = poll.pressed /\ r.rawPosition = poll.position
      /\ IsTouching(i) => IsTouching(r) \/ r.released
      /\ LET used == i.dirty \/ JoypadUsed(i, poll) \/ PointerUsed(i, poll)
             timeout == IF used THEN i.maxTimeout * FramesPerSecond ELSE i.timeout
         IN r.timeout = IF i.cursorMode = "Timeout" /\ timeout > 0 THEN timeout - 1 ELSE timeout
  BY <1>3, ReadCursor
<1> DEFINE idle_ == IdleAfter(poll, cfg)
           used == i.dirty \/ JoypadUsed(i, poll) \/ PointerUsed(i, poll)
           full == i.maxTimeout * FramesPerSecond
           timeout == IF used THEN full ELSE i.timeout
<1>5. r.timeout = IF i.cursorMode = "Timeout" /\ timeout > 0 THEN timeout - 1 ELSE timeout
  BY <1>4
<1>6. ~i.dirty => (PlayerUsed(poll) <=> JoypadUsed(i, poll) \/ PointerUsed(i, poll))
  BY <1>2, <1>3 DEF PlayerUsed, JoypadUsed, PointerUsed
<1>7. /\ PlayerUsed(poll) \/ CursorSettingsChange(cfg) => used
      /\ used => PlayerUsed(poll) \/ CursorSettingsChange(cfg) \/ idle = 0
  BY <1>2, <1>3, <1>6
<1>8. idle_ \in Nat /\ (used => idle_ <= 1) /\ (~used => idle_ <= idle + 1)
  BY <1>1, <1>7, SmallerIdle DEF IdleAfter
<1> HIDE DEF idle_
<1>9. full \in Nat /\ i.timeout \in Nat
  BY <1>3, InputAssumption DEF Input
<1>10. r.cursorMode = "Timeout" /\ r.timeout > 0 => r.timeout + idle_ <= full
  <2> SUFFICES ASSUME r.cursorMode = "Timeout", r.timeout > 0
               PROVE  r.timeout + idle_ <= full
    OBVIOUS
  <2>1. CASE used
    <3>1. timeout = full
      BY <2>1
    <3> HIDE DEF timeout, used, full
    <3> QED BY <1>4, <1>5, <1>8, <1>9, <2>1, <3>1
  <2>2. CASE ~used
    <3>1. timeout = i.timeout /\ ~i.dirty
      BY <2>2
    <3>2. input.cursorMode = "Timeout" /\ input.timeout = i.timeout /\ ~input.dirty
          /\ input.maxTimeout = i.maxTimeout
      BY <1>3, <1>4, <3>1
    <3>3. i.timeout > 0 => i.timeout + idle <= full
      BY <1>2, <3>2
    <3> HIDE DEF timeout, used, full
    <3> QED BY <1>1, <1>4, <1>5, <1>8, <1>9, <2>2, <3>1, <3>3
  <2> QED BY <2>1, <2>2
<1>11. touch = IF IsTouching(r) THEN r.consoleTouch ELSE IF r.released THEN Off ELSE console.touch
  BY DEF ApplyCursor
<1>12. IsTouching(r) => touch # Off
  BY <1>4, <1>11, OffAssumption DEF Input
<1>13. steady /\ (cfg.touchMode = config.touchMode \/ console.touch = Off) /\ touch # Off
         => IsTouching(r)
  BY <1>2, <1>3, <1>4, <1>11
<1> QED BY <1>3, <1>4, <1>8, <1>10, <1>12, <1>13 DEF full, idle_

LEMMA RunInv ==
  ASSUME IInv, NEW changed \in BOOLEAN, NEW cfg \in here.configs, NEW poll \in here.polls,
         NEW game \in here.games, NEW answer \in here.answers, Run(changed, cfg, poll, game, answer)
  PROVE  IInv'
<1> DEFINE p == Prepared(changed, cfg, answer)
           r == ReadInput(p, poll, answer)
           l == LaidOut(r, answer)
           d == Drawn(l, cfg, game)
<1>1. /\ phase = "running" /\ (slot2.host => answer.ready) /\ (pending \/ changed => HasContext)
      /\ (~changed => cfg = config) /\ pending' = FALSE /\ config' = cfg /\ scene' = scene
      /\ phase' = (IF changed /\ ShutsDown(State, cfg, answer) THEN "stopped" ELSE phase)
  BY DEF Run, Answers
<1>2. \/ /\ ~p.render.ready /\ Become(p)
         /\ hand' = [hand EXCEPT !.drew = FALSE, !.changed = changed]
         /\ steady' = steady /\ idle' = idle /\ due' = due
      \/ /\ p.render.ready /\ Become(d) /\ picture' = Render(d.render, d.layout)
         /\ hand' = [poll |-> poll, changed |-> changed, drew |-> TRUE]
         /\ steady' = \/ console'.touch = Off
                      \/ steady /\ (cfg.touchMode = config.touchMode \/ console.touch = Off)
         /\ idle' = (IF PlayerUsed(poll) \/ CursorSettingsChange(cfg) THEN 1
                     ELSE Min({idle + 1, MaxIdle}))
         /\ due' = DueAfter(game)
  <2> HIDE DEF p, r, l, d
  <2>1. \E q \in {p} :
          \/ /\ ~q.render.ready /\ Become(q)
             /\ hand' = [hand EXCEPT !.drew = FALSE, !.changed = changed]
             /\ steady' = steady /\ idle' = idle /\ due' = due
          \/ /\ q.render.ready
             /\ hand' = [poll |-> poll, changed |-> changed, drew |-> TRUE]
             /\ \E read \in {ReadInput(q, poll, answer)} :
                  \E laid \in {LaidOut(read, answer)} :
                    \E drawn \in {Drawn(laid, cfg, game)} :
                      Become(drawn) /\ picture' = Render(drawn.render, drawn.layout)
             /\ steady' = \/ console'.touch = Off
                          \/ steady /\ (cfg.touchMode = config.touchMode \/ console.touch = Off)
             /\ idle' = (IF PlayerUsed(poll) \/ CursorSettingsChange(cfg) THEN 1
                         ELSE Min({idle + 1, MaxIdle}))
             /\ due' = DueAfter(game)
    BY DEF Run, p
  <2>2. r = ReadInput(p, poll, answer) /\ l = LaidOut(r, answer) /\ d = Drawn(l, cfg, game)
    BY DEF r, l, d
  <2> QED BY <2>1, <2>2
<1>3. /\ cfg \in Config /\ poll \in Poll /\ answer \in Answer /\ game \in Game
  BY StateParts DEF IInv
<1>p. p = Prepared(changed, cfg, answer)
  OBVIOUS
<1>d. r = ReadInput(p, poll, answer) /\ l = LaidOut(r, answer) /\ d = Drawn(l, cfg, game)
  OBVIOUS
<1> HIDE DEF p, r, l, d
<1>4. CASE ~p.render.ready
  BY <1>1, <1>2, <1>4, <1>p, NotReadyInv
<1>5. CASE p.render.ready
  <2>1. /\ p \in Parts /\ p.console \in Console /\ p.console.touch = console.touch
        /\ p.input = (IF changed THEN SetInputConfig(input, cfg) ELSE input)
        /\ p.console.cart = console.cart /\ p.slot2.pause = slot2.pause
        /\ SlotFits(p.slot2, p.console.cart, cfg.realSensor)
        /\ (p.mic.shouldCapture /\ p.mic.open => p.mic.active)
        /\ p.layout.scale > 0 /\ p.layout.index < Len(p.layout.layouts)
        /\ (p.layout.dirty \/ LaidFor(p.layout, p.told))
        /\ Matched(p)
        /\ p.render.kind = "OpenGl" =>
             \/ p.layout.dirty \/ p.render.needsRefresh \/ p.render.scale # cfg.scale
             \/ p.render.vertices = InitVertices(p.layout)
    BY <1>1, <1>5, <1>p, PreparedParts
  <2>2. /\ d \in Parts /\ d.console \in Console
        /\ d.input = UpdateCursor(PollDevices(p.input, poll), p.layout)
        /\ d.console.touch = ApplyCursor(d.input, p.console.touch, Off)
        /\ d.console.cart = p.console.cart /\ SlotFits(d.slot2, p.console.cart, cfg.realSensor)
        /\ ~d.slot2.ending /\ (d.slot2.rumbling => d.slot2.pause > 0)
        /\ (p.console.cart = "rumble" =>
              d.slot2.pause = Shorter(PauseAfter(p.slot2.pause, game)))
        /\ (d.mic.shouldCapture /\ d.mic.open => d.mic.active)
        /\ d.layout.scale > 0 /\ d.layout.index < Len(d.layout.layouts)
        /\ ~d.layout.dirty /\ LaidFor(d.layout, d.told)
        /\ Matched(d) /\ d.render.ready
        /\ d.render.kind = "OpenGl" => d.render.vertices = InitVertices(d.layout)
    BY <1>3, <1>5, <1>d, <2>1, FrameParts
  <2>3. /\ Become(d) /\ picture' = Render(d.render, d.layout)
        /\ hand' = [poll |-> poll, changed |-> changed, drew |-> TRUE]
        /\ steady' = (\/ console'.touch = Off
                      \/ steady /\ (cfg.touchMode = config.touchMode \/ console.touch = Off))
        /\ idle' = (IF PlayerUsed(poll) \/ CursorSettingsChange(cfg) THEN 1
                    ELSE Min({idle + 1, MaxIdle}))
        /\ due' = DueAfter(game)
    BY <1>2, <1>5
  <2>4. /\ input' = d.input /\ slot2' = d.slot2 /\ mic' = d.mic /\ layout' = d.layout
        /\ render' = d.render /\ console' = d.console /\ told' = d.told /\ State' = d
    BY <2>2, <2>3, StateIs
  <2>5. p.layout \in LayoutData
    BY <2>1, PartsOf
  <2>6. /\ d.input \in Input /\ ~d.input.dirty /\ idle' \in Nat
        /\ d.input.joypadTouch = d.input.touchButton
        /\ d.input.pointerTouch = d.input.pointerTouching
        /\ d.input.touchMode = cfg.touchMode /\ d.input.cursorMode = cfg.cursorMode
        /\ d.input.maxTimeout = cfg.cursorTimeout
        /\ UsesJoystick(d.input) =>
             d.input.touchButton = ("touch" \in poll.held) /\ d.input.direction = poll.stick
        /\ UsesPointer(d.input) =>
             d.input.pointerTouching = poll.pressed /\ d.input.rawPosition = poll.position
        /\ d.input.cursorMode = "Timeout" /\ d.input.timeout > 0 =>
             d.input.timeout + idle' <= d.input.maxTimeout * FramesPerSecond
        /\ steady' /\ d.console.touch # Off => IsTouching(d.input)
        /\ IsTouching(d.input) => d.console.touch # Off
    <3>1. d.console.touch = ApplyCursor(d.input, console.touch, Off)
      BY <2>1, <2>2
    <3>2. steady' <=> \/ d.console.touch = Off
                      \/ steady /\ (cfg.touchMode = config.touchMode \/ console.touch = Off)
      BY <2>3, <2>4
    <3>3. idle' = IdleAfter(poll, cfg)
      BY <2>3 DEF IdleAfter
    <3>4. phase = "running" /\ (~changed => cfg = config) /\ poll \in Poll
      BY <1>1, <1>3
    <3>5. d.input = UpdateCursor(PollDevices(p.input, poll), p.layout)
      BY <2>2
    <3>6. p.input = IF changed THEN SetInputConfig(input, cfg) ELSE input
      BY <2>1
    <3>7. /\ d.input \in Input /\ ~d.input.dirty /\ IdleAfter(poll, cfg) \in Nat
          /\ d.input.joypadTouch = d.input.touchButton
          /\ d.input.pointerTouch = d.input.pointerTouching
          /\ d.input.touchMode = cfg.touchMode /\ d.input.cursorMode = cfg.cursorMode
          /\ d.input.maxTimeout = cfg.cursorTimeout
          /\ UsesJoystick(d.input) =>
               d.input.touchButton = ("touch" \in poll.held) /\ d.input.direction = poll.stick
          /\ UsesPointer(d.input) =>
               d.input.pointerTouching = poll.pressed /\ d.input.rawPosition = poll.position
          /\ d.input.cursorMode = "Timeout" /\ d.input.timeout > 0 =>
               d.input.timeout + IdleAfter(poll, cfg) <= d.input.maxTimeout * FramesPerSecond
          /\ steady /\ (cfg.touchMode = config.touchMode \/ console.touch = Off)
               /\ d.console.touch # Off => IsTouching(d.input)
          /\ IsTouching(d.input) => d.console.touch # Off
      BY <2>5, <3>1, <3>4, <3>5, <3>6, FrameCursor
    <3> QED BY <3>2, <3>3, <3>7
  <2>7. phase' \in {"running", "stopped"} /\ here' = here
    BY <1>1 DEF here
  <2>8. hand'.poll = poll /\ hand'.drew
    BY <2>3
  <2>9. TypeOK'
    <3>1. steady' \in BOOLEAN /\ hand' \in [poll : Poll, changed : BOOLEAN, drew : BOOLEAN]
      BY <1>3, <2>3 DEF IInv, TypeOK
    <3>2. config' \in here'.configs /\ scene' \in DOMAIN Scenes /\ due' \in Nat
      <4>1. due' \in Nat
        BY <1>3, <2>3 DEF DueAfter, Asked, Game, IInv, TypeOK
      <4> QED BY <1>1, <2>7, <4>1 DEF IInv, TypeOK
    <3> HIDE DEF here
    <3> QED BY <1>1, <2>2, <2>4, <2>6, <2>7, <3>1, <3>2 DEF TypeOK
  <2>10. SessionFollows'
    BY <2>2, <2>4, <2>7, NoneAssumption DEF SessionFollows
  <2>11. HostMicFeedsGame'
    BY <2>2, <2>4 DEF HostMicFeedsGame
  <2>12. Slot2Follows'
    <3>1. d.console.cart = "rumble" => d.slot2.pause = due'
      <4> SUFFICES ASSUME console.cart = "rumble" PROVE d.slot2.pause = due'
        BY <2>1, <2>2
      <4>1. d.slot2.pause = Shorter(PauseAfter(due, game))
        BY <1>1, <2>1, <2>2, InSession
      <4>2. PauseAfter(due, game) = Asked(game) /\ Asked(game) \in Nat
        BY <1>3 DEF PauseAfter, Asked, Game, IInv, TypeOK
      <4>3. due' = IF Asked(game) > 0 THEN Asked(game) - 1 ELSE 0
        BY <2>3 DEF DueAfter
      <4> QED BY <4>1, <4>2, <4>3 DEF Shorter
    <3> QED BY <1>1, <2>1, <2>2, <2>4, <3>1 DEF Slot2Follows
  <2>13. CursorFollows'
    BY <1>1, <2>4, <2>6, <2>8 DEF CursorFollows
  <2>14. LayoutFollows'
    BY <2>2, <2>4 DEF LayoutFollows
  <2>15. RenderFollows'
    BY <1>1, <2>2, <2>4 DEF RenderFollows, Matched, Usable
  <2>16. PictureIsCurrent'
    <3>1. /\ picture'.size = d.told.base /\ picture'.by = RendererOf(d)
          /\ picture'.screens = (IF picture'.by = "OpenGl" THEN InitVertices(Update(d.layout, TRUE))
                                 ELSE CombineScreens(Update(d.layout, TRUE)))
      BY <2>2, <2>3, DrawnPicture
    <3> HIDE DEF State
    <3> QED BY <2>4, <3>1 DEF PictureIsCurrent, RendererOf
  <2> QED BY <2>9, <2>10, <2>11, <2>12, <2>13, <2>14, <2>15, <2>16 DEF IInv
<1> QED BY <1>4, <1>5

LEMMA NextInv == IInv /\ [Next]_vars => IInv'
<1> SUFFICES ASSUME IInv, [Next]_vars PROVE IInv'
  OBVIOUS
<1>1. ASSUME NEW answer \in here.answers, Load(answer) PROVE IInv'
  BY <1>1, LoadInv
<1>2. ASSUME NEW answer \in here.answers, ContextIsReset(answer) PROVE IInv'
  BY <1>2, ContextResetInv
<1>3. CASE ContextIsDestroyed
  BY <1>3, ContextDestroyedInv
<1>4. ASSUME NEW cfg \in here.configs, NEW answer \in here.answers, Reset(cfg, answer)
      PROVE  IInv'
  BY <1>4, ResetInv
<1>5. ASSUME NEW changed \in BOOLEAN, NEW cfg \in here.configs, NEW poll \in here.polls,
             NEW game \in here.games, NEW answer \in here.answers,
             Run(changed, cfg, poll, game, answer)
      PROVE  IInv'
  BY <1>5, RunInv
<1>6. CASE Close
  BY <1>6, CloseInv
<1>7. CASE UNCHANGED vars
  BY <1>7, StutterInv
<1> QED BY <1>1, <1>2, <1>3, <1>4, <1>5, <1>6, <1>7 DEF Next

-----------------------------------------------------------------------------
(* The theorems *)

\* What IInv says holds in every session, in every order of the frontend's calls:
\* the parts of the core follow the settings, the cartridge and the player.
THEOREM FrameInvariant == Spec => []IInv
<1>1. Init => IInv
  BY InitInv
<1>2. IInv /\ [Next]_vars => IInv'
  BY NextInv
<1> QED BY <1>1, <1>2, PTL DEF Spec

\* The host's microphone records while the game should hear it, whatever sequence of
\* modes and buttons led there (MicrophoneState, SetMicButtonState).
THEOREM MicIsFed == Spec => []HostMicFeedsGame
<1>1. IInv => HostMicFeedsGame
  BY DEF IInv
<1> QED BY <1>1, FrameInvariant, PTL

\* A console is touched exactly while the player touches, whichever device was used
\* last and wherever the layout puts the screen (CursorState::Update and Apply).
THEOREM TouchIsThePlayers == Spec => []TouchFollowsPlayer
<1>1. IInv => TouchFollowsPlayer
  <2> SUFFICES ASSUME IInv, hand.drew, steady
               PROVE  (console.touch # Off) = PlayerTouches
    BY DEF TouchFollowsPlayer
  <2>1. phase # "out"
    BY DEF IInv, SessionFollows
  <2>2. /\ input.touchMode = config.touchMode /\ input.joypadTouch = input.touchButton
        /\ input.pointerTouch = input.pointerTouching
        /\ UsesJoystick(input) => input.touchButton = ("touch" \in hand.poll.held)
        /\ UsesPointer(input) => input.pointerTouching = hand.poll.pressed
        /\ console.touch # Off => IsTouching(input)
        /\ IsTouching(input) => console.touch # Off
    BY <2>1 DEF IInv, CursorFollows
  <2>3. IsTouching(input) <=> PlayerTouches
    BY <2>2 DEF IsTouching, PlayerTouches, UsesJoystick, UsesPointer
  <2>4. (console.touch # Off) <=> PlayerTouches
    BY <2>2, <2>3
  <2>5. PlayerTouches \in BOOLEAN
    BY DEF PlayerTouches
  <2> QED BY <2>4, <2>5
<1> QED BY <1>1, FrameInvariant, PTL

\* A cursor that hides does so as long after the player's last use as the setting
\* says, whatever the settings were before (CursorState::Update, CursorVisible).
THEOREM CursorTimesOut == Spec => []CursorHides
<1>1. IInv => CursorHides
  <2> SUFFICES ASSUME IInv, hand.drew, config.cursorMode = "Timeout", CursorVisible(input)
               PROVE  idle < config.cursorTimeout * FramesPerSecond
    BY DEF CursorHides
  <2>1. phase # "out"
    BY DEF IInv, SessionFollows
  <2>2. /\ input.cursorMode = "Timeout" /\ input.maxTimeout = config.cursorTimeout
        /\ input.timeout > 0 => input.timeout + idle <= input.maxTimeout * FramesPerSecond
    BY <2>1 DEF IInv, CursorFollows
  <2>3. input.timeout > 0
    BY <2>2 DEF CursorVisible
  <2>4. /\ idle \in Nat /\ input.timeout \in Nat
        /\ input.maxTimeout * FramesPerSecond \in Nat
    BY StateParts, InputAssumption DEF IInv, TypeOK, Input
  <2> QED BY <2>2, <2>3, <2>4
<1> QED BY <1>1, FrameInvariant, PTL

\* A frame is drawn with the present layout, by the console's own renderer, in the
\* size the frontend was told, after whatever happened to the settings, the renderer
\* and its context (Run, ApplyConfig, UpdateRenderer, ContextReset, Render).
THEOREM PictureStaysCurrent == Spec => []PictureIsCurrent
<1>1. IInv => PictureIsCurrent
  BY DEF IInv
<1> QED BY <1>1, FrameInvariant, PTL

\* The host's light sensor is on only for a player who asks for it in a session, and
\* never for a console with another cartridge, whatever settings, refusals and resets
\* came before (SolarSensorState, SetSlot2Input, Reset).
THEOREM LightSensorComesToRest == Spec => []LightSensorRests
<1>1. IInv => LightSensorRests
  <2> SUFFICES ASSUME IInv, slot2.host
               PROVE  /\ console # None /\ config.realSensor
                      /\ console.cart \in {"solar", "absent"}
    BY DEF LightSensorRests
  <2>1. phase # "out"
    BY NewPartsAre DEF IInv, SessionFollows
  <2>2. console \in Console /\ console # None /\ SlotFits(slot2, console.cart, config.realSensor)
    BY <2>1, InSession
  <2>3. config.realSensor /\ slot2.kind = "solar"
    BY <2>2 DEF SlotFits
  <2>4. console.cart \in {"solar", "absent"}
    BY <2>2, <2>3 DEF SlotFits, KindOf
  <2> QED BY <2>2, <2>3, <2>4
<1> QED BY <1>1, FrameInvariant, PTL

\* After a frame the host's motor is on only while time is left that the game of this
\* console asked for, for any calls of the game, any resets to consoles with or
\* without a rumble pak, and it is off after a session (RumbleState, Reset).
THEOREM MotorComesToRest == Spec => []MotorRests
<1>1. IInv => MotorRests
  <2> SUFFICES ASSUME IInv, slot2.rumbling
               PROVE  console # None /\ (hand.drew => due > 0)
    BY DEF MotorRests
  <2>1. phase # "out"
    BY NewPartsAre DEF IInv, SessionFollows
  <2>2. console # None /\ SlotFits(slot2, console.cart, config.realSensor)
    BY <2>1, InSession
  <2>3. ASSUME hand.drew
        PROVE  due > 0
    <3>1. slot2.pause > 0 /\ ~slot2.ending
      BY <2>1, <2>3 DEF IInv, Slot2Follows
    <3>2. console.cart = "rumble"
      BY <2>2, <3>1 DEF SlotFits
    <3> QED BY <2>1, <3>1, <3>2 DEF IInv, Slot2Follows
  <2> QED BY <2>2, <2>3
<1> QED BY <1>1, FrameInvariant, PTL
=============================================================================
