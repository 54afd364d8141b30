----------------------------- MODULE CoreFrame -----------------------------
(***************************************************************************)
(* A frame of the core: CoreState::Run and the functions of                *)
(* src/libretro/core/core.cpp that prepare it, composed from the devices   *)
(* of InputState, Microphone, ScreenLayout and RenderState.                *)
(*                                                                         *)
(* One action is one call of the frontend.  A behaviour takes place in one *)
(* of Scenes: the settings its player chooses from, what the player does   *)
(* with the hands and the game with the motor, and how the frontend        *)
(* answers.  Starting a console does not fail; save data, sound and time   *)
(* are left out (CoreState has the save data), and frames are equally long.*)
(*                                                                         *)
(* An answer of the frontend is the record of: offers (it gives an OpenGL  *)
(* context), built (melonDS can make its OpenGL renderer in it), opens     *)
(* (its microphone), ready (its light sensor), rotates (its picture).      *)
(***************************************************************************)
EXTENDS RenderState, Microphone

CONSTANTS
  Scenes,    \* by name: [configs, polls, games, answers, gba, resets]
  MaxPause,  \* bound: half frames the motor is asked to run ahead
  MaxIdle,   \* bound: frames of idleness that are counted
  Off,       \* the touch screen is not touched
  None       \* no console, no picture

(* The settings, what the player and the game do in a frame and what the   *)
(* frontend answers.  A rumble pak turns the motor off and on as often as  *)
(* the game likes; the calls of a frame add up to a stop or none, then a   *)
(* start or none, of the length asked for since the last stop.             *)
Carts == {"absent", "plain", "solar", "rumble"}
Config ==
  [renderer : {"Software", "OpenGl"}, scale : Nat \ {0}, layouts : Seq(Layouts) \ {<<>>},
   small : {"One", "Both"}, gap : Nat, ratio : Nat \ {0}, touchMode : TouchModes,
   cursorMode : CursorModes, cursorTimeout : Nat, realSensor : BOOLEAN,
   consoleType : {"DS", "DSi"}, slot2Device : Carts,
   micInput : InputModes, micButton : ButtonModes]
Point == Int \X Int
Poll == [held : SUBSET Buttons, stick : Point, pressed : BOOLEAN, position : Point]
Game == [stops : BOOLEAN, starts : BOOLEAN, length : Nat]
Answer ==
  [offers : BOOLEAN, built : BOOLEAN, opens : BOOLEAN, ready : BOOLEAN, rotates : BOOLEAN]
Console ==
  [renderer : {"soft", "gl"}, touch : Point \cup {Off}, lidClosed : BOOLEAN,
   hears : {"silence", "noise", "blow", "host"}, cart : Carts]

ASSUME ScenesAssumption ==
  \A name \in DOMAIN Scenes :
    /\ Scenes[name].configs \subseteq Config /\ Scenes[name].polls \subseteq Poll
    /\ Scenes[name].games \subseteq Game /\ Scenes[name].answers \subseteq Answer
    /\ Scenes[name].gba \in Carts
ASSUME BoundsAssumption == MaxIdle \in Nat
ASSUME NoneAssumption == None \notin Console
ASSUME OffAssumption == Off \notin Point

VARIABLES
  phase,    \* "out", "running" or "stopped" (retro_shutdown was asked for)
  scene,    \* where the behaviour takes place
  config,   \* CoreConfig
  pending,  \* _deferredInitializationPending
  input, slot2, mic, layout, render,  \* parts of the CoreState
  console,  \* the emulated console: renderer, touch, lid, hears, cart; or None
  told,     \* geometry the frontend was told
  picture,  \* the last frame the frontend was given, or None
  hand,     \* history: poll, change and drawing of the last call
  steady,   \* history: the present touch began under the present touch mode
  idle,     \* history: frames since the player used the cursor or its settings
  due,      \* history: half frames of motor this console's game has asked for and not had
  turns     \* history: parity of the frames drawn and the contexts made

parts == <<input, slot2, mic, layout, render>>
history == <<hand, steady, idle, due, turns>>
vars == <<phase, scene, config, pending, parts, console, told, picture, history>>

here == Scenes[scene]

NoPoll == [held |-> {}, stick |-> <<0, 0>>, pressed |-> FALSE, position |-> <<0, 0>>]
NoHand == [poll |-> NoPoll, changed |-> FALSE, drew |-> FALSE]
NoGeometry == [base |-> <<0, 0>>, max |-> <<0, 0>>]

NewParts == [input |-> NewInput, slot2 |-> NewSlot2, mic |-> NewMicrophone,
             layout |-> NewLayout, render |-> NoRenderState]

BecomeParts(p) ==
  /\ input' = p.input /\ slot2' = p.slot2 /\ mic' = p.mic
  /\ layout' = p.layout /\ render' = p.render

Init ==
  /\ phase = "out" /\ scene \in DOMAIN Scenes /\ config \in here.configs /\ pending = FALSE
  /\ input = NewInput /\ slot2 = NewSlot2 /\ mic = NewMicrophone
  /\ layout = NewLayout /\ render = NoRenderState
  /\ console = None /\ told = NoGeometry /\ picture = None
  /\ hand = NoHand /\ steady = TRUE /\ idle = 0 /\ due = 0 /\ turns = 0

-----------------------------------------------------------------------------
(* s is the record of the parts, the console and told.                     *)
State == [input |-> input, slot2 |-> slot2, mic |-> mic, layout |-> layout, render |-> render,
          console |-> console, told |-> told]

(* CreateConsole: a DSi has no second slot, and a GBA game in it goes      *)
(* before the device of the settings.                                      *)
Cart(cfg) ==
  IF cfg.consoleType = "DSi" THEN "absent"
  ELSE IF here.gba # "absent" THEN here.gba ELSE cfg.slot2Device
NewConsole(cfg) == [renderer |-> "soft", touch |-> Off, lidClosed |-> FALSE, hears |-> "silence",
                    cart |-> Cart(cfg)]

WithRenderer(s, result) ==
  [s EXCEPT !.render = result.render, !.console.renderer = result.renderer]
Renderers(s) == [render |-> s.render, renderer |-> s.console.renderer]

(* ApplyConfig.  A frontend that gets a new system AV info makes the       *)
(* context OpenGL needs before it returns; a renderer that cannot be made  *)
(* in it makes HardwareContextReset ask for a shutdown, and UpdateRenderer *)
(* then draws the frames that are left in software.                        *)
Configured(s, cfg, answer) ==
  LET r == SetRenderer(s.render, cfg.renderer, answer.offers)
  IN [s EXCEPT !.render = r,
               !.layout = [ApplyLayout(@, cfg, r.kind, answer.rotates) EXCEPT !.dirty = TRUE],
               !.input = SetInputConfig(@, cfg),
               !.slot2 = SetSolarConfig(@, cfg.realSensor, answer.ready),
               !.mic = SetMicConfig(@, cfg, answer.opens),
               !.told = IF s.render.kind \notin {"none", r.kind}
                        THEN Geometry(ApplyLayout(s.layout, cfg, r.kind, answer.rotates), r.kind)
                        ELSE @]

ApplyConfig(s, cfg, answer) ==
  LET c == Configured(s, cfg, answer)
      switched == s.render.kind \notin {"none", c.render.kind}
      reset == IF switched
               THEN WithRenderer(c, ContextReset(Renderers(c), cfg, answer.built)) ELSE c
  IN IF s.render.kind = "none" THEN c
     ELSE WithRenderer(reset, UpdateRenderer(Renderers(reset), answer.built))

ShutsDown(s, cfg, answer) ==
  /\ s.render.kind = "Software" /\ ~answer.built
  /\ SetRenderer(s.render, cfg.renderer, answer.offers).kind = "OpenGl"

(* A cartridge in the new console's second slot sets the core's; an empty  *)
(* slot leaves what the core had for the old console.                      *)
SetSlot2(s, cfg, answer) ==
  IF s.console.cart = "absent" THEN s
  ELSE LET slotted == [SetSlot2Input(s.slot2, s.console.cart)
                         EXCEPT !.task = s.console.cart = "rumble"]
       IN [s EXCEPT !.slot2 = SetSolarConfig(slotted, cfg.realSensor, answer.ready),
                    !.input = SetInputConfig(@, cfg)]

StartConsole(s, built) == WithRenderer(s, UpdateRenderer(Renderers(s), built))

-----------------------------------------------------------------------------
(* The frontend.  Without a context it neither starts a console nor        *)
(* changes a setting: making a renderer then has no defined outcome.  Its  *)
(* sensor, once enabled, stays ready.                                      *)
HasContext == render.kind = "OpenGl" => render.ready
Answers(answer) == answer \in here.answers /\ (slot2.host => answer.ready)

Become(s) ==
  /\ BecomeParts(s) /\ console' = s.console /\ told' = s.told

(* LoadGame; the frontend then asks for the geometry.                      *)
Load(answer) ==
  /\ phase = "out" /\ Answers(answer)
  /\ LET c == ApplyConfig(State, config, answer)
         s == SetSlot2([c EXCEPT !.console = NewConsole(config)], config, answer)
         started == IF s.render.kind = "OpenGl" THEN s ELSE StartConsole(s, answer.built)
     IN /\ Become([started EXCEPT !.told = Geometry(started.layout, started.render.kind)])
        /\ pending' = (s.render.kind = "OpenGl")
  /\ phase' = "running"
  /\ UNCHANGED <<scene, config, picture, history>>

(* HardwareContextReset, HardwareContextDestroyed.                         *)
ContextIsReset(answer) ==
  /\ phase = "running" /\ render.kind = "OpenGl" /\ Answers(answer)
  /\ LET s == ContextReset(Renderers(State), config, answer.built)
     IN Become(WithRenderer(State, s))
  /\ phase' = IF answer.built THEN phase ELSE "stopped"
  /\ picture' = None
  /\ hand' = [hand EXCEPT !.drew = FALSE]
  /\ turns' = IF HasContext THEN turns ELSE 1 - turns
  /\ UNCHANGED <<scene, config, pending, steady, idle, due>>

ContextIsDestroyed ==
  /\ phase = "running" /\ render.kind = "OpenGl" /\ ~pending
  /\ render' = ContextDestroyed(render) /\ picture' = None
  /\ hand' = [hand EXCEPT !.drew = FALSE]
  /\ UNCHANGED <<phase, scene, config, pending, input, slot2, mic, layout, console, told,
                 steady, idle, due, turns>>

CursorSettingsChange(cfg) ==
  \/ cfg.cursorMode # config.cursorMode \/ cfg.cursorTimeout # config.cursorTimeout
  \/ cfg.touchMode # config.touchMode

(* Reset checks the tasks and finishes the old console's RumbleTask.       *)
Reset(cfg, answer) ==
  /\ phase = "running" /\ here.resets /\ HasContext /\ ~pending
  /\ cfg \in here.configs /\ Answers(answer)
  /\ LET c == ApplyConfig([State EXCEPT !.slot2 = CheckTasks(@)], cfg, answer)
         s == SetSlot2([c EXCEPT !.console = NewConsole(cfg), !.slot2 = FinishRumble(@)],
                       cfg, answer)
     IN Become(StartConsole(s, answer.built))
  /\ phase' = IF ShutsDown(State, cfg, answer) THEN "stopped" ELSE phase
  /\ config' = cfg
  /\ hand' = [hand EXCEPT !.drew = FALSE] /\ steady' = TRUE /\ due' = 0
  /\ idle' = IF CursorSettingsChange(cfg) THEN 0 ELSE idle
  /\ UNCHANGED <<scene, pending, picture, turns>>

-----------------------------------------------------------------------------
(* Run.  Start is RunDeferredInitialization, then what a changed setting   *)
(* asks for; the rest happens only when the render state is ready.         *)
Started(s, answer) == IF pending THEN StartConsole(s, answer.built) ELSE s

(* InputState::Update with the layout of the last picture, then Apply.     *)
ReadInput(s, poll, answer) ==
  LET devices == PollDevices(s.input, poll)
      i == UpdateCursor(devices, s.layout)
  IN [s EXCEPT !.input = i,
               !.slot2 = UpdateSolar(@, devices, answer.ready, s.console.cart),
               !.layout = IF Pressed(i, "cycle") THEN NextLayout(@) ELSE @,
               !.mic = SetMicButtonState(@, "mic" \in poll.held),
               !.console.lidClosed = @ # Pressed(i, "lid"),
               !.console.touch = ApplyCursor(i, @, Off)]

RendererOf(s) == IF s.console.renderer = "gl" THEN "OpenGl" ELSE "Software"

LaidOut(s, answer) ==
  IF ~s.layout.dirty THEN s
  ELSE LET l == Update(s.layout, answer.rotates)
       IN [s EXCEPT !.layout = l, !.told.base = Geometry(l, RendererOf(s)).base,
                    !.render = RequestRefresh(@)]

(* RunFrame runs the game, which uses the motor of its rumble pak; Render  *)
(* draws; the tasks come last.                                             *)
UseMotor(s, game) ==
  LET stopped == IF game.stops THEN RumbleStop(s) ELSE s
  IN IF game.starts THEN RumbleStart(stopped, game.length) ELSE stopped

Drawn(s, cfg, game) ==
  LET motor == IF s.console.cart = "rumble" THEN UseMotor(s.slot2, game) ELSE s.slot2
  IN [s EXCEPT !.console.hears = ReadMic(s.mic),
               !.slot2 = CheckTasks(motor),
               !.render = Refreshed(@, cfg, s.layout)]

(* What the game has asked for when the frame is over; a frame has one     *)
(* half frame of it.                                                       *)
Asked(game) == (IF game.stops THEN 0 ELSE due) + (IF game.starts THEN game.length ELSE 0)
DueAfter(game) ==
  IF console.cart = "rumble" /\ Asked(game) > 0 THEN Asked(game) - 1 ELSE 0

Prepared(changed, cfg, answer) ==
  IF changed THEN ApplyConfig(Started(State, answer), cfg, answer) ELSE Started(State, answer)

PlayerUsed(poll) ==
  \/ UsesJoystick(input) /\ (poll.stick # hand.poll.stick
                             \/ ("touch" \in poll.held) # ("touch" \in hand.poll.held))
  \/ UsesPointer(input) /\ (poll.pressed # hand.poll.pressed \/ poll.position # hand.poll.position)

Run(changed, cfg, poll, game, answer) ==
  /\ phase = "running" /\ Answers(answer)
  /\ IF changed THEN cfg \in here.configs ELSE cfg = config
  /\ pending \/ changed => HasContext
  /\ poll \in here.polls /\ game \in here.games
  /\ slot2.pause + game.length <= MaxPause
  /\ \E prepared \in {Prepared(changed, cfg, answer)} :
       \/ /\ ~prepared.render.ready
          /\ hand' = [hand EXCEPT !.drew = FALSE, !.changed = changed]
          /\ Become(prepared)
          /\ UNCHANGED <<picture, steady, idle, due, turns>>
       \/ /\ prepared.render.ready
          /\ hand' = [poll |-> poll, changed |-> changed, drew |-> TRUE]
          /\ \E read \in {ReadInput(prepared, poll, answer)} :
               \E laid \in {LaidOut(read, answer)} :
                 \E drawn \in {Drawn(laid, cfg, game)} :
                   Become(drawn) /\ picture' = Render(drawn.render, drawn.layout)
          /\ steady' = \/ console'.touch = Off
                       \/ steady /\ (cfg.touchMode = config.touchMode \/ console.touch = Off)
          /\ idle' = IF PlayerUsed(poll) \/ CursorSettingsChange(cfg) THEN 1
                     ELSE Min({idle + 1, MaxIdle})
          /\ due' = DueAfter(game) /\ turns' = 1 - turns
  /\ pending' = FALSE /\ config' = cfg
  /\ phase' = IF changed /\ ShutsDown(State, cfg, answer) THEN "stopped" ELSE phase
  /\ UNCHANGED scene

(* retro_unload_game and retro_deinit; retro_init of the next session.     *)
Close ==
  /\ phase \in {"running", "stopped"}
  /\ phase' = "out"
  /\ BecomeParts([NewParts EXCEPT !.slot2.host = slot2.host /\ slot2.state # "On",
                                  !.slot2.rumbling = CancelTasks(slot2).rumbling])
  /\ pending' = FALSE /\ console' = None /\ told' = NoGeometry /\ picture' = None
  /\ hand' = NoHand /\ steady' = TRUE /\ idle' = 0 /\ due' = 0 /\ turns' = 0
  /\ UNCHANGED <<scene, config>>

Next ==
  \/ \E answer \in here.answers : Load(answer) \/ ContextIsReset(answer)
  \/ ContextIsDestroyed
  \/ \E cfg \in here.configs, answer \in here.answers : Reset(cfg, answer)
  \/ \E changed \in BOOLEAN, cfg \in here.configs, poll \in here.polls,
        game \in here.games, answer \in here.answers : Run(changed, cfg, poll, game, answer)
  \/ Close

Spec == Init /\ [][Next]_vars

(* The player's fingers, by what the frontend last reported.               *)
PlayerTouches ==
  \/ config.touchMode \in {"Joystick", "Auto"} /\ "touch" \in hand.poll.held
  \/ config.touchMode \in {"Pointer", "Auto"} /\ hand.poll.pressed

(* While the game should hear the host's microphone, that records: however *)
(* the input mode, the button's mode and the button changed before         *)
(* (SetMicInputMode, SetMicButtonMode, SetMicButtonState).                 *)
HostMicFeedsGame == mic.shouldCapture /\ mic.open => mic.active

(* What the player lets go is let go on the console, and what the player   *)
(* touches is touched, whichever device was used last; a touch that a new  *)
(* touch mode cut off is excepted (CursorState::Update and Apply).         *)
TouchFollowsPlayer ==
  hand.drew /\ steady => (console.touch # Off) = PlayerTouches

(* The pixels of the touch screen that a picture shows at a position.      *)
PixelsAt(p, position) ==
  LET v == Turn(position, p.turned)
      On(axis) == (p.size[axis] * (PointerReach + v[axis])) \div (2 * PointerReach)
      x == On(1)
      y == On(2)
      Covers(m) == x \in m.x..Right(m) - 1 /\ y \in m.y..Bottom(m) - 1
  IN {<<(x - shown.at.x) \div shown.at.k, (y - shown.at.y) \div shown.at.k>> :
        shown \in {each \in p.screens : each.screen = "bottom" /\ Covers(each.at)}}

(* A pointer that presses on the touch screen in the picture the player    *)
(* sees touches the console at the pixel drawn there, in every layout,     *)
(* scale and turn, also in the frame in which the layout changes; a frame  *)
(* that applies new settings is excepted.                                  *)
PointerTouchesWhatIsSeen ==
  [][hand.drew /\ hand'.drew /\ ~hand'.changed /\ console'.touch # Off
     /\ UsesPointer(input) /\ hand'.poll.pressed
       => LET pixels == PixelsAt(picture, hand'.poll.position)
          IN pixels = {} \/ console'.touch \in pixels]_vars

(* In Timeout mode the cursor is gone as long after the player's last use  *)
(* of it, or of its settings, as the setting says.                         *)
CursorHides ==
  hand.drew /\ config.cursorMode = "Timeout" /\ CursorVisible(input)
    => idle < config.cursorTimeout * FramesPerSecond

(* A frame is drawn with the present layout, by the renderer the console   *)
(* has, in the size the frontend was told: after a hotkey, a new setting,  *)
(* a switch or a failure of the renderer, a reset or the loss of the       *)
(* context (Run, ApplyConfig, Render).                                     *)
PictureIsCurrent ==
  hand.drew =>
    /\ picture.size = told.base
    /\ picture.by = RendererOf(State)
    /\ picture.screens = IF picture.by = "OpenGl" THEN InitVertices(Update(layout, TRUE))
                         ELSE CombineScreens(Update(layout, TRUE))

(* The host's light sensor is on only in a session whose player asks for   *)
(* it, and never for a console with another cartridge in its second slot,  *)
(* whatever settings, refusals and resets came before (SolarSensorState,   *)
(* SetSlot2Input, Reset).  A console with an empty slot is excepted.       *)
LightSensorRests ==
  /\ slot2.host => console # None /\ config.realSensor
  /\ slot2.host /\ console # None => console.cart \in {"solar", "absent"}

(* After a frame the host's motor is on only while time is left that the   *)
(* game of this console asked for and did not take back, and it is off     *)
(* after a session: a reset drops what the old console's game asked for,   *)
(* with or without a rumble pak in the new one (RumbleState, Reset,        *)
(* retro_unload_game).                                                     *)
MotorRests ==
  /\ hand.drew /\ slot2.rumbling => due > 0
  /\ slot2.rumbling => console # None

-----------------------------------------------------------------------------
(* The frontend goes on calling retro_run while it has what the core asked *)
(* for, and makes a context it was asked for.  Only Run with a context and *)
(* ContextIsReset without one take turns, and each is possible then.       *)
Frame == phase = "running" /\ HasContext /\ turns' = 1 - turns
MakeContext == phase = "running" /\ ~HasContext /\ turns' = 1 - turns

FairSpec == Spec /\ SF_turns(Frame) /\ WF_turns(MakeContext)

(* A session that is loaded, or whose context was lost, shows a picture    *)
(* again or ends (Run's deferred initialisation, Ready, ContextReset).     *)
PictureComesBack == [](phase = "running" => <>(phase # "running" \/ (hand.drew /\ ~pending)))
=============================================================================
