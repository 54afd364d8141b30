---------------------------- MODULE MCCoreFrame ----------------------------
(* Scenes for CoreFrame: each turns a few of the settings and devices.     *)
EXTENDS CoreFrame

Plain ==
  [renderer |-> "Software", scale |-> 1, layouts |-> <<"TopBottom">>, small |-> "One",
   gap |-> 0, ratio |-> 2, touchMode |-> "Auto", cursorMode |-> "Touching", cursorTimeout |-> 1,
   realSensor |-> FALSE, consoleType |-> "DS", slot2Device |-> "absent",
   micInput |-> "None", micButton |-> "Hold"]

Able == [offers |-> TRUE, built |-> TRUE, opens |-> TRUE, ready |-> TRUE, rotates |-> TRUE]
Hand(held, pressed, position) ==
  [held |-> held, stick |-> <<0, 0>>, pressed |-> pressed, position |-> position]
Push(held, stick) == [Hand(held, FALSE, <<0, 0>>) EXCEPT !.stick = stick]

Idle == [stops |-> FALSE, starts |-> FALSE, length |-> 0]

Scene(configs, polls) ==
  [configs |-> configs, polls |-> polls, games |-> {Idle}, answers |-> {Able},
   gba |-> "absent", resets |-> FALSE]

Singing ==
  [Scene({[Plain EXCEPT !.micInput = mode, !.micButton = button] :
            mode \in {"None", "WhiteNoise", "HostMic"}, button \in {"Hold", "Toggle", "Always"}},
         {Hand({}, FALSE, <<0, 0>>), Hand({"mic"}, FALSE, <<0, 0>>)})
     EXCEPT !.answers = {Able, [Able EXCEPT !.opens = FALSE]}]

Drawing ==
  Scene({[Plain EXCEPT !.touchMode = mode, !.cursorMode = "Timeout"] : mode \in TouchModes}
          \cup {Plain},
        {Hand({}, FALSE, <<0, 0>>), Hand({}, FALSE, <<-1, 1>>), Hand({}, TRUE, <<-1, 1>>),
         Hand({"touch"}, TRUE, <<-1, 1>>), Push({}, <<1, 0>>), Push({"touch"}, <<1, 0>>)})

Framing ==
  Scene({[Plain EXCEPT !.layouts = layouts, !.small = frame[1], !.gap = frame[2]] :
           layouts \in {<<"TopBottom", "TurnLeft", "HybridBottom", "RightLeft">>,
                        <<"BottomTop", "TurnRight">>,
                        <<"FlippedHybridTop", "LeftRight", "UpsideDown">>,
                        <<"BottomOnly", "TopOnly", "FlippedHybridBottom", "HybridTop">>},
           frame \in {<<"One", 64>>, <<"Both", 0>>}},
        {Hand({"cycle"}, TRUE, <<1, 3>>)}
          \cup {Hand({}, TRUE, at) : at \in {<<-3, 3>>, <<1, -3>>, <<3, 1>>, <<2, 2>>, <<-1, 3>>, <<-3, -3>>}})

Switching ==
  [Scene({[Plain EXCEPT !.renderer = "Software", !.scale = 4, !.layouts = <<"LeftRight">>],
          [Plain EXCEPT !.renderer = "OpenGl", !.scale = 4, !.layouts = <<"TopBottom", "HybridTop">>],
          [Plain EXCEPT !.renderer = "OpenGl", !.layouts = <<"TopBottom", "HybridTop">>]},
         {Hand({}, FALSE, <<0, 0>>), Hand({"cycle"}, TRUE, <<1, 3>>)})
     EXCEPT !.answers = {Able, [Able EXCEPT !.offers = FALSE]}, !.resets = TRUE]

Failing ==
  [Scene({[Plain EXCEPT !.renderer = renderer, !.layouts = <<"TopBottom", "HybridTop">>] :
            renderer \in {"Software", "OpenGl"}},
         {Hand({}, FALSE, <<0, 0>>), Hand({"cycle"}, FALSE, <<1, 3>>)})
     EXCEPT !.answers = {Able, [Able EXCEPT !.built = FALSE], [Able EXCEPT !.rotates = FALSE]},
            !.resets = TRUE]

(* A solar game in the second slot of a DS, or ignored by a DSi.           *)
Sunning ==
  [Scene({[Plain EXCEPT !.realSensor = real, !.consoleType = type] :
            real \in BOOLEAN, type \in {"DS", "DSi"}},
         {Hand({}, FALSE, <<0, 0>>), Hand({"up"}, FALSE, <<0, 0>>), Hand({"down", "lid"}, FALSE, <<0, 0>>)})
     EXCEPT !.gba = "solar", !.answers = {Able, [Able EXCEPT !.ready = FALSE]}, !.resets = TRUE]

(* The device in the second slot is a setting.                             *)
Slotting ==
  [Scene({[Plain EXCEPT !.realSensor = real, !.slot2Device = device] :
            real \in BOOLEAN, device \in Carts},
         {Hand({}, FALSE, <<0, 0>>)})
     EXCEPT !.games = {Idle} \cup {[stops |-> stops, starts |-> TRUE, length |-> length] :
                                    stops \in BOOLEAN, length \in 0..3}
                            \cup {[Idle EXCEPT !.stops = TRUE]},
            !.answers = {Able, [Able EXCEPT !.ready = FALSE]}, !.resets = TRUE]

MCScenes ==
  [singing |-> Singing, drawing |-> Drawing, framing |-> Framing, switching |-> Switching,
   failing |-> Failing, sunning |-> Sunning, slotting |-> Slotting]
TouchScenes ==
  [joystick |->
     Scene({[Plain EXCEPT !.layouts = <<only>>, !.touchMode = mode, !.small = small] :
              only \in {"TopBottom", "HybridTop", "HybridBottom"},
              mode \in {"Joystick", "Auto"}, small \in {"One", "Both"}},
           {Push({}, <<1, 1>>), Push({"touch"}, <<0, 0>>)})]
FallbackScenes ==
  [failing |->
     [Scene({[Plain EXCEPT !.renderer = "OpenGl", !.scale = scale] : scale \in {1, 2, 4}},
            {Hand({}, FALSE, <<0, 0>>)})
        EXCEPT !.answers = {Able, [Able EXCEPT !.built = FALSE]}, !.resets = TRUE]]
SlotScenes == [sunning |-> Sunning, slotting |-> Slotting]

-----------------------------------------------------------------------------
(* What the documents and assertions say of a frame.                       *)

(* The menu of config/definitions/screen.hpp: in the touch mode Joystick   *)
(* the joystick controls the cursor, so a touch is where the cursor is.    *)
JoystickTouchesAtCursor ==
  hand.drew /\ input.touchMode = "Joystick" /\ IsTouching(input)
    => console.touch = OnTouchScreen(TouchPosition(input))

(* ScreenLayoutData::Geometry asserts that a picture fits the largest size *)
(* its renderer tells the frontend.                                        *)
PictureFits ==
  hand.drew => \A axis \in 1..2 :
    picture.size[axis] <= Geometry(layout, RendererOf(State)).max[axis]

(* The option "Use Host Light Sensor" of config/definitions/system.hpp:    *)
(* it is ignored unless a solar sensor or a game with one is in the second *)
(* slot.                                                                   *)
SensorIgnoredWithoutSolar == console # None /\ slot2.host => console.cart = "solar"
=============================================================================
