----------------------------- MODULE Microphone -----------------------------
(***************************************************************************)
(* MicrophoneState, src/libretro/microphone.cpp, and the wrapper of the    *)
(* frontend's microphone, src/libretro/retro/microphone.cpp.               *)
(*                                                                         *)
(* A state is a record of the input mode ("None", "WhiteNoise", "Blow",    *)
(* "HostMic"), the button's mode ("Hold", "Toggle", "Always") and four     *)
(* flags: "open" says that the host's microphone is held and "active" that *)
(* it is recording.  What the game hears in a frame is "silence", "noise", *)
(* "blow" or "host".  The _prev fields hold the values of before the call  *)
(* that sets them, so they are not kept.                                   *)
(***************************************************************************)
InputModes == {"None", "WhiteNoise", "Blow", "HostMic"}
ButtonModes == {"Hold", "Toggle", "Always"}

NewMicrophone ==
  [inputMode |-> "None", buttonMode |-> "Hold", open |-> FALSE, active |-> FALSE,
   shouldCapture |-> FALSE, down |-> FALSE]

(* The wrapper: without a microphone it does nothing.                      *)
Open(mode, opens) == mode = "HostMic" /\ opens
SetActive(m, on) == IF m.open THEN [m EXCEPT !.active = on] ELSE m
IsActive(m) == m.open /\ m.active

(* opens says whether the frontend has a microphone and lets it be opened: *)
(* one that is opened does not record yet, one that is closed stops.       *)
SetMicInputMode(m, mode, opens) ==
  IF m.inputMode = mode THEN m
  ELSE [m EXCEPT !.inputMode = mode, !.open = Open(mode, opens), !.active = FALSE]

SetMicButtonModeUnlessSame(m, mode) ==  \* mutant of SetMicButtonMode
  IF m.buttonMode = mode THEN m
  ELSE [m EXCEPT !.buttonMode = mode, !.shouldCapture = FALSE, !.down = FALSE]
SetMicButtonMode(m, mode) ==
  [m EXCEPT !.buttonMode = mode, !.shouldCapture = FALSE, !.down = FALSE]

SetMicConfig(m, config, opens) ==
  SetMicButtonMode(SetMicInputMode(m, config.micInput, opens), config.micButton)

SetMicButtonState(m, down) ==
  LET pressed == down /\ ~m.down
      capture == CASE m.buttonMode = "Hold" -> down
                   [] m.buttonMode = "Toggle" -> m.shouldCapture # pressed
                   [] m.buttonMode = "Always" -> TRUE
      after == [m EXCEPT !.down = down, !.shouldCapture = capture]
  IN IF capture # m.shouldCapture THEN SetActive(after, capture) ELSE after

ReadMic(m) ==
  CASE ~m.shouldCapture -> "silence"
    [] m.shouldCapture /\ m.inputMode = "WhiteNoise" -> "noise"
    [] m.shouldCapture /\ m.inputMode = "Blow" -> "blow"
    [] m.shouldCapture /\ m.inputMode = "HostMic" -> IF IsActive(m) THEN "host" ELSE "silence"
    [] OTHER -> "silence"
=============================================================================
