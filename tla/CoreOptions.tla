---------------------------- MODULE CoreOptions ----------------------------
(***************************************************************************)
(* The core options from the system directory to the core's configuration: *)
(* RegisterCoreOptions, ParseConfig and CoreOptionVisibility, called by    *)
(* LoadGame, Run and Reset (core/core.cpp), with a frontend that lists the *)
(* options, keeps the player's choices and shows or hides each option.     *)
(***************************************************************************)
EXTENDS OptionTable

CONSTANTS
  Contents,        \* the files of the system directory, for each state it may be in
  OptionVersions,  \* versions of the core options API the frontend may have
  SwitchKeys,      \* options that may be changed together
  PathKeys,        \* options that may be changed where the directory has files
  MaxChoices,      \* bound: choices that differ from the defaults
  MaxDirectories   \* bound: changes of the system directory

Directories == DOMAIN Contents

VARIABLES
  directory,   \* the state of the system directory
  moves,       \* changes of the directory so far
  version,     \* the frontend's core options API
  source,      \* the directory's state when the options were last listed
  chosen,      \* the player's choices, by key
  pending,     \* GET_VARIABLE_UPDATE would answer true
  config,      \* CoreConfig
  visibility,  \* CoreOptionVisibility
  hidden,      \* options the frontend hides
  phase        \* "init", "loaded"

vars == <<directory, moves, version, source, chosen, pending, config, visibility,
          hidden, phase>>

\* The list the frontend has been given, and what its options start with, for
\* each directory and version.
Registered == [files \in Directories |-> RegisterCoreOptions(Contents[files])]
Lists ==
  [files \in Directories |->
     [api \in OptionVersions |-> SetCoreOptions(Registered[files], api)]]
Initials ==
  [files \in Directories |->
     [api \in OptionVersions |-> InitialTexts(Lists[files][api], api)]]

listed == Lists[source][version]
Relisted == Lists[directory][version]
Definition(key) == LET list == listed IN list[CHOOSE i \in DOMAIN list : list[i].key = key]

\* get_variable, for every option the core asks for.
Variables(files, choices) ==
  LET initial == Initials[files][version]
  IN  [k \in SettingKeys |-> IF k \in DOMAIN choices THEN choices[k] ELSE initial[k]]
Asked == Variables(source, chosen)

----------------------------------------------------------------------------
(* CoreOptionVisibility: which settings make an option worth showing.      *)

NewVisibility ==
  [ShowMicButtonMode |-> TRUE, ShowHomebrewSdOptions |-> TRUE, ShowDsOptions |-> TRUE,
   ShowDsiOptions |-> TRUE, ShowDsiSdCardOptions |-> TRUE,
   ShowSoftwareRenderOptions |-> TRUE, ShowHybridOptions |-> TRUE,
   ShowVerticalLayoutOptions |-> TRUE, ShowCursorTimeout |-> TRUE, ShowAlarm |-> TRUE,
   ShowRelativeStartTime |-> FALSE, ShowAbsoluteStartTime |-> FALSE,
   ShowJitOptions |-> TRUE, ShowOpenGlOptions |-> TRUE, ShowWifiInterface |-> TRUE,
   NumberOfShownScreenLayouts |-> MAX_SCREEN_LAYOUTS, VisibilityInitialized |-> FALSE]

\* The options each flag shows or hides, in a build with the flag's feature.
FlagsBuilt ==
  {"ShowMicButtonMode", "ShowDsiOptions", "ShowDsiSdCardOptions", "ShowDsOptions",
   "ShowHomebrewSdOptions", "ShowCursorTimeout", "ShowHybridOptions",
   "ShowVerticalLayoutOptions", "ShowAlarm", "ShowRelativeStartTime",
   "ShowAbsoluteStartTime"}
  \cup (IF "opengl" \in Features THEN {"ShowOpenGlOptions"} ELSE {})
  \cup (IF {"opengl", "threads"} \subseteq Features
        THEN {"ShowSoftwareRenderOptions"} ELSE {})
  \cup (IF "jit" \in Features THEN {"ShowJitOptions"} ELSE {})
  \cup (IF {"networking", "direct"} \subseteq Features THEN {"ShowWifiInterface"} ELSE {})
DependentsOf(flag) ==
  CASE flag = "ShowMicButtonMode" -> {"mic_input_active"}
    [] flag = "ShowDsiOptions" -> {"firmware_dsi_path", "dsi_nand_path", "dsi_sdcard"}
    [] flag = "ShowDsiSdCardOptions" ->
         {"dsi_sdcard_readonly", "dsi_sdcard_sync_sdcard_to_host"}
    [] flag = "ShowDsOptions" ->
         {"sysfile_mode", "firmware_nds_path", "ds_battery_ok_threshold", "slot2_device"}
    [] flag = "ShowHomebrewSdOptions" ->
         {"homebrew_readonly", "homebrew_sync_sdcard_to_host"}
    [] flag = "ShowCursorTimeout" -> {"cursor_timeout"}
    [] flag = "ShowHybridOptions" ->
         {"hybrid_small_screen", "hybrid_ratio", "opengl_filtering"}
    [] flag = "ShowVerticalLayoutOptions" -> {"screen_gap"}
    [] flag = "ShowAlarm" -> {"firmware_alarm_hour", "firmware_alarm_minute"}
    [] flag = "ShowRelativeStartTime" ->
         {"start_time_relative_year_offset", "start_time_relative_day_offset",
          "start_time_relative_hour_offset", "start_time_relative_minute_offset"}
    [] flag = "ShowAbsoluteStartTime" ->
         {"start_time_absolute_year", "start_time_absolute_month",
          "start_time_absolute_day", "start_time_absolute_hour",
          "start_time_absolute_minute"}
    [] flag = "ShowOpenGlOptions" -> {"opengl_resolution", "opengl_better_polygons"}
    [] flag = "ShowSoftwareRenderOptions" -> {"threaded_renderer"}
    [] flag = "ShowJitOptions" ->
         {"jit_block_size", "jit_branch_optimisations", "jit_literal_optimisations"}
         \cup (IF "fastmem" \in Features THEN {"jit_fast_memory"} ELSE {})
    [] flag = "ShowWifiInterface" -> {"direct_network_interface"}
Dependents == [flag \in FlagsBuilt |-> DependentsOf(flag)]

\* IsHybridLayout, LayoutSupportsScreenGap
HybridLayouts == {"HybridTop", "HybridBottom", "FlippedHybridTop", "FlippedHybridBottom"}
LayoutsWithGap == {"TopBottom", "BottomTop", "TurnLeft", "TurnRight", "UpsideDown"}

\* A setting that is missing shows what depends on it.
Means(table, text, meanings) ==
  text \in DOMAIN table \ {NoText} => table[text] \in meanings
Wants(texts, key, meanings) == Means(TableOf(key), texts[key], meanings)
ShownLayouts(texts) ==
  IF Accepts("number_of_screen_layouts", texts["number_of_screen_layouts"])
  THEN Meaning("number_of_screen_layouts", texts["number_of_screen_layouts"])
  ELSE MAX_SCREEN_LAYOUTS
AnyLayout(texts, layouts) ==
  \E i \in 1 .. ShownLayouts(texts) : Wants(texts, SCREEN_LAYOUTS[i], layouts)

NewFlags(texts, old) ==
  LET gl == "opengl" \in Features /\ Wants(texts, "render_mode", {"OpenGl"})
  IN  [ShowMicButtonMode |-> Wants(texts, "mic_input", {"Blow", "HostMic", "WhiteNoise"}),
       ShowHomebrewSdOptions |-> Wants(texts, "homebrew_sdcard", {TRUE}),
       ShowDsOptions |-> Wants(texts, "console_mode", {"DS"}),
       ShowDsiOptions |-> Wants(texts, "console_mode", {"DSi"}),
       ShowDsiSdCardOptions |-> Wants(texts, "dsi_sdcard", {TRUE}),
       ShowSoftwareRenderOptions |->
         IF "opengl" \in Features THEN ~gl ELSE old.ShowSoftwareRenderOptions,
       ShowOpenGlOptions |-> IF "opengl" \in Features THEN gl ELSE old.ShowOpenGlOptions,
       ShowHybridOptions |-> AnyLayout(texts, HybridLayouts),
       ShowVerticalLayoutOptions |-> AnyLayout(texts, LayoutsWithGap),
       ShowCursorTimeout |-> Wants(texts, "show_cursor", {"Timeout"}),
       ShowAlarm |-> Wants(texts, "firmware_enable_alarm", {"Enabled"}),
       ShowRelativeStartTime |-> Wants(texts, "start_time_mode", {"Relative"}),
       ShowAbsoluteStartTime |-> Wants(texts, "start_time_mode", {"Absolute"}),
       ShowJitOptions |-> IF "jit" \in Features THEN Wants(texts, "jit_enable", {TRUE})
                          ELSE old.ShowJitOptions,
       ShowWifiInterface |-> IF {"networking", "direct"} \subseteq Features
                             THEN Wants(texts, "network_mode", {"Direct"})
                             ELSE old.ShowWifiInterface,
       NumberOfShownScreenLayouts |-> ShownLayouts(texts),
       VisibilityInitialized |-> TRUE]

\* The value a new flag is compared with: for the options of the DSi's SD card
\* it is combined with the console mode of this call.
Compared(flag, old, new) ==
  IF flag = "ShowDsiSdCardOptions" THEN old[flag] /\ new.ShowDsiOptions ELSE old[flag]

ChangedSince(old, new) ==
  {f \in DOMAIN Dependents : Compared(f, old, new) # new[f]}
Changed(old, new) ==
  {f \in DOMAIN Dependents :
     ~old.VisibilityInitialized \/ Compared(f, old, new) # new[f]}

\* set_option_visible, for the flags that changed and the list of layouts.
Told(old, new) == UNION {Dependents[f] : f \in Changed(old, new)}
ToldHidden(old, new) == UNION {Dependents[f] : f \in {g \in Changed(old, new) : ~new[g]}}
LayoutsTold(old, new) ==
  IF ~old.VisibilityInitialized
     \/ old.NumberOfShownScreenLayouts # new.NumberOfShownScreenLayouts
  THEN ToSet(SCREEN_LAYOUTS) ELSE {}
LayoutsHidden(new) ==
  {SCREEN_LAYOUTS[i] :
     i \in (1 .. MAX_SCREEN_LAYOUTS) \ (1 .. new.NumberOfShownScreenLayouts)}
HiddenAfter(old, new, was) ==
  LET told == Told(old, new) \cup LayoutsTold(old, new)
  IN  (was \ told) \cup ((ToldHidden(old, new) \cup LayoutsHidden(new)) \cap told)

UpdateVisibility(texts, was) ==
  /\ visibility' = NewFlags(texts, visibility)
  /\ hidden' = HiddenAfter(visibility, visibility', was)

----------------------------------------------------------------------------
(* The frontend and the core.                                              *)

NoChoices == [k \in {} |-> NoText]

Init ==
  /\ directory \in Directories /\ version \in OptionVersions
  /\ moves = 0 /\ source = directory /\ chosen = NoChoices /\ pending = FALSE
  /\ config = InitialConfig /\ visibility = NewVisibility /\ hidden = {}
  /\ phase = "init"

\* The options are listed again: a choice survives if its value is still offered.
ListOptions ==
  LET Offers(k) == \E i \in DOMAIN Relisted :
                     Relisted[i].key = k /\ chosen[k] \in ToSet(Relisted[i].values)
  IN  /\ source' = directory
      /\ chosen' = [k \in {key \in DOMAIN chosen : Offers(key)} |-> chosen[k]]

LoadGame ==
  /\ phase = "init"
  /\ phase' = "loaded"
  /\ ListOptions
  /\ LET texts == Variables(directory, chosen')
     IN  config' = ParseConfig(texts, config) /\ UpdateVisibility(texts, hidden)
  /\ pending' = FALSE
  /\ UNCHANGED <<directory, moves, version>>

\* Run: a frame first reads the options if one of them has changed.
Run ==
  /\ phase = "loaded" /\ pending
  /\ pending' = FALSE
  /\ config' = ParseConfig(Asked, config)
  /\ UNCHANGED <<directory, moves, version, source, chosen, visibility, hidden, phase>>

ResetWithoutParse ==
  /\ phase = "loaded"
  /\ ListOptions
  /\ UNCHANGED <<directory, moves, version, config, pending, hidden, visibility, phase>>

\* Reset lists the options again and reads them; their visibility is left to
\* the frontend, which is assumed to keep it.
Reset ==
  /\ phase = "loaded"
  /\ ListOptions
  /\ config' = ParseConfig(Variables(directory, chosen'), config)
  /\ UNCHANGED <<directory, moves, version, pending, hidden, visibility, phase>>

\* The display callback, which a frontend calls before it shows its menu.
UpdateOptionVisibility ==
  /\ phase = "loaded"
  /\ UpdateVisibility(Asked, hidden)
  /\ UNCHANGED <<directory, moves, version, source, chosen, pending, config, phase>>

\* The options the menu shows.
OnMenu == {key \in SettingKeys \ hidden : Asked[key] # NoText}

\* The player changes an option of the menu; the menu is then drawn anew.  Any
\* option may be changed alone, those of SwitchKeys also together; only those of
\* PathKeys where files are moved; none twice between two frames.
ChooseValue(key) ==
  /\ phase = "loaded"
  /\ Cardinality(DOMAIN chosen \cup {key}) <= MaxChoices
  /\ DOMAIN chosen # {} => DOMAIN chosen \cup {key} \subseteq SwitchKeys
  /\ DOMAIN chosen \cup {key} \subseteq PathKeys \/ Contents[directory] = <<>>
  /\ pending => key \notin DOMAIN chosen
  /\ \E value \in ToSet(Definition(key).values) \ {Asked[key]} :
       chosen' = [k \in DOMAIN chosen \cup {key} |-> IF k = key THEN value ELSE chosen[k]]
  /\ pending' = TRUE
  /\ UpdateVisibility(Variables(source, chosen'), hidden)
  /\ UNCHANGED <<directory, moves, version, source, config, phase>>

\* Files are put into or taken out of the system directory.
MoveFiles ==
  /\ moves < MaxDirectories /\ DOMAIN chosen \subseteq PathKeys
  /\ moves' = moves + 1
  /\ directory' \in Directories \ {directory}
  /\ UNCHANGED <<version, source, chosen, pending, config, visibility, hidden, phase>>

Next ==
  \/ LoadGame \/ Run \/ Reset \/ UpdateOptionVisibility \/ MoveFiles
  \/ \E key \in OnMenu : ChooseValue(key)

Spec == Init /\ [][Next]_vars

----------------------------------------------------------------------------
(* Properties                                                              *)

\* The options are declared, read and set by a room's frontend in three places that
\* know one another by texts alone (config/definitions, config.cpp and parse.hpp,
\* lan_room_runner.c), and they agree: every text the menu offers is one the core reads,
\* two texts of an option never mean the same, and the menu starts with the default
\* the core wants; every option a room sets is one the core asks for, is set to a value
\* it has, and so is what the core then reads.
EveryChoiceCounts ==
  phase = "init" =>
    LET headless == FindOption(listed)
        keys == {d.key : d \in ToSet(listed)}
    IN  /\ keys \subseteq SettingKeys
        /\ Len(listed) = Len(CoreOptionDefinitions) => SettingKeys \subseteq keys
        /\ \A d \in ToSet(listed) :
             /\ \A v, w \in ToSet(d.values) :
                  /\ Accepts(d.key, v)
                  /\ v # w => Meaning(d.key, v) # Meaning(d.key, w)
             /\ InitialText(d, version) = d.default /\ d.default \in ToSet(d.values)
             /\ headless[d.key] \in ToSet(d.values)
        /\ \A key \in DOMAIN OptionOverrides :
             key \in SettingKeys /\ Accepts(key, OptionOverrides[key])

\* As long as the values of an option fit its array every option is listed,
\* and the default firmware is one of the right console's, the newest of
\* them, if the directory has any.
FirmwareFits ==
  phase = "loaded" /\ Contents[directory] # <<>> =>
    LET images == SelectSeq(Contents[directory], IsFirmwareImage)
        Best(key, type) ==
          \A i \in DOMAIN images :
            LET default == CHOOSE f \in ToSet(images) : f.path = Definition(key).default
            IN  /\ ConsoleTypeMatches(images[i], type) => ConsoleTypeMatches(default, type)
                /\ ConsoleTypeMatches(images[i], type) = ConsoleTypeMatches(default, type)
                     => NewestTimestamp(images[i]) <= NewestTimestamp(default)
    IN  source = directory /\ Len(images) \in 1 .. MaxValues - 2 =>
          /\ Len(listed) = Len(CoreOptionDefinitions)
          /\ Best("firmware_nds_path", "DS") /\ Best("firmware_dsi_path", "DSi")

\* Between a change and the next frame the configuration may be stale; else it
\* says what the menu says, whatever was listed anew in the meantime.
ConfigIsFresh ==
  phase = "loaded" /\ ~pending =>
    \A key \in SettingKeys : Asked[key] # NoText => config[key] = Meaning(key, Asked[key])

\* The menu shows an option exactly when the setting it depends on makes it
\* matter, whatever changed in which order and however often the menu asked.
\* Outside DSi mode the options of its SD card stay as they are.
ShownIsRelevant ==
  LET flags == NewFlags(Asked, NewVisibility)
  IN  phase = "loaded" /\ moves = 0 =>
        /\ \A f \in DOMAIN Dependents \ {"ShowDsiSdCardOptions"} :
             \A key \in Dependents[f] : key \notin hidden <=> flags[f]
        /\ flags.ShowDsiOptions =>
             \A key \in Dependents["ShowDsiSdCardOptions"] :
               key \notin hidden <=> flags.ShowDsiSdCardOptions
        /\ \A i \in 1 .. MAX_SCREEN_LAYOUTS :
             SCREEN_LAYOUTS[i] \notin hidden <=> i \in 1 .. flags.NumberOfShownScreenLayouts

============================================================================
