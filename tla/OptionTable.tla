---------------------------- MODULE OptionTable ----------------------------
(***************************************************************************)
(* The core options of the emulator core: which values each option offers  *)
(* to the player (config/definitions), what each value means to the core   *)
(* (config/config.cpp, config/parse.hpp), and the options whose values     *)
(* depend on the files of the system directory (RegisterCoreOptions).      *)
(*                                                                         *)
(* An option is known by its key without the prefix "melonds_".  A setting *)
(* is a table from the accepted texts to their meanings; the empty text of *)
(* an option the frontend does not have, and any other text, mean what the *)
(* table says of "".                                                       *)
(***************************************************************************)
EXTENDS Integers, Sequences, SequencesExt, FiniteSets, TLC

CONSTANTS
  Features,     \* what the build contains, a subset of AllFeatures
  MaxValues,    \* RETRO_NUM_CORE_OPTION_VALUES_MAX
  Decimal       \* the text of each number

AllFeatures ==
  {"jit", "fastmem", "networking", "direct", "opengl", "threads", "debug"}

ASSUME FeaturesAssumption == Features \subseteq AllFeatures
ASSUME MaxValuesAssumption == MaxValues \in Nat /\ MaxValues > 1

\* What the core reads of an option that the frontend does not have.
NoText == ""

RELATIVE_DAY_OFFSETS ==
  {-364, -180, -150, -120, -90, -60, -30} \cup -14 .. 14
    \cup {30, 60, 90, 120, 150, 180, 364}
Numbers == -59 .. 126 \cup RELATIVE_DAY_OFFSETS \cup 2000 .. 2100

ASSUME DecimalAssumption ==
  \A m, n \in Numbers :
    Decimal[m] \notin {NoText, "default"} /\ (Decimal[m] = Decimal[n] => m = n)

----------------------------------------------------------------------------
(* Option definitions: key, offered values in order, default value.        *)

Option(key, values, default) ==
  [key |-> key, values |-> values, default |-> default]

Decimals(numbers) == [i \in DOMAIN numbers |-> Decimal[numbers[i]]]
Texts(first, last) == [i \in 1 .. last - first + 1 |-> Decimal[first + i - 1]]
Switch == <<"disabled", "enabled">>
Shown == <<"enabled", "disabled">>
OrDefault(values) == values \o <<"default">>
When(feature, options) == IF feature \in Features THEN options ELSE <<>>

NOT_FOUND == "/notfound"

\* definitions/audio.hpp
MicInput == Option("mic_input", <<"silence", "blow", "noise", "microphone">>, "microphone")
MicInputButton == Option("mic_input_active", <<"hold", "toggle", "always">>, "hold")
BitDepth == Option("audio_bitdepth", <<"auto", "10bit", "16bit">>, "auto")
AudioInterpolation ==
  Option("audio_interpolation",
         <<"disabled", "linear", "cosine", "cubic", "gaussian">>, "disabled")

\* definitions/cpu.hpp
JitEnabled == Option("jit_enable", Switch, "enabled")
JitBlockSize == Option("jit_block_size", Texts(1, 32), Decimal[32])
JitBranchOptimizations == Option("jit_branch_optimisations", Switch, "enabled")
JitLiteralOptimizations == Option("jit_literal_optimisations", Switch, "enabled")
JitFastMemory ==
  Option("jit_fast_memory", Switch,
         IF "debug" \in Features THEN "disabled" ELSE "enabled")

\* definitions/network.hpp
NetworkMode ==
  Option("network_mode",
         <<"disabled", "indirect">> \o When("direct", <<"direct">>), "indirect")
NetworkInterface == Option("direct_network_interface", <<"auto">>, "auto")
LanMacAddressMode == Option("mac_address_mode", <<"firmware", "from-username">>, "firmware")

\* definitions/screen.hpp
ShowCursor == Option("show_cursor", <<"disabled", "touching", "timeout", "always">>, "timeout")
CursorTimeout ==
  Option("cursor_timeout", Decimals(<<1, 2, 3, 5, 10, 15, 20, 30, 60>>), Decimal[3])
TouchMode == Option("touch_mode", <<"joystick", "touch", "auto">>, "auto")
HybridRatio == Option("hybrid_ratio", Texts(2, 3), Decimal[2])
HybridSmallScreen == Option("hybrid_small_screen", <<"one", "both">>, "both")
HybridScreenFiltering == Option("opengl_filtering", <<"nearest", "linear">>, "nearest")
ScreenGap == Option("screen_gap", Texts(0, 126), Decimal[0])
NumberOfScreenLayouts == Option("number_of_screen_layouts", Texts(1, 8), Decimal[2])
LayoutTexts ==
  <<"top-bottom", "bottom-top", "left-right", "right-left", "top", "bottom",
    "hybrid-top", "hybrid-bottom", "flipped-hybrid-top", "flipped-hybrid-bottom",
    "rotate-left", "rotate-right", "rotate-180">>
LayoutDefaults ==
  <<"top-bottom", "left-right", "top", "bottom",
    "hybrid-top", "hybrid-bottom", "bottom-top", "right-left">>
SCREEN_LAYOUTS ==
  <<"screen_layout1", "screen_layout2", "screen_layout3", "screen_layout4",
    "screen_layout5", "screen_layout6", "screen_layout7", "screen_layout8">>
ScreenLayoutOption(i) == Option(SCREEN_LAYOUTS[i], LayoutTexts, LayoutDefaults[i])

\* definitions/firmware.hpp
DnsOverride ==
  Option("firmware_wfc_dns",
         OrDefault(<<"178.62.43.212", "172.104.88.237", "95.217.77.181", "0.0.0.0">>),
         "178.62.43.212")
Language ==
  Option("firmware_language",
         OrDefault(<<"auto", "en", "ja", "fr", "de", "it", "es">>), "auto")
Username ==
  Option("firmware_username",
         <<"guess_username", "melonDS DS", "existing_username">>, "guess_username")
FavoriteColor == Option("firmware_favorite_color", OrDefault(Texts(0, 15)), Decimal[0])
BirthMonth == Option("firmware_birth_month", OrDefault(Texts(1, 12)), "default")
BirthDay == Option("firmware_birth_day", OrDefault(Texts(1, 31)), "default")
EnableAlarm == Option("firmware_enable_alarm", OrDefault(Switch), "default")
AlarmHour == Option("firmware_alarm_hour", OrDefault(Texts(0, 23)), "default")
AlarmMinute == Option("firmware_alarm_minute", OrDefault(Texts(0, 59)), "default")

\* definitions/system.hpp
ConsoleMode == Option("console_mode", <<"ds", "dsi">>, "ds")
Slot2Device ==
  Option("slot2_device",
         <<"auto", "rumble-pak", "expansion-pak", "solar1", "solar2", "solar3">>, "auto")
SolarSensorMode == Option("solar_sensor_host_sensor", Switch, "enabled")
SysfileMode == Option("sysfile_mode", <<"native", "builtin">>, "native")
FirmwarePath == Option("firmware_nds_path", <<NOT_FOUND>>, NOT_FOUND)
DsiFirmwarePath == Option("firmware_dsi_path", <<NOT_FOUND>>, NOT_FOUND)
NandPath == Option("dsi_nand_path", <<NOT_FOUND>>, NOT_FOUND)
BootMode == Option("boot_mode", <<"direct", "native">>, "direct")
DsiSdCardSaveMode == Option("dsi_sdcard", Switch, "enabled")
DsiSdCardReadOnly == Option("dsi_sdcard_readonly", Switch, "disabled")
DsiSdCardSyncToHost == Option("dsi_sdcard_sync_sdcard_to_host", Switch, "disabled")
HomebrewSdCard == Option("homebrew_sdcard", Switch, "enabled")
HomebrewSdCardReadOnly == Option("homebrew_readonly", Switch, "disabled")
HomebrewSdCardSyncToHost == Option("homebrew_sync_sdcard_to_host", Switch, "disabled")
BatteryUpdateInterval ==
  Option("battery_update_interval",
         Decimals(<<1, 2, 3, 5, 10, 15, 20, 30, 60>>), Decimal[15])
NdsPowerOkThreshold ==
  Option("ds_battery_ok_threshold",
         Decimals(<<0, 10, 20, 30, 40, 50, 60, 70, 80, 90, 100>>), Decimal[20])

\* definitions/time.hpp
StartTimeMode == Option("start_time_mode", <<"real", "sync", "relative", "absolute">>, "real")
RelativeYearOffset == Option("start_time_relative_year_offset", Texts(-20, 20), Decimal[0])
RelativeDayOffset ==
  Option("start_time_relative_day_offset",
         Decimals(<<-364, -180, -150, -120, -90, -60, -30>>) \o Texts(-14, 14)
           \o Decimals(<<30, 60, 90, 120, 150, 180, 364>>), Decimal[0])
RelativeHourOffset == Option("start_time_relative_hour_offset", Texts(-23, 23), Decimal[0])
RelativeMinuteOffset == Option("start_time_relative_minute_offset", Texts(-59, 59), Decimal[0])
AbsoluteYear == Option("start_time_absolute_year", Texts(2000, 2100), Decimal[2004])
AbsoluteMonth == Option("start_time_absolute_month", Texts(1, 12), Decimal[1])
AbsoluteDay == Option("start_time_absolute_day", Texts(1, 31), Decimal[1])
AbsoluteHour == Option("start_time_absolute_hour", Texts(0, 23), Decimal[0])
AbsoluteMinute == Option("start_time_absolute_minute", Texts(0, 59), Decimal[0])

\* definitions/video.hpp
RenderMode == Option("render_mode", <<"software", "opengl">>, "software")
OpenGlScaleFactor == Option("opengl_resolution", Texts(1, 8), Decimal[1])
OpenGlBetterPolygons == Option("opengl_better_polygons", Switch, "disabled")
ThreadedSoftwareRenderer == Option("threaded_renderer", Switch, "enabled")

\* definitions/osd.hpp
ShowUnsupportedFeatures == Option("show_unsupported_features", Shown, "enabled")
ShowBiosWarnings == Option("show_bios_warnings", Shown, "enabled")
ShowCurrentLayout == Option("show_current_layout", Shown, "enabled")
ShowMicState == Option("show_mic_state", Shown, "enabled")
ShowCameraState == Option("show_camera_state", Shown, "enabled")
ShowLidState == Option("show_lid_state", Shown, "enabled")
ShowSensorReading == Option("show_sensor_reading", Shown, "enabled")
ShowPointerCoordinates == Option("show_pointer_coordinates", Switch, "disabled")

\* definitions.hpp: the list given to the frontend, by category.
AudioOptions == <<MicInput, MicInputButton, BitDepth, AudioInterpolation>>
CpuOptions ==
  When("jit", <<JitEnabled, JitBlockSize, JitBranchOptimizations, JitLiteralOptimizations>>
                \o When("fastmem", <<JitFastMemory>>))
NetworkOptions ==
  <<LanMacAddressMode>>
    \o When("networking", <<NetworkMode>> \o When("direct", <<NetworkInterface>>))
ScreenOptions ==
  <<ShowCursor, CursorTimeout, TouchMode, NumberOfScreenLayouts,
    ScreenLayoutOption(1), ScreenLayoutOption(2), ScreenLayoutOption(3),
    ScreenLayoutOption(4), ScreenLayoutOption(5), ScreenLayoutOption(6),
    ScreenLayoutOption(7), ScreenLayoutOption(8),
    HybridRatio, HybridSmallScreen, HybridScreenFiltering, ScreenGap>>
FirmwareOptions ==
  <<DnsOverride, Language, Username, FavoriteColor, BirthMonth, BirthDay,
    EnableAlarm, AlarmHour, AlarmMinute>>
SystemOptions ==
  <<ConsoleMode, Slot2Device, SolarSensorMode, SysfileMode, FirmwarePath, DsiFirmwarePath,
    NandPath, BootMode, DsiSdCardSaveMode, DsiSdCardReadOnly, DsiSdCardSyncToHost,
    HomebrewSdCard, HomebrewSdCardReadOnly, HomebrewSdCardSyncToHost,
    BatteryUpdateInterval, NdsPowerOkThreshold>>
TimeOptions ==
  <<StartTimeMode, RelativeYearOffset, RelativeDayOffset, RelativeHourOffset,
    RelativeMinuteOffset, AbsoluteYear, AbsoluteMonth, AbsoluteDay, AbsoluteHour,
    AbsoluteMinute>>
VideoOptions ==
  When("opengl", <<RenderMode, OpenGlScaleFactor, OpenGlBetterPolygons>>)
    \o When("threads", <<ThreadedSoftwareRenderer>>)
OsdOptions ==
  <<ShowUnsupportedFeatures, ShowBiosWarnings, ShowCurrentLayout, ShowMicState,
    ShowCameraState, ShowLidState, ShowSensorReading>>
    \o When("debug", <<ShowPointerCoordinates>>)
CoreOptionDefinitions ==
  AudioOptions \o CpuOptions \o NetworkOptions \o ScreenOptions \o FirmwareOptions
    \o SystemOptions \o TimeOptions \o VideoOptions \o OsdOptions

----------------------------------------------------------------------------
(* The meaning of the texts: config/parse.hpp and the Parse*Options        *)
(* functions of config/config.cpp.                                         *)

Table(texts, meanings) ==
  [t \in ToSet(texts) |-> meanings[CHOOSE i \in DOMAIN texts : texts[i] = t]]

ParseBoolean == Table(<<"enabled", "disabled">>, <<TRUE, FALSE>>)
ParseIntegerInList(numbers) ==
  [t \in {Decimal[n] : n \in numbers} |-> CHOOSE n \in numbers : Decimal[n] = t]
ParseIntegerInRange(min, max) == ParseIntegerInList(min .. max)
OrUnset(table, unset) ==
  [t \in DOMAIN table \cup {"default"} |-> IF t = "default" THEN unset ELSE table[t]]

ParseConsoleType == Table(<<"ds", "dsi">>, <<"DS", "DSi">>)
ParseSlot2Device ==
  Table(<<"auto", "rumble-pak", "expansion-pak", "solar1", "solar2", "solar3">>,
        <<"Auto", "RumblePak", "MemoryExpansionPak",
          "SolarSensorBoktai1", "SolarSensorBoktai2", "SolarSensorBoktai3">>)
ParseBootMode == Table(<<"native", "direct">>, <<"Native", "Direct">>)
ParseSysfileMode == Table(<<"native", "builtin">>, <<"Native", "BuiltIn">>)
ParseStartTimeMode ==
  Table(<<"real", "sync", "relative", "absolute">>,
        <<"Real", "Sync", "Relative", "Absolute">>)
ParseLanguage ==
  Table(<<"auto", "default", "ja", "en", "fr", "de", "it", "es">>,
        <<"Auto", "Default", "Japanese", "English", "French", "German",
          "Italian", "Spanish">>)
ParseUsernameMode ==
  Table(<<NoText, "melonDS DS", "existing_username", "guess_username">>,
        <<"MelonDSDS", "MelonDSDS", "Firmware", "Guess">>)
ParseAlarmMode ==
  Table(<<"disabled", "enabled", "default">>, <<"Disabled", "Enabled", "Default">>)
\* Texts of addresses stand for the addresses themselves.
ParseIpAddress ==
  [t \in {"178.62.43.212", "172.104.88.237", "95.217.77.181", "0.0.0.0"} |-> t]
ParseMicButtonMode ==
  Table(<<"hold", "toggle", "always">>, <<"Hold", "Toggle", "Always">>)
ParseMicInputMode ==
  Table(<<"microphone", "noise", "blow", "silence">>,
        <<"HostMic", "WhiteNoise", "Blow", "None">>)
ParseBitDepth == Table(<<"10bit", "16bit", "auto">>, <<"_10Bit", "_16Bit", "Auto">>)
ParseInterpolation ==
  Table(<<"cubic", "cosine", "linear", "gaussian", "disabled">>,
        <<"Cubic", "Cosine", "Linear", "SNESGaussian", "None">>)
ParseNetworkMode ==
  Table(<<"disabled", "direct", "indirect">>, <<"None", "Direct", "Indirect">>)
ParseTouchMode ==
  Table(<<"auto", "touch", "joystick">>, <<"Auto", "Pointer", "Joystick">>)
ParseCursorMode ==
  Table(<<"disabled", "touching", "timeout", "always">>,
        <<"Never", "Touching", "Timeout", "Always">>)
ParseHybridSideScreenDisplay == Table(<<"one", "both">>, <<"One", "Both">>)
ParseScreenLayout ==
  Table(<<"top-bottom", "bottom-top", "left-right", "right-left", "top", "bottom",
          "hybrid-top", "hybrid-bottom", "flipped-hybrid-top",
          "flipped-hybrid-bottom", "rotate-left", "rotate-right", "rotate-180">>,
        <<"TopBottom", "BottomTop", "LeftRight", "RightLeft", "TopOnly", "BottomOnly",
          "HybridTop", "HybridBottom", "FlippedHybridTop",
          "FlippedHybridBottom", "TurnLeft", "TurnRight", "UpsideDown">>)
ParseScreenFilter == Table(<<"linear", "nearest">>, <<"Linear", "Nearest">>)
ParseRenderMode == Table(<<"software", "opengl">>, <<"Software", "OpenGl">>)

MAX_SCREEN_LAYOUTS == 8
MAX_OPENGL_SCALE == 8
TIMEOUTS == {1, 2, 3, 5, 10, 15, 20, 30, 60}   \* cursor, and battery updates
DS_POWER_OK_THRESHOLDS == {10 * n : n \in 0 .. 10}

\* One reading of a variable in the Parse*Options functions: the accepted texts
\* with their meanings, and what every other text means.
Setting(accepted, fallback) ==
  [t \in DOMAIN accepted \cup {NoText} |->
     IF t \in DOMAIN accepted THEN accepted[t] ELSE fallback]

SystemSettings ==
  [console_mode |-> Setting(ParseConsoleType, "DS"),
   slot2_device |-> Setting(ParseSlot2Device, "Auto"),
   boot_mode |-> Setting(ParseBootMode, "Direct"),
   sysfile_mode |-> Setting(ParseSysfileMode, "BuiltIn"),
   solar_sensor_host_sensor |-> Setting(ParseBoolean, TRUE),
   ds_battery_ok_threshold |-> Setting(ParseIntegerInList(DS_POWER_OK_THRESHOLDS), 20),
   battery_update_interval |-> Setting(ParseIntegerInList(TIMEOUTS), 15)]

\* A missing year also forgets the minute offset: see ParseConfig.
TimeSettings ==
  [start_time_mode |-> Setting(ParseStartTimeMode, "Real"),
   start_time_relative_year_offset |-> Setting(ParseIntegerInRange(-20, 20), 0),
   start_time_relative_day_offset |-> Setting(ParseIntegerInList(RELATIVE_DAY_OFFSETS), 0),
   start_time_relative_hour_offset |-> Setting(ParseIntegerInRange(-23, 23), 0),
   start_time_relative_minute_offset |-> Setting(ParseIntegerInRange(-59, 59), 0),
   start_time_absolute_year |-> Setting(ParseIntegerInRange(2000, 2100), 0),
   start_time_absolute_month |-> Setting(ParseIntegerInRange(1, 12), 0),
   start_time_absolute_day |-> Setting(ParseIntegerInRange(1, 31), 0),
   start_time_absolute_hour |-> Setting(ParseIntegerInRange(0, 23), 0),
   start_time_absolute_minute |-> Setting(ParseIntegerInRange(0, 59), 0)]

OsdSettings ==
  [show_pointer_coordinates |-> Setting(ParseBoolean, FALSE),
   show_unsupported_features |-> Setting(ParseBoolean, TRUE),
   show_mic_state |-> Setting(ParseBoolean, TRUE),
   show_camera_state |-> Setting(ParseBoolean, TRUE),
   show_bios_warnings |-> Setting(ParseBoolean, TRUE),
   show_current_layout |-> Setting(ParseBoolean, TRUE),
   show_lid_state |-> Setting(ParseBoolean, FALSE),
   show_sensor_reading |-> Setting(ParseBoolean, TRUE)]

JitSettings ==
  [jit_enable |-> Setting(ParseBoolean, TRUE),
   jit_block_size |-> Setting(ParseIntegerInRange(1, 32), 32),
   jit_branch_optimisations |-> Setting(ParseBoolean, TRUE),
   jit_literal_optimisations |-> Setting(ParseBoolean, TRUE),
   jit_fast_memory |-> Setting(ParseBoolean, "debug" \notin Features)]

HomebrewSaveSettings ==
  [homebrew_readonly |-> Setting(ParseBoolean, FALSE),
   homebrew_sync_sdcard_to_host |-> Setting(ParseBoolean, TRUE),
   homebrew_sdcard |-> Setting(ParseBoolean, FALSE)]

\* A path is taken as it is; only the empty text is refused.
PathSettings ==
  {"dsi_nand_path", "firmware_nds_path", "firmware_dsi_path"}
  \cup (IF {"networking", "direct"} \subseteq Features
        THEN {"direct_network_interface"} ELSE {})
MissingPath(key) == IF key = "direct_network_interface" THEN "auto" ELSE NOT_FOUND

DsiStorageSettings ==
  [dsi_sdcard_readonly |-> Setting(ParseBoolean, FALSE),
   dsi_sdcard_sync_sdcard_to_host |-> Setting(ParseBoolean, TRUE),
   dsi_sdcard |-> Setting(ParseBoolean, TRUE)]

\* A setting without a value leaves the firmware's own; color 16 is "default".
UNSET == -1
FirmwareSettings ==
  [firmware_language |-> Setting(ParseLanguage, "Default"),
   firmware_favorite_color |-> Setting(OrUnset(ParseIntegerInRange(0, 15), 16), 16),
   firmware_username |-> Setting(ParseUsernameMode, "MelonDSDS"),
   firmware_enable_alarm |-> Setting(ParseAlarmMode, "Default"),
   firmware_alarm_hour |-> Setting(OrUnset(ParseIntegerInRange(0, 23), UNSET), UNSET),
   firmware_alarm_minute |-> Setting(OrUnset(ParseIntegerInRange(0, 59), UNSET), UNSET),
   firmware_birth_month |-> Setting(OrUnset(ParseIntegerInRange(1, 12), 0), 0),
   firmware_birth_day |-> Setting(OrUnset(ParseIntegerInRange(1, 31), 0), 0),
   firmware_wfc_dns |-> Setting(OrUnset(ParseIpAddress, "Unset"), "Unset")]

AudioSettings ==
  [mic_input_active |-> Setting(ParseMicButtonMode, "Hold"),
   mic_input |-> Setting(ParseMicInputMode, "None"),
   audio_bitdepth |-> Setting(ParseBitDepth, "Auto"),
   audio_interpolation |-> Setting(ParseInterpolation, "None")]

\* The address made of the player's name is a value of its own.
NetworkSettings ==
  [network_mode |-> Setting(ParseNetworkMode, "Indirect"),
   mac_address_mode |->
     Setting(Table(<<"from-username", "firmware">>, <<"FromUsername", "Unset">>), "Unset")]

LayoutSetting == Setting(ParseScreenLayout, "TopBottom")
ScreenSettings ==
  [screen_gap |-> Setting(ParseIntegerInRange(0, 126), 0),
   cursor_timeout |-> Setting(ParseIntegerInList(TIMEOUTS), 3),
   touch_mode |-> Setting(ParseTouchMode, "Auto"),
   show_cursor |-> Setting(ParseCursorMode, "Always"),
   hybrid_ratio |-> Setting(ParseIntegerInRange(2, 3), 2),
   hybrid_small_screen |-> Setting(ParseHybridSideScreenDisplay, "Both"),
   number_of_screen_layouts |-> Setting(ParseIntegerInRange(1, MAX_SCREEN_LAYOUTS), 2),
   screen_layout1 |-> LayoutSetting, screen_layout2 |-> LayoutSetting,
   screen_layout3 |-> LayoutSetting, screen_layout4 |-> LayoutSetting,
   screen_layout5 |-> LayoutSetting, screen_layout6 |-> LayoutSetting,
   screen_layout7 |-> LayoutSetting, screen_layout8 |-> LayoutSetting]

\* A missing filter is undefined behaviour (an empty optional is read); the
\* frontends offer it always, so the fallback here stands for no behaviour.
VideoSettings ==
  [opengl_filtering |-> Setting(ParseScreenFilter, "undefined"),
   threaded_renderer |-> Setting(ParseBoolean, TRUE),
   render_mode |-> Setting(ParseRenderMode, "Software"),
   opengl_resolution |-> Setting(ParseIntegerInRange(1, MAX_OPENGL_SCALE), 1),
   opengl_better_polygons |-> Setting(ParseBoolean, FALSE)]

TableOf(key) ==
  CASE key \in DOMAIN SystemSettings -> SystemSettings[key]
    [] key \in DOMAIN TimeSettings -> TimeSettings[key]
    [] key \in DOMAIN OsdSettings -> OsdSettings[key]
    [] key \in DOMAIN JitSettings -> JitSettings[key]
    [] key \in DOMAIN HomebrewSaveSettings -> HomebrewSaveSettings[key]
    [] key \in DOMAIN DsiStorageSettings -> DsiStorageSettings[key]
    [] key \in DOMAIN FirmwareSettings -> FirmwareSettings[key]
    [] key \in DOMAIN AudioSettings -> AudioSettings[key]
    [] key \in DOMAIN NetworkSettings -> NetworkSettings[key]
    [] key \in DOMAIN ScreenSettings -> ScreenSettings[key]
    [] key \in DOMAIN VideoSettings -> VideoSettings[key]

\* Settings that a build without a feature does not have.
Without(feature, keys) == IF feature \in Features THEN {} ELSE keys
NotBuilt ==
  Without("debug", {"show_pointer_coordinates"})
  \cup Without("jit", DOMAIN JitSettings) \cup Without("fastmem", {"jit_fast_memory"})
  \cup Without("networking", {"network_mode"})
  \cup Without("threads", {"threaded_renderer"})
  \cup Without("opengl", {"render_mode", "opengl_resolution", "opengl_better_polygons"})

SettingKeys ==
  {key \in DOMAIN SystemSettings \cup DOMAIN TimeSettings \cup DOMAIN OsdSettings
            \cup DOMAIN JitSettings \cup DOMAIN HomebrewSaveSettings
            \cup DOMAIN DsiStorageSettings \cup DOMAIN FirmwareSettings
            \cup DOMAIN AudioSettings \cup DOMAIN NetworkSettings
            \cup DOMAIN ScreenSettings \cup DOMAIN VideoSettings \cup PathSettings :
     key \notin NotBuilt}

Accepts(key, text) ==
  text # NoText /\ (key \in PathSettings \/ text \in DOMAIN TableOf(key))

\* A text the table does not have means what it says of the missing one.
Read(table, text) == table[IF text \in DOMAIN table THEN text ELSE NoText]

Meaning(key, text) ==
  IF key \in PathSettings
  THEN IF text # NoText THEN text ELSE MissingPath(key)
  ELSE Read(TableOf(key), text)

\* ParseConfig: every setting from the texts of the frontend's variables.  The
\* branch of a missing year resets the wrong field and leaves the year alone.
ParseConfig(texts, old) ==
  LET yearKnown == Accepts("start_time_absolute_year", texts["start_time_absolute_year"])
  IN  [k \in SettingKeys |->
         CASE k = "start_time_absolute_year" /\ ~yearKnown -> old[k]
           [] k = "start_time_relative_minute_offset" /\ ~yearKnown -> 0
           [] OTHER -> Meaning(k, texts[k])]

\* The initial values of CoreConfig (config.hpp): what a core works with when
\* the frontend refused its options.  A member without a value of its own is
\* zero, the first of its enumeration.
InitialConfig ==
  [k \in SettingKeys |->
     CASE k \in PathSettings -> NoText
       [] k = "mic_input_active" -> "Hold"
       [] k = "mic_input" -> "HostMic"
       [] k \in {"firmware_birth_month", "firmware_birth_day",
                 "number_of_screen_layouts", "opengl_resolution"} -> 1
       [] k \in {"solar_sensor_host_sensor", "show_unsupported_features",
                 "show_mic_state", "show_camera_state", "show_bios_warnings",
                 "show_current_layout"} -> TRUE
       [] k = "show_cursor" -> "Always"
       [] k = "cursor_timeout" -> 3
       [] k = "hybrid_ratio" -> 2
       [] k = "ds_battery_ok_threshold" -> 20
       [] k \in {"firmware_alarm_hour", "firmware_alarm_minute"} -> UNSET
       [] k \in {"firmware_wfc_dns", "mac_address_mode"} -> "Unset"
       [] k \in {"boot_mode", "sysfile_mode", "console_mode", "slot2_device"} ->
            Table(<<"boot_mode", "sysfile_mode", "console_mode", "slot2_device">>,
                  <<"Direct", "BuiltIn", "DS", "Auto">>)[k]
       [] k \in ToSet(SCREEN_LAYOUTS) -> "TopBottom"
       [] k = "firmware_language" -> "Japanese"
       [] k = "firmware_enable_alarm" -> "Default"
       [] k = "firmware_username" -> "MelonDSDS"
       [] k = "hybrid_small_screen" -> "One"
       [] k = "touch_mode" -> "Auto"
       [] k = "opengl_filtering" -> "Nearest"
       [] k = "render_mode" -> "Software"
       [] k = "network_mode" -> "None"
       [] k = "start_time_mode" -> "Real"
       [] k = "audio_bitdepth" -> "Auto"
       [] k = "audio_interpolation" -> "None"
       [] "enabled" \in DOMAIN TableOf(k) -> FALSE
       [] OTHER -> 0]

----------------------------------------------------------------------------
(* Options that depend on the system directory: constants.cpp and          *)
(* RegisterCoreOptions.  A file is a record of what the scan looks at.     *)

FirmwareTypes == {"DS", "DSLite", "DSi", "iQueDS", "iQueDSLite"}

\* A dump of the console's storage, with the no$gba footer at its end or in an
\* area the console does not use.
IsDsiNandImage(file) ==
  file.regular /\ file.size = "nand" /\ file.readable /\ file.footer \in {"end", "unused"}

\* A firmware dump by its size, its console type and its identifier.
IsFirmwareImage(file) ==
  /\ file.regular /\ file.size = "firmware" /\ ~file.backup /\ file.readable
  /\ file.type \in FirmwareTypes
  /\ file.blank                               \* the two unused bytes are 0xFF
  /\ file.type \in {"DS", "DSLite"} => file.mac

NewestTimestamp(file) == CHOOSE t \in file.stamps : \A u \in file.stamps : u <= t

ConsoleTypeMatches(file, type) ==
  file.type \in (IF type = "DS" THEN {"DS", "DSLite"} ELSE {"DSi"})

SelectNewestFirmware(images, type) ==
  (CHOOSE f \in ToSet(images) :
     \A g \in ToSet(images) : NewestTimestamp(g) <= NewestTimestamp(f)).path

\* max_element keeps the first of the best images.
SelectDefaultFirmware(images, type) ==
  LET Worse(a, b) ==
        IF ConsoleTypeMatches(a, type) # ConsoleTypeMatches(b, type)
        THEN ConsoleTypeMatches(b, type)
        ELSE NewestTimestamp(a) < NewestTimestamp(b)
      best == CHOOSE i \in DOMAIN images :
                /\ \A j \in DOMAIN images : ~Worse(images[i], images[j])
                /\ \A j \in 1 .. i - 1 : Worse(images[j], images[i])
  IN  images[best].path

\* What the scan of the system directory finds, in readdir's order.
NandImages(files) == SelectSeq(files, IsDsiNandImage)
FirmwareImages(files) ==
  SelectSeq(files, LAMBDA f : ~IsDsiNandImage(f) /\ IsFirmwareImage(f))

\* As many images as an option's array of values has room for.
Fitting(images) == IF Len(images) < MaxValues - 1 THEN Len(images) ELSE MaxValues - 1
Paths(images) == [i \in 1 .. Fitting(images) |-> images[i].path]

\* The options of paths with the files found.
Filled(d, nands, firmware) ==
  CASE d.key = "dsi_nand_path" /\ nands # <<>> ->
         Option(d.key, Paths(nands), nands[1].path)
    [] d.key = "firmware_nds_path" /\ firmware # <<>> ->
         Option(d.key, Paths(firmware), SelectDefaultFirmware(firmware, "DS"))
    [] d.key = "firmware_dsi_path" /\ firmware # <<>> ->
         Option(d.key, Paths(firmware), SelectDefaultFirmware(firmware, "DSi"))
    [] OTHER -> d

\* A list of values as long as its array has no room for its terminator, which
\* then falls on the key of the next definition and ends the list there.
Overflows(firmware) == firmware # <<>> /\ Fitting(firmware) + 1 = MaxValues
LastListed(firmware) ==
  IF Overflows(firmware)
  THEN CHOOSE i \in DOMAIN CoreOptionDefinitions :
         CoreOptionDefinitions[i].key = "firmware_nds_path"
  ELSE Len(CoreOptionDefinitions)

\* The list given to the frontend.
RegisterCoreOptions(files) ==
  [i \in 1 .. LastListed(FirmwareImages(files)) |->
     Filled(CoreOptionDefinitions[i], NandImages(files), FirmwareImages(files))]

\* set_core_options: a frontend without option versions 1 and 2 gets one text
\* per option, whose first value is the default.
DefaultPlaces(d) == {i \in DOMAIN d.values : d.values[i] = d.default}
LastPlace(d) ==
  IF DefaultPlaces(d) = {} THEN 1
  ELSE CHOOSE i \in DefaultPlaces(d) : \A j \in DefaultPlaces(d) : j <= i
DefaultFirst(d) ==
  Option(d.key,
         [i \in DOMAIN d.values |->
            IF i = 1 THEN d.values[LastPlace(d)]
            ELSE IF i <= LastPlace(d) THEN d.values[i - 1] ELSE d.values[i]],
         d.default)
SetCoreOptions(definitions, api) ==
  IF api > 0 THEN definitions
  ELSE [i \in DOMAIN definitions |-> DefaultFirst(definitions[i])]

\* What such a frontend, and any other, starts an option with.
InitialText(d, api) == IF api > 0 THEN d.default ELSE d.values[1]

\* GET_VARIABLE before the player chooses anything: "" for an option that is
\* not listed, of those the core asks for.
InitialTexts(definitions, api) ==
  [k \in SettingKeys |->
     IF \E d \in ToSet(definitions) : d.key = k
     THEN InitialText(CHOOSE d \in ToSet(definitions) : d.key = k, api)
     ELSE NoText]

----------------------------------------------------------------------------
(* The headless frontend of a room (lan_room_runner.c): fixed values for   *)
(* some options, the defaults for the others.                              *)

OverridesMisspelled ==                 \* the homebrew key spelled after the DSi one
  ("console_mode" :> "ds") @@ ("sysfile_mode" :> "builtin") @@ ("boot_mode" :> "direct")
  @@ ("dsi_sdcard" :> "disabled") @@ ("dsi_sdcard_sync_sdcard_to_host" :> "disabled")
  @@ ("homebrew_sdcard_sync_sdcard_to_host" :> "disabled")
OptionOverrides ==
  ("console_mode" :> "ds") @@ ("sysfile_mode" :> "builtin") @@ ("boot_mode" :> "direct")
  @@ ("render_mode" :> "software") @@ ("network_mode" :> "disabled")
  @@ ("mac_address_mode" :> "from-username") @@ ("firmware_username" :> "guess_username")
  @@ ("touch_mode" :> "touch") @@ ("show_cursor" :> "disabled")
  @@ ("show_bios_warnings" :> "disabled") @@ ("homebrew_sdcard" :> "disabled")
  @@ ("dsi_sdcard" :> "disabled") @@ ("dsi_sdcard_sync_sdcard_to_host" :> "disabled")
  @@ ("homebrew_sync_sdcard_to_host" :> "disabled")

MAX_OPTIONS == 256

\* store_v2_options, store_default_option: the first default of a key is kept.
StoreOptions(definitions) ==
  LET kept == SubSeq(definitions, 1, IF Len(definitions) < MAX_OPTIONS
                                     THEN Len(definitions) ELSE MAX_OPTIONS)
      Text(d) == IF d.default # NoText THEN d.default ELSE Head(d.values)
  IN  [k \in {kept[i].key : i \in DOMAIN kept} |->
         Text(kept[CHOOSE i \in DOMAIN kept :
                     kept[i].key = k /\ \A j \in 1 .. i - 1 : kept[j].key # k])]

\* find_option: what the core reads.
FindOption(definitions) == OptionOverrides @@ StoreOptions(definitions)

============================================================================
