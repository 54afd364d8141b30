------------------------- MODULE CoreOptionsProofs -------------------------
(***************************************************************************)
(* The core options, for every build, every content of the system          *)
(* directory and any number of changes: the configuration is what the menu *)
(* says (ConfigIsFresh), and the menu shows what matters (ShownIsRelevant).*)
(***************************************************************************)
EXTENDS CoreOptions, SequenceTheorems, TLAPS

----------------------------------------------------------------------------
(* The list of options.                                                    *)

\* The two settings a missing year disturbs, and the option whose list of
\* firmware images may end the list of options.
Watched == {"start_time_absolute_year", "start_time_relative_minute_offset",
            "firmware_nds_path"}

IsSequence(s) == s \in Seq(ToSet(s))
Plain(s) == IsSequence(s) /\ \A i \in 1 .. Len(s) : s[i].key \notin Watched

LEMMA AnySequence ==
  ASSUME NEW S, NEW r \in Seq(S)
  PROVE  IsSequence(r) /\ Len(r) \in Nat /\ DOMAIN r = 1 .. Len(r)
<1>1. r \in [1 .. Len(r) -> S] /\ Len(r) \in Nat
  BY LenProperties
<1>2. \A i \in 1 .. Len(r) : r[i] \in ToSet(r)
  BY <1>1 DEF ToSet
<1>3. r \in [1 .. Len(r) -> ToSet(r)]
  BY <1>1, <1>2
<1> QED
  BY <1>1, <1>3, SeqDef DEF IsSequence

LEMMA ConcatIndex ==
  ASSUME NEW s, NEW t, IsSequence(s), IsSequence(t)
  PROVE  /\ IsSequence(s \o t) /\ Len(s) \in Nat /\ Len(t) \in Nat
         /\ Len(s \o t) = Len(s) + Len(t)
         /\ \A i \in 1 .. Len(s) : (s \o t)[i] = s[i]
         /\ \A i \in 1 .. Len(t) : (s \o t)[Len(s) + i] = t[i]
         /\ \A i \in 1 .. Len(s) + Len(t) :
              \/ i \in 1 .. Len(s)
              \/ i - Len(s) \in 1 .. Len(t) /\ (s \o t)[i] = t[i - Len(s)]
<1> DEFINE S == ToSet(s) \cup ToSet(t)
<1>1. s \in Seq(S) /\ t \in Seq(S)
  BY DEF IsSequence
<1> HIDE DEF S
<1> DEFINE r == s \o t
<1>2. /\ r \in Seq(S) /\ Len(s) \in Nat /\ Len(t) \in Nat
      /\ Len(s \o t) = Len(s) + Len(t)
      /\ DOMAIN r = 1 .. Len(r)
  BY <1>1
<1>3. \A i \in 1 .. Len(s) + Len(t) :
        (s \o t)[i] = IF i <= Len(s) THEN s[i] ELSE t[i - Len(s)]
  BY <1>1
<1>6. IsSequence(r)
  BY <1>2, AnySequence
<1>7. ASSUME NEW i \in 1 .. Len(s) + Len(t)
      PROVE  \/ i \in 1 .. Len(s)
             \/ i - Len(s) \in 1 .. Len(t) /\ r[i] = t[i - Len(s)]
  <2>1. CASE i <= Len(s)
    BY <1>2, <2>1
  <2>2. CASE ~(i <= Len(s))
    <3>1. i - Len(s) \in 1 .. Len(t)
      BY <1>2, <2>2
    <3> QED BY <1>3, <2>2, <3>1
  <2> QED BY <2>1, <2>2
<1>8. \A i \in 1 .. Len(s) : r[i] = s[i]
  BY <1>2, <1>3
<1>9. ASSUME NEW i \in 1 .. Len(t) PROVE r[Len(s) + i] = t[i]
  <2>1. Len(s) + i \in 1 .. Len(s) + Len(t) /\ ~(Len(s) + i <= Len(s)) /\ (Len(s) + i) - Len(s) = i
    BY <1>2
  <2> QED BY <1>3, <2>1
<1> QED
  BY <1>2, <1>6, <1>7, <1>8, <1>9 

LEMMA PlainConcat ==
  ASSUME NEW s, NEW t, Plain(s), Plain(t)
  PROVE  Plain(s \o t)
<1>1. IsSequence(s) /\ IsSequence(t)
  BY DEF Plain
<1>2. ASSUME NEW i \in 1 .. Len(s \o t) PROVE (s \o t)[i].key \notin Watched
  BY <1>1, ConcatIndex DEF Plain
<1> QED
  BY <1>1, <1>2, ConcatIndex DEF Plain

LEMMA OptionKey ==
  ASSUME NEW k, NEW v, NEW d
  PROVE  Option(k, v, d).key = k
  BY DEF Option

LEMMA PlainWhen ==
  ASSUME NEW feature, NEW s, Plain(s)
  PROVE  Plain(When(feature, s))
<1> DEFINE none == <<>>
<1>1. none \in Seq({}) /\ Len(none) = 0
  OBVIOUS
<1> HIDE DEF none
<1>2. IsSequence(none)
  BY <1>1, AnySequence
<1>3. Plain(none)
  BY <1>1, <1>2 DEF Plain
<1> USE DEF none
<1> QED
  BY <1>3 DEF When

LEMMA PlainCategories ==
  /\ Plain(AudioOptions) /\ Plain(CpuOptions) /\ Plain(NetworkOptions)
  /\ Plain(ScreenOptions) /\ Plain(FirmwareOptions) /\ Plain(VideoOptions)
  /\ Plain(OsdOptions)
<1>1. Plain(AudioOptions)
  <2>1. /\ AudioOptions \in Seq({MicInput, MicInputButton, BitDepth, AudioInterpolation})
        /\ Len(AudioOptions) = 4
    BY DEF AudioOptions
  <2>2. \A i \in 1 .. 4 : AudioOptions[i].key \notin Watched
    BY OptionKey DEF AudioOptions, MicInput, MicInputButton, BitDepth,
           AudioInterpolation, Watched
  <2> QED BY <2>1, <2>2, AnySequence DEF Plain
<1>2. Plain(CpuOptions)
  <2> DEFINE jit == <<JitEnabled, JitBlockSize, JitBranchOptimizations, JitLiteralOptimizations>>
             fastmem == <<JitFastMemory>>
  <2>1. Plain(jit)
    <3>1. jit \in Seq({JitEnabled, JitBlockSize, JitBranchOptimizations,
                       JitLiteralOptimizations}) /\ Len(jit) = 4
      OBVIOUS
    <3>2. \A i \in 1 .. 4 : jit[i].key \notin Watched
      BY OptionKey DEF JitEnabled, JitBlockSize, JitBranchOptimizations, JitLiteralOptimizations,
             Option, Watched
    <3> HIDE DEF jit
    <3> QED BY <3>1, <3>2, AnySequence DEF Plain
  <2>2. Plain(fastmem)
    <3>1. fastmem \in Seq({JitFastMemory}) /\ Len(fastmem) = 1
      OBVIOUS
    <3>2. \A i \in 1 .. 1 : fastmem[i].key \notin Watched
      BY OptionKey DEF JitFastMemory, Watched
    <3> HIDE DEF fastmem
    <3> QED BY <3>1, <3>2, AnySequence DEF Plain
  <2> HIDE DEF jit, fastmem
  <2>3. CpuOptions = When("jit", jit \o When("fastmem", fastmem))
    BY DEF CpuOptions, jit, fastmem
  <2> QED BY <2>1, <2>2, <2>3, PlainWhen, PlainConcat
<1>3. Plain(NetworkOptions)
  <2> DEFINE mac == <<LanMacAddressMode>>  mode == <<NetworkMode>>  lan == <<NetworkInterface>>
  <2>1. /\ mac \in Seq({LanMacAddressMode}) /\ Len(mac) = 1
        /\ mode \in Seq({NetworkMode}) /\ Len(mode) = 1
        /\ lan \in Seq({NetworkInterface}) /\ Len(lan) = 1
    OBVIOUS
  <2>2. \A i \in 1 .. 1 : {mac[i].key, mode[i].key, lan[i].key} \cap Watched = {}
    BY OptionKey DEF LanMacAddressMode, NetworkMode, NetworkInterface, Watched
  <2> HIDE DEF mac, mode, lan
  <2>3. Plain(mac) /\ Plain(mode) /\ Plain(lan)
    BY <2>1, <2>2, AnySequence DEF Plain
  <2>4. NetworkOptions = mac \o When("networking", mode \o When("direct", lan))
    BY DEF NetworkOptions, mac, mode, lan
  <2> QED BY <2>3, <2>4, PlainWhen, PlainConcat
<1>4. Plain(ScreenOptions)
  <2>1. /\ ScreenOptions \in Seq({ShowCursor, CursorTimeout, TouchMode,
                NumberOfScreenLayouts, ScreenLayoutOption(1), ScreenLayoutOption(2),
                ScreenLayoutOption(3), ScreenLayoutOption(4), ScreenLayoutOption(5),
                ScreenLayoutOption(6), ScreenLayoutOption(7), ScreenLayoutOption(8),
                HybridRatio, HybridSmallScreen, HybridScreenFiltering, ScreenGap})
        /\ Len(ScreenOptions) = 16
    BY DEF ScreenOptions
  <2>2. \A i \in 1 .. 16 : ScreenOptions[i].key \notin Watched
    BY OptionKey DEF ScreenOptions, ShowCursor, CursorTimeout, TouchMode,
           NumberOfScreenLayouts, HybridRatio, HybridSmallScreen, HybridScreenFiltering,
           ScreenGap, ScreenLayoutOption, SCREEN_LAYOUTS, Watched
  <2> QED BY <2>1, <2>2, AnySequence DEF Plain
<1>5. Plain(FirmwareOptions)
  <2>1. /\ FirmwareOptions \in Seq({DnsOverride, Language, Username, FavoriteColor,
                BirthMonth, BirthDay, EnableAlarm, AlarmHour, AlarmMinute})
        /\ Len(FirmwareOptions) = 9
    BY DEF FirmwareOptions
  <2>3. DnsOverride.key = "firmware_wfc_dns" /\ Username.key = "firmware_username"
    BY OptionKey, Zenon DEF DnsOverride, Username
  <2>4. \A d \in {DnsOverride, Language, Username, FavoriteColor, BirthMonth,
                  BirthDay, EnableAlarm, AlarmHour, AlarmMinute} :
          d.key \notin Watched
    BY <2>3, OptionKey DEF Language, FavoriteColor, BirthMonth, BirthDay, EnableAlarm,
           AlarmHour, AlarmMinute, Watched
  <2>2. \A i \in 1 .. 9 : FirmwareOptions[i].key \notin Watched
    BY <2>4 DEF FirmwareOptions
  <2> QED BY <2>1, <2>2, AnySequence DEF Plain
<1>6. Plain(VideoOptions)
  <2> DEFINE gl == <<RenderMode, OpenGlScaleFactor, OpenGlBetterPolygons>>
             threads == <<ThreadedSoftwareRenderer>>
  <2>1. /\ gl \in Seq({RenderMode, OpenGlScaleFactor, OpenGlBetterPolygons}) /\ Len(gl) = 3
        /\ threads \in Seq({ThreadedSoftwareRenderer}) /\ Len(threads) = 1
    OBVIOUS
  <2>2. /\ \A i \in 1 .. 3 : gl[i].key \notin Watched
        /\ \A i \in 1 .. 1 : threads[i].key \notin Watched
    BY OptionKey DEF RenderMode, OpenGlScaleFactor, OpenGlBetterPolygons, ThreadedSoftwareRenderer,
           Watched
  <2> HIDE DEF gl, threads
  <2>3. Plain(gl) /\ Plain(threads)
    BY <2>1, <2>2, AnySequence DEF Plain
  <2>4. VideoOptions = When("opengl", gl) \o When("threads", threads)
    BY DEF VideoOptions, gl, threads
  <2> QED BY <2>3, <2>4, PlainWhen, PlainConcat
<1>7. Plain(OsdOptions)
  <2> DEFINE osd == <<ShowUnsupportedFeatures, ShowBiosWarnings, ShowCurrentLayout,
                      ShowMicState, ShowCameraState, ShowLidState, ShowSensorReading>>
             pointer == <<ShowPointerCoordinates>>
  <2>1. /\ osd \in Seq({ShowUnsupportedFeatures, ShowBiosWarnings, ShowCurrentLayout,
                        ShowMicState, ShowCameraState, ShowLidState, ShowSensorReading})
        /\ Len(osd) = 7
        /\ pointer \in Seq({ShowPointerCoordinates}) /\ Len(pointer) = 1
    OBVIOUS
  <2>2. /\ \A i \in 1 .. 7 : osd[i].key \notin Watched
        /\ \A i \in 1 .. 1 : pointer[i].key \notin Watched
    BY OptionKey DEF ShowUnsupportedFeatures, ShowBiosWarnings, ShowCurrentLayout, ShowMicState,
           ShowCameraState, ShowLidState, ShowSensorReading, ShowPointerCoordinates,
           Watched
  <2> HIDE DEF osd, pointer
  <2>3. Plain(osd) /\ Plain(pointer)
    BY <2>1, <2>2, AnySequence DEF Plain
  <2>4. OsdOptions = osd \o When("debug", pointer)
    BY DEF OsdOptions, osd, pointer
  <2> QED BY <2>3, <2>4, PlainWhen, PlainConcat
<1> QED
  BY <1>1, <1>2, <1>3, <1>4, <1>5, <1>6, <1>7

LEMMA SystemCategory ==
  /\ IsSequence(SystemOptions)
  /\ \E i \in 1 .. Len(SystemOptions) : SystemOptions[i].key = "firmware_nds_path"
  /\ \A i \in 1 .. Len(SystemOptions) :
       SystemOptions[i].key
         \notin {"start_time_absolute_year", "start_time_relative_minute_offset"}
<1>1. /\ SystemOptions \in
           Seq({ConsoleMode, Slot2Device, SolarSensorMode, SysfileMode, FirmwarePath,
                DsiFirmwarePath, NandPath, BootMode, DsiSdCardSaveMode,
                DsiSdCardReadOnly, DsiSdCardSyncToHost, HomebrewSdCard,
                HomebrewSdCardReadOnly, HomebrewSdCardSyncToHost,
                BatteryUpdateInterval, NdsPowerOkThreshold})
      /\ Len(SystemOptions) = 16
  BY DEF SystemOptions
<1>2. SystemOptions[5].key = "firmware_nds_path"
  BY OptionKey DEF SystemOptions, FirmwarePath
<1>3. \A i \in 1 .. 16 :
        SystemOptions[i].key
          \notin {"start_time_absolute_year", "start_time_relative_minute_offset"}
  BY OptionKey
     DEF SystemOptions, ConsoleMode, Slot2Device, SolarSensorMode, SysfileMode,
         FirmwarePath, DsiFirmwarePath, NandPath, BootMode, DsiSdCardSaveMode,
         DsiSdCardReadOnly, DsiSdCardSyncToHost, HomebrewSdCard, HomebrewSdCardReadOnly,
         HomebrewSdCardSyncToHost, BatteryUpdateInterval, NdsPowerOkThreshold
<1> QED
  BY <1>1, <1>2, <1>3, AnySequence

LEMMA TimeCategory ==
  /\ IsSequence(TimeOptions)
  /\ \E i \in 1 .. Len(TimeOptions) : TimeOptions[i] = AbsoluteYear
  /\ \A i \in 1 .. Len(TimeOptions) :
       /\ TimeOptions[i].key # "firmware_nds_path"
       /\ TimeOptions[i].key = "start_time_absolute_year" => TimeOptions[i] = AbsoluteYear
<1>1. /\ TimeOptions \in
           Seq({StartTimeMode, RelativeYearOffset, RelativeDayOffset, RelativeHourOffset,
                RelativeMinuteOffset, AbsoluteYear, AbsoluteMonth, AbsoluteDay,
                AbsoluteHour, AbsoluteMinute})
      /\ Len(TimeOptions) = 10 /\ TimeOptions[6] = AbsoluteYear
  BY DEF TimeOptions
<1>2. \A d \in {StartTimeMode, RelativeYearOffset, RelativeDayOffset, RelativeHourOffset,
                RelativeMinuteOffset, AbsoluteMonth, AbsoluteDay, AbsoluteHour,
                AbsoluteMinute} :
        d.key \notin {"firmware_nds_path", "start_time_absolute_year"}
  BY OptionKey
     DEF StartTimeMode, RelativeYearOffset, RelativeDayOffset, RelativeHourOffset,
         RelativeMinuteOffset, AbsoluteMonth, AbsoluteDay, AbsoluteHour, AbsoluteMinute
<1>3. AbsoluteYear.key = "start_time_absolute_year"
  BY OptionKey DEF AbsoluteYear
<1>4. \A i \in 1 .. 10 :
        /\ TimeOptions[i].key # "firmware_nds_path"
        /\ TimeOptions[i].key = "start_time_absolute_year" => TimeOptions[i] = AbsoluteYear
  BY <1>2, <1>3 DEF TimeOptions
<1> QED
  BY <1>1, <1>4, AnySequence

\* The year is listed, with its own values, and the minute offset is listed
\* after the option whose values may end the list.
YearIsListed(s) ==
  /\ IsSequence(s)
  /\ \E i \in 1 .. Len(s) : s[i] = AbsoluteYear
  /\ \A i \in 1 .. Len(s) : s[i].key = "start_time_absolute_year" => s[i] = AbsoluteYear
  /\ \E i \in 1 .. Len(s) : s[i].key = "firmware_nds_path"
  /\ \A i, j \in 1 .. Len(s) :
       /\ s[i].key = "firmware_nds_path"
       /\ s[j].key = "start_time_relative_minute_offset"
       => i < j

LEMMA YearStaysListed ==
  ASSUME NEW s, NEW t, YearIsListed(s), Plain(t)
  PROVE  YearIsListed(s \o t)
<1> DEFINE r == s \o t
<1>1. IsSequence(s) /\ IsSequence(t)
  BY DEF YearIsListed, Plain
<1>2. /\ IsSequence(r) /\ Len(s) \in Nat /\ Len(t) \in Nat /\ Len(r) = Len(s) + Len(t)
      /\ \A i \in 1 .. Len(s) : r[i] = s[i]
      /\ \A i \in 1 .. Len(r) :
           i \in 1 .. Len(s) \/ (i - Len(s) \in 1 .. Len(t) /\ r[i] = t[i - Len(s)])
  BY <1>1, ConcatIndex
<1> HIDE DEF r
<1>3. \A i \in 1 .. Len(r) : r[i].key \in Watched => i \in 1 .. Len(s) /\ r[i] = s[i]
  BY <1>2 DEF Plain
<1>4. 1 .. Len(s) \subseteq 1 .. Len(r)
  BY <1>2
<1>5. \E i \in 1 .. Len(r) : r[i] = AbsoluteYear
  BY <1>2, <1>4 DEF YearIsListed
<1>6. \E i \in 1 .. Len(r) : r[i].key = "firmware_nds_path"
  BY <1>2, <1>4 DEF YearIsListed
<1>7. \A i \in 1 .. Len(r) : r[i].key = "start_time_absolute_year" => r[i] = AbsoluteYear
  BY <1>3 DEF YearIsListed, Watched
<1>8. ASSUME NEW i \in 1 .. Len(r), NEW j \in 1 .. Len(r), r[i].key = "firmware_nds_path",
             r[j].key = "start_time_relative_minute_offset"
      PROVE  i < j
  <2>1. i \in 1 .. Len(s) /\ r[i] = s[i] /\ j \in 1 .. Len(s) /\ r[j] = s[j]
    BY <1>3, <1>8 DEF Watched
  <2> QED BY <1>8, <2>1 DEF YearIsListed
<1>9. YearIsListed(r)
  BY <1>2, <1>5, <1>6, <1>7, <1>8 DEF YearIsListed
<1> QED
  BY <1>9 DEF r

LEMMA DefinitionsListYear == YearIsListed(CoreOptionDefinitions)
<1> DEFINE head == AudioOptions \o CpuOptions \o NetworkOptions \o ScreenOptions
                     \o FirmwareOptions
           system == head \o SystemOptions
           time == system \o TimeOptions
<1>1. Plain(head)
  BY PlainCategories, PlainConcat
<1> HIDE DEF head
<1>2. /\ IsSequence(system)
      /\ \E i \in 1 .. Len(system) : system[i].key = "firmware_nds_path"
      /\ \A i \in 1 .. Len(system) :
           system[i].key
             \notin {"start_time_absolute_year", "start_time_relative_minute_offset"}
  <2>1. /\ IsSequence(system) /\ Len(head) \in Nat /\ Len(SystemOptions) \in Nat
        /\ Len(system) = Len(head) + Len(SystemOptions)
        /\ \A i \in 1 .. Len(SystemOptions) : system[Len(head) + i] = SystemOptions[i]
        /\ \A i \in 1 .. Len(head) : system[i] = head[i]
        /\ \A i \in 1 .. Len(system) :
             \/ i \in 1 .. Len(head)
             \/ i - Len(head) \in 1 .. Len(SystemOptions)
                /\ system[i] = SystemOptions[i - Len(head)]
    BY <1>1, SystemCategory, ConcatIndex DEF Plain
  <2> HIDE DEF system
  <2>2. PICK i \in 1 .. Len(SystemOptions) : SystemOptions[i].key = "firmware_nds_path"
    BY SystemCategory
  <2>3. Len(head) + i \in 1 .. Len(system) /\ system[Len(head) + i].key = "firmware_nds_path"
    BY <2>1, <2>2
  <2> QED
    BY <1>1, <2>1, <2>3, SystemCategory DEF Plain, Watched
<1> HIDE DEF system
<1>3. YearIsListed(time)
  <2>1. /\ IsSequence(time) /\ Len(system) \in Nat /\ Len(TimeOptions) \in Nat
        /\ Len(time) = Len(system) + Len(TimeOptions)
        /\ \A i \in 1 .. Len(TimeOptions) : time[Len(system) + i] = TimeOptions[i]
        /\ \A i \in 1 .. Len(system) : time[i] = system[i]
        /\ \A i \in 1 .. Len(time) :
             \/ i \in 1 .. Len(system)
             \/ i - Len(system) \in 1 .. Len(TimeOptions)
                /\ time[i] = TimeOptions[i - Len(system)]
    BY <1>2, TimeCategory, ConcatIndex
  <2> HIDE DEF time
  <2>2. PICK i \in 1 .. Len(TimeOptions) : TimeOptions[i] = AbsoluteYear
    BY TimeCategory
  <2>3. Len(system) + i \in 1 .. Len(time) /\ time[Len(system) + i] = AbsoluteYear
    BY <2>1, <2>2
  <2>4. \E j \in 1 .. Len(time) : time[j].key = "firmware_nds_path"
    <3>1. 1 .. Len(system) \subseteq 1 .. Len(time)
      BY <2>1
    <3> QED BY <1>2, <2>1, <3>1
  <2>5. \A j \in 1 .. Len(time) :
          time[j].key = "start_time_absolute_year" => time[j] = AbsoluteYear
    BY <1>2, <2>1, TimeCategory
  <2>6. ASSUME NEW j \in 1 .. Len(time), NEW k \in 1 .. Len(time),
               time[j].key = "firmware_nds_path",
               time[k].key = "start_time_relative_minute_offset"
        PROVE  j < k
    <3>1. j \in 1 .. Len(system)
      BY <2>1, <2>6, TimeCategory
    <3>2. k \notin 1 .. Len(system)
      BY <1>2, <2>1, <2>6
    <3> QED BY <2>1, <3>1, <3>2
  <2> QED
    BY <2>1, <2>3, <2>4, <2>5, <2>6 DEF YearIsListed
<1>4. CoreOptionDefinitions = time \o VideoOptions \o OsdOptions
  BY DEF CoreOptionDefinitions, head, system, time
<1> HIDE DEF time
<1> QED
  BY <1>3, <1>4, PlainCategories, YearStaysListed

----------------------------------------------------------------------------
(* What the frontend is told of the year.                                  *)

LEMMA YearsAccepted ==
  /\ AbsoluteYear.key = "start_time_absolute_year"
  /\ DOMAIN AbsoluteYear.values = 1 .. 101
  /\ \A i \in 1 .. 101 : Accepts("start_time_absolute_year", AbsoluteYear.values[i])
  /\ Accepts("start_time_absolute_year", AbsoluteYear.default)
<1>1. /\ AbsoluteYear.values = Texts(2000, 2100) /\ AbsoluteYear.default = Decimal[2004]
      /\ AbsoluteYear.key = "start_time_absolute_year"
  BY DEF AbsoluteYear, Option
<1>2. Texts(2000, 2100) = [i \in 1 .. 101 |-> Decimal[2000 + i - 1]]
  BY DEF Texts
<1>3. ASSUME NEW n \in 2000 .. 2100
      PROVE  Accepts("start_time_absolute_year", Decimal[n])
  <2>1. Decimal[n] # NoText
    <3>1. n \in Numbers
      BY DEF Numbers
    <3> QED BY <3>1, DecimalAssumption
  <2>2. TableOf("start_time_absolute_year") = TimeSettings.start_time_absolute_year
    <3>1. "start_time_absolute_year" \notin DOMAIN SystemSettings
      BY DEF SystemSettings
    <3>2. "start_time_absolute_year" \in DOMAIN TimeSettings
      BY DEF TimeSettings
    <3>3. /\ "start_time_absolute_year" \notin DOMAIN OsdSettings
          /\ "start_time_absolute_year" \notin DOMAIN JitSettings
          /\ "start_time_absolute_year" \notin DOMAIN HomebrewSaveSettings
          /\ "start_time_absolute_year" \notin DOMAIN DsiStorageSettings
      BY DEF OsdSettings, JitSettings, HomebrewSaveSettings, DsiStorageSettings
    <3>4. /\ "start_time_absolute_year" \notin DOMAIN FirmwareSettings
          /\ "start_time_absolute_year" \notin DOMAIN AudioSettings
          /\ "start_time_absolute_year" \notin DOMAIN NetworkSettings
          /\ "start_time_absolute_year" \notin DOMAIN ScreenSettings
          /\ "start_time_absolute_year" \notin DOMAIN VideoSettings
      BY DEF FirmwareSettings, AudioSettings, NetworkSettings, ScreenSettings, VideoSettings
    <3> QED BY <3>1, <3>2, <3>3, <3>4, SMT DEF TableOf
  <2>3. TimeSettings.start_time_absolute_year = Setting(ParseIntegerInRange(2000, 2100), 0)
    BY DEF TimeSettings
  <2>4. Decimal[n] \in DOMAIN ParseIntegerInRange(2000, 2100)
    BY DEF ParseIntegerInRange, ParseIntegerInList
  <2>5. Decimal[n] \in DOMAIN Setting(ParseIntegerInRange(2000, 2100), 0)
    BY <2>4 DEF Setting
  <2> QED
    BY <2>1, <2>2, <2>3, <2>5 DEF Accepts
<1>4. \A i \in 1 .. 101 : 2000 + i - 1 \in 2000 .. 2100
  OBVIOUS
<1> QED
  BY <1>1, <1>2, <1>3, <1>4

LEMMA DefaultFirstOf ==
  ASSUME NEW k, NEW v, NEW default, NEW d, d = Option(k, v, default)
  PROVE  /\ DefaultFirst(d).key = k
         /\ DefaultFirst(d).values =
              [i \in DOMAIN v |-> IF i = 1 THEN v[LastPlace(d)]
                                 ELSE IF i <= LastPlace(d) THEN v[i - 1] ELSE v[i]]
  BY DEF DefaultFirst, Option

LEMMA YearsFirst ==
  /\ DefaultFirst(AbsoluteYear).key = "start_time_absolute_year"
  /\ DOMAIN DefaultFirst(AbsoluteYear).values = 1 .. 101
  /\ \A i \in 1 .. 101 :
       Accepts("start_time_absolute_year", DefaultFirst(AbsoluteYear).values[i])
<1> DEFINE year == AbsoluteYear  years == Texts(2000, 2100)
<1>1. /\ years = [i \in 1 .. 101 |-> Decimal[2000 + i - 1]]
      /\ year = Option("start_time_absolute_year", years, Decimal[2004])
  BY DEF AbsoluteYear, Texts
<1> HIDE DEF year, years
<1>2. year.values = years /\ year.default = Decimal[2004]
  BY <1>1 DEF Option
<1>3. LastPlace(year) = 5
  <2>1. DefaultPlaces(year) = {5}
    <3>1. ASSUME NEW i \in 1 .. 101, Decimal[2000 + i - 1] = Decimal[2004] PROVE i = 5
      <4>1. 2000 + i - 1 \in Numbers /\ 2004 \in Numbers
        BY DEF Numbers
      <4>2. 2000 + i - 1 = 2004
        BY <3>1, <4>1, DecimalAssumption
      <4> QED BY <4>2
    <3>2. years[5] = Decimal[2004]
      BY <1>1
    <3> QED BY <1>1, <1>2, <3>1, <3>2 DEF DefaultPlaces
  <2> QED BY <2>1 DEF LastPlace
<1>4. /\ DefaultFirst(year).key = "start_time_absolute_year"
      /\ DefaultFirst(year).values =
           [i \in 1 .. 101 |-> IF i = 1 THEN years[5]
                              ELSE IF i <= 5 THEN years[i - 1] ELSE years[i]]
  <2>1. DOMAIN years = 1 .. 101
    BY <1>1
  <2> QED BY <1>1, <1>3, <2>1, DefaultFirstOf
<1>5. \A i \in 1 .. 101 : i # 1 => i - 1 \in 1 .. 101
  OBVIOUS
<1>6. \A i \in 1 .. 101 : Accepts("start_time_absolute_year", years[i])
  BY <1>2, YearsAccepted DEF year
<1> QED
  BY <1>4, <1>5, <1>6 DEF year

LEMMA KeysKept ==
  /\ \A d, nands, firmware : Filled(d, nands, firmware).key = d.key
  /\ \A d : DefaultFirst(d).key = d.key
  BY OptionKey DEF Filled, DefaultFirst

\* What RegisterCoreOptions says of the year, whatever the directory holds.
LEMMA RegisteredYear ==
  ASSUME NEW files
  PROVE  LET list == RegisterCoreOptions(files)
         IN  /\ \A i \in DOMAIN list :
                  list[i].key = "start_time_absolute_year" => list[i] = AbsoluteYear
             /\ (\E i \in DOMAIN list : list[i].key = "start_time_relative_minute_offset")
                  => \E i \in DOMAIN list : list[i].key = "start_time_absolute_year"
<1> DEFINE list == RegisterCoreOptions(files)
           nands == NandImages(files)
           firmware == FirmwareImages(files)
           C == CoreOptionDefinitions
           last == LastListed(firmware)
<1>1. list = [i \in 1 .. last |-> Filled(C[i], nands, firmware)]
  BY DEF RegisterCoreOptions
<1>2. /\ Len(C) \in Nat /\ DOMAIN C = 1 .. Len(C) /\ last \in 1 .. Len(C)
      /\ last = Len(C) \/ C[last].key = "firmware_nds_path"
  <2>1. Len(C) \in Nat /\ DOMAIN C = 1 .. Len(C)
    BY DefinitionsListYear, AnySequence DEF YearIsListed, IsSequence
  <2>2. \E i \in 1 .. Len(C) : C[i].key = "firmware_nds_path"
    BY DefinitionsListYear DEF YearIsListed
  <2> QED BY <2>1, <2>2 DEF LastListed
<1>3. \A i \in 1 .. last : list[i].key = C[i].key /\ i \in 1 .. Len(C)
  BY <1>1, <1>2, KeysKept
<1>4. DOMAIN list = 1 .. last
  BY <1>1
<1>5. ASSUME NEW i \in DOMAIN list, list[i].key = "start_time_absolute_year"
      PROVE  list[i] = AbsoluteYear
  <2>1. C[i] = AbsoluteYear /\ C[i].key = "start_time_absolute_year"
    BY <1>3, <1>4, <1>5, DefinitionsListYear DEF YearIsListed
  <2>2. Filled(C[i], nands, firmware) = C[i]
    BY <2>1 DEF Filled
  <2> QED BY <1>1, <1>4, <2>1, <2>2
<1>6. ASSUME NEW j \in DOMAIN list,
             list[j].key = "start_time_relative_minute_offset"
      PROVE  \E i \in DOMAIN list : list[i].key = "start_time_absolute_year"
  <2>1. last = Len(C)
    <3>1. j \in 1 .. Len(C) /\ C[j].key = "start_time_relative_minute_offset" /\ j <= last
      BY <1>2, <1>3, <1>4, <1>6
    <3>2. C[last].key = "firmware_nds_path" => last < j
      BY <1>2, <3>1, DefinitionsListYear DEF YearIsListed
    <3> QED BY <1>2, <3>1, <3>2
  <2>2. PICK i \in 1 .. Len(C) : C[i] = AbsoluteYear
    BY DefinitionsListYear DEF YearIsListed
  <2> QED BY <1>3, <1>4, <2>1, <2>2, YearsAccepted
<1> QED
  BY <1>5, <1>6

LEMMA ListsYear ==
  ASSUME NEW files \in Directories, NEW api \in OptionVersions
  PROVE  LET list == Lists[files][api]
         IN  /\ \A i \in DOMAIN list : list[i].key = "start_time_absolute_year" =>
                  /\ \A v \in ToSet(list[i].values) : Accepts("start_time_absolute_year", v)
                  /\ Accepts("start_time_absolute_year", InitialText(list[i], api))
             /\ (\E i \in DOMAIN list : list[i].key = "start_time_relative_minute_offset")
                  => \E i \in DOMAIN list : list[i].key = "start_time_absolute_year"
<1> DEFINE list == Lists[files][api]
           registered == RegisterCoreOptions(Contents[files])
<1>1. list = SetCoreOptions(registered, api)
  BY DEF Lists, Registered
<1> HIDE DEF list, registered
<1>2. /\ \A i \in DOMAIN registered :
           registered[i].key = "start_time_absolute_year" => registered[i] = AbsoluteYear
      /\ (\E i \in DOMAIN registered :
             registered[i].key = "start_time_relative_minute_offset")
           => \E i \in DOMAIN registered : registered[i].key = "start_time_absolute_year"
  BY RegisteredYear DEF registered
<1>3. CASE api > 0
  <2>1. list = registered
    BY <1>1, <1>3 DEF SetCoreOptions
  <2>2. /\ \A v \in ToSet(AbsoluteYear.values) : Accepts("start_time_absolute_year", v)
        /\ Accepts("start_time_absolute_year", InitialText(AbsoluteYear, api))
    BY <1>3, YearsAccepted DEF ToSet, InitialText
  <2> QED BY <1>2, <2>1, <2>2 DEF list
<1>4. CASE ~(api > 0)
  <2>1. list = [i \in DOMAIN registered |-> DefaultFirst(registered[i])]
    BY <1>1, <1>4 DEF SetCoreOptions
  <2>2. DOMAIN list = DOMAIN registered
        /\ \A i \in DOMAIN registered : list[i].key = registered[i].key
    BY <2>1, KeysKept
  <2> DEFINE year == DefaultFirst(AbsoluteYear)
  <2>3. /\ \A v \in ToSet(year.values) : Accepts("start_time_absolute_year", v)
        /\ Accepts("start_time_absolute_year", InitialText(year, api))
    <3> HIDE DEF year
    <3>1. DOMAIN year.values = 1 .. 101
          /\ \A i \in 1 .. 101 : Accepts("start_time_absolute_year", year.values[i])
      BY YearsFirst DEF year
    <3>2. InitialText(year, api) = year.values[1]
      BY <1>4, Zenon DEF InitialText
    <3>3. \A v \in ToSet(year.values) : \E i \in 1 .. 101 : v = year.values[i]
      BY <3>1 DEF ToSet
    <3> HIDE DEF Accepts, InitialText
    <3>a. 1 \in 1 .. 101
      OBVIOUS
    <3>4. Accepts("start_time_absolute_year", year.values[1])
      BY <3>1, <3>a, Zenon
    <3>5. \A v \in ToSet(year.values) : Accepts("start_time_absolute_year", v)
      BY <3>1, <3>3, Zenon
    <3> QED BY <3>2, <3>4, <3>5
  <2>4. \A i \in DOMAIN list : list[i].key = "start_time_absolute_year" => list[i] = year
    BY <1>2, <2>1, <2>2
  <2> QED BY <1>2, <2>2, <2>3, <2>4 DEF list
<1> QED
  BY <1>3, <1>4

LEMMA TimeKeys ==
  {"start_time_absolute_year", "start_time_relative_minute_offset"} \subseteq SettingKeys
<1>1. {"start_time_absolute_year", "start_time_relative_minute_offset"}
        \subseteq DOMAIN TimeSettings
  BY DEF TimeSettings
<1>2. {"start_time_absolute_year", "start_time_relative_minute_offset"} \cap NotBuilt = {}
  BY DEF NotBuilt, Without, JitSettings
<1> QED
  BY <1>1, <1>2 DEF SettingKeys

LEMMA InitialsListed ==
  ASSUME NEW files \in Directories, NEW api \in OptionVersions, NEW k \in SettingKeys
  PROVE  LET list == Lists[files][api]
             text == Initials[files][api][k]
         IN  IF \E i \in DOMAIN list : list[i].key = k
             THEN \E i \in DOMAIN list : list[i].key = k /\ text = InitialText(list[i], api)
             ELSE text = NoText
<1> DEFINE list == Lists[files][api]
<1>1. Initials[files][api] = InitialTexts(list, api)
  BY DEF Initials
<1> HIDE DEF list
<1>2. Initials[files][api][k] =
        IF \E d \in ToSet(list) : d.key = k
        THEN InitialText(CHOOSE d \in ToSet(list) : d.key = k, api)
        ELSE NoText
  BY <1>1 DEF InitialTexts
<1>3. (\E d \in ToSet(list) : d.key = k) <=> (\E i \in DOMAIN list : list[i].key = k)
  BY DEF ToSet
<1>4. CASE \E d \in ToSet(list) : d.key = k
  <2> DEFINE d == CHOOSE d \in ToSet(list) : d.key = k
  <2>1. d \in ToSet(list) /\ d.key = k
    BY <1>4
  <2> HIDE DEF d
  <2>2. PICK i \in DOMAIN list : list[i] = d
    BY <2>1 DEF ToSet
  <2> QED BY <1>2, <1>3, <1>4, <2>1, <2>2 DEF d, list
<1> QED
  BY <1>2, <1>3, <1>4 DEF list

\* Every choice is one the present list offers.
Offers(list, key, value) ==
  \E i \in DOMAIN list : list[i].key = key /\ value \in ToSet(list[i].values)
ChoicesOffered(files, api, choices) ==
  \A k \in DOMAIN choices : k \in SettingKeys /\ Offers(Lists[files][api], k, choices[k])

\* A year that the core cannot read is one that is not listed, and then the
\* minute offset is not listed either.
LEMMA YearKnown ==
  ASSUME source \in Directories, version \in OptionVersions,
         ChoicesOffered(source, version, chosen),
         NEW key \in {"start_time_absolute_year", "start_time_relative_minute_offset"},
         Asked[key] # NoText
  PROVE  Accepts("start_time_absolute_year", Asked["start_time_absolute_year"])
<1> DEFINE list == Lists[source][version]
           Year(i) == i \in DOMAIN list /\ list[i].key = "start_time_absolute_year"
<1>1. \A k \in {"start_time_absolute_year", "start_time_relative_minute_offset"} :
        Asked[k] = IF k \in DOMAIN chosen THEN chosen[k] ELSE Initials[source][version][k]
  BY TimeKeys DEF Asked, Variables
<1>2. \E i \in DOMAIN list : list[i].key = key
  <2>1. CASE key \in DOMAIN chosen
    BY <2>1 DEF ChoicesOffered, Offers
  <2>2. CASE key \notin DOMAIN chosen
    BY <1>1, <2>2, TimeKeys, InitialsListed
  <2> QED BY <2>1, <2>2
<1>3. \E i \in DOMAIN list : list[i].key = "start_time_absolute_year"
  BY <1>2, ListsYear
<1>4. \A i : Year(i) =>
        /\ \A v \in ToSet(list[i].values) : Accepts("start_time_absolute_year", v)
        /\ Accepts("start_time_absolute_year", InitialText(list[i], version))
  BY ListsYear
<1>5. CASE "start_time_absolute_year" \in DOMAIN chosen
  BY <1>1, <1>4, <1>5 DEF ChoicesOffered, Offers
<1>6. CASE "start_time_absolute_year" \notin DOMAIN chosen
  <2>1. \E i : Year(i) /\ Initials[source][version]["start_time_absolute_year"]
                          = InitialText(list[i], version)
    BY <1>3, TimeKeys, InitialsListed
  <2> QED BY <1>1, <1>4, <1>6, <2>1
<1> QED
  BY <1>5, <1>6

----------------------------------------------------------------------------
(* The configuration is what the menu says.                                *)

ChoicesFollow ==
  /\ source \in Directories /\ directory \in Directories /\ version \in OptionVersions
  /\ moves \in Nat /\ (moves = 0 => source = directory)
  /\ phase \in {"init", "loaded"}
  /\ phase = "init" => DOMAIN chosen = {}
  /\ ChoicesOffered(source, version, chosen)

\* What has been read once stays as it is when it is read again.
ConfigFollows == phase = "loaded" /\ ~pending => config = ParseConfig(Asked, config)

\* Listing the options again keeps the choices that the new list offers; it
\* keeps all of them if the directory is what it was.
LEMMA ListingOffers ==
  ASSUME ChoicesFollow, ListOptions
  PROVE  /\ source' = directory /\ DOMAIN chosen' \subseteq DOMAIN chosen
         /\ ChoicesOffered(directory, version, chosen')
         /\ moves = 0 => /\ DOMAIN chosen' = DOMAIN chosen
                          /\ \A k \in DOMAIN chosen : chosen'[k] = chosen[k]
<1> DEFINE list == Lists[directory][version]
           kept == {k \in DOMAIN chosen : Offers(list, k, chosen[k])}
<1>1. source' = directory /\ chosen' = [k \in kept |-> chosen[k]]
  BY DEF ListOptions, Relisted, Offers
<1>2. DOMAIN chosen' = kept /\ \A k \in kept : chosen'[k] = chosen[k]
  BY <1>1
<1>3. ChoicesOffered(directory, version, chosen')
  BY <1>2 DEF ChoicesOffered, ChoicesFollow
<1>4. moves = 0 => kept = DOMAIN chosen
  BY DEF ChoicesFollow, ChoicesOffered
<1> QED
  BY <1>1, <1>2, <1>3, <1>4

LEMMA ChoiceOffered ==
  ASSUME NEW key \in OnMenu, ChoicesFollow, ChooseValue(key)
  PROVE  /\ DOMAIN chosen' = DOMAIN chosen \cup {key}
         /\ \A k \in DOMAIN chosen \ {key} : chosen'[k] = chosen[k]
         /\ ChoicesOffered(source, version, chosen')
<1> DEFINE list == Lists[source][version]
<1>a. key \in SettingKeys /\ Asked[key] # NoText
  BY DEF OnMenu
<1>1. PICK value \in ToSet(Definition(key).values) :
        chosen' = [k \in DOMAIN chosen \cup {key} |-> IF k = key THEN value ELSE chosen[k]]
  BY DEF ChooseValue
<1>2. \E i \in DOMAIN list : list[i].key = key
  <2>1. CASE key \in DOMAIN chosen
    BY <2>1 DEF ChoicesFollow, ChoicesOffered, Offers
  <2>2. CASE key \notin DOMAIN chosen
    <3>1. Initials[source][version][key] # NoText
      BY <1>a, <2>2 DEF Asked, Variables
    <3> QED BY <1>a, <3>1, InitialsListed DEF ChoicesFollow
  <2> QED BY <2>1, <2>2
<1>3. Offers(list, key, value)
  <2> DEFINE i == CHOOSE i \in DOMAIN list : list[i].key = key
  <2>1. i \in DOMAIN list /\ list[i].key = key
    BY <1>2
  <2>2. Definition(key) = list[i]
    BY DEF Definition, listed
  <2> HIDE DEF i, list
  <2> QED BY <1>1, <2>1, <2>2 DEF Offers
<1>4. /\ DOMAIN chosen' = DOMAIN chosen \cup {key} /\ chosen'[key] = value
      /\ \A k \in DOMAIN chosen \ {key} : chosen'[k] = chosen[k]
  BY <1>1
<1> QED
  BY <1>a, <1>3, <1>4 DEF ChoicesFollow, ChoicesOffered

LEMMA ParseTwice ==
  ASSUME NEW texts, NEW old
  PROVE  ParseConfig(texts, ParseConfig(texts, old)) = ParseConfig(texts, old)
  BY DEF ParseConfig

LEMMA ChoicesStep ==
  ASSUME ChoicesFollow, [Next]_vars
  PROVE  ChoicesFollow'
<1>1. CASE LoadGame
  BY <1>1, ListingOffers DEF LoadGame, UpdateVisibility, ChoicesFollow
<1>2. CASE Run
  BY <1>2 DEF Run, ChoicesFollow
<1>3. CASE Reset
  BY <1>3, ListingOffers DEF Reset, ChoicesFollow
<1>4. CASE UpdateOptionVisibility
  BY <1>4 DEF UpdateOptionVisibility, UpdateVisibility, ChoicesFollow
<1>5. ASSUME NEW key \in OnMenu, ChooseValue(key) PROVE ChoicesFollow'
  BY <1>5, ChoiceOffered DEF ChooseValue, UpdateVisibility, ChoicesFollow
<1>6. CASE MoveFiles
  BY <1>6 DEF MoveFiles, ChoicesFollow
<1>7. CASE UNCHANGED vars
  BY <1>7 DEF vars, ChoicesFollow
<1> QED
  BY <1>1, <1>2, <1>3, <1>4, <1>5, <1>6, <1>7 DEF Next

LEMMA ConfigStep ==
  ASSUME ChoicesFollow, ConfigFollows, [Next]_vars
  PROVE  ConfigFollows'
<1>1. CASE LoadGame
  <2>1. /\ Asked' = Variables(directory, chosen')
        /\ config' = ParseConfig(Variables(directory, chosen'), config)
    BY <1>1 DEF LoadGame, ListOptions, Asked, Variables
  <2> QED BY <2>1, ParseTwice DEF ConfigFollows
<1>2. CASE Run
  <2>1. Asked' = Asked /\ config' = ParseConfig(Asked, config)
    BY <1>2 DEF Run, Asked, Variables
  <2> QED BY <2>1, ParseTwice DEF ConfigFollows
<1>3. CASE Reset
  <2>1. /\ Asked' = Variables(directory, chosen')
        /\ config' = ParseConfig(Variables(directory, chosen'), config)
    BY <1>3 DEF Reset, ListOptions, Asked, Variables
  <2> QED BY <2>1, ParseTwice DEF ConfigFollows
<1>4. CASE UpdateOptionVisibility
  BY <1>4 DEF UpdateOptionVisibility, ConfigFollows, Asked, Variables
<1>5. ASSUME NEW key \in OnMenu, ChooseValue(key) PROVE ConfigFollows'
  BY <1>5 DEF ChooseValue, ConfigFollows
<1>6. CASE MoveFiles
  BY <1>6 DEF MoveFiles, ConfigFollows, Asked, Variables
<1>7. CASE UNCHANGED vars
  BY <1>7 DEF vars, ConfigFollows, Asked, Variables
<1> QED
  BY <1>1, <1>2, <1>3, <1>4, <1>5, <1>6, <1>7 DEF Next

LEMMA ConfigInit == Init => ChoicesFollow /\ ConfigFollows
  BY DEF Init, ChoicesFollow, ConfigFollows, ChoicesOffered, NoChoices

LEMMA FollowsFresh ==
  ASSUME ChoicesFollow, ConfigFollows
  PROVE  ConfigIsFresh
<1> SUFFICES ASSUME phase = "loaded", ~pending, NEW key \in SettingKeys, Asked[key] # NoText
             PROVE  config[key] = Meaning(key, Asked[key])
  BY DEF ConfigIsFresh
<1> DEFINE known == Accepts("start_time_absolute_year", Asked["start_time_absolute_year"])
<1>1. config[key] = CASE key = "start_time_absolute_year" /\ ~known -> config[key]
                      [] key = "start_time_relative_minute_offset" /\ ~known -> 0
                      [] OTHER -> Meaning(key, Asked[key])
  BY Zenon DEF ConfigFollows, ParseConfig
<1>2. key \in {"start_time_absolute_year", "start_time_relative_minute_offset"} => known
  BY YearKnown DEF ChoicesFollow
<1> HIDE DEF known
<1> QED
  BY <1>1, <1>2

\* After the first frame that follows a change the configuration says what the
\* menu says, whatever was listed anew in the meantime and whichever files
\* came and went (ParseConfig, called by LoadGame, Run and Reset).
THEOREM ConfigStaysFresh == Spec => []ConfigIsFresh
<1>1. ChoicesFollow /\ ConfigFollows /\ [Next]_vars => (ChoicesFollow /\ ConfigFollows)'
  BY ChoicesStep, ConfigStep
<1> QED
  BY <1>1, ConfigInit, FollowsFresh, PTL DEF Spec

----------------------------------------------------------------------------
(* The menu shows what matters.                                            *)

\* No option depends on two flags, and none is one of the screen layouts.
LEMMA DependentsDisjoint ==
  /\ \A f, g \in FlagsBuilt : \A key \in DependentsOf(f) : key \in DependentsOf(g) => f = g
  /\ \A f \in FlagsBuilt : DependentsOf(f) \cap ToSet(SCREEN_LAYOUTS) = {}
  BY DEF FlagsBuilt, DependentsOf, SCREEN_LAYOUTS, ToSet

LEMMA LayoutsDiffer ==
  /\ DOMAIN SCREEN_LAYOUTS = 1 .. MAX_SCREEN_LAYOUTS
  /\ \A i, j \in 1 .. MAX_SCREEN_LAYOUTS : SCREEN_LAYOUTS[i] = SCREEN_LAYOUTS[j] => i = j
  BY DEF SCREEN_LAYOUTS, MAX_SCREEN_LAYOUTS

LEMMA FlagsOfTexts ==
  ASSUME NEW texts, NEW old, NEW new, new = NewFlags(texts, old)
  PROVE  /\ new.VisibilityInitialized = TRUE
         /\ new.NumberOfShownScreenLayouts = ShownLayouts(texts)
         /\ new.ShowDsiOptions = Wants(texts, "console_mode", {"DSi"})
         /\ new.ShowDsiSdCardOptions = Wants(texts, "dsi_sdcard", {TRUE})
  BY DEF NewFlags

LEMMA FlagsIgnoreOld ==
  ASSUME NEW texts, NEW old, NEW other, NEW f \in FlagsBuilt
  PROVE  NewFlags(texts, old)[f] = NewFlags(texts, other)[f]
  BY DEF NewFlags, FlagsBuilt

\* The frontend shows what the flags say.
Shows(flags, was) ==
  /\ \A f \in FlagsBuilt : \A key \in DependentsOf(f) : key \notin was <=> flags[f]
  /\ \A i \in 1 .. MAX_SCREEN_LAYOUTS :
       SCREEN_LAYOUTS[i] \notin was <=> i \in 1 .. flags.NumberOfShownScreenLayouts

\* What HiddenAfter does to one option of a flag, and to one layout.
LEMMA HiddenOption ==
  ASSUME NEW old, NEW new, NEW was, NEW f \in FlagsBuilt, NEW key \in DependentsOf(f)
  PROVE  key \in HiddenAfter(old, new, was) <=>
           IF f \in Changed(old, new) THEN ~new[f] ELSE key \in was
<1>1. /\ Changed(old, new) \subseteq FlagsBuilt
      /\ \A g \in FlagsBuilt : Dependents[g] = DependentsOf(g)
  BY DEF Changed, Dependents
<1>2. key \notin LayoutsTold(old, new) /\ key \notin LayoutsHidden(new)
  <2>1. key \notin ToSet(SCREEN_LAYOUTS)
    BY DependentsDisjoint
  <2>2. LayoutsHidden(new) \subseteq ToSet(SCREEN_LAYOUTS)
    BY LayoutsDiffer DEF LayoutsHidden, ToSet
  <2> QED BY <2>1, <2>2 DEF LayoutsTold
<1>3. key \in Told(old, new) <=> f \in Changed(old, new)
  BY <1>1, DependentsDisjoint DEF Told
<1>4. key \in ToldHidden(old, new) <=> f \in Changed(old, new) /\ ~new[f]
  BY <1>1, DependentsDisjoint DEF ToldHidden
<1> QED
  BY <1>2, <1>3, <1>4 DEF HiddenAfter

LEMMA HiddenLayout ==
  ASSUME NEW old, NEW new, NEW was, NEW i \in 1 .. MAX_SCREEN_LAYOUTS
  PROVE  SCREEN_LAYOUTS[i] \in HiddenAfter(old, new, was) <=>
           IF ~old.VisibilityInitialized
              \/ old.NumberOfShownScreenLayouts # new.NumberOfShownScreenLayouts
           THEN i \notin 1 .. new.NumberOfShownScreenLayouts
           ELSE SCREEN_LAYOUTS[i] \in was
<1> DEFINE key == SCREEN_LAYOUTS[i]
           anew == ~old.VisibilityInitialized
                   \/ old.NumberOfShownScreenLayouts # new.NumberOfShownScreenLayouts
<1>1. /\ Changed(old, new) \subseteq FlagsBuilt
      /\ \A g \in FlagsBuilt : Dependents[g] = DependentsOf(g)
  BY DEF Changed, Dependents
<1>2. key \in ToSet(SCREEN_LAYOUTS)
  BY LayoutsDiffer DEF ToSet
<1>3. key \notin Told(old, new) /\ key \notin ToldHidden(old, new)
  <2> HIDE DEF key
  <2> QED BY <1>1, <1>2, DependentsDisjoint DEF Told, ToldHidden
<1>4. key \in LayoutsHidden(new) <=> i \notin 1 .. new.NumberOfShownScreenLayouts
  BY LayoutsDiffer DEF LayoutsHidden
<1>5. key \in LayoutsTold(old, new) <=> anew
  BY <1>2 DEF LayoutsTold
<1> HIDE DEF anew, key
<1>6. key \in HiddenAfter(old, new, was) <=>
        IF anew THEN i \notin 1 .. new.NumberOfShownScreenLayouts ELSE key \in was
  BY <1>3, <1>4, <1>5 DEF HiddenAfter
<1> QED
  BY <1>6 DEF key, anew

LEMMA Redrawn ==
  ASSUME NEW old, NEW new, NEW was,
         \/ ~old.VisibilityInitialized
         \/ /\ Shows(old, was)
            /\ old.ShowDsiSdCardOptions /\ ~new.ShowDsiSdCardOptions => new.ShowDsiOptions
  PROVE  Shows(new, HiddenAfter(old, new, was))
<1>1. ASSUME NEW f \in FlagsBuilt, NEW key \in DependentsOf(f)
      PROVE  key \notin HiddenAfter(old, new, was) <=> new[f]
  <2>1. CASE f \in Changed(old, new)
    BY <2>1, HiddenOption
  <2>2. CASE f \notin Changed(old, new)
    <3>1. /\ old.VisibilityInitialized /\ Compared(f, old, new) = new[f]
          /\ key \notin was <=> old[f]
      BY <2>2 DEF Changed, Dependents, Shows
    <3>2. old[f] <=> new[f]
      <4>1. CASE f # "ShowDsiSdCardOptions"
        BY <3>1, <4>1 DEF Compared
      <4>2. CASE f = "ShowDsiSdCardOptions"
        <5>1. (old[f] /\ new.ShowDsiOptions) = new[f]
          BY <3>1, <4>2 DEF Compared
        <5>2. old[f] /\ ~new[f] => new.ShowDsiOptions
          BY <3>1, <4>2
        <5> QED BY <5>1, <5>2
      <4> QED BY <4>1, <4>2
    <3> QED BY <2>2, <3>1, <3>2, HiddenOption
  <2> QED BY <2>1, <2>2
<1>2. ASSUME NEW i \in 1 .. MAX_SCREEN_LAYOUTS
      PROVE  SCREEN_LAYOUTS[i] \notin HiddenAfter(old, new, was)
               <=> i \in 1 .. new.NumberOfShownScreenLayouts
  BY HiddenLayout DEF Shows
<1> QED
  BY <1>1, <1>2 DEF Shows

MenuFollows ==
  /\ phase = "init" => ~visibility.VisibilityInitialized
  /\ phase = "loaded" /\ moves = 0 =>
       /\ \A f \in FlagsBuilt : visibility[f] = NewFlags(Asked, NewVisibility)[f]
       /\ visibility.NumberOfShownScreenLayouts = ShownLayouts(Asked)
       /\ Shows(visibility, hidden)

LEMMA FlagsOfDsi == {"ShowDsiOptions", "ShowDsiSdCardOptions"} \subseteq FlagsBuilt
  BY DEF FlagsBuilt

\* Whoever reads the texts anew leaves the menu as it should be, if the DSi's
\* SD card is not switched off where its switch is not shown.
LEMMA MenuRedrawn ==
  ASSUME NEW texts, texts = Asked', UpdateVisibility(texts, hidden),
         \/ ~visibility.VisibilityInitialized
         \/ /\ Shows(visibility, hidden)
            /\ visibility.ShowDsiSdCardOptions /\ ~Wants(texts, "dsi_sdcard", {TRUE})
                 => Wants(texts, "console_mode", {"DSi"}),
         phase' = "loaded"
  PROVE  MenuFollows'
<1>1. visibility' = NewFlags(texts, visibility)
      /\ hidden' = HiddenAfter(visibility, visibility', hidden)
  BY DEF UpdateVisibility
<1>2. /\ visibility'.NumberOfShownScreenLayouts = ShownLayouts(texts)
      /\ visibility'.ShowDsiOptions = Wants(texts, "console_mode", {"DSi"})
      /\ visibility'.ShowDsiSdCardOptions = Wants(texts, "dsi_sdcard", {TRUE})
  BY <1>1, FlagsOfTexts
<1>3. Shows(visibility', hidden')
  BY <1>1, <1>2, Redrawn
<1>4. \A f \in FlagsBuilt : visibility'[f] = NewFlags(texts, NewVisibility)[f]
  BY <1>1, FlagsIgnoreOld
<1> QED
  BY <1>2, <1>3, <1>4 DEF MenuFollows

LEMMA DsiKeys == {"console_mode", "dsi_sdcard"} \subseteq SettingKeys
<1>1. "console_mode" \in DOMAIN SystemSettings
  BY DEF SystemSettings
<1>2. "dsi_sdcard" \in DOMAIN DsiStorageSettings
  BY DEF DsiStorageSettings
<1>3. {"console_mode", "dsi_sdcard"} \cap NotBuilt = {}
  BY DEF NotBuilt, Without, JitSettings
<1> QED
  BY <1>1, <1>2, <1>3 DEF SettingKeys

LEMMA MenuKnowsDsi ==
  ASSUME MenuFollows, phase = "loaded", moves = 0
  PROVE  /\ Shows(visibility, hidden)
         /\ visibility.ShowDsiOptions = Wants(Asked, "console_mode", {"DSi"})
         /\ visibility.ShowDsiSdCardOptions = Wants(Asked, "dsi_sdcard", {TRUE})
<1>1. \A f \in {"ShowDsiOptions", "ShowDsiSdCardOptions"} :
        visibility[f] = NewFlags(Asked, NewVisibility)[f]
  BY FlagsOfDsi DEF MenuFollows
<1> QED
  BY <1>1, FlagsOfTexts DEF MenuFollows

LEMMA MenuStep ==
  ASSUME ChoicesFollow, MenuFollows, [Next]_vars
  PROVE  MenuFollows'
<1>1. CASE LoadGame
  <2>1. Asked' = Variables(directory, chosen') /\ UpdateVisibility(Asked', hidden)
    BY <1>1 DEF LoadGame, ListOptions, Asked, Variables
  <2>2. ~visibility.VisibilityInitialized /\ phase' = "loaded"
    BY <1>1 DEF LoadGame, MenuFollows
  <2> QED BY <2>1, <2>2, MenuRedrawn
<1>2. CASE Run
  BY <1>2 DEF Run, MenuFollows, Asked, Variables
<1>3. CASE Reset
  <2>1. CASE moves = 0
    <3>1. Asked' = Asked
      <4>1. /\ source' = source /\ version' = version /\ DOMAIN chosen' = DOMAIN chosen
            /\ \A k \in DOMAIN chosen : chosen'[k] = chosen[k]
        BY <1>3, <2>1, ListingOffers DEF Reset, ChoicesFollow
      <4> QED BY <4>1 DEF Asked, Variables
    <3> QED BY <1>3, <3>1 DEF Reset, MenuFollows
  <2>2. CASE moves # 0
    BY <1>3, <2>2 DEF Reset, MenuFollows
  <2> QED BY <2>1, <2>2
<1>4. CASE UpdateOptionVisibility
  <2>1. Asked' = Asked /\ UpdateVisibility(Asked', hidden) /\ phase' = "loaded" /\ moves' = moves
    BY <1>4 DEF UpdateOptionVisibility, Asked, Variables
  <2>2. CASE moves = 0
    BY <1>4, <2>1, <2>2, MenuKnowsDsi, MenuRedrawn DEF UpdateOptionVisibility
  <2>3. CASE moves # 0
    BY <2>1, <2>3 DEF MenuFollows
  <2> QED BY <2>2, <2>3
<1>5. ASSUME NEW key \in OnMenu, ChooseValue(key) PROVE MenuFollows'
  <2>1. /\ Asked' = Variables(source, chosen') /\ UpdateVisibility(Asked', hidden)
        /\ phase = "loaded" /\ phase' = "loaded" /\ moves' = moves /\ key \notin hidden
    BY <1>5 DEF ChooseValue, OnMenu, Asked, Variables
  <2>2. CASE moves # 0
    BY <2>1, <2>2 DEF MenuFollows
  <2>3. CASE moves = 0
    <3>1. \A k \in {"console_mode", "dsi_sdcard"} \ {key} : Asked'[k] = Asked[k]
      <4>1. /\ DOMAIN chosen' = DOMAIN chosen \cup {key}
            /\ \A k \in DOMAIN chosen \ {key} : chosen'[k] = chosen[k]
        BY <1>5, ChoiceOffered
      <4> QED BY <1>5, <2>1, <4>1, DsiKeys DEF ChooseValue, Asked, Variables
    <3>2. /\ Shows(visibility, hidden)
          /\ visibility.ShowDsiOptions = Wants(Asked, "console_mode", {"DSi"})
          /\ visibility.ShowDsiSdCardOptions = Wants(Asked, "dsi_sdcard", {TRUE})
      BY <2>1, <2>3, MenuKnowsDsi
    <3>3. ASSUME visibility.ShowDsiSdCardOptions, ~Wants(Asked', "dsi_sdcard", {TRUE})
          PROVE  Wants(Asked', "console_mode", {"DSi"})
      <4>1. key = "dsi_sdcard"
        BY <3>1, <3>2, <3>3 DEF Wants
      <4>2. visibility.ShowDsiOptions
        <5>1. "dsi_sdcard" \in DependentsOf("ShowDsiOptions")
          BY DEF DependentsOf
        <5> QED BY <2>1, <3>2, <4>1, <5>1, FlagsOfDsi DEF Shows
      <4> QED BY <3>1, <3>2, <4>1, <4>2 DEF Wants
    <3> QED BY <2>1, <3>2, <3>3, MenuRedrawn
  <2> QED BY <2>2, <2>3
<1>6. CASE MoveFiles
  BY <1>6 DEF MoveFiles, MenuFollows, ChoicesFollow
<1>7. CASE UNCHANGED vars
  BY <1>7 DEF vars, MenuFollows, Asked, Variables
<1> QED
  BY <1>1, <1>2, <1>3, <1>4, <1>5, <1>6, <1>7 DEF Next

LEMMA MenuInit == Init => MenuFollows
  BY DEF Init, MenuFollows, NewVisibility

LEMMA FollowsShown ==
  ASSUME MenuFollows
  PROVE  ShownIsRelevant
<1> DEFINE flags == NewFlags(Asked, NewVisibility)
<1> SUFFICES ASSUME phase = "loaded", moves = 0
             PROVE  /\ \A f \in DOMAIN Dependents \ {"ShowDsiSdCardOptions"} :
                         \A key \in Dependents[f] : key \notin hidden <=> flags[f]
                    /\ flags.ShowDsiOptions =>
                         \A key \in Dependents["ShowDsiSdCardOptions"] :
                           key \notin hidden <=> flags.ShowDsiSdCardOptions
                    /\ \A i \in 1 .. MAX_SCREEN_LAYOUTS :
                         SCREEN_LAYOUTS[i] \notin hidden
                           <=> i \in 1 .. flags.NumberOfShownScreenLayouts
  BY Zenon DEF ShownIsRelevant
<1>1. DOMAIN Dependents = FlagsBuilt /\ \A f \in FlagsBuilt : Dependents[f] = DependentsOf(f)
  BY DEF Dependents
<1>2. /\ Shows(visibility, hidden)
      /\ \A f \in FlagsBuilt : visibility[f] = flags[f]
      /\ visibility.NumberOfShownScreenLayouts = flags.NumberOfShownScreenLayouts
  BY FlagsOfTexts DEF MenuFollows
<1> HIDE DEF flags
<1>3. \A f \in FlagsBuilt : \A key \in Dependents[f] : key \notin hidden <=> flags[f]
  BY <1>1, <1>2 DEF Shows
<1>4. \A i \in 1 .. MAX_SCREEN_LAYOUTS :
        SCREEN_LAYOUTS[i] \notin hidden <=> i \in 1 .. flags.NumberOfShownScreenLayouts
  BY <1>2 DEF Shows
<1> QED
  BY <1>1, <1>3, <1>4, FlagsOfDsi

\* As long as no file was moved the menu shows an option exactly when it
\* matters, in every build, whatever the player changed in which order and
\* however often the menu asked (CoreOptionVisibility::Update).
THEOREM MenuStaysRelevant == Spec => []ShownIsRelevant
<1>1. ChoicesFollow /\ MenuFollows /\ [Next]_vars => (ChoicesFollow /\ MenuFollows)'
  BY ChoicesStep, MenuStep
<1> QED
  BY <1>1, ConfigInit, MenuInit, FollowsShown, PTL DEF Spec

============================================================================
