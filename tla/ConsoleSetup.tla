---------------------------- MODULE ConsoleSetup ----------------------------
(***************************************************************************)
(* How a console is put together from the files of the system directory    *)
(* (config/console.cpp) and what a session leaves in these files           *)
(* (core/core.cpp, core/tasks.cpp): BIOS and firmware images, the Wi-Fi    *)
(* settings of the built-in firmware, the DSi's NAND images and a DSiWare  *)
(* game installed on one for the time of a session.                        *)
(*                                                                         *)
(* One action is one call of the frontend, a frame in which the game saves *)
(* or the firmware's flush timer runs out, or the end of the process.  A   *)
(* number stands for Wi-Fi settings or for the state of a DSiWare save; a  *)
(* game writes one that was not there before.  The three kinds of DSiWare  *)
(* save data go the same way and are one here.  The system and the save    *)
(* directory are there.  Left out: names, colours, dates and the other     *)
(* settings that CustomizeFirmware and CustomizeNAND change, SD cards, the *)
(* JIT.  The disk is not full, so what is written is written.              *)
(***************************************************************************)
EXTENDS Integers, Sequences, FiniteSets

CONSTANTS
  Contents,   \* what the player may load
  Settings,   \* the parts of the configuration CreateConsole looks at
  Disks,      \* what the files may be at first
  MaxWrites,  \* bound: settings and saves written by games
  None        \* nothing there

Bios == {"Arm7", "Arm9", "Arm7i", "Arm9i"}
Place == {"subdir", "system"}        \* system/melonDS DS and system
Default == 0                         \* Wi-Fi settings a constructor sets

ContentType ==
  [rom : {"none", "homebrew", "decrypted", "encrypted", "invalid", "dsiware"},
   gba : {"none", "game", "invalid"},
   gbaSave : {"none", "plain", "archived", "compressed", "unreadable"}]

ASSUME SetupAssumption ==
  /\ Contents \subseteq ContentType
  /\ \A s \in Settings :
       /\ s.consoleType \in {"DS", "DSi"} /\ s.sysfileMode \in {"Native", "BuiltIn"}
       /\ s.bootMode \in {"Native", "Direct"}
  /\ MaxWrites \in Nat

\* The files: BIOS images by place, firmware and NAND images by path, Wi-Fi
\* settings, title metadata and whether it can be fetched, exported save data.
WifiFile == [short : BOOLEAN, wifi : Nat]
FirmwareImage == [type : {"DS", "DSi"}, wifi : Nat]
NandImage ==
  [title : {"absent", "own", "temporary"}, save : Nat, mounts : BOOLEAN, regionFits : BOOLEAN]
IsDisk(d) ==
  /\ d \in [bios : [Place -> SUBSET Bios], firmware : {d.firmware}, nand : {d.nand},
            wfc : WifiFile \cup {None}, tmd : {"none", "bad", "good"}, online : BOOLEAN, save : Nat]
  /\ d.firmware \in [DOMAIN d.firmware -> FirmwareImage]
  /\ d.nand \in [DOMAIN d.nand -> NandImage]
  /\ IsFiniteSet(DOMAIN d.nand)

\* No path is the name generated firmware goes by.
ASSUME DisksAssumption ==
  \A d \in Disks : IsDisk(d) /\ "generated" \notin DOMAIN d.firmware

VARIABLES
  phase,    \* how far the frontend is
  content,  \* _ndsInfo, _gbaInfo, _gbaSaveInfo
  console,  \* Console
  disk,     \* the files
  writes,   \* number of the last write of a game
  played    \* history: the newest settings and save, and where the game was

vars == <<phase, content, console, disk, writes, played>>

\* The Wi-Fi settings built-in firmware starts with.
StoredWifi(d) == IF d.wfc = None \/ d.wfc.short THEN Default ELSE d.wfc.wifi

Init ==
  /\ phase = "out" /\ content = None /\ console = None
  /\ disk \in Disks
  /\ writes = 2
  /\ LET owners == {n \in DOMAIN disk.nand : disk.nand[n].title # "absent"}
     IN played = [wfc |-> StoredWifi(disk), firmware |-> disk.firmware,
                  nands |-> owners, exported |-> TRUE,
                  save |-> IF owners = {} THEN disk.save
                           ELSE disk.nand[CHOOSE n \in owners : TRUE].save]

-----------------------------------------------------------------------------
(* Files *)

\* The error of the first check that fails, in the code's order.
FirstError(checks) ==
  LET failing == {i \in DOMAIN checks : checks[i][1]}
  IN IF failing = {} THEN None
     ELSE checks[CHOOSE first \in failing : \A i \in failing : first <= i][2]

\* A BIOS image that is missing or of another size in system/melonDS DS is
\* looked for in system.
LoadBios(d, bios) == \E place \in Place : bios \in d.bios[place]

LoadFirmware(d, path) ==
  IF path \in DOMAIN d.firmware
  THEN [image |-> path, type |-> d.firmware[path].type, wifi |-> d.firmware[path].wifi]
  ELSE None
GeneratedFirmware == [image |-> "generated", type |-> "DS", wifi |-> Default]
IsGenerated(firmware) == firmware.image = "generated"

\* melonDS: an image of a DS that boots its menu.
IsBootable(firmware) == ~IsGenerated(firmware) /\ firmware.type = "DS"

\* The Wi-Fi settings of wfcsettings.bin, or the defaults if it is too short,
\* whatever firmware it is.
CustomizeFirmware(firmware, d) ==
  CASE d.wfc = None -> firmware
    [] OTHER -> [firmware EXCEPT !.wifi = StoredWifi(d)]

-----------------------------------------------------------------------------
(* GetNdsArgs *)

\* In DS mode, without a firmware image the built-in one is used.
NdsFirmware(s, d) ==
  LET loaded == IF s.sysfileMode = "Native" THEN LoadFirmware(d, s.firmware) ELSE None
  IN IF loaded = None THEN GeneratedFirmware ELSE loaded

EitherBios(s, d) ==  \* mutant of NativeBios: one image is enough
  ~IsGenerated(NdsFirmware(s, d)) /\ (LoadBios(d, "Arm7") \/ LoadBios(d, "Arm9"))
NativeBios(s, d) ==
  ~IsGenerated(NdsFirmware(s, d)) /\ LoadBios(d, "Arm7") /\ LoadBios(d, "Arm9")

LoadNdsCart(c) == IF c.rom = "invalid" THEN "invalid_rom" ELSE None

\* Save data in an archive or compressed is ignored.
LoadGbaSram(c) == c.gbaSave = "plain"
LoadGbaCart(c) ==
  FirstError(<< <<c.gbaSave = "unreadable", "runtime_error">>,
                <<c.gba = "invalid", "invalid_rom">> >>)

NdsError(s, c, d) ==
  FirstError(<<
    <<c.rom = "none" /\ ~IsBootable(NdsFirmware(s, d)), "nds_firmware_not_bootable">>,
    <<c.rom = "none" /\ ~NativeBios(s, d), "nds_sysfiles_incomplete">>,
    <<LoadNdsCart(c) # None, LoadNdsCart(c)>>,
    <<c.rom = "encrypted" /\ ~NativeBios(s, d), "encrypted_rom">>,
    <<c.gba # "none" /\ LoadGbaCart(c) # None, LoadGbaCart(c)>> >>)

\* A GBA game takes the slot from the expansion pak of the settings.
Slot2(s, c) ==
  IF c.gba = "none" THEN s.slot2
  ELSE IF LoadGbaSram(c) THEN "game with save" ELSE "game"

GetNdsArgs(s, c, d) ==
  [type |-> "DS", bios |-> IF NativeBios(s, d) THEN "native" ELSE "builtin",
   firmware |-> CustomizeFirmware(NdsFirmware(s, d), d),
   cart |-> c.rom, slot2 |-> Slot2(s, c), nand |-> None]

-----------------------------------------------------------------------------
(* GetDSiArgs *)

\* Title metadata is kept in the system directory, or fetched, checked and
\* kept there.
HasTmd(d) == d.tmd = "good" \/ d.online
Installs(s, c, d) == c.rom = "dsiware" /\ d.nand[s.nand].title = "absent"

DsiError(s, c, d) ==
  LET firmware == LoadFirmware(d, s.dsiFirmware)
  IN FirstError(<<
       <<s.nand = "/notfound", "dsi_no_nand_found">>,
       <<s.dsiFirmware = "/notfound", "dsi_no_firmware_found">>,
       <<\E bios \in Bios : ~LoadBios(d, bios), "dsi_missing_bios">>,
       <<firmware = None, "firmware_missing">>,
       <<firmware # None /\ firmware.type # "DSi", "wrong_firmware_type">>,
       <<s.nand \notin DOMAIN d.nand, "dsi_nand_missing">> >>)

DsiNandError(s, c, d) ==
  LET nand == d.nand[s.nand]
  IN FirstError(<<
       <<LoadNdsCart(c) # None, LoadNdsCart(c)>>,
       <<~nand.mounts, "dsi_nand_corrupted">>,
       <<c.rom = "dsiware" /\ ~nand.regionFits, "dsi_region_mismatch">>,
       <<Installs(s, c, d) /\ ~HasTmd(d), "missing_metadata">> >>)

\* The game is put on the NAND with the save data of the save directory,
\* unless it is there already; both stay until the session ends.
InstallAnew(nand, d) ==  \* mutant of Installed: does not look
  [nand EXCEPT !.title = "temporary", !.save = d.save]
Installed(nand, d) ==
  IF nand.title # "absent" THEN nand
  ELSE [nand EXCEPT !.title = "temporary", !.save = d.save]

InstallDsiware(s, d) ==
  [d EXCEPT !.nand[s.nand] = Installed(@, d),
            !.tmd = IF d.nand[s.nand].title = "absent" THEN "good" ELSE @]

GetDSiArgs(s, c, d) ==
  [type |-> "DSi", bios |-> "native",
   firmware |-> CustomizeFirmware(LoadFirmware(d, s.dsiFirmware), d),
   cart |-> IF c.rom = "dsiware" THEN "none" ELSE c.rom,
   slot2 |-> "none", nand |-> s.nand]

-----------------------------------------------------------------------------
(* CreateConsole gives a console, what became of the files, or an error.   *)
TypeFor(s, c) == IF c.rom = "dsiware" THEN "DSi" ELSE s.consoleType

CreateError(s, c, d) ==
  IF TypeFor(s, c) = "DS" THEN NdsError(s, c, d)
  ELSE IF DsiError(s, c, d) # None THEN DsiError(s, c, d) ELSE DsiNandError(s, c, d)

CreateConsole(s, c, d) ==
  IF TypeFor(s, c) = "DS" THEN GetNdsArgs(s, c, d) ELSE GetDSiArgs(s, c, d)

DiskAfterCreate(s, c, d) == IF c.rom = "dsiware" THEN InstallDsiware(s, d) ELSE d

\* melonDS: a DS without its own BIOS or bootable firmware cannot run its menu.
NeedsDirectBoot(made) ==
  made.type = "DS" /\ (made.bios = "builtin" \/ ~IsBootable(made.firmware))

StartConsole(made, s, c) ==
  CASE c.rom = "none" -> "menu"
    [] c.rom = "dsiware" -> IF s.bootMode = "Direct" THEN "title" ELSE "menu"
    [] OTHER -> IF s.bootMode = "Direct" \/ NeedsDirectBoot(made) THEN "cart" ELSE "menu"

Started(s, c, d) ==
  LET made == CreateConsole(s, c, d)
  IN [type |-> made.type, bios |-> made.bios, firmware |-> made.firmware,
      cart |-> made.cart, slot2 |-> made.slot2, nand |-> made.nand,
      boot |-> StartConsole(made, s, c)]

-----------------------------------------------------------------------------
(* The end of a console *)

\* A native image is written back whole, of the built-in firmware only the
\* Wi-Fi settings are.
FlushTogether(d, made) ==  \* mutant: native settings go to both files
  LET wfc == [short |-> FALSE, wifi |-> made.firmware.wifi]
  IN IF IsGenerated(made.firmware) THEN [d EXCEPT !.wfc = wfc]
     ELSE [d EXCEPT !.wfc = wfc, !.firmware[made.firmware.image].wifi = made.firmware.wifi]
FlushFirmware(d, made) ==
  IF IsGenerated(made.firmware)
  THEN [d EXCEPT !.wfc = [short |-> FALSE, wifi |-> made.firmware.wifi]]
  ELSE [d EXCEPT !.firmware[made.firmware.image].wifi = made.firmware.wifi]

\* ExportTitleData may fail; the title goes all the same, whoever installed it.
UninstallDsiware(d, made, exported) ==
  [d EXCEPT !.save = IF exported THEN d.nand[made.nand].save ELSE @,
            !.nand[made.nand].title = "absent"]

-----------------------------------------------------------------------------
(* Calls of the frontend *)

ConfigErrors ==  \* subclasses of config_exception
  {"nds_firmware_not_bootable", "nds_sysfiles_incomplete", "encrypted_rom",
   "dsi_no_nand_found", "dsi_no_firmware_found", "dsi_missing_bios", "firmware_missing",
   "wrong_firmware_type", "dsi_nand_missing", "dsi_nand_corrupted", "dsi_region_mismatch"}

ErrorType == ConfigErrors \cup {"invalid_rom", "runtime_error", "missing_metadata"}

ASSUME NoneAssumption == None \notin WifiFile /\ None \notin ErrorType

\* History: the NANDs the game was on.
PlayedOn(made) ==
  [played EXCEPT !.nands = IF content'.rom = "dsiware" THEN @ \cup {made.nand} ELSE @]

Starts(s, d) ==
  /\ CreateError(s, content', d) = None
  /\ phase' = "running"
  /\ console' = Started(s, content', d)
  /\ disk' = DiskAfterCreate(s, content', d)
  /\ played' = PlayedOn(console')

LoadGame ==
  /\ phase = "out"
  /\ \E s \in Settings :
       /\ content' \in Contents
       /\ \/ Starts(s, disk)
          \/ /\ CreateError(s, content', disk) # None
             /\ phase' = IF CreateError(s, content', disk) \in ConfigErrors
                         THEN "screen" ELSE "failed"
             /\ UNCHANGED <<console, disk, played>>
  /\ UNCHANGED writes

\* The old console is gone when the new one cannot be made.
Reset ==
  /\ phase = "running"
  /\ LET flushed == FlushFirmware(disk, console)
     IN \E s \in Settings :
          /\ UNCHANGED content
          /\ \/ Starts(s, flushed)
             \/ /\ CreateError(s, content, flushed) # None
                /\ phase' = "shutdown" /\ console' = None /\ disk' = flushed
                /\ UNCHANGED played
  /\ UNCHANGED writes

UnloadGame ==
  /\ phase = "running"
  /\ \E exported \in BOOLEAN :
       LET flushed == FlushFirmware(disk, console)
       IN IF content.rom = "dsiware"
          THEN /\ disk' = UninstallDsiware(flushed, console, exported)
               /\ played' = [played EXCEPT !.exported = @ /\ exported]
          ELSE exported /\ disk' = flushed /\ UNCHANGED played
  /\ phase' = "out" /\ console' = None /\ content' = None
  /\ UNCHANGED writes

\* Without a console there is nothing to flush; of a DSiWare game the missing
\* console is used.
UnloadNothing ==
  /\ phase \in {"screen", "shutdown", "failed"}
  /\ phase' = IF content.rom = "dsiware" /\ phase # "failed" THEN "faulted" ELSE "out"
  /\ content' = None
  /\ UNCHANGED <<console, disk, writes, played>>

-----------------------------------------------------------------------------
(* What happens in frames *)

\* A DSiWare game saves on the NAND.
GameSaves ==
  /\ phase = "running" /\ content.rom = "dsiware" /\ writes < MaxWrites
  /\ writes' = writes + 1
  /\ disk' = [disk EXCEPT !.nand[console.nand].save = writes']
  /\ played' = [played EXCEPT !.save = writes']
  /\ UNCHANGED <<phase, content, console>>

\* A game or the menu changes the Wi-Fi settings of the console's firmware.
WriteFirmware ==
  /\ phase = "running" /\ writes < MaxWrites
  /\ writes' = writes + 1
  /\ console' = [console EXCEPT !.firmware.wifi = writes']
  /\ played' = IF IsGenerated(console.firmware) THEN [played EXCEPT !.wfc = writes']
               ELSE [played EXCEPT !.firmware[console.firmware.image].wifi = writes']
  /\ UNCHANGED <<phase, content, disk>>

FlushFirmwareTask ==
  /\ phase = "running"
  /\ disk' = FlushFirmware(disk, console)
  /\ UNCHANGED <<phase, content, console, writes, played>>

\* The process ends with what is on the disk, and a new one begins.
Crash ==
  /\ phase \in {"running", "faulted"}
  /\ phase' = "out" /\ console' = None /\ content' = None
  /\ played' = [played EXCEPT !.wfc = StoredWifi(disk), !.firmware = disk.firmware]
  /\ UNCHANGED <<disk, writes>>

Next ==
  \/ LoadGame \/ Reset \/ UnloadGame \/ UnloadNothing
  \/ GameSaves \/ WriteFirmware \/ FlushFirmwareTask \/ Crash

Spec == Init /\ [][Next]_vars

-----------------------------------------------------------------------------
(* Properties *)

\* Whatever is configured, loaded and missing, a console that starts has what
\* it needs: the menu its own BIOS and bootable firmware, built-in BIOS a
\* direct boot, an encrypted game the BIOS that decrypts it, a DSi only native
\* files of its own; half a set of BIOS images is no set (console.cpp:163-240,
\* 316-375, also after the fallbacks and resets).
SystemFilesFit ==
  console # None =>
    /\ content.rom = "none" /\ console.type = "DS" =>
         console.bios = "native" /\ IsBootable(console.firmware)
    /\ console.bios = "builtin" => console.type = "DS" /\ console.boot = "cart"
    /\ console.cart = "encrypted" /\ console.type = "DS" => console.bios = "native"
    /\ console.bios = "native" =>
         /\ ~IsGenerated(console.firmware)
         /\ \A bios \in IF console.type = "DSi" THEN Bios ELSE {"Arm7", "Arm9"} :
              LoadBios(disk, bios)
    /\ console.type = "DSi" =>
         console.firmware.type = "DSi" /\ disk.nand[console.nand].mounts
    /\ content.rom = "dsiware" =>
         /\ console.type = "DSi" /\ console.cart = "none"
         /\ disk.nand[console.nand].regionFits /\ disk.nand[console.nand].title # "absent"

\* A DSiWare game goes on from its last save, through resets, crashes, failed
\* resets and sessions that installed and removed it anew, as long as it stays
\* on one NAND image and its save data could be exported (console.cpp:583-625,
\* core.cpp:609-666).
DsiwareSeesNewest ==
  (/\ phase = "running" /\ content.rom = "dsiware"
   /\ Cardinality(played.nands) = 1 /\ played.exported)
    => disk.nand[console.nand].save = played.save

\* Built-in firmware has the Wi-Fi settings last made on it, from session to
\* session and over sessions with native firmware in between: the player need
\* not "reset them in each session" (console.cpp:958-966, tasks.cpp:139-208).
GeneratedWifiKept ==
  console # None /\ IsGenerated(console.firmware) => console.firmware.wifi = played.wfc

\* "Native firmware is not overwritten by contents of wfcsettings.bin"
\* (test/cmake/Firmware.cmake).
NativeWifiKept ==
  phase = "out" => \A image \in DOMAIN disk.firmware :
                     disk.firmware[image].wifi = played.firmware[image].wifi
=============================================================================
