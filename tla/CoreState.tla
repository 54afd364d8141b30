----------------------------- MODULE CoreState -----------------------------
(***************************************************************************)
(* The life of the libretro core, src/libretro/core/core.cpp with the      *)
(* entry points of libretro.cpp, the tasks of tasks.cpp and the save data  *)
(* of sram.cpp: what a frontend may call in which order, and what of the   *)
(* emulated console's memory reaches the disk.                             *)
(*                                                                         *)
(* One action is one call of the frontend, which calls from one thread.    *)
(* Save memories have SramLength bytes; a byte is Blank, Old (what a file  *)
(* held at first) or New (written by the game).  A firmware is the console *)
(* it is for and which of two versions of its settings it holds.  Left     *)
(* out: rendering, sound, input, cheats and savestates, and writes to the  *)
(* disk that fail.  Firmware is native: what FlushFirmware writes is the   *)
(* image the task captured the path of.                                    *)
(*                                                                         *)
(* melonDS is not in the repository.  It reports the game's writes through *)
(* Platform::Write*; whether SetNDSSave and SetGBASave report as well is   *)
(* left open.  Starting a console does not fail, so an initialisation that *)
(* waits for the OpenGL context only delays the first frame.               *)
(***************************************************************************)
EXTENDS TaskQueue, SaveManager

CONSTANTS
  SramLength,  \* bytes of a cartridge's save memory
  FlushDelay,  \* frames between a write and the flush
  Games,       \* what may be loaded: subset of {"none", "game", "dsiware"}
  HostTasks,   \* optional tasks this frontend supports: {"power", "osd"}
  MaxIdent,    \* bound: tasks pushed in the life of the process
  None         \* a missing console, timer or fault

ASSUME CoreAssumption ==
  /\ SramLength \in Nat \ {0} /\ FlushDelay \in Nat /\ MaxIdent \in Nat
  /\ Games \subseteq {"none", "game", "dsiware"}
  /\ HostTasks \subseteq {"power", "osd"}
  /\ None \notin Nat

ConsoleType == {"DS", "DSi"}
Old == "old"
New == "new"
Byte == {Blank, Old, New}
Cells == 0..SramLength - 1
Sram == [Cells -> Byte]
NoSram == <<>>
Firmware == [type : ConsoleType, version : 0..1]

VARIABLES
  phase,      \* how far the frontend is
  core,       \* the CoreState object
  tasks,      \* libretro-common's queue
  nextIdent,  \* identifier of the next task
  disk,       \* save files, firmware files, the DSiWare title on the NAND
  fault,      \* function that used what is not there
  played      \* history: what the game wrote

vars == <<phase, core, tasks, nextIdent, disk, fault, played>>

Phase == {"out", "inited", "loaded", "primed", "running", "shutdown", "unloaded", "failed",
          "faulted"}

(* The process is gone after a fault.                                      *)
PhaseAfter(p, f) == IF f = None THEN p ELSE "faulted"

(* A default-constructed CoreState.                                        *)
NewCore ==
  [console |-> None, nds |-> "none", gba |-> FALSE,
   messageScreen |-> FALSE, ndsSramInstalled |-> FALSE,
   ndsManager |-> NoManager, gbaManager |-> NoManager,
   gbaTimer |-> None, firmwareTimer |-> None, flushTaskId |-> 0]

Init ==
  /\ phase = "out" /\ core = NewCore /\ tasks = <<>> /\ nextIdent = 0
  /\ disk \in [nds : {[i \in Cells |-> Old]}, gba : {[i \in Cells |-> Old]},
               firmware : {[t \in ConsoleType |-> [type |-> t, version |-> 0]]},
               title : {"absent", "own"}]
  /\ fault = None
  /\ played = [nds |-> disk.nds, gba |-> {}, firmware |-> disk.firmware]

-----------------------------------------------------------------------------
(* Consoles.  CreateConsole reads the firmware of its type and, in DS      *)
(* mode, the GBA save file; DS cartridges come with empty save memory.     *)
(* DSiWare is put on the NAND unless it is there, and no cartridge then.   *)
CreateConsole(c, d, type, rumblePak) ==
  [type |-> type, firmware |-> d.firmware[type],
   nds |-> IF c.nds = "game" THEN [i \in Cells |-> Blank] ELSE NoSram,
   gba |-> IF type = "DS" /\ c.gba THEN d.gba ELSE NoSram,
   rumblePak |-> type = "DS" /\ ~c.gba /\ rumblePak]

InstallDsiware(c, d) ==
  IF c.nds = "dsiware" /\ d.title = "absent" THEN [d EXCEPT !.title = "temporary"] ELSE d

TypesFor(nds) == IF nds = "dsiware" THEN {"DSi"} ELSE ConsoleType

(* WriteNdsSave, WriteGbaSave, WriteFirmware: what melonDS reports.        *)
WriteNdsSave(c, writeoffset, writelen) ==
  IF c.ndsManager.length = 0 THEN c
  ELSE [c EXCEPT !.ndsManager = Flush(@, c.console.nds, SramLength, writeoffset, writelen)]

WriteGbaSave(c, writeoffset, writelen) ==
  IF c.gbaManager.length = 0 THEN c
  ELSE [c EXCEPT !.gbaManager = Flush(@, c.console.gba, SramLength, writeoffset, writelen),
                 !.gbaTimer = FlushDelay]

WriteGbaSaveFault(c) == IF c.gbaManager.length = 0 THEN "WriteGbaSave" ELSE None

WriteFirmware(c) == [c EXCEPT !.firmwareTimer = FlushDelay]

-----------------------------------------------------------------------------
(* Tasks.  s is [core, disk, fault].                                       *)
FlushGbaSram(s) ==
  IF s.core.gbaManager.length = 0 THEN s
  ELSE [s EXCEPT !.disk.gba = s.core.gbaManager.sram]

FlushFirmware(s, path) ==
  IF s.core.console = None THEN [s EXCEPT !.fault = "FlushFirmware"]
  ELSE [s EXCEPT !.disk.firmware[path] = s.core.console.firmware]

(* The timers count down once per check and flush after 0.                 *)
ExpiredLate(timer) == timer # None /\ timer < 0  \* mutant of Expired
Expired(timer) == timer # None /\ timer <= 0
TickForever(timer) ==  \* mutant of Tick: the timer is not cleared
  IF timer = None \/ timer <= 0 THEN timer ELSE timer - 1
Tick(timer) == IF timer = None \/ Expired(timer) THEN None ELSE timer - 1

FlushGbaSramTask(s) ==
  LET flushed == IF Expired(s.core.gbaTimer) THEN FlushGbaSram(s) ELSE s
  IN [flushed EXCEPT !.core.gbaTimer = Tick(@)]

FlushFirmwareTask(s, path) ==
  LET flushed == IF Expired(s.core.firmwareTimer) THEN FlushFirmware(s, path) ELSE s
  IN [flushed EXCEPT !.core.firmwareTimer = Tick(@)]

OnScreenDisplayTask(s) ==
  IF s.core.console = None THEN [s EXCEPT !.fault = "OnScreenDisplayTask"] ELSE s

TaskHandler(s, task) ==
  CASE task.title = "gba" -> FlushGbaSramTask(s)
    [] task.title = "firmware" -> FlushFirmwareTask(s, task.path)
    [] task.title = "osd" -> OnScreenDisplayTask(s)
    [] OTHER -> s  \* "power", "rumble"

CleanupWithoutGba(s, task) ==  \* mutant of TaskCleanup
  IF task.title # "firmware" THEN s
  ELSE [FlushFirmware(s, task.path) EXCEPT !.core.firmwareTimer = None]

TaskCleanup(s, task) ==
  CASE task.title = "gba" -> [FlushGbaSram(s) EXCEPT !.core.gbaTimer = None]
    [] task.title = "firmware" ->
         [FlushFirmware(s, task.path) EXCEPT !.core.firmwareTimer = None]
    [] OTHER -> s

TaskCall(s, task) == IF Ended(task) THEN TaskCleanup(s, task) ELSE TaskHandler(s, task)

CheckTasks(s, queue) ==
  LET calls == Running(queue) \o CleanedUp(queue)
      after[i \in 0..Len(calls)] == IF i = 0 THEN s ELSE TaskCall(after[i - 1], calls[i])
  IN after[Len(calls)]

(* The tasks LoadGame pushes, in its order.                                *)
If(condition, title) == IF condition THEN <<title>> ELSE <<>>

TasksFor(c) ==
  If(c.gbaManager.length > 0, "gba") \o If(c.console.rumblePak, "rumble")
    \o If("power" \in HostTasks, "power") \o If("osd" \in HostTasks, "osd") \o <<"firmware">>

TasksFrom(ident, titles, path) ==
  [i \in DOMAIN titles |-> NewTask(ident + i - 1, titles[i], path)]

-----------------------------------------------------------------------------
(* retro_init constructs the CoreState and starts the queue.               *)
RetroInit ==
  /\ phase = "out" /\ nextIdent < MaxIdent
  /\ phase' = "inited" /\ core' = NewCore
  /\ UNCHANGED <<tasks, nextIdent, disk, fault, played>>

(* LoadGame fails: bad content, or an error no screen is shown for.  The   *)
(* frontend then only deinitialises the core.                              *)
LoadFails(nds, gba) ==
  /\ phase' = "failed"
  /\ core' = [core EXCEPT !.nds = nds, !.gba = gba]
  /\ UNCHANGED <<tasks, nextIdent, disk, fault, played>>

(* CreateConsole throws a config_exception: InitErrorScreen shows what to  *)
(* do, and the load succeeds.                                              *)
LoadErrorScreen(nds, gba) ==
  /\ phase' = "loaded"
  /\ tasks' = CancelAll(tasks)
  /\ core' = [core EXCEPT !.nds = nds, !.gba = gba, !.messageScreen = TRUE]
  /\ UNCHANGED <<nextIdent, disk, fault, played>>

LoadConsole(nds, gba, type, rumblePak) ==
  LET c == [core EXCEPT !.nds = nds, !.gba = gba]
      console == CreateConsole(c, disk, type, rumblePak)
      loaded == [c EXCEPT
        !.console = console,
        !.ndsManager = IF console.nds # NoSram THEN NewManager(SramLength) ELSE NoManager,
        !.gbaManager = IF console.gba # NoSram THEN NewManager(SramLength) ELSE NoManager]
      titles == TasksFor(loaded)
      last == nextIdent + Len(titles) - 1
  IN /\ phase' = "loaded"
     /\ tasks' = tasks \o TasksFrom(nextIdent, titles, type)
     /\ nextIdent' = last + 1
     /\ core' = [loaded EXCEPT !.flushTaskId = last]
     /\ disk' = InstallDsiware(c, disk)
     /\ played' = [played EXCEPT !.gba = {}]
     /\ UNCHANGED fault

RetroLoadGame ==
  /\ phase = "inited"
  /\ \E nds \in Games, gba \in BOOLEAN :
       /\ gba => nds # "none"
       /\ \/ LoadFails(nds, gba)
          \/ LoadErrorScreen(nds, gba)
          \/ \E type \in TypesFor(nds), rumblePak \in BOOLEAN :
               LoadConsole(nds, gba, type, rumblePak)

(* The frontend reads its save file into the memory of retro_get_memory,   *)
(* between the load and the first frame.                                   *)
FrontendReadsSave ==
  /\ phase = "loaded"
  /\ phase' = "primed"
  /\ core' = IF core.messageScreen \/ core.ndsManager.length = 0 THEN core
             ELSE [core EXCEPT !.ndsManager.sram = disk.nds]
  /\ UNCHANGED <<tasks, nextIdent, disk, fault, played>>

(* ... and writes it from there, when it likes and before it unloads.      *)
WithFrontendSave(d) ==
  IF core.messageScreen \/ core.ndsManager.length = 0 THEN d
  ELSE [d EXCEPT !.nds = core.ndsManager.sram]

FrontendSaves ==
  /\ phase = "running"
  /\ disk' = WithFrontendSave(disk)
  /\ UNCHANGED <<phase, core, tasks, nextIdent, fault, played>>

-----------------------------------------------------------------------------
(* retro_run.  The first frame installs the save memory; frames run only   *)
(* while the renderer is ready, and then the tasks.                        *)
InstallNdsSram(c) ==
  LET installed == [c EXCEPT !.ndsSramInstalled = TRUE]
  IN IF c.ndsSramInstalled \/ c.ndsManager.length = 0 THEN installed
     ELSE [installed EXCEPT !.console.nds = c.ndsManager.sram]

(* What the game does to its memories in a frame: at most one write.       *)
GameWrite == [memory : {"nds", "gba"}, offset : Cells, length : 1..SramLength]
             \cup [memory : {"firmware", "nothing"}]

AfterWrite(c, w) ==
  LET Written(sram) == [i \in Cells |->
        IF i \in Touched(SramLength, w.offset, w.length) THEN New ELSE sram[i]]
  IN CASE w.memory = "nds" ->
            WriteNdsSave([c EXCEPT !.console.nds = Written(@)], w.offset, w.length)
       [] w.memory = "gba" ->
            WriteGbaSave([c EXCEPT !.console.gba = Written(@)], w.offset, w.length)
       [] w.memory = "firmware" ->
            WriteFirmware([c EXCEPT !.console.firmware.version = 1 - @])
       [] w.memory = "nothing" -> c

PlayedAfter(c, w) ==
  CASE w.memory = "nds" -> [played EXCEPT !.nds = c.console.nds]
    [] w.memory = "gba" -> [played EXCEPT !.gba = @ \cup Touched(SramLength, w.offset, w.length)]
    [] w.memory = "firmware" -> [played EXCEPT !.firmware[c.console.type] = c.console.firmware]
    [] w.memory = "nothing" -> played

CanWrite(w) ==
  CASE w.memory = "nds" -> core.console.nds # NoSram
    [] w.memory = "gba" -> core.console.gba # NoSram
    [] OTHER -> TRUE

Frame(w) ==
  /\ phase \in {"primed", "running"} /\ ~core.messageScreen /\ CanWrite(w)
  /\ UNCHANGED nextIdent
  /\ LET c == AfterWrite(InstallNdsSram(core), w)
         f == IF w.memory = "gba" THEN WriteGbaSaveFault(core) ELSE None
         s == CheckTasks([core |-> c, disk |-> disk, fault |-> f], tasks)
     IN /\ phase' = PhaseAfter("running", s.fault)
        /\ core' = s.core /\ disk' = s.disk /\ fault' = s.fault
        /\ tasks' = Running(tasks)
        /\ played' = PlayedAfter(c, w)

NotReady ==
  /\ phase \in {"primed", "running"} /\ ~core.messageScreen
  /\ phase' = "running"
  /\ core' = InstallNdsSram(core)
  /\ UNCHANGED <<tasks, nextIdent, disk, fault, played>>

ErrorFrame ==
  /\ phase = "primed" /\ core.messageScreen
  /\ phase' = "running"
  /\ UNCHANGED <<core, tasks, nextIdent, disk, fault, played>>

RetroRun == (\E w \in GameWrite : Frame(w)) \/ NotReady \/ ErrorFrame

-----------------------------------------------------------------------------
(* retro_reset: flush what is due, replace the console and give the new    *)
(* one the save memories of the old one.                                   *)
NoCancel(queue, c) == queue  \* mutant of CancelFlush
CancelFlush(queue, c) == CancelFound(queue, c.flushTaskId)

Flushed ==
  CheckTasks([core |-> [core EXCEPT !.gbaTimer = 0, !.firmwareTimer = 0],
              disk |-> disk, fault |-> fault],
             CancelFlush(tasks, core))

TasksLeft == Running(CancelFlush(tasks, core))

KeepGbaOnly(old, console) ==  \* mutant of KeepSaves
  [console EXCEPT !.gba = IF old.gba = NoSram \/ @ = NoSram THEN @ ELSE old.gba]

KeepSaves(old, console) ==
  [console EXCEPT !.nds = IF old.nds = NoSram THEN @ ELSE old.nds,
                  !.gba = IF old.gba = NoSram \/ @ = NoSram THEN @ ELSE old.gba]

ResetConsole(s, type, rumblePak, reports) ==
  LET old == s.core.console
      console == KeepSaves(old, CreateConsole(s.core, s.disk, type, rumblePak))
      c == [s.core EXCEPT !.console = console, !.ndsSramInstalled = FALSE,
                          !.flushTaskId = nextIdent]
      setsGba == reports /\ old.gba # NoSram /\ console.gba # NoSram
      c1 == IF reports /\ old.nds # NoSram THEN WriteNdsSave(c, 0, SramLength) ELSE c
      c2 == IF setsGba THEN WriteGbaSave(c1, 0, SramLength) ELSE c1
      firmwareTask == NewTask(nextIdent, "firmware", type)
      others == FinishFound(Push(TasksLeft, firmwareTask), "rumble")
      rumbleTask == NewTask(nextIdent + 1, "rumble", type)
  IN /\ core' = c2
     /\ fault' = IF s.fault = None /\ setsGba THEN WriteGbaSaveFault(c1) ELSE s.fault
     /\ tasks' = IF console.rumblePak THEN Push(others, rumbleTask) ELSE others
     /\ nextIdent' = nextIdent + IF console.rumblePak THEN 2 ELSE 1
     /\ disk' = InstallDsiware(s.core, s.disk)
     /\ phase' = PhaseAfter("running", fault')
     /\ UNCHANGED played

(* CreateConsole throws: retro_reset asks the frontend to shut down.       *)
ResetFails(s) ==
  /\ phase' = PhaseAfter("shutdown", s.fault)
  /\ core' = [s.core EXCEPT !.console = None]
  /\ tasks' = TasksLeft
  /\ disk' = s.disk /\ fault' = s.fault
  /\ UNCHANGED <<nextIdent, played>>

RetroReset ==
  /\ phase = "running" /\ ~core.messageScreen /\ nextIdent < MaxIdent
  /\ \/ ResetFails(Flushed)
     \/ \E type \in TypesFor(core.nds), rumblePak, reports \in BOOLEAN :
          ResetConsole(Flushed, type, rumblePak, reports)

-----------------------------------------------------------------------------
(* retro_unload_game cancels every task, which flushes, then UnloadGame.   *)
UnloadGame(s) ==
  IF s.core.nds # "dsiware" THEN [s EXCEPT !.core.console = None]
  ELSE IF s.core.console = None THEN [s EXCEPT !.fault = "UnloadGame"]
  ELSE [s EXCEPT !.core.console = None, !.disk.title = "absent"]

UnloadBeforeTasks ==  \* mutant of RetroUnloadGame
  /\ phase \in {"primed", "running", "shutdown"}
  /\ LET u == UnloadGame([core |-> core, disk |-> WithFrontendSave(disk), fault |-> fault])
         s == CheckTasks(u, CancelAll(tasks))
     IN /\ phase' = PhaseAfter("unloaded", s.fault)
        /\ core' = s.core /\ disk' = s.disk /\ fault' = s.fault
  /\ tasks' = Running(CancelAll(tasks))
  /\ UNCHANGED <<nextIdent, played>>

RetroUnloadGame ==
  /\ phase \in {"primed", "running", "shutdown"}
  /\ LET s == UnloadGame(CheckTasks(
                 [core |-> core, disk |-> WithFrontendSave(disk), fault |-> fault],
                 CancelAll(tasks)))
     IN /\ phase' = PhaseAfter("unloaded", s.fault)
        /\ core' = s.core /\ disk' = s.disk /\ fault' = s.fault
  /\ tasks' = Running(CancelAll(tasks))
  /\ UNCHANGED <<nextIdent, played>>

RetroDeinit ==
  /\ phase \in {"unloaded", "failed"}
  /\ phase' = "out" /\ core' = NewCore
  /\ UNCHANGED <<tasks, nextIdent, disk, fault, played>>

Next ==
  \/ RetroInit \/ RetroLoadGame \/ FrontendReadsSave \/ FrontendSaves
  \/ RetroRun \/ RetroReset \/ RetroUnloadGame \/ RetroDeinit

Spec == Init /\ [][Next]_vars

(* The frontend keeps running frames of a loaded game, the renderer        *)
(* becomes ready, and not every frame of a game writes a save memory.      *)
FairSpec == Spec /\ WF_vars(Frame([memory |-> "nothing"]))

-----------------------------------------------------------------------------
ManagerType ==
  {NoManager} \cup [length : {SramLength}, sram : Sram]

ConsoleRecord ==
  [type : ConsoleType, firmware : Firmware, nds : Sram \cup {NoSram},
   gba : Sram \cup {NoSram}, rumblePak : BOOLEAN]

TimerType == 0..FlushDelay \cup {None}

CoreType ==
  [console : ConsoleRecord \cup {None}, nds : {"none", "game", "dsiware"}, gba : BOOLEAN,
   messageScreen : BOOLEAN, ndsSramInstalled : BOOLEAN,
   ndsManager : ManagerType, gbaManager : ManagerType,
   gbaTimer : TimerType, firmwareTimer : TimerType, flushTaskId : Nat]

TaskType ==
  [ident : Nat, title : {"gba", "rumble", "power", "osd", "firmware"}, path : ConsoleType,
   cancelled : BOOLEAN, finished : BOOLEAN]

DiskType ==
  [nds : Sram, gba : Sram, firmware : [ConsoleType -> Firmware],
   title : {"absent", "own", "temporary"}]

Fault == {"WriteGbaSave", "UnloadGame", "FlushFirmware", "OnScreenDisplayTask"}

ASSUME NoneAssumption == None \notin ConsoleRecord /\ None \notin Fault

(* Every part of the state keeps its type; a flush timer is off or between *)
(* 0 and the delay, whatever the order of writes, checks and resets.       *)
TypeOK ==
  /\ phase \in Phase
  /\ core \in CoreType
  /\ tasks \in Seq(TaskType)
  /\ nextIdent \in Nat
  /\ disk \in DiskType
  /\ fault \in Fault \cup {None}
  /\ played \in [nds : Sram, gba : SUBSET Cells, firmware : [ConsoleType -> Firmware]]

(* Once the save memory is installed, the buffer the frontend autosaves    *)
(* from holds what the cartridge holds, wherever a write began and whether *)
(* it ran past the end (SaveManager::Flush), and through resets.           *)
NdsBufferTracksCart ==
  phase # "faulted" /\ core.ndsSramInstalled /\ core.console # None /\ core.ndsManager.length > 0
    => core.ndsManager.sram = core.console.nds

(* A session that ended left the player's progress in the DS save file:    *)
(* what the file held, with what the game wrote, over any resets, changes  *)
(* of console type and sessions (core.cpp:221-251, 354-375).               *)
NdsProgressKept ==
  phase \in {"unloaded", "out"} => disk.nds = played.nds

(* What the game wrote to GBA save memory in a session is in the save file *)
(* when the session ends, although the flush is delayed and a reset or the *)
(* unload comes first (tasks.cpp:211-237).                                 *)
GbaWritesKept ==
  phase \in {"unloaded", "out"} => \A i \in played.gba : disk.gba[i] = New

(* Each firmware file ends with the settings last made on its own type of  *)
(* console; switching types with a reset never puts one type's firmware    *)
(* into the other's file (core.cpp:209, tasks.cpp:280-293).                *)
FirmwareKept ==
  phase \in {"unloaded", "out"} => disk.firmware = played.firmware

(* No task runs or is cleaned up without a console to flush or to show, in *)
(* particular none after a reset that lost the console (tasks.cpp:146,     *)
(* 308), and a running core has one (core.cpp:139).                        *)
TasksFindConsole ==
  /\ fault \notin {"FlushFirmware", "OnScreenDisplayTask"}
  /\ phase = "running" /\ ~core.messageScreen => core.console # None

(* When the game stops writing GBA save memory, the pending flush happens  *)
(* or the session ends; nothing keeps postponing it (sram.cpp:148-152).    *)
GbaWriteStep ==
  /\ core'.gbaTimer = Tick(FlushDelay)  \* implied, and quick to see
  /\ \E w \in GameWrite : w.memory = "gba" /\ Frame(w)
PendingGbaFlush == core.gbaTimer # None /\ core.gbaManager.length > 0
PendingFlushHappens ==
  <>[][~GbaWriteStep]_vars => (PendingGbaFlush ~> (~PendingGbaFlush \/ phase = "faulted"))

(* A GBA save file holds only what it held before or what the game wrote:  *)
(* flushing puts the cartridge's save memory "back to disk"                *)
(* (sram.cpp:148).                                                         *)
GbaFileFromCart == \A i \in Cells : disk.gba[i] # Blank

(* WriteGbaSave asserts that there is a GBA save manager (sram.cpp:145).   *)
GbaManagerThere == fault # "WriteGbaSave"

(* A title the user's NAND already had is not uninstalled ("won't          *)
(* uninstall it later", console.cpp:590).                                  *)
OwnTitleStays == [][disk.title = "own" => disk'.title = "own"]_vars
=============================================================================
