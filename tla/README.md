# A TLA+ specification of melonDS DS and its room container

The repository is melonDS DS, a libretro core that runs the melonDS emulator of the
Nintendo DS, together with a container that puts several such cores into one *room* where
they can play over local wireless. This directory specifies the parts of it that keep state
across calls, processes and messages, model-checks them with TLC and proves some of the
results with TLAPS. Everything is read from the code under `src/`; paths below are relative
to that directory's `src/libretro` unless they begin with `container/`.

    tlc -config RoomSwitch.cfg MCLanRoomRunner.tla      # any pair from the table of runs
    tlapm LanRoomRunnerProofs.tla                       # a module of proofs

`PROJECT.json` lists for every definition the lines of code it translates, and for every
property of a passing run a mutant: a definition changed the way a plausible bug would
change the code, under which TLC finds the property violated.

## The system

```
 browser  --HTTP-->  room server  --spawn, SIGTERM, files-->  room runner (parent)
 web/app.js          server/server.mjs                         runner/lan_room_runner.c
                                                                 |  one socket pair each
                                                                 v
                                     player process (child) 1 .. n, each with one libretro core:
                                     retro_* entry points (libretro.cpp) -> CoreState (core/)
                                       |- SaveManager, flush tasks (sram.cpp, core/tasks.cpp)
                                       |- task queue (retro/task_queue.cpp)
                                       |- MpState  <--netpacket callbacks--  the child's loop
                                       |- renderer, screen layout, input, microphone, internet
                                       '- melonDS::NDS (external; calls back through Platform::*)
```

| part | state it keeps | operations | how it meets the others |
|---|---|---|---|
| room server, `container/server/server.mjs` | the runner's child process, `runnerState`, `runnerExit`; `input.bin` of each slot | start, stop, input, status requests; `spawn`, `error`, `exit` events | spawns the runner in its own process group, signals the group, writes the players' input files |
| room runner, `container/runner/lan_room_runner.c` | parent: a `player` per slot (socket, `alive`, `ready`, statistics), `alive_count`, whether the probe was sent; child: frame count, shutdown flag | fork, poll, receive and route a message, probe, collect statistics, reap, exit; child: boot, poll, run a frame, send, stop | blocking writes and reads on socket pairs; `SIGTERM`; end of file when a process dies |
| local multiplayer, `net/mp.cpp`, `platform/mp.cpp`, `libretro.cpp` | whether a session is on, the packet queue, the host to answer, the number of successive timeouts | session start and stop, packet received, the `Platform::MP_*` calls | the emulated wifi calls in, the frontend's netpacket callbacks deliver |
| core life cycle, `core/core.cpp`, `libretro.cpp` | the console, loaded games, message screen, flags of the first frame | init, load, run, reset, unload, deinit; memory queries | called by a frontend from one thread; calls the console and the tasks |
| save memory, `sram.cpp`, `core/tasks.cpp` | a `SaveManager` per cartridge, flush timers, the identifier of the flush task | a write of the game, flush, install, countdown | the console reports writes; DS saves go to the frontend's buffer, GBA saves and firmware to files |
| task queue, `retro/task_queue.cpp` | queue of tasks with handlers and cleanups | push, find, check, reset, deinit | once per frame and at unload and reset |
| console construction, `config/console.cpp` | none; builds the console from options and files | choose BIOS, firmware, NAND, cartridges; install DSiWare | throws when something is missing, which leads to the error screen |
| configuration, `config/` | the parsed options, the menu's flags | list the options with the files of the system directory, parse them, show and hide them | applied at load, reset and when the frontend reports a change |
| input, `input/` | what is held, both cursors, the present touch, the device in the second slot | poll, move, touch, hotkeys; set from the options | read by the console during the frame; a task drives the rumble motor |
| microphone, `microphone.cpp`, `retro/microphone.cpp` | input and button modes, whether it captures, the host's device | button, modes, read | hotkeys of the input; samples for the frame |
| screens, `screenlayout.cpp` | the layouts to cycle through, matrices, size | set, cycle, update | input maps the pointer with the last picture's matrices; the renderer draws with them |
| rendering, `render/` | the renderer, its context, what it last copied | make, lose and remake the context, draw | falls back to software when OpenGL fails |
| internet, `net/net.cpp` | a libslirp or libpcap driver | packets in and out | external libraries |

What is hard in it:

* **Processes and sockets.** The parent polls once, then handles one message per player; a
  child may have died, or be full of unread data, by the time its turn comes. All writes
  block. Later children inherit the earlier children's sockets.
* **Ordering of lives.** A stop, a start and the runner's own end may interleave in the
  server; a leader may die before its players.
* **Late answers.** A reply that arrives after its exchange timed out waits in the same queue
  as the next command's replies and as frames that are no replies.
* **Deferred writes.** Save memory reaches a file by a task that counts frames, and a reset,
  an unload, a change of console or a failed reset may come in between.
* **Replacement of the console.** A reset destroys the console and builds another, perhaps
  of the other type, perhaps none; everything that captured something of the old one is stale.
* **Settings that change in mid-session.** Some seventy options are listed in one place, parsed in
  another and shown or hidden in a third; a change reaches devices that are in use: a cursor that
  touches, a microphone that records, a renderer whose context comes late or is lost.
* **Files that outlive a session.** Firmware images, Wi-Fi settings and a DSi's NAND are
  changed by one session and read by the next, which may be configured otherwise.

What makes each part correct: the room delivers in order, once, and only to the addressee,
ends when it should and tells the truth when it ends; there is one runner and the status
describes it; replies go to the host and are counted for the command they answer; what a
player saved is in the file afterwards, and no task meets a missing console; every choice in the
menu means what it says and the configuration is that of the menu; what the player sees,
touches and says is what the console gets; a console that starts has the system files it needs.

## Modules

| module | lines of code it stands for | role |
|---|---|---|
| `PacketSwitch` | | abstract: an ordered, lossy, addressed broadcast medium |
| `LanRoomRunner` | `lan_room_runner.c` | parent and children; implements `PacketSwitch` |
| `LanRoomRunnerProofs` | | its proofs: who is connected, what is delivered, the refinement of `PacketSwitch` |
| `MpState` | `net/mp.cpp`, `net/mp.hpp`, `platform/mp.cpp`, `libretro.cpp` 345-411 | multiplayer in the cores, over the medium `PacketSwitch` describes |
| `MpStateProofs` | | its proofs, the use of `PacketSwitch` among them |
| `RoomServer` | `server.mjs` | the server; of the runner only what `LanRoomRunner` shows it |
| `RoomServerProofs` | | its proofs |
| `TaskQueue` | `retro/task_queue.cpp` | the queue as operators on sequences of tasks |
| `TaskQueueProofs` | | its proofs; induction and recursion over numbers |
| `SaveManager` | `sram.cpp` 60-96 | the copy of a save memory, as operators |
| `CoreState` | `core/core.cpp`, `core/tasks.cpp`, `sram.cpp`, `libretro.cpp` | the core's life and its saves; composes `TaskQueue` and `SaveManager` |
| `CoreStateProofs` | | proofs about `CoreState` and `SaveManager` |
| `OptionTable` | `config/definitions/`, `config/config.cpp`, `parse.hpp` | every option, its values and their meanings, as tables and operators |
| `CoreOptions` | `config.cpp` 885-1098, `config/visibility.cpp`, `environment.cpp`, `core/core.cpp` | options from the system directory to the configuration and the menu |
| `CoreOptionsProofs` | | its proofs, with lemmas about the tables |
| `ConsoleSetup` | `config/console.cpp`, `core/core.cpp`, `core/tasks.cpp` | a console from the files of the system directory, and back |
| `ConsoleSetupProofs` | | its proofs |
| `ScreenLayout` | `screenlayout.cpp`, `screenlayout.hpp` | layouts, sizes and pointer positions, as operators |
| `InputState` | `input/` | joypad, pointer, cursor, light sensor, rumble, as operators |
| `Microphone` | `microphone.cpp`, `retro/microphone.cpp` | modes and the host's device, as operators |
| `RenderState` | `render/` | which renderer draws what, as operators |
| `CoreFrame` | `core/core.cpp` | a frame: composes the four above |
| `CoreFrameProofs` | | its proofs, with lemmas about the four |
| `MC...` | | instances and what documents claim |

### LanRoomRunner

One process per `retro_run` loop: the parent's place is `phase` (`fork`, `poll`, `scan` the
readable slots, `write` a message to the slots that still get it, `done`), a child's is
`cpc[s]`. `up[s]` and `down[s]` are the two directions of a socket pair, sequences of whole
messages since `write_all` and `recv_exact` finish a message or fail. `SocketCap` bounds
what a direction holds; a write to a full one is disabled, as the call blocks. Dying is
an action of its own (`Faults` says which deaths an instance allows): a child may fail to
boot or crash at any step, the parent may be killed, get `SIGTERM`, or fail to fork.
End of file follows from who still holds a descriptor, inherited ones included; writing to a
stream without a reader raises `SIGPIPE`, which the program does not handle, and ends the
writer. `sent` and `got` are what the cores' callbacks saw; `PacketSwitch` is refined by
projecting `got` to sender and number.

Left out: drawing, frame files, the contents of `input.bin`, audio, and the environment
callback, none of which changes how processes and messages go. A message is not split: bytes
and partial reads are below this model.

### MpState

The medium is the one `PacketSwitch` promises. The emulated wifi is not in the repository, so its
calls are taken from how they are used. A core of `Hosts` sends a command, collects replies and acknowledges; a
core of `Clients` waits for a host frame and answers a command; any core may send and take other frames. The two sets may overlap:
several cores host, in turn or at once, and answer one another, which is when `_hostId` is forgotten and learnt
anew. `time` is the clock the cores keep in step: commands are `Gap` ticks apart, whoever gives them.
A session starts and stops between two frames, so also between two calls of an exchange (`BetweenCalls`), as often as `Switches`
allows; the queue, the host and the timeout count outlive it.

`Takes` and `TimesOut` are one look at the queue in `NextPacketBlock` and its giving up after 25 ms. Packets come by
`PacketReceived`, a step of its own, since the polls of a waiting call deliver them one by one; so `MP_RecvHostPacket` is
one step, and a round of `MP_RecvReplies` another. Timestamps are unsigned and wrap at `Word`; the window of 32
ticks is `Minus(ts, 32)`. A command in the first 32 ticks makes the window wrap and drops every reply; the instances
start later, see the hazards.

Where an answer goes is decided when it is sent, by what has arrived until then, taken off the queue or not.
`FitAddress` says what the code so permits: to the core whose command is answered; to another core whose command
has come since; or to all, if the core sent a command or an acknowledgement itself since. The latter two happen once two cores
host, and `mp_hosts` reaches both; a host in turn may count an answer to another core's later command. With one host neither
can happen.

### RoomServer

A start is a *generation*, a leader and its players in one process group. Requests, events
and process steps interleave; one handler of Node runs to its end before the next. Node's
`spawn` or `error` event comes before another request is handled, so it belongs to the start.
`file` and `since` are an input file and the generation it was written for. One slot is
enough, since the slots share nothing but the reset at the start, which treats all alike.

### CoreState, SaveManager, TaskQueue

One action is one call of the frontend: `RetroInit`, `RetroLoadGame`, `RetroRun`, and so on. A frame
runs the console, may write one stretch of one memory, and checks every task; the action is all of it.
A save memory is `SramLength` bytes, each blank, from the file, or written in this game;
firmware is told apart by console type and version. `played` records what the game wrote, and
the properties relate it to `disk`. A failed assertion or the use of a missing object sets
`fault` and ends the process. `CreateConsole` may fail wherever the code can throw, at a reset also
after the old console is gone.

Assumptions about what is not in the repository: melonDS reports each write of the game, and
may or may not report `SetNDSSave` and `SetGBASave`; the frontend does as RetroArch does (it
fills the save buffer between the load and the first frame, saves it before the unload,
resets only after a frame, and deinitialises the core after each game); writes to the disk do
not fail; a console that was built starts.

### OptionTable, CoreOptions

`CoreOptionDefinitions` is the list of options as the build's `Features` leave it, by category, each with the
values it offers; the `...Settings` give for each the texts the parser accepts and what they
mean, and `Meaning` is the parser. Numbers become texts by `Decimal`, of which only is assumed that different numbers have
different texts. `RegisterCoreOptions` fills in the options whose values are files: `IsFirmwareImage` and
`IsDsiNandImage` look at a file as the code does, `SelectDefaultFirmware` picks the newest of the right
console. The arrays have `MaxValues` places as in libretro's API, and writing the end of the list one place
behind them (`config.cpp` 994) lands on the key of the next option and ends the list there; the model does the same.

`CoreOptions` adds the frontend: it keeps what the player chose by key, shows what it was told to,
answers an option it was not given with nothing. `ChooseValue` changes a setting, `MoveFiles` the system directory,
`UpdateOptionVisibility` is the frontend's callback. Assumption: a menu shows an option it was never told to hide.

### ConsoleSetup

`CreateConsole` with every error it can throw, in the code's order (`FirstError`), and what it does to the files: an
absent DSiWare title is installed with the save data of the save directory, title metadata
is fetched and kept. `FlushFirmware` writes a native image back whole, or the Wi-Fi settings
of the built-in firmware to `wfcsettings.bin`. A number stands for Wi-Fi settings or a DSiWare save;
`played` remembers the newest of each. The three kinds of DSiWare save data go the same way and are one.
Left out: names, colours, birthday, language, MAC address and DNS server that `CustomizeFirmware` and `CustomizeNAND`
put into firmware and NAND; SD card images; the menu's own calls of the JIT. The disk is not full.

### CoreFrame, InputState, ScreenLayout, RenderState, Microphone

A frame is one action, in the code's order: deferred start, changed settings, input (with the last picture's matrices), layout, the
game, picture, tasks. The layouts, sizes, scales and matrices are the code's own numbers, so the sizes of the
pictures are real. A picture is the set of screens drawn with the place of each. What the frontend answers (a context, a
microphone, a sensor) is chosen anew in every call. A behaviour takes place in one *scene*, which
fixes the settings and the movements worth combining.

What is in the second slot is the console's: a GBA game, else the device the settings name, and nothing in a DSi (`Cart`).
A load or a reset hands it to the core only if there is something (`SetSlot2`), so after a reset to an empty slot the core keeps the old
console's device. The game of a rumble pak calls the motor as often as it likes, for any length; the calls of a
frame come to a stop or none, then a start or none of the length asked for since. `due` remembers what it has asked for and not yet had. The
task that turns the motor off is checked at the end of a frame and at the start of a reset; a finished one is cleaned up at the next check, after the handlers
(`CheckTasks`, `FinishRumble`), and all of them at the unload (`CancelTasks`).

Simplified: a pointer has `2 * PointerReach + 1` positions on each axis instead of 65535; the stick is at rest or at one of its ends; of the
times of last use only the order is kept; the light sensor's level is left out; frames are equally long, and the motor's time is
counted in the half frames the task takes away.

## Runs

| run | instance | what it checks |
|---|---|---|
| `room_switch` | 2 players, one packet and the probes, 1 frame; a crash at any step, failed boots, `SIGTERM` | `InOrderOnce`, `NothingLostWhileConnected`, `AliveCountAgrees`, `StatsAreFinal`, the refinement `SwitchSpec`, `RoomEnds`, and no standoff (deadlock check) |
| `room_orphans` | 3 players without a frame limit; the parent may die or fail to fork | `OrphansEnd`, `ProbeRoundTrip` |
| `room_failures` | 2 players, failed boot | violated: `FailuresReported` |
| `mp_hosts` | 3 cores, 2 of which host and 2 join, 2 commands, a session that restarts | `RepliesGoHome` |
| `mp_sessions` | a host whose session restarts and 2 clients, 2 commands, a stray frame | `CountedAnswerThisCommand`, `NoAnswerOverlooked`, `ExchangeEnds` |
| `server_room` | 3 generations, 2 input requests at once | `OneRunner`, `StateTruthful`, `InputIsFresh`, `StopEnds` |
| `core_saves` | every kind of game, 2-byte memories, 5 tasks in the life of the process | `NdsBufferTracksCart`, `NdsProgressKept`, `GbaWritesKept`, `FirmwareKept`, `TasksFindConsole`, `PendingFlushHappens` |
| `core_gba_file` | the same | violated: `GbaFileFromCart` |
| `core_options` | the whole table of a release build; 4 directories, one change of them, 2 choices | `EveryChoiceCounts`, `FirmwareFits`, `ConfigIsFresh`, `ShownIsRelevant` |
| `core_frames` | 7 scenes: singing, drawing, framing, switching, failing, sunning, slotting | `HostMicFeedsGame`, `TouchFollowsPlayer`, `CursorHides`, `PictureIsCurrent`, `LightSensorRests`, `MotorRests`, `PointerTouchesWhatIsSeen`, `PictureComesBack` |
| `console_setup` | 9 contents, 19 configurations, 11 system directories, one write of a game | `SystemFilesFit`, `DsiwareSeesNewest`, `GeneratedWifiKept` |
| `console_wifi` | the same with full directories | violated: `NativeWifiKept` |

`TypeOK` is checked for `LanRoomRunner`, `MpState` and `CoreState`, whose states are wide; the states of the others are
records their definitions build.

Why the bounds are enough. Two players are needed for a packet to have a receiver, and the
third for an inherited descriptor and for a second reply; more add only symmetric copies. A game's packet and the probe of one sender
show order and duplication. A socket that holds four messages never fills in these
instances except by a receiver that stopped reading. With `SocketCap = 1` `RoomEnds` has a counterexample: the parent
waits to write to slot 2 while slot 2 waits to write its `STATS` and neither reads; from
2 on it has none. Real sockets hold hundreds of these messages, and a room needs that many
unread ones to stop so: a limit of the design rather than of its use, which is why it is written here and no
finding. Two commands are needed for a late reply and for two cores to host in turn; a
session that starts, stops and starts again for a packet that outlives it. `Arrivals` bounds the packets that reach a core and so
loses the others: the core that answers takes four in `mp_hosts` (the commands and acknowledgements of two hosts), the host three in
`mp_sessions` (a stray frame and an answer of each client, late or not, in any order; each client gets one of the commands). Three generations are needed for a start
that follows a stop that followed a start. Two bytes are the least with a write that wraps
and a write that does not; `FlushDelay = 1` distinguishes a timer that was just set, one that
is about to expire and one that is off. A session pushes two to four tasks and a reset
one or two, so `MaxIdent = 5` lets a second or third session begin, or a session be reset up to three
times; the frontend stops there, and at a fault, so `core_*` do not check deadlock.

`core_options` checks the tables in the initial states and the interplay in the others.
`MaxValues = 7` instead of libretro's 128 lets seven images overflow the array, which `FirmwareFits` excludes and the
other properties do not. A menu flag depends on one other option and on what was sent
before, so two choices that differ from the defaults (`MaxChoices`) and any number of changes among them show a flag out of step;
the choices are among `SwitchKeys`, one key of each flag. One move of files (`MaxDirectories`) makes a choice stale.

In `core_frames` `PointerReach = 4` puts positions into and between the screens of every layout, on edges and off the
picture; `JoystickStep = 255` crosses the touch screen in one frame where the code takes 17; three frames are a
second, so that the longest wait for the cursor (`MaxIdle` counts one frame more) is short; `MaxPause = 4` with
lengths up to 3 lets the motor run on over several frames, be asked for more while it runs, and be reset with time left. Each scene varies the settings of the devices that share
state: drawing has all touch modes with both devices, framing 14 of the layouts, two of the sizes and the hotkey
in the frame of a touch, switching and failing both renderers with every answer, sunning a solar game under resets between a DS and a DSi,
slotting every device of the settings, among them none, with a game that uses its motor.

In `console_setup` the directories lack or spoil one thing each, since each check of the code looks at one thing;
the configurations name an image that fits, one of the other console, one that is gone and none. Wi-Fi
settings and saves differ from the start (1 on the images, 2 in `wfcsettings.bin` and the
save directory, 0 where stale), so one write by a game (`MaxWrites = 3`) makes a third value to lose.

### Fairness

* `LanRoomRunner`: weak fairness of the parent and of every child (the scheduler), and strong
  fairness of a core's return from `retro_run`: it may poll for packets over and over, but
  each wait gives up after 25 ms. Faults are never fair.
* `MpState`: weak fairness of the loop in `MP_RecvReplies` only. It is one loop on
  one thread. No packet needs to arrive.
* `RoomServer`: weak fairness of Node's exit event, of a signal's effect on the
  leader and on the players, and of the end of players without a leader, which is
  `OrphansEnd` of the runner. Requests are not fair.
* `CoreFrame`: strong fairness of a frame while the context the renderer needs is there, weak fairness of
  making a context that was asked for, both counted by `turns`: the frontend keeps calling `retro_run` and
  answers a request for a context, however often it is lost. The player, resets and the unload are not fair.
* `CoreState`: weak fairness of a frame in which the game writes nothing: the frontend keeps
  calling `retro_run`, the renderer becomes ready. `PendingFlushHappens` is conditional on a
  game that some day stops writing GBA save memory, since each write restarts the countdown.

## What the checks found

Recorded as runs:

1. `room_failures`: a child the `WNOHANG` pass reaps (`lan_room_runner.c` 1019) is missing from the
   failure count of the last pass, so a room with a failed child may exit with 0.
2. `core_gba_file`: the GBA save manager starts out zeroed (`core.cpp` 541) and
   the cleanup of the flush task writes it over the save file even if the game wrote nothing.
3. `console_wifi`: `CustomizeFirmware` puts the Wi-Fi settings of `wfcsettings.bin` into any firmware (`config/console.cpp`
   978) and the flush writes a native image back whole (`core/tasks.cpp` 170); a test is named "Native firmware is
   not overwritten by contents of wfcsettings.bin", and passes where there is no such file.

Each is a run of its own, and none of them is assumed away elsewhere: the properties of the passing runs
hold with these in the model. The following were met on the way; where a definition or a `.cfg` is named, it
shows the behaviour, as the violation of a property that is not part of a run.

* Touch mode Joystick in a hybrid layout with only the large touch screen touches where the pointer last was, not
  at the cursor (`input/cursor.cpp` 135, 158; `CoreTouch.cfg`, `JoystickTouchesAtCursor`).
* After `GLRenderer::New` fails the software renderer draws in OpenGL's scale, larger than the largest picture it
  announced, against the assertion at `screenlayout.cpp` 297 (`render/render.cpp` 122; `CoreFallback.cfg`, `PictureFits`).
* A reset to an empty second slot (Slot-2 Device set to Auto, or DSi mode) leaves the old console's light sensor in the core (`core.cpp` 263): it stays
  on, and a changed setting enables it again. The option's text says it is ignored then (`config/definitions/system.hpp` 373; `CoreSlot2.cfg`,
  `SensorIgnoredWithoutSolar`). `LightSensorRests` says what holds, with such a console excepted.
* Whether there is a GBA save manager is decided at the load; a reset from DSi to DS mode
  inserts a GBA cartridge without one, and the first write fails the assertion at `sram.cpp` 145 (`GbaManagerThere` of `CoreState`).
* Unloading DSiWare deletes the title even if the NAND had it before (`core.cpp` 629), against
  the log message at `config/console.cpp` 590 (`OwnTitleStays` of `CoreState`), and whether or not its save data could be
  exported. If a reset changes the NAND, the title stays on the old one.
* Unloading DSiWare after an error screen or a failed reset uses a console that is not there (`core.cpp` 113): the
  phase `faulted` of `ConsoleSetup`.
* A child's `STATS` may be dropped with its socket when the parent notices the hang-up first
  (`lan_room_runner.c` 1008-1013), so the totals fall short of `container/README.md`'s success line.
* "All system files must be native or all must be built-in. (No mixing.)" (`config/console.cpp` 175), but native
  firmware runs with FreeBIOS when a BIOS image is missing: `SystemFilesFit` allows it.
* Any changed setting forgets that the microphone captures (`microphone.cpp` 73-79): one toggled on is off
  afterwards, and the host's device goes on recording. `HostMicFeedsGame` states the direction that holds.
* The cleanup of the old console's rumble task comes one frame late and after the game's calls (`core.cpp` 258), so a game that starts the
  motor in the first frame after a reset does not feel it, while the time it asked for runs. `MotorRests` states when the motor is off, not when it is on.
* A touch goes on when its touch mode is taken away in mid-touch; `TouchFollowsPlayer` excepts it (`steady`).
* The first row and column of the touch screen are excluded from the hybrid screen's bounds (`input/cursor.cpp` 140).
* A compressed GBA save is ignored at the load (`config/console.cpp` 547), and the flush then replaces the file.

## Proofs

Every safety invariant the passing runs check of the room, the server, local multiplayer, the core's
life, the making of consoles and the frame is proved for every value of the constants; of the options the two
invariants that relate several calls; and the two refinements: the room implements `PacketSwitch`, and the cores use it
as it is meant. What remains is listed under "Only model-checked". None of the properties is inductive by itself, so each
proof has an inductive invariant (`IInv` and `DInv`; of `CoreOptions` `ChoicesFollow` with `ConfigFollows` and
`MenuFollows`). TLC finds each of them true of the run's instance; of `MpState` without `Traffic` and `Grid`, whose sets
are infinite.

| module | theorem | property | constants it holds for |
|---|---|---|---|
| `LanRoomRunnerProofs` | `TypeCorrect`, `AliveCountCorrect` | `TypeOK`, `AliveCountAgrees` | any players, frames, packets, capacity, faults |
| | `InOrderCorrect`, `NothingLostCorrect`, `StatsFinalCorrect`, `SwitchCorrect` | `InOrderOnce`, `NothingLostWhileConnected`, `StatsAreFinal`, `SwitchSpec` | the same |
| `RoomServerProofs` | `OneRunnerCorrect`, `StateTruthfulCorrect`, `InputIsFreshCorrect` | `OneRunner`, `StateTruthful`, `InputIsFresh` | any number of starts, players, inputs |
| `MpStateProofs` | `TypeCorrect`, `RepliesCorrect` | `TypeOK`, `RepliesGoHome` | any cores, timestamps, sessions |
| | `QueueCorrect`, `MediumCorrect` | `QueueIsFifo`, `Medium!Spec` (in no run) | any cores, timestamps, sessions |
| | `CountedCorrect` | `CountedAnswerThisCommand` | `Gap > Window`, `Window < Word` |
| | `AnswersCorrect` | `NoAnswerOverlooked` | `FirstTime >= Window`, `Window < Word` |
| `TaskQueueProofs` | `PartIs` | | any queue |
| `ConsoleSetupProofs` | `SystemFilesCorrect`, `DsiwareCorrect`, `GeneratedWifiCorrect` | `SystemFilesFit`, `DsiwareSeesNewest`, `GeneratedWifiKept` | any files, contents and settings |
| `CoreStateProofs` | `FlushTracksWrite`, `FlushTakesNewSize` | | any size, place and length of a write |
| | `TypeCorrect`, `NdsBufferCorrect`, `NdsProgressCorrect`, `GbaWritesCorrect`, `FirmwareCorrect`, `TasksFindConsoleCorrect` | `TypeOK`, `NdsBufferTracksCart`, `NdsProgressKept`, `GbaWritesKept`, `FirmwareKept`, `TasksFindConsole` | any memory size, flush delay, games, tasks |
| `CoreOptionsProofs` | `ConfigStaysFresh`, `MenuStaysRelevant` | `ConfigIsFresh`, `ShownIsRelevant` | any build, directories, API versions, number of choices and moves |
| `CoreFrameProofs` | `FrameInvariant` | | any scenes: settings, movements, games, answers, cartridges, resets; any bounds |
| | `MicIsFed`, `TouchIsThePlayers`, `CursorTimesOut`, `PictureStaysCurrent`, `LightSensorComesToRest`, `MotorComesToRest` | `HostMicFeedsGame`, `TouchFollowsPlayer`, `CursorHides`, `PictureIsCurrent`, `LightSensorRests`, `MotorRests` | the same |

The assumptions are those the modules state of their constants (`RoomAssumption`, `BroadcastAssumption`,
`ServerAssumption`, `MpAssumption`, `CoreAssumption`, `FeaturesAssumption`, `MaxValuesAssumption`, `DecimalAssumption`, `SetupAssumption`, `DisksAssumption`, of the frame
`ScenesAssumption`, `BoundsAssumption`, `InputAssumption` and `PointerReachAssumption`; and `NoneAssumption` and
`OffAssumption`, that `None` and `Off` are none of the values they stand in for) and nothing else; TLC evaluates them in every run.

### The room

`LanRoomRunnerProofs`. The hard conjunct of the types is `alive_count \in Nat`: in C it is
`unsigned`, two places decrement it, and a second decrement for one player would wrap it and
the loop would never end. `AliveCountAgrees` says that it is the number of players
served, and that a player is given up only after its process has ended, so the last
`waitpid` does not wait for a child nobody reads from. `IInv` has three parts: `ShapeOK`, which is `TypeOK` with
an integer for `alive_count`; `Served`, the bookkeeping of who is connected, which events of
the last poll are still to be handled, and that a hang-up was reported only for a child that
had exited; and `Counted`, the cardinality. `ShapeOK` is preserved by itself;
`Served` needs it; `Counted` needs both, and closing a player takes one element out of a
finite set (`CloseCounts`, with the theorems on finite sets). `CountIsNatural` then
recovers the natural number.

`DInv` adds what is in the streams. `Flow`: a stream to the parent holds only what that child
has sent and, last, its `STATS`; a stream to a child and what its core got hold only packets meant for it, and the probe.
The order of packets is an order of the whole path, what the core got before what is under way to it
before what the parent holds before what the sender's stream holds; so a message moves from one place to the next
without overtaking. `Budgets` counts what was routed against what is under way, with room for the one probe,
which makes the totals of `StatsAreFinal` come out. `OnItsWay` says where a packet is that its receiver has not got yet, for
`NothingLostWhileConnected`. `SwitchCorrect` then maps each step of the room to a send, a delivery or a stutter of `PacketSwitch`.

### The server

The server knows one generation of processes, the last it spawned, and an exit event says
nothing about which one ended. That events of the others cannot surprise it is the part `LastMatters`:
later generations do not exist and the exit of every earlier leader has been handled
before a start got past its first line. With `WrittenForRunner` (an input file is always the last start's or later) that is inductive.

### Local multiplayer

`Said(s)` is the set of packets core `s` may have said so far: replies under the sender's own number, and replies and
commands only with times that were given out (`Asked`). It only grows, so whatever is in a
buffer, on the wire, in a queue or in a history stays in it (`Traffic`). `HostKnown` is what `_hostId` means: the sender of the last
command or acknowledgement that came since the core sent one itself (`since`), or nothing if none did. A core about to answer has
just taken a command off its queue (`InHand`), which by `QueueIsFifo` is one that arrived; comparing the two gives the three cases of
`FitAddress`, for any number of hosts, sessions and queued packets.

The two theorems with hypotheses say where the code depends on numbers. A late reply is recognised by its timestamp:
commands must be further apart than the window of 32 ticks the code allows, or the reply to the last one counts for this (`GridApart`, `NewEnough`). And the comparison
subtracts the window from an unsigned timestamp, which wraps for a command in the first 32 ticks and drops every reply;
from then on none is overlooked. Timestamps are microseconds of emulated time in 64 bits, so `Window < Word` holds, a wifi exchange
takes longer than 32 of them, and a console has run for longer before its first. `MpHosts.cfg` and `MpSessions.cfg` satisfy both.

`MediumCorrect` is the other half of `SwitchCorrect`: what the cores do to the medium, seen by itself, is a behaviour of
`PacketSwitch`. The room gives the cores no more than they were proved with.

### The core's life

`TaskQueueProofs` does the induction the proofs of a queue need. The provers take no predicate as an argument, but induction
can be stated with sets of numbers (`UpTo`), and from it that a function given by recursion on `0..n` exists (`Recursion`), without which
nothing follows from its definition. `PartIs`: a check keeps the tasks that have not ended, cleans up the others, and forgets none.

`CoreStateProofs` first says what a check of the queue does to the core and the disk, whatever tasks are
in it and in whatever order: `Effect(s, r, D)`, where `D` is the set of tasks called. Nothing but the two timers,
the GBA save file and the files of the firmware tasks called changes; what ended or was due is flushed; a fault needs a task that found no console.
It holds of one call (`CallEffect`), of two in a row (`EffectsAdd`), and so of a check (`CheckEffect`).

`IInv` then says where the player's data is in every phase, and which task will bring it home:

* `NdsHeld`: the progress of a DS game is in the save file, or in the buffer the frontend reads into and writes from; once a frame has run
  the cartridge has the same. A reset keeps the old cartridge's memory, and what melonDS reports of it copies the same bytes.
* `GbaHeld`: a byte the game wrote is in the manager, or, without one, in the file. With a manager there is a task `"gba"` in the
  queue (`TasksReady`) that is not cancelled before the unload, whose check flushes.
* `FirmwareHeld`: the settings of a console's type are in the console if it is of that type, else in the type's file. That a reset does not
  mix them up needs that there is a firmware task, that it is the one `flushTaskId` names, and that its path is the console's (`TasksReady`).
* `Life`: which phases have a console and managers; hence no task is called without one. A failed reset keeps only tasks
  that need none: the firmware task was cancelled and cleaned up while the old console was there, and the
  screen's own task is never called again before the unload, which cancels it.

A step of the proof is an action of the model; the reset is the longest, as it flushes, cancels, builds, keeps, reports and pushes.

### The making of a console

That a console that starts has its system files (`SystemFilesFit`) is half about `CreateConsole`: the code's checks are a list of which the
first to fail is the error, and no error means that none failed (`NoError`), from which `MadeFits` follows case by case. The
other half is that it stays so: flushes, saves and later installations do not touch what the console was made of.
`DisksAssumption` says what files there may be: any images of any types under any names, except the name generated firmware goes by.

`DsiwareSeesNewest` needs to know where the newest save is when no console runs. `Newest`: a title is only on a NAND the game was
played on; as long as that is one image, the newest save is on it, or in the save directory if the title is not
there. It ends to hold when an export fails or the game was on two images, the two exceptions the property makes. `WifiHeld`
says likewise that the newest settings of the built-in firmware are in the console that has it, else in the file.

### The options

`ChoicesFollow`: whatever the player chose is a value the present list still offers, since a list that is made anew keeps only
such choices. `ConfigFollows`: once a change was read, the configuration is what reading the texts again would give; reading
twice is reading once. That is inductive, but it is not yet `ConfigIsFresh`: where the year cannot be read the code
leaves it as it was and resets the minute offset instead. `YearKnown` shows that this never concerns an option the menu has: every text the
year offers is accepted (`YearsAccepted`, from `DecimalAssumption`; also in the order a frontend without option versions gets), and
the list can lose the year in one way only, when firmware images fill their array and end it at `firmware_nds_path`, which comes before both
(`DefinitionsListYear`, for every set of features); then neither is in the menu.

`MenuFollows`: the remembered flags are those of the present texts, and the frontend shows what they say (`Shows`). `HiddenOption` and
`HiddenLayout` say what an update does to one option, which needs that no option depends on two flags (`DependentsDisjoint`).
An option stays right when its flag did not change, with one exception in the code: the old flag of the DSi's SD card
is combined with the new console mode (`visibility.cpp` 80), so the menu would miss that the card was switched off outside DSi mode. It cannot
be, for the switch is hidden there; so the proof needs that a player only changes what is shown. The theorem ends with the
first file that is moved: a reset may then drop a choice, and the menu is told only when the frontend asks.

### A frame

`ScenesAssumption` says what settings, polls, games and answers there may be: any of their types, with at least one layout and
an OpenGL scale of at least 1, as the options' tables have it. The invariant has a part for each chain of state that a
frame carries to the next:

* `SessionFollows`: outside a session every part is new, whatever the last session left; a loaded game has a console.
* `Slot2Follows`: the core's device is that of the console's cartridge, and with an empty slot any (`SlotFits`); a sensor that is on or deferred is
  one the present settings ask for; a task runs exactly while the console has a rumble pak, and then the motor's time is what
  the game is still due; a motor that is on has a task that runs or one that is to be cleaned up, and after a frame the former and time left. A reset thus
  finds the old motor on at most with its task, which it finishes.
* `CursorFollows`: the cursor has what the devices said in the last poll, for each device the touch mode uses, unless a
  setting of the cursor has changed since, when nothing is touched and the time starts anew. Else the cursor's timeout and the
  frames the player was idle together never exceed the setting. A touch that began under the present touch mode ends with it.
* `LayoutFollows`: matrices and size are those of the present layout, or it is marked to be computed before the next picture.
* `RenderFollows`: the renderer of the core is the console's, once it has started; OpenGL's vertices are the present layout's,
  or a refresh is due, of which a changed scale counts as one.

A frame is a chain of four steps in the code, `Prepared`, `ReadInput`, `LaidOut` and `Drawn`, and so is the proof: for each what it keeps
and what it establishes (`PreparedParts`, `ReadParts`, `LaidOutParts`, `DrawnParts`, and `FrameParts` of all four), from lemmas about each device. That
sizes and scales are positive, which the types of the matrices need, comes from the settings through `Apply` and the renderer. A renderer that cannot be
made, in a context that was made for it, is replaced by the software renderer before anything is drawn (`Matched`), also in the one frame that is
drawn after the core asked to be shut down.

### Only model-checked

* Liveness, fairness and `ENABLED`: `RoomEnds`, `OrphansEnd`, `ProbeRoundTrip`, `ExchangeEnds`, `StopEnds`, `PendingFlushHappens`, `PictureComesBack`.
* `EveryChoiceCounts` and `FirmwareFits` of `CoreOptions`. The first says of given tables that they fit, which is a calculation TLC
  does for all of them; the second is about the best of a sequence `SelectSeq` chose, an induction over data.
* `PointerTouchesWhatIsSeen` of `CoreFrame`: scaled, turned and rounded positions in every layout, which is nonlinear arithmetic.
* What the runs that end in a violation show.

## Not modelled

`PROJECT.json` lists every component with its reason. In short: pixels, shaders, audio samples and
log texts carry none of the properties; `net/net.cpp`, the platform layer and the libretro
wrappers hand everything to external code; the stubs, the tracing and
the build scripts are not the program. Savestates and cheats are left out of the core's life: what
they hold is melonDS's, and with them `CoreState` outgrows TLC. The browser page, `container/web/app.js`, is
a source of requests in any order, which `RoomServer` already takes; its own hazards (a key whose release goes to another slot,
an older answer shown last) break nothing the code promises.

`CoreState`, `CoreFrame` and `ConsoleSetup` cut one life in three: saves, frames and files. They meet in the calls of the
frontend, which each has as its actions, and a console that fails to be built, which is nondeterministic in the first, excluded in
the second and derived from the files in the third. One module of all three would have no instance small enough to check.

## Plan

Done, in this order because the room and the saves are where a mistake costs the
player most: `PacketSwitch` and `LanRoomRunner` with proofs, `MpState`, `RoomServer`, `SaveManager` with proofs,
`TaskQueue`, `CoreState`; then what a setting does, `OptionTable` and `CoreOptions`; what the player sees and
touches, `ScreenLayout`, `InputState`, `RenderState`, `Microphone` and `CoreFrame`; and what lasts between sessions, `ConsoleSetup`.

Proved since: all safety invariants of `LanRoomRunner`, `RoomServer`, `MpState`, `CoreState`, `ConsoleSetup` and `CoreFrame` but for
`PointerTouchesWhatIsSeen`, `ConfigIsFresh` and `ShownIsRelevant` of `CoreOptions`, and both refinements.

Left: `EveryChoiceCounts` with a lemma for each option, and `FirmwareFits` once the selection of the best image is
written as a fold the provers can reason about. What is not modelled and keeps state is the internet access and savestates.
