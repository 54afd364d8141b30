--------------------------- MODULE CoreStateProofs ---------------------------
(***************************************************************************)
(* The core's life, proved for save memories of any size, any delay of the *)
(* flushes and queues of any length: nothing the player made is lost on    *)
(* the way from the emulated console to the disk, and no task misses its   *)
(* console.                                                                *)
(*                                                                         *)
(* A call to the frontend's entry points mostly runs a check of the task   *)
(* queue.  Effect says what any number of calls of task functions do to    *)
(* the core and the disk; the inductive invariant IInv says where the      *)
(* player's data is in every phase and which tasks will bring it home.     *)
(***************************************************************************)
EXTENDS CoreState, TaskQueueProofs

-----------------------------------------------------------------------------
(* The save manager: for memories of any size, the copy Flush keeps is     *)
(* exact after every write, wherever the write begins and however often it *)
(* passes the end of the memory.                                           *)

(* Flush copies the bytes the write touched and keeps the others           *)
(* (SaveManager::Flush, sram.cpp:84-96).                                   *)
LEMMA FlushCopies ==
  ASSUME NEW n \in Nat \ {0}, NEW offset \in 0..n - 1, NEW length \in Nat, NEW old, NEW new
  PROVE  Flush([length |-> n, sram |-> old], new, n, offset, length)
           = [length |-> n, sram |-> [i \in 0..n - 1 |->
                IF i \in Touched(n, offset, length) THEN new[i] ELSE old[i]]]
<1> DEFINE copy == Flush([length |-> n, sram |-> old], new, n, offset, length)
<1>1. copy = [length |-> n, sram |-> copy.sram] /\ copy.sram = [i \in 0..n - 1 |-> copy.sram[i]]
  BY DEF Flush
<1>2. ASSUME NEW i \in 0..n - 1
      PROVE  copy.sram[i] = IF i \in Touched(n, offset, length) THEN new[i] ELSE old[i]
  <2>1. CASE offset + length > n
    <3>1. i < (IF length - (n - offset) > n THEN n ELSE length - (n - offset))
            <=> i + n < offset + length
      OBVIOUS
    <3>2. i < offset + (n - offset)
      OBVIOUS
    <3> QED BY <2>1, <3>1, <3>2 DEF Flush, Touched
  <2>2. CASE ~(offset + length > n)
    BY <2>2 DEF Flush, Touched
  <2> QED BY <2>1, <2>2
<1>3. copy.sram = [i \in 0..n - 1 |-> IF i \in Touched(n, offset, length) THEN new[i] ELSE old[i]]
  <2> HIDE DEF copy
  <2> QED BY <1>1, <1>2
<1> QED BY <1>1, <1>3

(* A manager that held what the save memory held before a write holds what *)
(* it holds after it, if the write changed only what it touched            *)
(* (SaveManager::Flush, sram.cpp:75-96).                                   *)
THEOREM FlushTracksWrite ==
  ASSUME NEW n \in Nat \ {0}, NEW offset \in 0..n - 1, NEW length \in Nat,
         NEW S, NEW old \in [0..n - 1 -> S], NEW new \in [0..n - 1 -> S],
         \A i \in 0..n - 1 : i \notin Touched(n, offset, length) => new[i] = old[i]
  PROVE  Flush([length |-> n, sram |-> old], new, n, offset, length)
           = [length |-> n, sram |-> new]
<1> DEFINE copied == [i \in 0..n - 1 |-> IF i \in Touched(n, offset, length) THEN new[i] ELSE old[i]]
<1>1. copied = [i \in 0..n - 1 |-> new[i]]
  OBVIOUS
<1>2. copied = new
  BY <1>1
<1> QED BY <1>2, FlushCopies

(* A save memory of another size replaces the copy and its size            *)
(* (sram.cpp:77-83).                                                       *)
THEOREM FlushTakesNewSize ==
  ASSUME NEW m, NEW n \in Nat, m.length # n, NEW new, NEW offset, NEW length
  PROVE  Flush(m, new, n, offset, length) = [length |-> n, sram |-> new]
BY DEF Flush

-----------------------------------------------------------------------------
(* The inductive invariant *)

NoSession == {"out", "inited", "failed", "unloaded"}
Session == {"loaded", "primed", "running"}

\* Some task of the queue has this title.
Waits(title) == \E t \in Elements(tasks) : t.title = title

\* A queued firmware task is the one retro_reset will cancel, and it knows the file
\* of the console's type.
TasksReady ==
  phase # "faulted" =>
    /\ \A t \in Elements(tasks) : t.ident < nextIdent /\ (Ended(t) => t.title = "rumble")
    /\ phase \in NoSession \/ core.messageScreen => Elements(tasks) = {}
    /\ phase \in Session /\ ~core.messageScreen =>
         /\ Waits("firmware")
         /\ \A t \in Elements(tasks) :
              /\ t.title = "firmware" <=> t.ident = core.flushTaskId
              /\ t.title = "firmware" => t.path = core.console.type
    /\ phase = "shutdown" => ~Waits("firmware")
    /\ phase \in Session \cup {"shutdown"} /\ core.gbaManager.length > 0 => Waits("gba")

\* Which phases have a console, and which managers there are.
Life ==
  /\ fault \notin {"FlushFirmware", "OnScreenDisplayTask"}
  /\ phase # "faulted" =>
       /\ fault = None
       /\ phase \in {"out", "inited"} => core = NewCore
       /\ phase \in NoSession \cup {"shutdown"} => core.console = None
       /\ phase \in Session /\ ~core.messageScreen =>
            /\ core.console # None
            /\ core.nds = "game" <=> core.console.nds # NoSram
            /\ core.nds = "game" <=> core.ndsManager.length > 0
       /\ phase \notin NoSession /\ core.messageScreen =>
            core.console = None /\ core.ndsManager = NoManager /\ core.gbaManager = NoManager
       /\ phase \in {"loaded", "primed"} => ~core.ndsSramInstalled

\* Where the progress of a DS game is: in the save file, or in the memory the
\* frontend writes to it.
NdsHeld ==
  /\ phase \in NoSession \cup {"loaded"} => disk.nds = played.nds
  /\ phase \in {"primed", "running", "shutdown"} =>
       IF core.ndsManager.length > 0 THEN core.ndsManager.sram = played.nds
       ELSE disk.nds = played.nds
  /\ phase = "running" /\ core.ndsManager.length > 0 /\ core.console # None =>
       core.ndsManager.sram = core.console.nds

\* Where the bytes are that the game wrote to GBA save memory.
GbaHeld ==
  \A i \in played.gba :
    IF phase \in Session \cup {"shutdown"} /\ core.gbaManager.length > 0
    THEN /\ core.gbaManager.sram[i] = New
         /\ core.console # None /\ core.console.gba # NoSram => core.console.gba[i] = New
    ELSE phase # "faulted" => disk.gba[i] = New

\* Where the settings of each type of console are.
FirmwareHeld ==
  phase # "faulted" =>
    \A type \in ConsoleType :
      played.firmware[type] = IF core.console # None /\ core.console.type = type
                              THEN core.console.firmware
                              ELSE disk.firmware[type]

IInv == TypeOK /\ TasksReady /\ Life /\ NdsHeld /\ GbaHeld /\ FirmwareHeld

-----------------------------------------------------------------------------
(* The calls of task functions *)

State == [core : CoreType, disk : DiskType, fault : Fault \cup {None}]

\* What calls for the tasks in D may change between s and r: the timers, the GBA save
\* file, the files of firmware tasks.  What they must do: flush what has ended or is due.
Effect(s, r, D) ==
  /\ r \in State
  /\ r.core = [s.core EXCEPT !.gbaTimer = r.core.gbaTimer, !.firmwareTimer = r.core.firmwareTimer]
  /\ r.disk.nds = s.disk.nds /\ r.disk.title = s.disk.title
  /\ \/ r.disk.gba = s.disk.gba
     \/ s.core.gbaManager.length > 0 /\ r.disk.gba = s.core.gbaManager.sram
  /\ (\A t \in D : t.title # "gba") => r.core.gbaTimer = s.core.gbaTimer
  /\ s.core.gbaManager.length > 0
     /\ (\E t \in D : t.title = "gba" /\ (Ended(t) \/ s.core.gbaTimer = 0))
     => r.disk.gba = s.core.gbaManager.sram
  /\ \A p \in ConsoleType : r.disk.firmware[p] # s.disk.firmware[p] =>
       /\ s.core.console # None /\ r.disk.firmware[p] = s.core.console.firmware
       /\ \E t \in D : t.title = "firmware" /\ t.path = p
  /\ \A t \in D : t.title = "firmware" /\ t.path \in ConsoleType /\ Ended(t)
                  /\ s.core.console # None =>
       r.disk.firmware[t.path] = s.core.console.firmware
  /\ \/ r.fault = s.fault
     \/ s.core.console = None /\ \E t \in D : t.title = "firmware" \/ ~Ended(t)

LEMMA ManagerParts ==
  \A m \in ManagerType :
    /\ m.length \in Nat
    /\ m.length # 0 => m.length = SramLength /\ m.sram \in Sram /\ m = [length |-> SramLength, sram |-> m.sram]
    /\ m.length = 0 => m = NoManager
BY CoreAssumption DEF ManagerType, NoManager

LEMMA TickTyped == \A timer \in TimerType : Tick(timer) \in TimerType
BY CoreAssumption DEF Tick, Expired, TimerType

LEMMA CallEffect ==
  ASSUME NEW s \in State, NEW task \in TaskType
  PROVE  Effect(s, TaskCall(s, task), {task})
<1> DEFINE r == TaskCall(s, task)
<1> SUFFICES Effect(s, r, {task})
  OBVIOUS
<1>1. s.core \in CoreType /\ s.disk \in DiskType /\ s.fault \in Fault \cup {None}
  BY DEF State
<1>2. /\ s.core.gbaManager \in ManagerType /\ s.core.console \in ConsoleRecord \cup {None}
      /\ s.core.gbaTimer \in TimerType /\ s.core.firmwareTimer \in TimerType
  BY <1>1 DEF CoreType
<1>3. /\ s.core.gbaManager.length \in Nat
      /\ s.core.gbaManager.length > 0 => s.core.gbaManager.sram \in Sram
  BY <1>2, ManagerParts
<1>4. s.core.console # None => s.core.console.firmware \in Firmware
  BY <1>2 DEF ConsoleRecord
<1>5. task.title \in {"gba", "rumble", "power", "osd", "firmware"} /\ task.path \in ConsoleType
  BY DEF TaskType
<1>6. /\ Tick(s.core.gbaTimer) \in TimerType /\ Tick(s.core.firmwareTimer) \in TimerType
      /\ None \in TimerType
  BY <1>2, TickTyped DEF TimerType
<1>7. CASE task.title = "gba"
  <2> DEFINE due == Ended(task) \/ Expired(s.core.gbaTimer)
             x == IF Ended(task) THEN None ELSE Tick(s.core.gbaTimer)
             g == IF due /\ s.core.gbaManager.length # 0 THEN s.core.gbaManager.sram ELSE s.disk.gba
             q == [core |-> [s.core EXCEPT !.gbaTimer = x], disk |-> [s.disk EXCEPT !.gba = g],
                   fault |-> s.fault]
  <2>1. r.core = q.core /\ r.disk = q.disk /\ r.fault = q.fault
    BY <1>1, <1>7 DEF TaskCall, TaskCleanup, TaskHandler, FlushGbaSramTask, FlushGbaSram, State, CoreType, DiskType
  <2>2. r = [core |-> r.core, disk |-> r.disk, fault |-> r.fault]
    BY <1>1, <1>7 DEF TaskCall, TaskCleanup, TaskHandler, FlushGbaSramTask, FlushGbaSram, State
  <2>3. s.core.gbaTimer = 0 => Expired(s.core.gbaTimer)
    BY CoreAssumption DEF Expired
  <2>4. x \in TimerType /\ g \in Sram
    BY <1>1, <1>3, <1>6 DEF DiskType
  <2>5. q \in State
    BY <1>1, <2>4 DEF State, CoreType, DiskType
  <2> HIDE DEF r
  <2>6. r \in State
    BY <2>1, <2>2, <2>5 DEF State
  <2>7. /\ r.disk.gba = g /\ r.disk.firmware = s.disk.firmware /\ r.disk.nds = s.disk.nds
        /\ r.disk.title = s.disk.title /\ r.fault = s.fault
    BY <1>1, <2>1 DEF DiskType
  <2>8. /\ r.core.gbaTimer = x /\ r.core.firmwareTimer = s.core.firmwareTimer
        /\ r.core = [s.core EXCEPT !.gbaTimer = x, !.firmwareTimer = s.core.firmwareTimer]
    BY <1>1, <2>1 DEF CoreType
  <2>9. /\ g = s.disk.gba \/ (s.core.gbaManager.length > 0 /\ g = s.core.gbaManager.sram)
        /\ s.core.gbaManager.length > 0 /\ (Ended(task) \/ s.core.gbaTimer = 0)
             => g = s.core.gbaManager.sram
    BY <1>3, <2>3
  <2> HIDE DEF x, g, q
  <2> QED
    BY <1>7, <2>6, <2>7, <2>8, <2>9 DEF Effect
<1>8. CASE task.title = "firmware"
  <2> DEFINE due == Ended(task) \/ Expired(s.core.firmwareTimer)
             x == IF Ended(task) THEN None ELSE Tick(s.core.firmwareTimer)
             g == IF due /\ s.core.console # None
                  THEN [s.disk.firmware EXCEPT ![task.path] = s.core.console.firmware]
                  ELSE s.disk.firmware
             f == IF due /\ s.core.console = None THEN "FlushFirmware" ELSE s.fault
             q == [core |-> [s.core EXCEPT !.firmwareTimer = x],
                   disk |-> [s.disk EXCEPT !.firmware = g], fault |-> f]
  <2>1. r.core = q.core /\ r.disk = q.disk /\ r.fault = q.fault
    BY <1>1, <1>8 DEF TaskCall, TaskCleanup, TaskHandler, FlushFirmwareTask, FlushFirmware, State, CoreType, DiskType
  <2>2. r = [core |-> r.core, disk |-> r.disk, fault |-> r.fault]
    BY <1>1, <1>8 DEF TaskCall, TaskCleanup, TaskHandler, FlushFirmwareTask, FlushFirmware, State
  <2>4. x \in TimerType /\ g \in [ConsoleType -> Firmware] /\ f \in Fault \cup {None}
    BY <1>1, <1>4, <1>5, <1>6 DEF DiskType, Fault
  <2>5. q \in State
    BY <1>1, <2>4 DEF State, CoreType, DiskType
  <2> HIDE DEF r
  <2>6. r \in State
    BY <2>1, <2>2, <2>5 DEF State
  <2>7. s.disk.firmware \in [ConsoleType -> Firmware]
    BY <1>1 DEF DiskType
  <2>8. \A p \in ConsoleType : g[p] # s.disk.firmware[p] =>
          s.core.console # None /\ g[p] = s.core.console.firmware /\ p = task.path
    BY <1>5, <2>7
  <2>9. Ended(task) /\ s.core.console # None => g[task.path] = s.core.console.firmware
    BY <1>5, <2>7
  <2>10. r.disk.firmware = g /\ r.disk.gba = s.disk.gba /\ r.disk.nds = s.disk.nds
         /\ r.disk.title = s.disk.title
    BY <1>1, <2>1 DEF DiskType
  <2>11. /\ r.core.gbaTimer = s.core.gbaTimer /\ r.core.firmwareTimer = x
         /\ r.core = [s.core EXCEPT !.gbaTimer = s.core.gbaTimer, !.firmwareTimer = x]
    BY <1>1, <2>1 DEF CoreType
  <2>12. f # s.fault => s.core.console = None
    OBVIOUS
  <2>13. r.fault = f
    BY <2>1
  <2> HIDE DEF g, x, f
  <2> QED
    BY <1>8, <2>6, <2>8, <2>9, <2>10, <2>11, <2>12, <2>13 DEF Effect
<1>9. CASE task.title \notin {"gba", "firmware"}
  <2>1. r.core = s.core /\ r.disk = s.disk
        /\ \/ r.fault = s.fault
           \/ r.fault = "OnScreenDisplayTask" /\ s.core.console = None /\ ~Ended(task)
    BY <1>1, <1>5, <1>9 DEF TaskCall, TaskCleanup, TaskHandler, OnScreenDisplayTask, State
  <2>2. r \in State
    BY <1>1, <1>5, <1>9 DEF TaskCall, TaskCleanup, TaskHandler, OnScreenDisplayTask, State, Fault
  <2>3. s.core = [s.core EXCEPT !.gbaTimer = s.core.gbaTimer, !.firmwareTimer = s.core.firmwareTimer]
    BY <1>1 DEF CoreType
  <2> HIDE DEF r
  <2> QED
    BY <1>9, <2>1, <2>2, <2>3 DEF Effect
<1> QED
  BY <1>7, <1>8, <1>9

LEMMA NoEffect == ASSUME NEW s \in State PROVE Effect(s, s, {})
<1>1. s.core = [s.core EXCEPT !.gbaTimer = s.core.gbaTimer, !.firmwareTimer = s.core.firmwareTimer]
  BY DEF State, CoreType
<1> QED
  BY <1>1 DEF Effect

LEMMA EffectsAdd ==
  ASSUME NEW s \in State, NEW r, NEW q, NEW D, NEW E, Effect(s, r, D), Effect(r, q, E)
  PROVE  Effect(s, q, D \cup E)
<1>1. r \in State /\ q \in State
  BY DEF Effect
<1>2. /\ r.core.console = s.core.console /\ r.core.gbaManager = s.core.gbaManager
      /\ q.core = [s.core EXCEPT !.gbaTimer = q.core.gbaTimer, !.firmwareTimer = q.core.firmwareTimer]
  <2> DEFINE At(c, x, y) == [c EXCEPT !.gbaTimer = x, !.firmwareTimer = y]
  <2>1. ASSUME NEW c \in CoreType, NEW x, NEW y, NEW z, NEW w
        PROVE  /\ At(At(c, x, y), z, w) = At(c, z, w)
               /\ At(c, x, y).console = c.console /\ At(c, x, y).gbaManager = c.gbaManager
    BY DEF CoreType
  <2>2. /\ r.core = At(s.core, r.core.gbaTimer, r.core.firmwareTimer)
        /\ q.core = At(r.core, q.core.gbaTimer, q.core.firmwareTimer)
    BY DEF Effect
  <2>3. s.core \in CoreType
    BY DEF State
  <2> HIDE DEF At
  <2>4. q.core = At(s.core, q.core.gbaTimer, q.core.firmwareTimer)
    BY <2>1, <2>2, <2>3
  <2>5. r.core.console = s.core.console /\ r.core.gbaManager = s.core.gbaManager
    BY <2>1, <2>2, <2>3
  <2> QED
    BY <2>4, <2>5 DEF At
<1>3. \/ q.disk.gba = s.disk.gba
      \/ s.core.gbaManager.length > 0 /\ q.disk.gba = s.core.gbaManager.sram
  BY <1>2 DEF Effect
<1>4. (\A t \in D \cup E : t.title # "gba") => q.core.gbaTimer = s.core.gbaTimer
  BY DEF Effect
<1>5. ASSUME s.core.gbaManager.length > 0, NEW t \in D \cup E, t.title = "gba",
             Ended(t) \/ s.core.gbaTimer = 0
      PROVE  q.disk.gba = s.core.gbaManager.sram
  <2>1. q.disk.gba = r.disk.gba \/ q.disk.gba = s.core.gbaManager.sram
    BY <1>2 DEF Effect
  <2>2. CASE \E d \in D : d.title = "gba" /\ (Ended(d) \/ s.core.gbaTimer = 0)
    <3>1. r.disk.gba = s.core.gbaManager.sram
      BY <1>5, <2>2 DEF Effect
    <3> QED
      BY <2>1, <3>1
  <2>3. CASE \A d \in D : ~(d.title = "gba" /\ (Ended(d) \/ s.core.gbaTimer = 0))
    <3>1. t \in E
      BY <1>5, <2>3
    <3>2. ~Ended(t) => r.core.gbaTimer = 0
      BY <1>5, <2>3 DEF Effect
    <3>3. Ended(t) \/ r.core.gbaTimer = 0
      BY <3>2
    <3>4. r.core.gbaManager.length > 0
      BY <1>2, <1>5
    <3> QED
      BY <1>2, <1>5, <3>1, <3>3, <3>4 DEF Effect
  <2> QED
    BY <2>2, <2>3
<1>6. ASSUME NEW p \in ConsoleType, q.disk.firmware[p] # s.disk.firmware[p]
      PROVE  /\ s.core.console # None /\ q.disk.firmware[p] = s.core.console.firmware
             /\ \E t \in D \cup E : t.title = "firmware" /\ t.path = p
  <2>1. CASE q.disk.firmware[p] # r.disk.firmware[p]
    BY <1>2, <2>1 DEF Effect
  <2>2. CASE q.disk.firmware[p] = r.disk.firmware[p]
    BY <1>2, <1>6, <2>2 DEF Effect
  <2> QED
    BY <2>1, <2>2
<1>7. ASSUME NEW t \in D \cup E, t.title = "firmware", Ended(t), s.core.console # None,
             t.path \in ConsoleType
      PROVE  q.disk.firmware[t.path] = s.core.console.firmware
  <2>1. CASE t \in E
    BY <1>2, <1>7, <2>1 DEF Effect
  <2>2. CASE t \in D
    <3>1. r.disk.firmware[t.path] = s.core.console.firmware
      BY <1>7, <2>2 DEF Effect
    <3>2. q.disk.firmware[t.path] # r.disk.firmware[t.path] =>
            q.disk.firmware[t.path] = s.core.console.firmware
      BY <1>2, <1>7 DEF Effect
    <3> QED
      BY <3>1, <3>2
  <2> QED
    BY <2>1, <2>2
<1>8. \/ q.fault = s.fault
      \/ s.core.console = None /\ \E t \in D \cup E : t.title = "firmware" \/ ~Ended(t)
  BY <1>2 DEF Effect
<1>9. q.disk.nds = s.disk.nds /\ q.disk.title = s.disk.title
  BY DEF Effect
<1> QED
  BY <1>1, <1>2, <1>3, <1>4, <1>5, <1>6, <1>7, <1>8, <1>9 DEF Effect

\* What a check of the queue does, with any number of tasks.
LEMMA CheckEffect ==
  ASSUME NEW s \in State, NEW queue \in Seq(TaskType)
  PROVE  Effect(s, CheckTasks(s, queue), Elements(queue))
<1> DEFINE calls == Running(queue) \o CleanedUp(queue)
           n == Len(calls)
           Is(f) == f = [i \in 0..n |-> IF i = 0 THEN s ELSE TaskCall(f[i - 1], calls[i])]
           H == [a \in State \X (1..n) |-> TaskCall(a[1], calls[a[2]])]
<1>1. calls \in Seq(TaskType) /\ Elements(calls) = Elements(queue)
  <2>1. /\ Running(queue) \in Seq(TaskType) /\ CleanedUp(queue) \in Seq(TaskType)
        /\ Elements(Running(queue)) = {t \in Elements(queue) : Ended(t) <=> FALSE}
        /\ Elements(CleanedUp(queue)) = {t \in Elements(queue) : Ended(t) <=> TRUE}
    BY PartIs DEF Running, CleanedUp
  <2>2. calls \in Seq(TaskType)
        /\ Elements(calls) = Elements(Running(queue)) \cup Elements(CleanedUp(queue))
    BY <2>1, ElementsConcat, ZenonT(60)
  <2> QED
    BY <2>1, <2>2
<1>2. n \in Nat /\ DOMAIN calls = 1..n /\ \A i \in 1..n : calls[i] \in TaskType
  BY <1>1, LenProperties, ElementOfSeq
<1>3. \A r \in State : \A i \in 1..n : TaskCall(r, calls[i]) \in State
  BY <1>2, CallEffect DEF Effect
<1>4. H \in [State \X (1..n) -> State]
  BY <1>3
<1>5. \E f : Is(f)
  <2> HIDE DEF H, n, calls
  <2>1. Recursive(n, State, s, H) # {}
    BY <1>2, <1>4, Recursion, Zenon
  <2>2. PICK f \in [0..n -> State] : f[0] = s /\ \A i \in 1..n : f[i] = H[<<f[i - 1], i>>]
    BY <2>1 DEF Recursive
  <2>3. ASSUME NEW i \in 0..n, i # 0 PROVE f[i] = TaskCall(f[i - 1], calls[i])
    <3>1. i \in 1..n /\ f[i - 1] \in State
      BY <1>2, <2>3
    <3> QED
      BY <2>2, <3>1 DEF H
  <2>4. Is(f)
    BY <2>2, <2>3
  <2> QED
    BY <2>4
<1> DEFINE after == CHOOSE f : Is(f)
<1>6. Is(after)
  BY <1>5
<1>7. CheckTasks(s, queue) = after[n]
  BY DEF CheckTasks
<1> HIDE DEF after, calls
<1> DEFINE Upto(i) == {calls[j] : j \in 1..i}
           Good == {i \in 0..n : Effect(s, after[i], Upto(i))}
<1>8. 0 \in Good
  <2>1. Upto(0) = {} /\ after[0] = s /\ 0 \in 0..n
    BY <1>2, <1>6
  <2> QED
    BY <2>1, NoEffect
<1>9. ASSUME NEW i \in 1..n, i - 1 \in Good PROVE i \in Good
  <2>1. i \in 0..n /\ i # 0 /\ i - 1 \in 0..n
    BY <1>2
  <2>2. after[i] = TaskCall(after[i - 1], calls[i])
    BY <1>6, <2>1
  <2>3. Upto(i) = Upto(i - 1) \cup {calls[i]}
    <3>1. \A j \in 1..i : j \in 1..i - 1 \/ j = i
      BY <1>2
    <3>2. i \in 1..i /\ \A j \in 1..i - 1 : j \in 1..i
      BY <1>2
    <3> QED
      BY <3>1, <3>2, Zenon
  <2>4. Effect(s, after[i - 1], Upto(i - 1))
    BY <1>9
  <2> HIDE DEF Upto
  <2>5. after[i - 1] \in State /\ calls[i] \in TaskType
    BY <1>2, <2>4 DEF Effect
  <2>6. Effect(after[i - 1], after[i], {calls[i]})
    BY <2>2, <2>5, CallEffect
  <2>7. Effect(s, after[i], Upto(i - 1) \cup {calls[i]})
    BY <2>4, <2>6, EffectsAdd
  <2> QED
    BY <2>1, <2>3, <2>7
<1>10. n \in Good
  <2> HIDE DEF Good, n
  <2>1. n \in 0..n
    BY <1>2
  <2> QED
    BY <1>2, <1>8, <1>9, <2>1, UpTo
<1>11. Upto(n) = Elements(calls)
  BY <1>2 DEF Elements
<1> QED
  BY <1>1, <1>7, <1>10, <1>11

\* The parts of the state no task touches.
LEMMA EffectKeeps ==
  ASSUME NEW s \in State, NEW r, NEW D, Effect(s, r, D)
  PROVE  /\ r.core \in CoreType /\ r.disk \in DiskType /\ r.fault \in Fault \cup {None}
         /\ r.core.console = s.core.console
         /\ r.core.nds = s.core.nds /\ r.core.gba = s.core.gba
         /\ r.core.messageScreen = s.core.messageScreen
         /\ r.core.ndsSramInstalled = s.core.ndsSramInstalled
         /\ r.core.ndsManager = s.core.ndsManager /\ r.core.gbaManager = s.core.gbaManager
         /\ r.core.flushTaskId = s.core.flushTaskId
<1>1. s.core \in CoreType /\ r \in State
  BY DEF State, Effect
<1>2. PICK x, y : r.core = [s.core EXCEPT !.gbaTimer = x, !.firmwareTimer = y]
  BY DEF Effect
<1> QED
  BY <1>1, <1>2 DEF State, CoreType

-----------------------------------------------------------------------------
(* Queues of tasks *)

LEMMA SequenceIsFunction == \A S : \A n \in Nat : \A f \in [1..n -> S] : f \in Seq(S) /\ Len(f) = n
OBVIOUS

LEMMA MapQueue ==
  ASSUME NEW queue \in Seq(TaskType), NEW F \in [TaskType -> TaskType], NEW new,
         new = [i \in DOMAIN queue |-> F[queue[i]]]
  PROVE  new \in Seq(TaskType) /\ Elements(new) = {F[t] : t \in Elements(queue)}
<1>1. Len(queue) \in Nat /\ DOMAIN queue = 1..Len(queue) /\ \A i \in 1..Len(queue) : queue[i] \in TaskType
  BY LenProperties, ElementOfSeq
<1>2. new \in [1..Len(queue) -> TaskType]
  BY <1>1
<1>3. new \in Seq(TaskType)
  BY <1>1, <1>2, SequenceIsFunction, Zenon
<1>4. DOMAIN new = DOMAIN queue /\ \A i \in DOMAIN queue : new[i] = F[queue[i]]
  OBVIOUS
<1>5. \A t \in Elements(new) : \E u \in Elements(queue) : t = F[u]
  BY <1>4 DEF Elements
<1>6. \A u \in Elements(queue) : F[u] \in Elements(new)
  BY <1>4 DEF Elements
<1> QED
  BY <1>3, <1>5, <1>6

LEMMA CancelledAll ==
  ASSUME NEW queue \in Seq(TaskType)
  PROVE  /\ CancelAll(queue) \in Seq(TaskType)
         /\ \A t \in Elements(CancelAll(queue)) : Ended(t)
         /\ \A t \in Elements(CancelAll(queue)) :
              \E u \in Elements(queue) : u.title = t.title /\ u.path = t.path
         /\ \A u \in Elements(queue) :
              \E t \in Elements(CancelAll(queue)) : u.title = t.title /\ u.path = t.path
<1> DEFINE F == [t \in TaskType |-> [t EXCEPT !.cancelled = TRUE]]
<1>1. Len(queue) \in Nat /\ DOMAIN queue = 1..Len(queue) /\ \A i \in 1..Len(queue) : queue[i] \in TaskType
  BY LenProperties, ElementOfSeq
<1>2. F \in [TaskType -> TaskType]
  BY DEF TaskType
<1>3. \A t \in TaskType : Ended(F[t]) /\ F[t].title = t.title /\ F[t].path = t.path
  BY DEF TaskType, Ended
<1>4. CancelAll(queue) = [i \in DOMAIN queue |-> F[queue[i]]]
  BY <1>1 DEF CancelAll
<1> HIDE DEF F
<1>5. CancelAll(queue) \in Seq(TaskType) /\ Elements(CancelAll(queue)) = {F[t] : t \in Elements(queue)}
  BY <1>2, <1>4, MapQueue
<1>6. \A t \in Elements(queue) : t \in TaskType
  BY ElementsTyped, Zenon
<1> QED
  BY <1>3, <1>5, <1>6

LEMMA CancelledFound ==
  ASSUME NEW queue \in Seq(TaskType), NEW ident
  PROVE  /\ CancelFound(queue, ident) \in Seq(TaskType)
         /\ \A u \in Elements(queue) : u.ident # ident => u \in Elements(CancelFound(queue, ident))
         /\ \A u \in Elements(queue) : u.ident = ident =>
              \E t \in Elements(CancelFound(queue, ident)) :
                Ended(t) /\ t.title = u.title /\ t.path = u.path
         /\ \A t \in Elements(CancelFound(queue, ident)) :
              \/ t \in Elements(queue) /\ t.ident # ident
              \/ Ended(t) /\ \E u \in Elements(queue) :
                   u.ident = ident /\ t.title = u.title /\ t.path = u.path
<1> DEFINE F == [t \in TaskType |-> IF t.ident = ident THEN [t EXCEPT !.cancelled = TRUE] ELSE t]
<1>1. Len(queue) \in Nat /\ DOMAIN queue = 1..Len(queue) /\ \A i \in 1..Len(queue) : queue[i] \in TaskType
  BY LenProperties, ElementOfSeq
<1>2. F \in [TaskType -> TaskType]
  BY DEF TaskType
<1>3. \A t \in TaskType :
        /\ t.ident # ident => F[t] = t
        /\ t.ident = ident => Ended(F[t]) /\ F[t].title = t.title /\ F[t].path = t.path
  BY DEF TaskType, Ended
<1>4. CancelFound(queue, ident) = [i \in DOMAIN queue |-> F[queue[i]]]
  BY <1>1 DEF CancelFound
<1> HIDE DEF F
<1>5. /\ CancelFound(queue, ident) \in Seq(TaskType)
      /\ Elements(CancelFound(queue, ident)) = {F[t] : t \in Elements(queue)}
  BY <1>2, <1>4, MapQueue
<1>6. \A t \in Elements(queue) : t \in TaskType
  BY ElementsTyped, Zenon
<1> QED
  BY <1>3, <1>5, <1>6

LEMMA FinishedFound ==
  ASSUME NEW queue \in Seq(TaskType), NEW title
  PROVE  /\ FinishFound(queue, title) \in Seq(TaskType)
         /\ \A u \in Elements(queue) : u.title # title => u \in Elements(FinishFound(queue, title))
         /\ \A t \in Elements(FinishFound(queue, title)) :
              \E u \in Elements(queue) : t.ident = u.ident /\ t.title = u.title /\ t.path = u.path
                 /\ (t = u \/ t.title = title)
<1> DEFINE F == [t \in TaskType |-> IF t.title = title THEN [t EXCEPT !.finished = TRUE] ELSE t]
<1>1. Len(queue) \in Nat /\ DOMAIN queue = 1..Len(queue) /\ \A i \in 1..Len(queue) : queue[i] \in TaskType
  BY LenProperties, ElementOfSeq
<1>2. F \in [TaskType -> TaskType]
  BY DEF TaskType
<1>3. \A t \in TaskType :
        /\ t.title # title => F[t] = t
        /\ F[t].ident = t.ident /\ F[t].title = t.title /\ F[t].path = t.path
        /\ F[t] = t \/ t.title = title
  BY DEF TaskType
<1>4. FinishFound(queue, title) = [i \in DOMAIN queue |-> F[queue[i]]]
  BY <1>1 DEF FinishFound
<1> HIDE DEF F
<1>5. /\ FinishFound(queue, title) \in Seq(TaskType)
      /\ Elements(FinishFound(queue, title)) = {F[t] : t \in Elements(queue)}
  BY <1>2, <1>4, MapQueue
<1>6. \A t \in Elements(queue) : t \in TaskType
  BY ElementsTyped, Zenon
<1> QED
  BY <1>3, <1>5, <1>6

Optional == {"gba", "rumble", "power", "osd"}

LEMMA IfIs ==
  ASSUME NEW condition \in BOOLEAN, NEW title \in Optional
  PROVE  /\ If(condition, title) \in Seq(Optional)
         /\ condition => Elements(If(condition, title)) = {title}
<1>1. CASE condition
  <2>1. If(condition, title) = <<title>> /\ Len(<<title>>) = 1 /\ DOMAIN <<title>> = 1..1 /\ <<title>>[1] = title
    BY <1>1 DEF If
  <2>2. <<title>> \in Seq(Optional)
    OBVIOUS
  <2> QED
    BY <2>1, <2>2 DEF Elements
<1>2. CASE ~condition
  BY <1>2, EmptySeq DEF If
<1> QED
  BY <1>1, <1>2

\* What LoadGame pushes: the firmware task once, at the end, and the GBA task with a
\* GBA manager.
LEMMA TitlesFor ==
  ASSUME NEW c, c.gbaManager.length \in Nat, c.console.rumblePak \in BOOLEAN
  PROVE  \E front \in Seq(Optional) :
           /\ TasksFor(c) = front \o <<"firmware">>
           /\ c.gbaManager.length > 0 => "gba" \in Elements(front)
<1> DEFINE a == If(c.gbaManager.length > 0, "gba")
           b == If(c.console.rumblePak, "rumble")
           d == If("power" \in HostTasks, "power")
           e == If("osd" \in HostTasks, "osd")
<1>1. /\ a \in Seq(Optional) /\ b \in Seq(Optional) /\ d \in Seq(Optional) /\ e \in Seq(Optional)
      /\ c.gbaManager.length > 0 => "gba" \in Elements(a)
  <2>1. (c.gbaManager.length > 0) \in BOOLEAN /\ ("power" \in HostTasks) \in BOOLEAN
        /\ ("osd" \in HostTasks) \in BOOLEAN
    OBVIOUS
  <2>2. "gba" \in Optional /\ "rumble" \in Optional /\ "power" \in Optional /\ "osd" \in Optional
    BY DEF Optional
  <2> QED
    BY <2>1, <2>2, IfIs
<1> DEFINE ab == a \o b
           abd == ab \o d
           front == abd \o e
<1>2. TasksFor(c) = front \o <<"firmware">>
  BY DEF TasksFor
<1> HIDE DEF a, b, d, e
<1>3. ab \in Seq(Optional) /\ Elements(ab) = Elements(a) \cup Elements(b)
  BY <1>1, ElementsConcat, Zenon
<1> HIDE DEF ab
<1>4. abd \in Seq(Optional) /\ Elements(abd) = Elements(ab) \cup Elements(d)
  <2>1. ab \in Seq(Optional) /\ d \in Seq(Optional)
    BY <1>1, <1>3
  <2> QED
    BY <2>1, ElementsConcat, Zenon
<1> HIDE DEF abd
<1>5. front \in Seq(Optional) /\ Elements(front) = Elements(abd) \cup Elements(e)
  <2>1. abd \in Seq(Optional) /\ e \in Seq(Optional)
    BY <1>1, <1>4
  <2> QED
    BY <2>1, ElementsConcat, Zenon
<1> HIDE DEF front
<1>6. c.gbaManager.length > 0 => "gba" \in Elements(front)
  BY <1>1, <1>3, <1>4, <1>5
<1> QED
  BY <1>2, <1>5, <1>6, Zenon

\* The queue of a session: identifiers up to last, which is the firmware task's.
AreLoaded(new, c, path, last) ==
  /\ new \in Seq(TaskType) /\ last \in Nat
  /\ \A t \in Elements(new) :
       /\ t.ident < last + 1 /\ ~Ended(t) /\ t.path = path
       /\ t.title = "firmware" <=> t.ident = last
  /\ \E t \in Elements(new) : t.title = "firmware"
  /\ c.gbaManager.length > 0 => \E t \in Elements(new) : t.title = "gba"

LEMMA LoadedTasks ==
  ASSUME NEW c, c.gbaManager.length \in Nat, c.console.rumblePak \in BOOLEAN,
         NEW ident \in Nat, NEW path \in ConsoleType, NEW new,
         new = TasksFrom(ident, TasksFor(c), path), NEW last, last = ident + Len(TasksFor(c)) - 1
  PROVE  AreLoaded(new, c, path, last)
<1>1. PICK front \in Seq(Optional) :
        /\ TasksFor(c) = front \o <<"firmware">>
        /\ c.gbaManager.length > 0 => "gba" \in Elements(front)
  BY TitlesFor
<1> DEFINE titles == TasksFor(c)
           m == Len(front)
           Titles == {"gba", "rumble", "power", "osd", "firmware"}
<1>2. m \in Nat /\ DOMAIN front = 1..m /\ \A i \in 1..m : front[i] \in Optional
  BY LenProperties, ElementOfSeq
<1>3. /\ titles \in Seq(Titles) /\ Len(titles) = m + 1 /\ DOMAIN titles = 1..m + 1
      /\ \A i \in 1..m : titles[i] = front[i]
      /\ titles[m + 1] = "firmware"
  <2>1. /\ Len(<<"firmware">>) = 1 /\ <<"firmware">>[1] = "firmware" /\ <<"firmware">> \in Seq(Titles)
    OBVIOUS
  <2>2. front \in Seq(Titles)
    <3>1. front \in [1..m -> Titles]
      BY <1>2 DEF Optional
    <3> QED
      BY <1>2, <3>1, SequenceIsFunction, Zenon
  <2>3. /\ titles \in Seq(Titles) /\ Len(titles) = m + 1
        /\ \A i \in 1..m + 1 : titles[i] = IF i <= m THEN front[i] ELSE <<"firmware">>[i - m]
    BY <1>1, <2>1, <2>2, ConcatProperties
  <2>4. DOMAIN titles = 1..m + 1
    BY <2>3, LenProperties
  <2> HIDE DEF titles, m
  <2>5. \A i \in 1..m : titles[i] = front[i]
    BY <1>2, <2>3
  <2>6. m + 1 \in 1..m + 1 /\ ~(m + 1 <= m) /\ (m + 1) - m = 1
    BY <1>2
  <2>7. titles[m + 1] = "firmware"
    BY <2>1, <2>3, <2>6
  <2> QED
    BY <2>3, <2>4, <2>5, <2>7
<1>4. new = [i \in 1..m + 1 |-> NewTask(ident + i - 1, titles[i], path)]
  BY <1>3 DEF TasksFrom
<1> HIDE DEF titles, m
<1>5. /\ m + 1 \in Nat
      /\ \A i \in 1..m + 1 : i \in 1..m \/ i = m + 1
      /\ \A i \in 1..m : i \in 1..m + 1
      /\ m + 1 \in 1..m + 1
  <2>1. \A i \in 1..m + 1 : i \in 1..m \/ i = m + 1
    BY <1>2, OneMore, Zenon
  <2> QED
    BY <1>2, <2>1
<1>6. last = ident + m /\ last \in Nat
  BY <1>2, <1>3 DEF titles
<1>7. \A i \in 1..m + 1 : titles[i] \in Titles
  BY <1>2, <1>3, <1>5 DEF Optional
<1>8. new \in [1..m + 1 -> TaskType]
  <2>1. \A i \in 1..m + 1 : NewTask(ident + i - 1, titles[i], path) \in TaskType
    BY <1>2, <1>7 DEF NewTask, TaskType
  <2> QED
    BY <1>4, <2>1
<1>9. new \in Seq(TaskType)
  BY <1>5, <1>8, SequenceIsFunction, Zenon
<1>10. ASSUME NEW i \in 1..m + 1
       PROVE  /\ new[i].ident < last + 1 /\ ~Ended(new[i]) /\ new[i].path = path
              /\ new[i].title = titles[i]
              /\ new[i].title = "firmware" <=> new[i].ident = last
  <2>1. /\ new[i].ident = ident + i - 1 /\ ~Ended(new[i]) /\ new[i].path = path
        /\ new[i].title = titles[i]
    BY <1>4 DEF NewTask, Ended
  <2>2. CASE i = m + 1
    BY <1>2, <1>3, <1>6, <2>1, <2>2
  <2>3. CASE i \in 1..m
    <3>1. titles[i] # "firmware"
      BY <1>2, <1>3, <2>3 DEF Optional
    <3>2. new[i].ident < last
      BY <1>2, <1>6, <2>1, <2>3
    <3> QED
      BY <1>6, <2>1, <3>1, <3>2
  <2> QED
    BY <1>5, <2>2, <2>3
<1>11. DOMAIN new = 1..m + 1
  BY <1>4
<1>12. \E t \in Elements(new) : t.title = "firmware"
  BY <1>3, <1>5, <1>10, <1>11 DEF Elements
<1>13. ASSUME c.gbaManager.length > 0 PROVE \E t \in Elements(new) : t.title = "gba"
  <2>1. PICK i \in 1..m : front[i] = "gba"
    BY <1>1, <1>2, <1>13 DEF Elements
  <2>2. i \in 1..m + 1 /\ titles[i] = "gba"
    BY <1>3, <1>5, <2>1
  <2> QED
    BY <1>10, <1>11, <2>2 DEF Elements
<1>14. \A t \in Elements(new) :
         /\ t.ident < last + 1 /\ ~Ended(t) /\ t.path = path
         /\ t.title = "firmware" <=> t.ident = last
  BY <1>10, <1>11 DEF Elements
<1> QED
  BY <1>6, <1>9, <1>12, <1>13, <1>14 DEF AreLoaded

-----------------------------------------------------------------------------
(* A frame *)

LEMMA SramNotEmpty == \A sram \in Sram : sram # NoSram
<1>1. 0 \in Cells
  BY CoreAssumption DEF Cells
<1>2. \A sram \in Sram : 0 \in DOMAIN sram
  BY <1>1 DEF Sram
<1>3. DOMAIN NoSram = {}
  BY DEF NoSram
<1> QED
  BY <1>2, <1>3

LEMMA InstallIs ==
  ASSUME NEW c \in CoreType, c.console # None, NEW d, d = InstallNdsSram(c)
  PROVE  /\ d \in CoreType /\ d.console \in ConsoleRecord
         /\ d.console = [c.console EXCEPT !.nds =
              IF c.ndsSramInstalled \/ c.ndsManager.length = 0 THEN c.console.nds
              ELSE c.ndsManager.sram]
         /\ d = [c EXCEPT !.console = d.console, !.ndsSramInstalled = TRUE]
<1>1. c.console \in ConsoleRecord /\ c.ndsManager \in ManagerType
  BY DEF CoreType
<1>2. c.ndsManager.length # 0 => c.ndsManager.sram \in Sram
  BY <1>1, ManagerParts
<1>3. CASE c.ndsSramInstalled \/ c.ndsManager.length = 0
  <2>1. d = [c EXCEPT !.ndsSramInstalled = TRUE]
    BY <1>3 DEF InstallNdsSram
  <2>2. d.console = c.console
    BY <2>1 DEF CoreType
  <2>3. c.console = [c.console EXCEPT !.nds = c.console.nds]
    BY <1>1 DEF ConsoleRecord
  <2>4. d \in CoreType
    BY <2>1 DEF CoreType
  <2>5. d = [c EXCEPT !.console = c.console, !.ndsSramInstalled = TRUE]
    BY <2>1 DEF CoreType
  <2> QED
    BY <1>1, <1>3, <2>2, <2>3, <2>4, <2>5
<1>4. CASE ~(c.ndsSramInstalled \/ c.ndsManager.length = 0)
  <2> DEFINE k == [c.console EXCEPT !.nds = c.ndsManager.sram]
  <2>1. k \in ConsoleRecord
    BY <1>1, <1>2, <1>4 DEF ConsoleRecord
  <2>2. d = [c EXCEPT !.console = k, !.ndsSramInstalled = TRUE]
    BY <1>4 DEF InstallNdsSram, CoreType
  <2> HIDE DEF k
  <2>3. d \in CoreType /\ d.console = k
    BY <2>1, <2>2 DEF CoreType
  <2> QED
    BY <1>4, <2>1, <2>2, <2>3 DEF k
<1> QED
  BY <1>3, <1>4

Written(sram, w) ==
  [i \in Cells |-> IF i \in Touched(SramLength, w.offset, w.length) THEN New ELSE sram[i]]

LEMMA WrittenTyped == \A sram \in Sram : \A w : Written(sram, w) \in Sram
BY DEF Written, Sram, Byte

LEMMA WritesAre ==
  ASSUME NEW w \in GameWrite
  PROVE  /\ w.memory \in {"nds", "gba", "firmware", "nothing"}
         /\ w.memory \in {"nds", "gba"} =>
              /\ w.offset \in Cells /\ w.length \in 1..SramLength
              /\ w.offset \in 0..SramLength - 1 /\ w.length \in Nat
BY CoreAssumption DEF GameWrite, Cells

LEMMA FlushIs ==
  ASSUME NEW offset \in Cells, NEW length \in Nat, NEW old, NEW new, NEW m,
         m = [length |-> SramLength, sram |-> old]
  PROVE  Flush(m, new, SramLength, offset, length)
           = [length |-> SramLength, sram |-> [i \in Cells |->
                IF i \in Touched(SramLength, offset, length) THEN new[i] ELSE old[i]]]
<1>1. SramLength \in Nat \ {0} /\ offset \in 0..SramLength - 1
  BY CoreAssumption DEF Cells
<1> QED
  BY <1>1, FlushCopies, SMTT(30) DEF Cells

LEMMA NdsWriteIs ==
  ASSUME NEW c \in CoreType, c.console # None, c.console.nds # NoSram,
         c.ndsManager.length > 0, c.ndsManager.sram = c.console.nds,
         NEW w \in GameWrite, w.memory = "nds", NEW d, d = AfterWrite(c, w)
  PROVE  /\ d \in CoreType
         /\ d.console = [c.console EXCEPT !.nds = Written(c.console.nds, w)]
         /\ d.ndsManager = [length |-> SramLength, sram |-> d.console.nds]
         /\ d = [c EXCEPT !.console = d.console, !.ndsManager = d.ndsManager]
<1> DEFINE new == Written(c.console.nds, w)
           k == [c.console EXCEPT !.nds = new]
<1>1. c.console \in ConsoleRecord /\ c.ndsManager \in ManagerType /\ c.console.nds \in Sram
  BY DEF CoreType, ConsoleRecord
<1>2. new \in Sram
  BY <1>1, WrittenTyped
<1>3. k \in ConsoleRecord /\ k.nds = new
  BY <1>1, <1>2 DEF ConsoleRecord
<1>4. c.ndsManager = [length |-> SramLength, sram |-> c.console.nds] /\ c.ndsManager.length # 0
  BY <1>1, ManagerParts
<1>5. Flush(c.ndsManager, new, SramLength, w.offset, w.length) = [length |-> SramLength, sram |-> new]
  <2> DEFINE old == c.console.nds
             offset == w.offset
             length == w.length
             m == c.ndsManager
  <2>1. offset \in Cells /\ length \in Nat
    BY WritesAre
  <2>2. [i \in Cells |-> IF i \in Touched(SramLength, offset, length) THEN new[i] ELSE old[i]] = new
    BY DEF Written
  <2>3. m = [length |-> SramLength, sram |-> old]
    BY <1>4
  <2> HIDE DEF new, offset, length, old, m
  <2>4. Flush(m, new, SramLength, offset, length)
          = [length |-> SramLength, sram |-> [i \in Cells |->
               IF i \in Touched(SramLength, offset, length) THEN new[i] ELSE old[i]]]
    BY <2>1, <2>3, FlushIs
  <2> QED
    BY <2>2, <2>4 DEF offset, length, m
<1>6. d = WriteNdsSave([c EXCEPT !.console = k], w.offset, w.length)
  <2>1. k = [c.console EXCEPT !.nds = [i \in Cells |->
              IF i \in Touched(SramLength, w.offset, w.length) THEN New ELSE c.console.nds[i]]]
    BY DEF Written
  <2>2. d = WriteNdsSave([c EXCEPT !.console.nds = [i \in Cells |->
              IF i \in Touched(SramLength, w.offset, w.length) THEN New ELSE c.console.nds[i]]],
              w.offset, w.length)
    BY DEF AfterWrite
  <2> HIDE DEF k, new
  <2> QED
    BY <1>1, <2>1, <2>2 DEF CoreType, ConsoleRecord
<1> HIDE DEF k, new
<1>7. d = [c EXCEPT !.console = k, !.ndsManager = [length |-> SramLength, sram |-> new]]
  BY <1>3, <1>4, <1>5, <1>6 DEF WriteNdsSave, CoreType
<1>8. d.console = k /\ d.ndsManager = [length |-> SramLength, sram |-> new]
  BY <1>7 DEF CoreType
<1>9. [length |-> SramLength, sram |-> new] \in ManagerType
  BY <1>2 DEF ManagerType
<1>10. d \in CoreType
  BY <1>3, <1>7, <1>9 DEF CoreType
<1> QED
  BY <1>3, <1>7, <1>8, <1>10 DEF k, new

LEMMA GbaWriteIs ==
  ASSUME NEW c \in CoreType, c.console # None, c.console.gba # NoSram,
         NEW w \in GameWrite, w.memory = "gba", NEW d, d = AfterWrite(c, w)
  PROVE  /\ d \in CoreType
         /\ d.console \in ConsoleRecord /\ d.console.gba = Written(c.console.gba, w)
         /\ d.console.type = c.console.type /\ d.console.nds = c.console.nds
         /\ d.console.firmware = c.console.firmware
         /\ d.nds = c.nds /\ d.messageScreen = c.messageScreen /\ d.flushTaskId = c.flushTaskId
         /\ d.ndsManager = c.ndsManager
         /\ c.gbaManager.length > 0 =>
              d.gbaManager = [length |-> SramLength, sram |-> Written(c.gbaManager.sram, w)]
<1> DEFINE new == Written(c.console.gba, w)
           k == [c.console EXCEPT !.gba = new]
           m == [length |-> SramLength, sram |-> Written(c.gbaManager.sram, w)]
<1>1. c.console \in ConsoleRecord /\ c.gbaManager \in ManagerType /\ c.console.gba \in Sram
  BY DEF CoreType, ConsoleRecord
<1>2. new \in Sram
  BY <1>1, WrittenTyped
<1>3. k \in ConsoleRecord /\ k.gba = new
  BY <1>1, <1>2 DEF ConsoleRecord
<1>4. d = WriteGbaSave([c EXCEPT !.console = k], w.offset, w.length)
  <2>1. k = [c.console EXCEPT !.gba = [i \in Cells |->
              IF i \in Touched(SramLength, w.offset, w.length) THEN New ELSE c.console.gba[i]]]
    BY DEF Written
  <2>2. d = WriteGbaSave([c EXCEPT !.console.gba = [i \in Cells |->
              IF i \in Touched(SramLength, w.offset, w.length) THEN New ELSE c.console.gba[i]]],
              w.offset, w.length)
    BY DEF AfterWrite
  <2> HIDE DEF k, new
  <2> QED
    BY <1>1, <2>1, <2>2 DEF CoreType, ConsoleRecord
<1>others. k.type = c.console.type /\ k.nds = c.console.nds /\ k.firmware = c.console.firmware
  BY <1>1 DEF ConsoleRecord
<1>5. CASE c.gbaManager.length = 0
  <2> HIDE DEF k
  <2>1. d = [c EXCEPT !.console = k]
    BY <1>4, <1>5 DEF WriteGbaSave, CoreType
  <2>2. d.console = k /\ d \in CoreType
        /\ d.nds = c.nds /\ d.messageScreen = c.messageScreen /\ d.flushTaskId = c.flushTaskId
        /\ d.ndsManager = c.ndsManager
    BY <1>3, <2>1 DEF CoreType
  <2> QED
    BY <1>3, <1>others, <1>5, <2>2
<1>6. CASE c.gbaManager.length # 0
  <2>1. /\ c.gbaManager = [length |-> SramLength, sram |-> c.gbaManager.sram]
        /\ c.gbaManager.sram \in Sram /\ c.gbaManager.length = SramLength
    BY <1>1, <1>6, ManagerParts
  <2>2. Flush(c.gbaManager, new, SramLength, w.offset, w.length) = m
    <3> DEFINE old == c.gbaManager.sram
               offset == w.offset
               length == w.length
               g == c.gbaManager
    <3>1. offset \in Cells /\ length \in Nat
      BY WritesAre
    <3>2. [i \in Cells |-> IF i \in Touched(SramLength, offset, length) THEN new[i] ELSE old[i]]
            = Written(old, w)
      BY DEF Written
    <3>3. g = [length |-> SramLength, sram |-> old]
      BY <2>1
    <3> HIDE DEF new, offset, length, old, g
    <3>4. Flush(g, new, SramLength, offset, length)
            = [length |-> SramLength, sram |-> [i \in Cells |->
                 IF i \in Touched(SramLength, offset, length) THEN new[i] ELSE old[i]]]
      BY <3>1, <3>3, FlushIs
    <3> QED
      BY <3>2, <3>4 DEF offset, length, old, g
  <2>3. m \in ManagerType
    BY <2>1, WrittenTyped DEF ManagerType
  <2> HIDE DEF k, new, m
  <2>4. d = [c EXCEPT !.console = k, !.gbaManager = m, !.gbaTimer = FlushDelay]
    BY <1>3, <1>4, <1>6, <2>2 DEF WriteGbaSave, CoreType
  <2>5. /\ d.console = k /\ d.gbaManager = m
        /\ d.nds = c.nds /\ d.messageScreen = c.messageScreen /\ d.flushTaskId = c.flushTaskId
        /\ d.ndsManager = c.ndsManager
    BY <2>4 DEF CoreType
  <2>6. FlushDelay \in TimerType
    BY CoreAssumption DEF TimerType
  <2>7. d \in CoreType
    BY <1>3, <2>3, <2>4, <2>6 DEF CoreType
  <2> QED
    BY <1>3, <1>others, <2>5, <2>7 DEF new, m
<1> QED
  BY <1>5, <1>6

LEMMA FirmwareWriteIs ==
  ASSUME NEW c \in CoreType, c.console # None,
         NEW w \in GameWrite, w.memory = "firmware", NEW d, d = AfterWrite(c, w)
  PROVE  /\ d \in CoreType /\ d.console \in ConsoleRecord
         /\ d.console.type = c.console.type /\ d.console.nds = c.console.nds
         /\ d.console.gba = c.console.gba
         /\ d.nds = c.nds /\ d.messageScreen = c.messageScreen /\ d.flushTaskId = c.flushTaskId
         /\ d.ndsManager = c.ndsManager /\ d.gbaManager = c.gbaManager
<1> DEFINE new == [c.console.firmware EXCEPT !.version = 1 - @]
           k == [c.console EXCEPT !.firmware = new]
<1>1. c.console \in ConsoleRecord /\ c.console.firmware \in Firmware
  BY DEF CoreType, ConsoleRecord
<1>2. new \in Firmware
  BY <1>1 DEF Firmware
<1>3. k \in ConsoleRecord /\ k.firmware = new
  BY <1>1, <1>2 DEF ConsoleRecord
<1>4. d = WriteFirmware([c EXCEPT !.console = k])
  BY <1>1 DEF AfterWrite, CoreType, ConsoleRecord
<1> HIDE DEF k, new
<1>5. d = [c EXCEPT !.console = k, !.firmwareTimer = FlushDelay]
  BY <1>4 DEF WriteFirmware, CoreType
<1>6. d.console = k
  BY <1>5 DEF CoreType
<1>7. FlushDelay \in TimerType
  BY CoreAssumption DEF TimerType
<1>8. d \in CoreType
  BY <1>3, <1>5, <1>7 DEF CoreType
<1>9. /\ d.nds = c.nds /\ d.messageScreen = c.messageScreen /\ d.flushTaskId = c.flushTaskId
      /\ d.ndsManager = c.ndsManager /\ d.gbaManager = c.gbaManager
  BY <1>5 DEF CoreType
<1>10. k.type = c.console.type /\ k.nds = c.console.nds /\ k.gba = c.console.gba
  BY <1>1 DEF k, ConsoleRecord
<1> QED
  BY <1>3, <1>6, <1>8, <1>9, <1>10

\* What the invariant says of a session that has a console.
LEMMA SessionHas ==
  ASSUME IInv, phase \in Session, ~core.messageScreen
  PROVE  /\ core \in CoreType /\ disk \in DiskType /\ fault = None
         /\ core.console \in ConsoleRecord /\ core.console # None
         /\ core.console.type \in ConsoleType
         /\ core.nds = "game" <=> core.console.nds # NoSram
         /\ core.nds = "game" <=> core.ndsManager.length > 0
         /\ core.ndsManager \in ManagerType /\ core.gbaManager \in ManagerType
         /\ core.ndsManager.length \in Nat /\ core.gbaManager.length \in Nat
         /\ core.ndsManager.length > 0 => core.ndsManager.sram \in Sram
         /\ core.gbaManager.length > 0 => core.gbaManager.sram \in Sram
         /\ played.nds \in Sram /\ played.gba \subseteq Cells
         /\ played.firmware \in [ConsoleType -> Firmware]
         /\ played = [nds |-> played.nds, gba |-> played.gba, firmware |-> played.firmware]
<1>1. /\ core \in CoreType /\ disk \in DiskType /\ fault = None
      /\ core.console # None
      /\ core.nds = "game" <=> core.console.nds # NoSram
      /\ core.nds = "game" <=> core.ndsManager.length > 0
  BY DEF IInv, TypeOK, Life, Session
<1>2. core.ndsManager \in ManagerType /\ core.gbaManager \in ManagerType
  BY <1>1 DEF CoreType
<1>3. /\ core.ndsManager.length \in Nat /\ core.gbaManager.length \in Nat
      /\ core.ndsManager.length > 0 => core.ndsManager.sram \in Sram
      /\ core.gbaManager.length > 0 => core.gbaManager.sram \in Sram
  BY <1>2, ManagerParts
<1>4. core.console \in ConsoleRecord /\ core.console.type \in ConsoleType
  BY <1>1 DEF CoreType, ConsoleRecord
<1>5. /\ played.nds \in Sram /\ played.gba \subseteq Cells
      /\ played.firmware \in [ConsoleType -> Firmware]
      /\ played = [nds |-> played.nds, gba |-> played.gba, firmware |-> played.firmware]
  BY DEF IInv, TypeOK
<1> QED
  BY <1>1, <1>2, <1>3, <1>4, <1>5

\* The memories in a frame, before the tasks: the buffers hold what was played.
LEMMA FrameWrites ==
  ASSUME IInv, phase \in {"primed", "running"}, ~core.messageScreen,
         NEW w \in GameWrite, CanWrite(w),
         w.memory = "gba" => core.gbaManager.length > 0,
         NEW c, c = AfterWrite(InstallNdsSram(core), w), NEW p, p = PlayedAfter(c, w)
  PROVE  /\ c \in CoreType /\ c.console \in ConsoleRecord
         /\ p \in [nds : Sram, gba : SUBSET Cells, firmware : [ConsoleType -> Firmware]]
         /\ c.console.type = core.console.type
         /\ c.nds = core.nds /\ c.messageScreen = core.messageScreen
         /\ c.flushTaskId = core.flushTaskId
         /\ c.ndsManager.length = core.ndsManager.length
         /\ c.gbaManager.length = core.gbaManager.length
         /\ c.nds = "game" <=> c.console.nds # NoSram
         /\ c.ndsManager.length > 0 => c.ndsManager.sram = c.console.nds /\ c.ndsManager.sram = p.nds
         /\ ~(c.ndsManager.length > 0) => p.nds = played.nds
         /\ \A i \in p.gba :
              IF c.gbaManager.length > 0
              THEN /\ c.gbaManager.sram[i] = New
                   /\ c.console.gba # NoSram => c.console.gba[i] = New
              ELSE i \in played.gba
         /\ \A type \in ConsoleType :
              p.firmware[type] = IF type = c.console.type THEN c.console.firmware
                                 ELSE played.firmware[type]
<1> DEFINE b == InstallNdsSram(core)
<1>1. phase \in Session
  BY DEF Session
<1>2. /\ core \in CoreType /\ core.console \in ConsoleRecord /\ core.console # None
      /\ core.console.type \in ConsoleType
      /\ core.nds = "game" <=> core.console.nds # NoSram
      /\ core.nds = "game" <=> core.ndsManager.length > 0
      /\ core.ndsManager.length \in Nat /\ core.gbaManager.length \in Nat
      /\ core.ndsManager.length > 0 => core.ndsManager.sram \in Sram
      /\ core.gbaManager.length > 0 => core.gbaManager.sram \in Sram
      /\ played.nds \in Sram /\ played.gba \subseteq Cells
      /\ played.firmware \in [ConsoleType -> Firmware]
      /\ played = [nds |-> played.nds, gba |-> played.gba, firmware |-> played.firmware]
  BY <1>1, SessionHas
<1>3. /\ b \in CoreType /\ b.console \in ConsoleRecord
      /\ b.console = [core.console EXCEPT !.nds =
           IF core.ndsSramInstalled \/ core.ndsManager.length = 0 THEN core.console.nds
           ELSE core.ndsManager.sram]
      /\ b = [core EXCEPT !.console = b.console, !.ndsSramInstalled = TRUE]
  BY <1>2, InstallIs
<1> HIDE DEF b
<1>4. /\ b.nds = core.nds /\ b.messageScreen = core.messageScreen
      /\ b.flushTaskId = core.flushTaskId
      /\ b.ndsManager = core.ndsManager /\ b.gbaManager = core.gbaManager
  BY <1>2, <1>3 DEF CoreType
<1>5. /\ b.console.type = core.console.type /\ b.console.firmware = core.console.firmware
      /\ b.console.gba = core.console.gba
      /\ b.console.nds = IF core.ndsSramInstalled \/ core.ndsManager.length = 0 THEN core.console.nds
                         ELSE core.ndsManager.sram
  BY <1>2, <1>3 DEF ConsoleRecord
<1>6. core.ndsManager.length > 0 => b.ndsManager.sram = b.console.nds /\ b.ndsManager.sram = played.nds
  <2>1. core.ndsManager.length > 0 => core.ndsManager.sram = played.nds
    BY DEF IInv, NdsHeld
  <2>2. CASE phase = "primed"
    BY <1>2, <1>4, <1>5, <2>1, <2>2 DEF IInv, Life
  <2>3. CASE phase = "running"
    BY <1>2, <1>4, <1>5, <2>1, <2>3 DEF IInv, NdsHeld
  <2> QED
    BY <2>2, <2>3
<1>7. b.console.nds # NoSram <=> core.console.nds # NoSram
  <2>1. core.ndsManager.length > 0 => b.console.nds # NoSram
    BY <1>2, <1>4, <1>6, SramNotEmpty
  <2>2. ~(core.ndsManager.length > 0) => b.console.nds = core.console.nds
    BY <1>2, <1>5
  <2> QED
    BY <1>2, <2>1, <2>2
<1>8. \A type \in ConsoleType :
        played.firmware[type] = IF type = core.console.type THEN b.console.firmware
                                ELSE played.firmware[type]
  BY <1>2, <1>5 DEF IInv, FirmwareHeld
<1>9. \A i \in played.gba :
        core.gbaManager.length > 0 =>
          /\ core.gbaManager.sram[i] = New
          /\ core.console.gba # NoSram => core.console.gba[i] = New
  BY <1>1, <1>2 DEF IInv, GbaHeld
<1>10. b.console # None
  BY <1>3, NoneAssumption
<1>11. c = AfterWrite(b, w)
  BY DEF b
<1>12. w.memory \in {"nds", "gba", "firmware", "nothing"}
       /\ (w.memory \in {"nds", "gba"} => w.offset \in Cells /\ w.length \in 1..SramLength)
  BY WritesAre
<1>13. CASE w.memory = "nothing"
  <2>1. c = b /\ p = played
    BY <1>11, <1>13 DEF AfterWrite, PlayedAfter
  <2>2. p.nds = played.nds /\ p.gba = played.gba /\ p.firmware = played.firmware
        /\ p \in [nds : Sram, gba : SUBSET Cells, firmware : [ConsoleType -> Firmware]]
    BY <1>2, <2>1
  <2>3. \A type \in ConsoleType :
          p.firmware[type] = IF type = c.console.type THEN c.console.firmware
                             ELSE played.firmware[type]
    BY <1>5, <1>8, <2>1
  <2>4. \A i \in p.gba :
          IF c.gbaManager.length > 0
          THEN /\ c.gbaManager.sram[i] = New
               /\ c.console.gba # NoSram => c.console.gba[i] = New
          ELSE i \in played.gba
    BY <1>4, <1>5, <1>9, <2>1
  <2>5. /\ c.nds = "game" <=> c.console.nds # NoSram
        /\ c.ndsManager.length > 0 => c.ndsManager.sram = c.console.nds /\ c.ndsManager.sram = p.nds
    BY <1>2, <1>4, <1>6, <1>7, <2>1
  <2> QED
    BY <1>3, <1>4, <1>5, <2>1, <2>2, <2>3, <2>4, <2>5
<1>14. CASE w.memory = "nds"
  <2>1. core.console.nds # NoSram /\ core.ndsManager.length > 0
    BY <1>2, <1>14 DEF CanWrite
  <2>2. /\ c \in CoreType
        /\ c.console = [b.console EXCEPT !.nds = Written(b.console.nds, w)]
        /\ c.ndsManager = [length |-> SramLength, sram |-> c.console.nds]
        /\ c = [b EXCEPT !.console = c.console, !.ndsManager = c.ndsManager]
    <3>1. /\ b \in CoreType /\ b.console # None /\ b.console.nds # NoSram
          /\ b.ndsManager.length > 0 /\ b.ndsManager.sram = b.console.nds
      BY <1>3, <1>4, <1>6, <1>7, <1>10, <2>1
    <3> QED
      BY <1>11, <1>14, <3>1, NdsWriteIs, ZenonT(60)
  <2>3. /\ c.nds = b.nds /\ c.messageScreen = b.messageScreen /\ c.flushTaskId = b.flushTaskId
        /\ c.gbaManager = b.gbaManager
    BY <1>3, <2>2 DEF CoreType
  <2>4. c.ndsManager.length = core.ndsManager.length /\ SramLength > 0
    BY <1>2, <2>1, <2>2, ManagerParts, CoreAssumption DEF CoreType
  <2>5. b.console.nds \in Sram
    BY <1>3, <1>7, <2>1 DEF ConsoleRecord
  <2>6. Written(b.console.nds, w) \in Sram
    BY <2>5, WrittenTyped
  <2>7. /\ c.console \in ConsoleRecord /\ c.console.nds \in Sram
        /\ c.console.type = b.console.type /\ c.console.firmware = b.console.firmware
        /\ c.console.gba = b.console.gba
    BY <1>3, <2>2, <2>6 DEF ConsoleRecord
  <2>8. p = [played EXCEPT !.nds = c.console.nds]
    BY <1>14 DEF PlayedAfter
  <2>9. /\ p.nds = c.console.nds /\ p.gba = played.gba /\ p.firmware = played.firmware
        /\ p \in [nds : Sram, gba : SUBSET Cells, firmware : [ConsoleType -> Firmware]]
    BY <1>2, <2>7, <2>8
  <2>10. c.console.nds # NoSram
    BY <2>7, SramNotEmpty
  <2>11. c.ndsManager.sram = c.console.nds
    BY <2>2
  <2> QED
    BY <1>2, <1>4, <1>5, <1>8, <1>9, <2>1, <2>2, <2>3, <2>4, <2>7, <2>9, <2>10, <2>11
<1>15. CASE w.memory = "gba"
  <2>1. core.console.gba # NoSram /\ core.gbaManager.length > 0
    BY <1>15 DEF CanWrite
  <2>2. /\ c \in CoreType
        /\ c.console \in ConsoleRecord /\ c.console.gba = Written(b.console.gba, w)
        /\ c.console.type = b.console.type /\ c.console.nds = b.console.nds
        /\ c.console.firmware = b.console.firmware
        /\ c.nds = b.nds /\ c.messageScreen = b.messageScreen /\ c.flushTaskId = b.flushTaskId
        /\ c.ndsManager = b.ndsManager
        /\ c.gbaManager = [length |-> SramLength, sram |-> Written(b.gbaManager.sram, w)]
    <3>1. b \in CoreType /\ b.console # None /\ b.console.gba # NoSram /\ b.gbaManager.length > 0
      BY <1>3, <1>4, <1>5, <1>10, <2>1
    <3> QED
      BY <1>11, <1>15, <3>1, GbaWriteIs, ZenonT(60)
  <2>4. c.gbaManager.length = core.gbaManager.length /\ SramLength > 0
    BY <1>2, <2>1, <2>2, ManagerParts, CoreAssumption DEF CoreType
  <2> DEFINE T == Touched(SramLength, w.offset, w.length)
  <2>8. p = [played EXCEPT !.gba = played.gba \cup T] /\ T \subseteq Cells
    BY <1>15 DEF PlayedAfter, Touched, Cells
  <2>9. /\ p.nds = played.nds /\ p.gba = played.gba \cup T /\ p.firmware = played.firmware
        /\ p \in [nds : Sram, gba : SUBSET Cells, firmware : [ConsoleType -> Firmware]]
    <3> HIDE DEF T
    <3> QED
      BY <1>2, <2>8
  <2>10. ASSUME NEW i \in p.gba
         PROVE  c.gbaManager.sram[i] = New /\ c.console.gba[i] = New
    <3>1. i \in Cells /\ (i \in T \/ i \in played.gba)
      BY <1>2, <2>8, <2>9
    <3>2. i \notin T => core.gbaManager.sram[i] = New /\ core.console.gba[i] = New
      BY <1>9, <2>1, <3>1
    <3>3. /\ c.gbaManager.sram[i] = IF i \in T THEN New ELSE core.gbaManager.sram[i]
          /\ c.console.gba[i] = IF i \in T THEN New ELSE core.console.gba[i]
      BY <1>4, <1>5, <2>2, <3>1 DEF Written
    <3> QED
      BY <3>2, <3>3
  <2> HIDE DEF T
  <2> QED
    BY <1>2, <1>4, <1>5, <1>6, <1>7, <1>8, <2>1, <2>2, <2>4, <2>9, <2>10
<1>16. CASE w.memory = "firmware"
  <2>1. /\ c \in CoreType /\ c.console \in ConsoleRecord
        /\ c.console.type = b.console.type /\ c.console.nds = b.console.nds
        /\ c.console.gba = b.console.gba
        /\ c.nds = b.nds /\ c.messageScreen = b.messageScreen /\ c.flushTaskId = b.flushTaskId
        /\ c.ndsManager = b.ndsManager /\ c.gbaManager = b.gbaManager
    <3>1. b \in CoreType /\ b.console # None
      BY <1>3, <1>10
    <3> QED
      BY <1>11, <1>16, <3>1, FirmwareWriteIs, Zenon
  <2>4. c.console.firmware \in Firmware
    BY <2>1 DEF ConsoleRecord
  <2>6. p = [played EXCEPT !.firmware = [played.firmware EXCEPT ![core.console.type] = c.console.firmware]]
    BY <1>2, <1>5, <1>16, <2>1 DEF PlayedAfter
  <2>7. [played.firmware EXCEPT ![core.console.type] = c.console.firmware] \in [ConsoleType -> Firmware]
    BY <1>2, <2>4
  <2>8. /\ p.nds = played.nds /\ p.gba = played.gba
        /\ p.firmware = [played.firmware EXCEPT ![core.console.type] = c.console.firmware]
        /\ p \in [nds : Sram, gba : SUBSET Cells, firmware : [ConsoleType -> Firmware]]
    BY <1>2, <2>6, <2>7
  <2>9. \A type \in ConsoleType :
          p.firmware[type] = IF type = c.console.type THEN c.console.firmware
                             ELSE played.firmware[type]
    BY <1>2, <1>5, <2>1, <2>8
  <2> QED
    BY <1>2, <1>4, <1>5, <1>6, <1>7, <1>9, <2>1, <2>8, <2>9
<1> QED
  BY <1>12, <1>13, <1>14, <1>15, <1>16

\* The process is gone: nothing else is promised.
LEMMA Faulted ==
  ASSUME TypeOK', phase' = "faulted", fault' \notin {"FlushFirmware", "OnScreenDisplayTask"}
  PROVE  IInv'
BY DEF IInv, TasksReady, Life, NdsHeld, GbaHeld, FirmwareHeld, Session, NoSession

LEMMA RunningTasks ==
  ASSUME NEW queue \in Seq(TaskType)
  PROVE  /\ Running(queue) \in Seq(TaskType)
         /\ Elements(Running(queue)) = {t \in Elements(queue) : ~Ended(t)}
BY PartIs DEF Running

LEMMA FrameFaults ==
  ASSUME IInv, NEW w \in GameWrite, Frame(w), w.memory = "gba", core.gbaManager.length = 0
  PROVE  IInv'
<1> DEFINE b == InstallNdsSram(core)
           c == AfterWrite(b, w)
           s0 == [core |-> c, disk |-> disk, fault |-> "WriteGbaSave"]
           s == CheckTasks(s0, tasks)
           T == Touched(SramLength, w.offset, w.length)
<1>1. phase \in Session /\ ~core.messageScreen /\ core.console.gba # NoSram /\ nextIdent' = nextIdent
  BY DEF Frame, CanWrite, Session
<1>2. /\ core \in CoreType /\ disk \in DiskType /\ core.console \in ConsoleRecord
      /\ core.console # None
      /\ played.nds \in Sram /\ played.gba \subseteq Cells
      /\ played.firmware \in [ConsoleType -> Firmware]
      /\ played = [nds |-> played.nds, gba |-> played.gba, firmware |-> played.firmware]
      /\ tasks \in Seq(TaskType) /\ nextIdent \in Nat
  BY <1>1, SessionHas DEF IInv, TypeOK
<1>3. /\ phase' = PhaseAfter("running", s.fault) /\ core' = s.core /\ disk' = s.disk
      /\ fault' = s.fault /\ tasks' = Running(tasks) /\ played' = PlayedAfter(c, w)
  BY DEF Frame, WriteGbaSaveFault
<1>4. /\ b \in CoreType /\ b.console \in ConsoleRecord
      /\ b.console = [core.console EXCEPT !.nds =
           IF core.ndsSramInstalled \/ core.ndsManager.length = 0 THEN core.console.nds
           ELSE core.ndsManager.sram]
  BY <1>2, InstallIs
<1>5. b.console.gba = core.console.gba /\ b.console # None
  BY <1>2, <1>4, NoneAssumption DEF ConsoleRecord
<1> HIDE DEF b
<1>6. c \in CoreType /\ c.console \in ConsoleRecord
  <2>1. b \in CoreType /\ b.console # None /\ b.console.gba # NoSram
    BY <1>1, <1>4, <1>5
  <2> HIDE DEF c
  <2> QED
    BY <2>1, GbaWriteIs, Zenon DEF c
<1> HIDE DEF c
<1>7. s0 \in State /\ s0.core.console # None /\ s0.fault = "WriteGbaSave"
  BY <1>2, <1>6, NoneAssumption DEF State, Fault
<1> HIDE DEF s0
<1>8. Effect(s0, s, Elements(tasks))
  BY <1>2, <1>7, CheckEffect
<1> HIDE DEF s
<1>9. s.core \in CoreType /\ s.disk \in DiskType /\ s.fault = "WriteGbaSave"
  BY <1>7, <1>8 DEF Effect, State
<1>10. T \subseteq Cells
  BY DEF Touched, Cells
<1> HIDE DEF T
<1>11. played' = [played EXCEPT !.gba = played.gba \cup T]
  BY <1>3 DEF PlayedAfter, T
<1>12. played' \in [nds : Sram, gba : SUBSET Cells, firmware : [ConsoleType -> Firmware]]
  BY <1>2, <1>10, <1>11
<1>13. "WriteGbaSave" # None /\ "WriteGbaSave" \in Fault
  BY NoneAssumption DEF Fault
<1>14. phase' = "faulted"
  BY <1>3, <1>9, <1>13 DEF PhaseAfter
<1>15. tasks' \in Seq(TaskType)
  BY <1>2, <1>3, RunningTasks
<1>16. TypeOK'
  BY <1>1, <1>2, <1>3, <1>9, <1>12, <1>13, <1>14, <1>15 DEF TypeOK, Phase
<1> QED
  BY <1>3, <1>9, <1>14, <1>16, Faulted

LEMMA FrameStep ==
  ASSUME IInv, NEW w \in GameWrite, Frame(w), w.memory = "gba" => core.gbaManager.length # 0
  PROVE  IInv'
<1> DEFINE c == AfterWrite(InstallNdsSram(core), w)
           s0 == [core |-> c, disk |-> disk, fault |-> None]
           s == CheckTasks(s0, tasks)
<1>1. /\ phase \in {"primed", "running"} /\ phase \in Session /\ ~core.messageScreen
      /\ CanWrite(w) /\ nextIdent' = nextIdent
  BY DEF Frame, Session
<1>2. /\ core \in CoreType /\ disk \in DiskType
      /\ core.ndsManager.length \in Nat /\ core.gbaManager.length \in Nat
      /\ core.nds = "game" <=> core.ndsManager.length > 0
      /\ tasks \in Seq(TaskType) /\ nextIdent \in Nat
  BY <1>1, SessionHas DEF IInv, TypeOK
<1>3. /\ phase' = PhaseAfter("running", s.fault) /\ core' = s.core /\ disk' = s.disk
      /\ fault' = s.fault /\ tasks' = Running(tasks) /\ played' = PlayedAfter(c, w)
  BY DEF Frame, WriteGbaSaveFault
<1>4. /\ c \in CoreType /\ c.console \in ConsoleRecord
      /\ played' \in [nds : Sram, gba : SUBSET Cells, firmware : [ConsoleType -> Firmware]]
      /\ c.console.type = core.console.type
      /\ c.nds = core.nds /\ c.messageScreen = core.messageScreen
      /\ c.flushTaskId = core.flushTaskId
      /\ c.ndsManager.length = core.ndsManager.length
      /\ c.gbaManager.length = core.gbaManager.length
      /\ c.nds = "game" <=> c.console.nds # NoSram
      /\ c.ndsManager.length > 0 =>
           c.ndsManager.sram = c.console.nds /\ c.ndsManager.sram = played'.nds
      /\ ~(c.ndsManager.length > 0) => played'.nds = played.nds
      /\ \A i \in played'.gba :
           IF c.gbaManager.length > 0
           THEN /\ c.gbaManager.sram[i] = New
                /\ c.console.gba # NoSram => c.console.gba[i] = New
           ELSE i \in played.gba
      /\ \A type \in ConsoleType :
           played'.firmware[type] = IF type = c.console.type THEN c.console.firmware
                                    ELSE played.firmware[type]
  <2>1. w.memory = "gba" => core.gbaManager.length > 0
    BY <1>2
  <2> HIDE DEF c
  <2> QED
    BY <1>1, <1>3, <2>1, FrameWrites DEF c
<1> HIDE DEF c
<1>5. /\ s0 \in State /\ s0.core = c /\ s0.disk = disk /\ s0.fault = None
      /\ c.console # None
  BY <1>2, <1>4, NoneAssumption DEF State
<1> HIDE DEF s0
<1>6. Effect(s0, s, Elements(tasks))
  BY <1>2, <1>5, CheckEffect
<1> HIDE DEF s
<1>7. /\ core' \in CoreType /\ disk' \in DiskType /\ fault' = None
      /\ core'.console = c.console
      /\ core'.nds = c.nds /\ core'.messageScreen = c.messageScreen
      /\ core'.ndsManager = c.ndsManager /\ core'.gbaManager = c.gbaManager
      /\ core'.flushTaskId = c.flushTaskId
  <2>1. /\ s.core \in CoreType /\ s.disk \in DiskType
        /\ s.core.console = c.console
        /\ s.core.nds = c.nds /\ s.core.messageScreen = c.messageScreen
        /\ s.core.ndsManager = c.ndsManager /\ s.core.gbaManager = c.gbaManager
        /\ s.core.flushTaskId = c.flushTaskId
    BY <1>5, <1>6, EffectKeeps
  <2>2. s.fault = None
    BY <1>5, <1>6 DEF Effect
  <2> QED
    BY <1>3, <2>1, <2>2
<1>8. /\ disk'.nds = disk.nds
      /\ \/ disk'.gba = disk.gba
         \/ c.gbaManager.length > 0 /\ disk'.gba = c.gbaManager.sram
      /\ \A p \in ConsoleType : disk'.firmware[p] # disk.firmware[p] =>
           \E t \in Elements(tasks) : t.title = "firmware" /\ t.path = p
  BY <1>3, <1>5, <1>6 DEF Effect
<1>9. phase' = "running"
  BY <1>3, <1>7 DEF PhaseAfter
<1>10. tasks' \in Seq(TaskType) /\ Elements(tasks') = {t \in Elements(tasks) : ~Ended(t)}
  BY <1>2, <1>3, RunningTasks
<1>11. TypeOK'
  BY <1>1, <1>2, <1>4, <1>7, <1>9, <1>10 DEF TypeOK, Phase
<1>12. TasksReady'
  <2>1. /\ \A t \in Elements(tasks) : t.ident < nextIdent /\ (Ended(t) => t.title = "rumble")
        /\ \E t \in Elements(tasks) : t.title = "firmware"
        /\ \A t \in Elements(tasks) :
             /\ t.title = "firmware" <=> t.ident = core.flushTaskId
             /\ t.title = "firmware" => t.path = core.console.type
        /\ core.gbaManager.length > 0 => \E t \in Elements(tasks) : t.title = "gba"
    BY <1>1 DEF IInv, TasksReady, Waits, Session
  <2>2. \E t \in Elements(tasks') : t.title = "firmware"
    BY <1>10, <2>1
  <2>3. core'.gbaManager.length > 0 => \E t \in Elements(tasks') : t.title = "gba"
    BY <1>4, <1>7, <1>10, <2>1
  <2>4. /\ \A t \in Elements(tasks') : t.ident < nextIdent' /\ (Ended(t) => t.title = "rumble")
        /\ \A t \in Elements(tasks') :
             /\ t.title = "firmware" <=> t.ident = core'.flushTaskId
             /\ t.title = "firmware" => t.path = core'.console.type
    BY <1>1, <1>4, <1>7, <1>10, <2>1
  <2>5. ~core'.messageScreen
    BY <1>1, <1>4, <1>7
  <2> QED
    BY <1>9, <2>2, <2>3, <2>4, <2>5 DEF TasksReady, Waits, NoSession
<1>13. Life'
  BY <1>1, <1>2, <1>4, <1>5, <1>7, <1>9, NoneAssumption DEF Life, NoSession, Fault
<1>14. NdsHeld'
  <2>1. ~(core.ndsManager.length > 0) => disk.nds = played.nds
    BY <1>1 DEF IInv, NdsHeld
  <2> QED
    BY <1>4, <1>7, <1>8, <1>9, <2>1 DEF NdsHeld, NoSession
<1>15. GbaHeld'
  <2> SUFFICES ASSUME NEW i \in played'.gba
               PROVE  IF core'.gbaManager.length > 0
                      THEN /\ core'.gbaManager.sram[i] = New
                           /\ core'.console # None /\ core'.console.gba # NoSram =>
                                core'.console.gba[i] = New
                      ELSE disk'.gba[i] = New
    BY <1>9 DEF GbaHeld, Session
  <2>1. CASE core'.gbaManager.length > 0
    BY <1>4, <1>7, <2>1
  <2>2. CASE ~(core'.gbaManager.length > 0)
    <3>1. i \in played.gba /\ ~(core.gbaManager.length > 0) /\ disk'.gba = disk.gba
      BY <1>4, <1>7, <1>8, <2>2
    <3>2. disk.gba[i] = New
      BY <1>1, <3>1 DEF IInv, GbaHeld
    <3> QED
      BY <2>2, <3>1, <3>2
  <2> QED
    BY <2>1, <2>2
<1>16. FirmwareHeld'
  <2> SUFFICES ASSUME NEW type \in ConsoleType
               PROVE  played'.firmware[type] =
                        IF core'.console # None /\ core'.console.type = type
                        THEN core'.console.firmware ELSE disk'.firmware[type]
    BY DEF FirmwareHeld
  <2>1. CASE type = c.console.type
    BY <1>4, <1>5, <1>7, <2>1
  <2>2. CASE type # c.console.type
    <3>1. played'.firmware[type] = played.firmware[type]
      BY <1>4, <2>2
    <3>2. played.firmware[type] = disk.firmware[type]
      BY <1>1, <1>4, <2>2 DEF IInv, FirmwareHeld
    <3>3. disk'.firmware[type] = disk.firmware[type]
      BY <1>1, <1>4, <1>8, <2>2 DEF IInv, TasksReady, Session
    <3> QED
      BY <1>7, <2>2, <3>1, <3>2, <3>3
  <2> QED
    BY <2>1, <2>2
<1> QED
  BY <1>11, <1>12, <1>13, <1>14, <1>15, <1>16 DEF IInv

-----------------------------------------------------------------------------
(* The beginning of a session *)

LEMMA NewCoreTyped == NewCore \in CoreType
BY CoreAssumption DEF NewCore, CoreType, ManagerType, NoManager, TimerType

LEMMA InitHolds == Init => IInv
<1> SUFFICES ASSUME Init PROVE IInv
  OBVIOUS
<1>1. /\ phase = "out" /\ core = NewCore /\ tasks = <<>> /\ nextIdent = 0 /\ fault = None
      /\ disk.nds = [i \in Cells |-> Old] /\ disk.gba = [i \in Cells |-> Old]
      /\ disk.firmware = [t \in ConsoleType |-> [type |-> t, version |-> 0]]
      /\ disk.title \in {"absent", "own"}
      /\ disk = [nds |-> disk.nds, gba |-> disk.gba, firmware |-> disk.firmware, title |-> disk.title]
      /\ played = [nds |-> disk.nds, gba |-> {}, firmware |-> disk.firmware]
  BY DEF Init
<1>2. /\ disk.nds \in Sram /\ disk.gba \in Sram /\ disk.firmware \in [ConsoleType -> Firmware]
  BY <1>1 DEF Sram, Byte, Firmware
<1>3. disk \in DiskType
  BY <1>1, <1>2 DEF DiskType
<1>4. played \in [nds : Sram, gba : SUBSET Cells, firmware : [ConsoleType -> Firmware]]
  BY <1>1, <1>2
<1>5. TypeOK
  BY <1>1, <1>3, <1>4, NewCoreTyped, EmptySeq DEF TypeOK, Phase
<1>6. Elements(tasks) = {}
  BY <1>1, ElementsEmpty
<1>7. core.console = None /\ core.messageScreen = FALSE
  BY <1>1 DEF NewCore
<1>8. TasksReady /\ Life
  BY <1>1, <1>6, <1>7, NoneAssumption DEF TasksReady, Life, Session, NoSession, Fault
<1>9. NdsHeld /\ GbaHeld /\ FirmwareHeld
  BY <1>1, <1>7 DEF NdsHeld, GbaHeld, FirmwareHeld, NoSession, Session
<1> QED
  BY <1>5, <1>8, <1>9 DEF IInv

LEMMA RetroInitStep == ASSUME IInv, RetroInit PROVE IInv'
<1>1. /\ phase = "out" /\ phase' = "inited" /\ core' = NewCore
      /\ UNCHANGED <<tasks, nextIdent, disk, fault, played>>
  BY DEF RetroInit
<1>2. core = NewCore /\ core.console = None /\ core'.console = None
  BY <1>1 DEF IInv, Life, NewCore
<1>3. TypeOK'
  BY <1>1, NewCoreTyped DEF IInv, TypeOK, Phase
<1>4. TasksReady'
  BY <1>1, <1>2 DEF IInv, TasksReady, NoSession, Session, NewCore
<1>5. Life'
  BY <1>1, <1>2 DEF IInv, Life, NoSession, Session, NewCore
<1>6. NdsHeld' /\ GbaHeld' /\ FirmwareHeld'
  BY <1>1, <1>2 DEF IInv, NdsHeld, GbaHeld, FirmwareHeld, NoSession, Session
<1> QED
  BY <1>3, <1>4, <1>5, <1>6 DEF IInv

LEMMA RetroDeinitStep == ASSUME IInv, RetroDeinit PROVE IInv'
<1>1. /\ phase \in {"unloaded", "failed"} /\ phase' = "out" /\ core' = NewCore
      /\ UNCHANGED <<tasks, nextIdent, disk, fault, played>>
  BY DEF RetroDeinit
<1>2. core.console = None /\ core'.console = None /\ core'.messageScreen = FALSE
  BY <1>1 DEF IInv, Life, NoSession, NewCore
<1>3. TypeOK'
  BY <1>1, NewCoreTyped DEF IInv, TypeOK, Phase
<1>4. TasksReady'
  BY <1>1, <1>2 DEF IInv, TasksReady, NoSession, Session
<1>5. Life'
  BY <1>1, <1>2 DEF IInv, Life, NoSession, Session
<1>6. NdsHeld' /\ GbaHeld' /\ FirmwareHeld'
  BY <1>1, <1>2 DEF IInv, NdsHeld, GbaHeld, FirmwareHeld, NoSession, Session
<1> QED
  BY <1>3, <1>4, <1>5, <1>6 DEF IInv

\* What the invariant says before a load.
LEMMA InitedHas ==
  ASSUME IInv, phase = "inited"
  PROVE  /\ core = NewCore /\ core \in CoreType /\ fault = None
         /\ core.console = None /\ ~core.messageScreen /\ ~core.ndsSramInstalled
         /\ core.ndsManager = NoManager /\ core.gbaManager = NoManager
         /\ tasks \in Seq(TaskType) /\ Elements(tasks) = {} /\ nextIdent \in Nat
         /\ disk \in DiskType /\ disk.nds = played.nds
         /\ \A i \in played.gba : disk.gba[i] = New
         /\ \A type \in ConsoleType : played.firmware[type] = disk.firmware[type]
         /\ played.nds \in Sram /\ played.gba \subseteq Cells
         /\ played.firmware \in [ConsoleType -> Firmware]
         /\ played = [nds |-> played.nds, gba |-> played.gba, firmware |-> played.firmware]
<1>1. core = NewCore /\ fault = None
  BY DEF IInv, Life
<1>2. /\ core.console = None /\ ~core.messageScreen /\ ~core.ndsSramInstalled
      /\ core.ndsManager = NoManager /\ core.gbaManager = NoManager
  BY <1>1 DEF NewCore
<1>3. /\ tasks \in Seq(TaskType) /\ nextIdent \in Nat /\ disk \in DiskType
      /\ played.nds \in Sram /\ played.gba \subseteq Cells
      /\ played.firmware \in [ConsoleType -> Firmware]
      /\ played = [nds |-> played.nds, gba |-> played.gba, firmware |-> played.firmware]
  BY DEF IInv, TypeOK
<1>4. Elements(tasks) = {}
  BY DEF IInv, TasksReady, NoSession
<1>5. /\ disk.nds = played.nds
      /\ \A i \in played.gba : disk.gba[i] = New
      /\ \A type \in ConsoleType : played.firmware[type] = disk.firmware[type]
  BY <1>2 DEF IInv, NdsHeld, GbaHeld, FirmwareHeld, NoSession, Session
<1> QED
  BY <1>1, <1>2, <1>3, <1>4, <1>5, NewCoreTyped

LEMMA LoadFailsStep ==
  ASSUME IInv, phase = "inited", NEW nds \in Games, NEW gba \in BOOLEAN, LoadFails(nds, gba)
  PROVE  IInv'
<1>1. /\ phase' = "failed" /\ core' = [core EXCEPT !.nds = nds, !.gba = gba]
      /\ UNCHANGED <<tasks, nextIdent, disk, fault, played>>
  BY DEF LoadFails
<1>2. nds \in {"none", "game", "dsiware"}
  BY CoreAssumption
<1>3. /\ core' \in CoreType /\ core'.console = None /\ core'.messageScreen = FALSE
  BY <1>1, <1>2, InitedHas DEF CoreType
<1>4. TypeOK'
  BY <1>1, <1>3 DEF IInv, TypeOK, Phase
<1>5. TasksReady'
  BY <1>1, <1>3, InitedHas DEF TasksReady, NoSession, Session
<1>6. Life'
  BY <1>1, <1>3, InitedHas, NoneAssumption DEF Life, NoSession, Session, Fault
<1>7. NdsHeld' /\ GbaHeld' /\ FirmwareHeld'
  BY <1>1, <1>3, InitedHas DEF NdsHeld, GbaHeld, FirmwareHeld, NoSession, Session
<1> QED
  BY <1>4, <1>5, <1>6, <1>7 DEF IInv

LEMMA LoadErrorScreenStep ==
  ASSUME IInv, phase = "inited", NEW nds \in Games, NEW gba \in BOOLEAN, LoadErrorScreen(nds, gba)
  PROVE  IInv'
<1>1. /\ phase' = "loaded" /\ tasks' = CancelAll(tasks)
      /\ core' = [core EXCEPT !.nds = nds, !.gba = gba, !.messageScreen = TRUE]
      /\ UNCHANGED <<nextIdent, disk, fault, played>>
  BY DEF LoadErrorScreen
<1>2. nds \in {"none", "game", "dsiware"}
  BY CoreAssumption
<1>3. /\ core' \in CoreType /\ core'.console = None /\ core'.messageScreen = TRUE
      /\ core'.ndsManager = NoManager /\ core'.gbaManager = NoManager /\ ~core'.ndsSramInstalled
  BY <1>1, <1>2, InitedHas DEF CoreType
<1>4. tasks' \in Seq(TaskType) /\ Elements(tasks') = {}
  BY <1>1, InitedHas, CancelledAll
<1>5. TypeOK'
  BY <1>1, <1>3, <1>4 DEF IInv, TypeOK, Phase
<1>6. TasksReady'
  BY <1>1, <1>3, <1>4 DEF TasksReady, NoSession, Session, NoManager
<1>7. Life'
  BY <1>1, <1>3, InitedHas, NoneAssumption DEF Life, NoSession, Session, Fault
<1>8. NdsHeld' /\ GbaHeld' /\ FirmwareHeld'
  BY <1>1, <1>3, InitedHas DEF NdsHeld, GbaHeld, FirmwareHeld, NoSession, Session, NoManager
<1> QED
  BY <1>5, <1>6, <1>7, <1>8 DEF IInv

\* A new console has the settings of its type, empty DS save memory and what the GBA
\* save file holds.
LEMMA CreateIs ==
  ASSUME NEW c \in CoreType, NEW d \in DiskType, NEW type \in ConsoleType,
         NEW rumblePak \in BOOLEAN, NEW k, k = CreateConsole(c, d, type, rumblePak)
  PROVE  /\ k \in ConsoleRecord /\ k # None
         /\ k.type = type /\ k.firmware = d.firmware[type]
         /\ k.nds # NoSram <=> c.nds = "game"
         /\ k.gba = NoSram \/ k.gba = d.gba
         /\ k.rumblePak \in BOOLEAN
<1> DEFINE blank == [i \in Cells |-> Blank]
<1>1. /\ k = [type |-> type, firmware |-> d.firmware[type],
              nds |-> IF c.nds = "game" THEN blank ELSE NoSram,
              gba |-> IF type = "DS" /\ c.gba THEN d.gba ELSE NoSram,
              rumblePak |-> type = "DS" /\ ~c.gba /\ rumblePak]
  BY DEF CreateConsole
<1>2. blank \in Sram /\ blank # NoSram
  <2>1. blank \in Sram
    BY DEF Sram, Byte
  <2> HIDE DEF blank
  <2> QED
    BY <2>1, SramNotEmpty
<1>3. d.gba \in Sram /\ d.firmware[type] \in Firmware
  BY DEF DiskType
<1>4. (type = "DS" /\ ~c.gba /\ rumblePak) \in BOOLEAN
  OBVIOUS
<1> HIDE DEF blank
<1>5. k \in ConsoleRecord
  BY <1>1, <1>2, <1>3, <1>4 DEF ConsoleRecord
<1>6. /\ k.type = type /\ k.firmware = d.firmware[type]
      /\ k.nds = IF c.nds = "game" THEN blank ELSE NoSram
      /\ k.gba = NoSram \/ k.gba = d.gba
  BY <1>1
<1>7. k.rumblePak \in BOOLEAN /\ k # None
  BY <1>5, NoneAssumption DEF ConsoleRecord
<1> QED
  BY <1>2, <1>5, <1>6, <1>7

LEMMA NewManagerIs ==
  /\ NewManager(SramLength) \in ManagerType /\ NewManager(SramLength).length > 0
  /\ NoManager \in ManagerType /\ ~(NoManager.length > 0)
<1>1. [i \in 0..SramLength - 1 |-> Blank] \in Sram
  BY DEF Sram, Byte, Cells
<1> QED
  BY <1>1, CoreAssumption DEF NewManager, NoManager, ManagerType

LEMMA InstalledTitle ==
  ASSUME NEW c, NEW d \in DiskType, NEW e, e = InstallDsiware(c, d)
  PROVE  e \in DiskType /\ e.nds = d.nds /\ e.gba = d.gba /\ e.firmware = d.firmware
BY DEF InstallDsiware, DiskType

LEMMA LoadConsoleStep ==
  ASSUME IInv, phase = "inited", NEW nds \in Games, NEW gba \in BOOLEAN,
         NEW type \in TypesFor(nds), NEW rumblePak \in BOOLEAN,
         LoadConsole(nds, gba, type, rumblePak)
  PROVE  IInv'
<1> DEFINE c == [core EXCEPT !.nds = nds, !.gba = gba]
           console == CreateConsole(c, disk, type, rumblePak)
           loaded == [c EXCEPT
             !.console = console,
             !.ndsManager = IF console.nds # NoSram THEN NewManager(SramLength) ELSE NoManager,
             !.gbaManager = IF console.gba # NoSram THEN NewManager(SramLength) ELSE NoManager]
           titles == TasksFor(loaded)
           last == nextIdent + Len(titles) - 1
           new == TasksFrom(nextIdent, titles, type)
<1>1. /\ phase' = "loaded" /\ tasks' = tasks \o new /\ nextIdent' = last + 1
      /\ core' = [loaded EXCEPT !.flushTaskId = last]
      /\ disk' = InstallDsiware(c, disk)
      /\ played' = [played EXCEPT !.gba = {}]
      /\ fault' = fault
  BY DEF LoadConsole
<1>2. nds \in {"none", "game", "dsiware"} /\ type \in ConsoleType
  BY CoreAssumption DEF TypesFor, ConsoleType
<1>3. c \in CoreType /\ c.nds = nds /\ c.messageScreen = FALSE /\ c.ndsSramInstalled = FALSE
  BY <1>2, InitedHas DEF CoreType
<1>4. disk \in DiskType /\ fault = None
  BY InitedHas
<1> HIDE DEF c
<1>5. /\ console \in ConsoleRecord /\ console # None
      /\ console.type = type /\ console.firmware = disk.firmware[type]
      /\ console.nds # NoSram <=> nds = "game"
      /\ console.rumblePak \in BOOLEAN
  BY <1>2, <1>3, <1>4, CreateIs
<1> HIDE DEF console
<1>6. /\ loaded \in CoreType /\ loaded.console = console /\ loaded.nds = nds
      /\ loaded.messageScreen = FALSE /\ loaded.ndsSramInstalled = FALSE
      /\ loaded.ndsManager.length > 0 <=> console.nds # NoSram
      /\ loaded.ndsManager.length > 0 \/ loaded.ndsManager = NoManager
      /\ loaded.gbaManager.length \in Nat
  <2> DEFINE m == IF console.nds # NoSram THEN NewManager(SramLength) ELSE NoManager
             g == IF console.gba # NoSram THEN NewManager(SramLength) ELSE NoManager
  <2>1. m \in ManagerType /\ g \in ManagerType /\ (m.length > 0 <=> console.nds # NoSram)
        /\ (m.length > 0 \/ m = NoManager)
    BY NewManagerIs
  <2>2. g.length \in Nat
    BY <2>1, ManagerParts
  <2> HIDE DEF m, g
  <2>3. loaded = [c EXCEPT !.console = console, !.ndsManager = m, !.gbaManager = g]
    BY DEF m, g
  <2> HIDE DEF loaded
  <2>4. /\ loaded \in CoreType /\ loaded.console = console /\ loaded.nds = nds
        /\ loaded.messageScreen = FALSE /\ loaded.ndsSramInstalled = FALSE
        /\ loaded.ndsManager = m /\ loaded.gbaManager = g
    BY <1>3, <1>5, <2>1, <2>3 DEF CoreType
  <2> QED
    BY <2>1, <2>2, <2>4
<1> HIDE DEF loaded
<1>7. nextIdent \in Nat /\ tasks \in Seq(TaskType) /\ Elements(tasks) = {}
  BY InitedHas
<1>loads. AreLoaded(new, loaded, type, last)
  <2>1. loaded.gbaManager.length \in Nat /\ loaded.console.rumblePak \in BOOLEAN
    BY <1>5, <1>6
  <2>2. new = TasksFrom(nextIdent, TasksFor(loaded), type)
        /\ last = nextIdent + Len(TasksFor(loaded)) - 1
    OBVIOUS
  <2> HIDE DEF new, last, titles
  <2> QED
    BY <1>2, <1>7, <2>1, <2>2, LoadedTasks
<1> HIDE DEF last, new, titles
<1>8. /\ new \in Seq(TaskType) /\ last \in Nat
      /\ \A t \in Elements(new) :
           /\ t.ident < last + 1 /\ ~Ended(t) /\ t.path = type
           /\ t.title = "firmware" <=> t.ident = last
      /\ \E t \in Elements(new) : t.title = "firmware"
      /\ loaded.gbaManager.length > 0 => \E t \in Elements(new) : t.title = "gba"
  BY <1>loads DEF AreLoaded
<1>9. tasks' \in Seq(TaskType) /\ Elements(tasks') = Elements(new)
  <2>1. tasks \o new \in Seq(TaskType) /\ Elements(tasks \o new) = Elements(tasks) \cup Elements(new)
    <3>1. tasks \in Seq(TaskType) /\ new \in Seq(TaskType)
      BY <1>7, <1>8
    <3> QED
      BY <3>1, ElementsConcat, Zenon
  <2> QED
    BY <1>1, <1>7, <2>1
<1>10. /\ core' \in CoreType /\ core'.console = console /\ core'.nds = nds
       /\ core'.messageScreen = FALSE /\ core'.ndsSramInstalled = FALSE
       /\ core'.ndsManager = loaded.ndsManager /\ core'.gbaManager = loaded.gbaManager
       /\ core'.flushTaskId = last
  BY <1>1, <1>6, <1>8 DEF CoreType
<1>11. disk' \in DiskType /\ disk'.nds = disk.nds /\ disk'.firmware = disk.firmware
  BY <1>1, <1>4, InstalledTitle
<1>12. /\ played' \in [nds : Sram, gba : SUBSET Cells, firmware : [ConsoleType -> Firmware]]
       /\ played'.gba = {} /\ played'.nds = played.nds /\ played'.firmware = played.firmware
  BY <1>1, InitedHas
<1>13. TypeOK'
  <2>1. nextIdent' \in Nat /\ fault' \in Fault \cup {None} /\ phase' \in Phase
    BY <1>1, <1>4, <1>8 DEF Phase
  <2> QED
    BY <1>9, <1>10, <1>11, <1>12, <2>1 DEF TypeOK
<1>14. TasksReady'
  <2>1. \A t \in Elements(tasks') :
          /\ t.ident < nextIdent' /\ ~Ended(t)
          /\ t.title = "firmware" <=> t.ident = core'.flushTaskId
          /\ t.title = "firmware" => t.path = core'.console.type
    BY <1>1, <1>5, <1>8, <1>9, <1>10
  <2>2. /\ \E t \in Elements(tasks') : t.title = "firmware"
        /\ core'.gbaManager.length > 0 => \E t \in Elements(tasks') : t.title = "gba"
    BY <1>8, <1>9, <1>10
  <2> QED
    BY <1>1, <1>10, <2>1, <2>2 DEF TasksReady, Waits, NoSession
<1>15. Life'
  BY <1>1, <1>4, <1>5, <1>6, <1>10, NoneAssumption DEF Life, NoSession, Session, Fault
<1>16. NdsHeld'
  BY <1>1, <1>11, <1>12, InitedHas DEF NdsHeld
<1>17. GbaHeld'
  BY <1>12 DEF GbaHeld
<1>18. FirmwareHeld'
  BY <1>2, <1>5, <1>10, <1>11, <1>12, InitedHas DEF FirmwareHeld
<1> QED
  BY <1>13, <1>14, <1>15, <1>16, <1>17, <1>18 DEF IInv

LEMMA RetroLoadGameStep == ASSUME IInv, RetroLoadGame PROVE IInv'
BY LoadFailsStep, LoadErrorScreenStep, LoadConsoleStep DEF RetroLoadGame

LEMMA FrontendReadsSaveStep == ASSUME IInv, FrontendReadsSave PROVE IInv'
<1>1. /\ phase = "loaded" /\ phase' = "primed"
      /\ core' = IF core.messageScreen \/ core.ndsManager.length = 0 THEN core
                 ELSE [core EXCEPT !.ndsManager = [core.ndsManager EXCEPT !.sram = disk.nds]]
      /\ UNCHANGED <<tasks, nextIdent, disk, fault, played>>
  BY DEF FrontendReadsSave, IInv, TypeOK, CoreType
<1>2. /\ core \in CoreType /\ disk.nds \in Sram /\ disk.nds = played.nds
      /\ core.ndsManager \in ManagerType /\ core.ndsManager.length \in Nat
  BY <1>1, ManagerParts DEF IInv, TypeOK, CoreType, DiskType, NdsHeld
<1> DEFINE m == [core.ndsManager EXCEPT !.sram = disk.nds]
<1>3. core.ndsManager.length # 0 =>
        m \in ManagerType /\ m.length = core.ndsManager.length /\ m.sram = disk.nds
  <2> SUFFICES ASSUME core.ndsManager.length # 0
               PROVE  m \in ManagerType /\ m.length = core.ndsManager.length /\ m.sram = disk.nds
    OBVIOUS
  <2>1. core.ndsManager = [length |-> SramLength, sram |-> core.ndsManager.sram]
    BY <1>2, ManagerParts
  <2>2. m = [length |-> SramLength, sram |-> disk.nds]
    BY <2>1
  <2> QED
    BY <1>2, <2>1, <2>2 DEF ManagerType
<1> HIDE DEF m
<1>4. /\ core' \in CoreType /\ core'.console = core.console /\ core'.nds = core.nds
      /\ core'.messageScreen = core.messageScreen /\ core'.flushTaskId = core.flushTaskId
      /\ core'.ndsSramInstalled = core.ndsSramInstalled
      /\ core'.gbaManager = core.gbaManager
      /\ core'.ndsManager.length = core.ndsManager.length
      /\ core.messageScreen => core'.ndsManager = core.ndsManager
      /\ ~core.messageScreen /\ core.ndsManager.length > 0 => core'.ndsManager.sram = disk.nds
  <2>1. CASE core.messageScreen \/ core.ndsManager.length = 0
    BY <1>1, <1>2, <2>1
  <2>2. CASE ~(core.messageScreen \/ core.ndsManager.length = 0)
    <3>1. core' = [core EXCEPT !.ndsManager = m]
      BY <1>1, <2>2 DEF m
    <3> QED
      BY <1>2, <1>3, <2>2, <3>1 DEF CoreType
  <2> QED
    BY <2>1, <2>2
<1>5. TypeOK'
  BY <1>1, <1>4 DEF IInv, TypeOK, Phase
<1>6. TasksReady'
  BY <1>1, <1>4 DEF IInv, TasksReady, NoSession, Session, Waits
<1>7. Life'
  BY <1>1, <1>4 DEF IInv, Life, NoSession, Session
<1>8. NdsHeld'
  <2>1. core.messageScreen => ~(core.ndsManager.length > 0)
    BY <1>1 DEF IInv, Life, NoManager, NoSession
  <2> QED
    BY <1>1, <1>2, <1>4, <2>1 DEF NdsHeld, NoSession
<1>9. GbaHeld' /\ FirmwareHeld'
  BY <1>1, <1>4 DEF IInv, GbaHeld, FirmwareHeld, Session
<1> QED
  BY <1>5, <1>6, <1>7, <1>8, <1>9 DEF IInv

\* The disk after the frontend has written its save file.
LEMMA FrontendSaveIs ==
  ASSUME IInv, phase \in {"primed", "running", "shutdown"}, NEW d, d = WithFrontendSave(disk)
  PROVE  /\ d \in DiskType /\ d.nds = played.nds
         /\ d.gba = disk.gba /\ d.firmware = disk.firmware /\ d.title = disk.title
<1>1. disk \in DiskType /\ core.ndsManager \in ManagerType
  BY DEF IInv, TypeOK, CoreType
<1>2. core.ndsManager.length \in Nat /\ (core.ndsManager.length # 0 => core.ndsManager.sram \in Sram)
  BY <1>1, ManagerParts
<1>3. IF core.ndsManager.length > 0 THEN core.ndsManager.sram = played.nds
      ELSE disk.nds = played.nds
  BY DEF IInv, NdsHeld
<1>4. core.messageScreen => core.ndsManager.length = 0
  BY DEF IInv, Life, NoManager, NoSession
<1> QED
  BY <1>1, <1>2, <1>3, <1>4 DEF WithFrontendSave, DiskType

LEMMA FrontendSavesStep == ASSUME IInv, FrontendSaves PROVE IInv'
<1>1. /\ phase = "running" /\ disk' = WithFrontendSave(disk)
      /\ UNCHANGED <<phase, core, tasks, nextIdent, fault, played>>
  BY DEF FrontendSaves
<1>2. /\ disk' \in DiskType /\ disk'.nds = played.nds
      /\ disk'.gba = disk.gba /\ disk'.firmware = disk.firmware
  BY <1>1, FrontendSaveIs
<1>3. TypeOK' /\ TasksReady' /\ Life'
  BY <1>1, <1>2 DEF IInv, TypeOK, TasksReady, Life, Waits
<1>4. NdsHeld' /\ GbaHeld' /\ FirmwareHeld'
  BY <1>1, <1>2 DEF IInv, NdsHeld, GbaHeld, FirmwareHeld, NoSession, Session
<1> QED
  BY <1>3, <1>4 DEF IInv

LEMMA NotReadyStep == ASSUME IInv, NotReady PROVE IInv'
<1>1. /\ phase \in {"primed", "running"} /\ phase \in Session /\ ~core.messageScreen
      /\ phase' = "running" /\ core' = InstallNdsSram(core)
      /\ UNCHANGED <<tasks, nextIdent, disk, fault, played>>
  BY DEF NotReady, Session
<1>2. /\ core \in CoreType /\ core.console \in ConsoleRecord /\ core.console # None
      /\ core.nds = "game" <=> core.console.nds # NoSram
      /\ core.nds = "game" <=> core.ndsManager.length > 0
      /\ core.ndsManager.length \in Nat /\ fault = None
      /\ core.ndsManager.length > 0 => core.ndsManager.sram \in Sram
  BY <1>1, SessionHas
<1>3. /\ core' \in CoreType /\ core'.console \in ConsoleRecord
      /\ core'.console = [core.console EXCEPT !.nds =
           IF core.ndsSramInstalled \/ core.ndsManager.length = 0 THEN core.console.nds
           ELSE core.ndsManager.sram]
      /\ core' = [core EXCEPT !.console = core'.console, !.ndsSramInstalled = TRUE]
  BY <1>1, <1>2, InstallIs
<1>4. /\ core'.nds = core.nds /\ core'.messageScreen = core.messageScreen
      /\ core'.flushTaskId = core.flushTaskId
      /\ core'.ndsManager = core.ndsManager /\ core'.gbaManager = core.gbaManager
  BY <1>2, <1>3 DEF CoreType
<1>5. /\ core'.console.type = core.console.type /\ core'.console.firmware = core.console.firmware
      /\ core'.console.gba = core.console.gba
      /\ core'.console.nds = IF core.ndsSramInstalled \/ core.ndsManager.length = 0
                             THEN core.console.nds ELSE core.ndsManager.sram
  BY <1>2, <1>3 DEF ConsoleRecord
<1>6. core'.console # None
  BY <1>3, NoneAssumption
<1>7. core'.console.nds # NoSram <=> core.console.nds # NoSram
  BY <1>2, <1>5, SramNotEmpty
<1>8. core.ndsManager.length > 0 =>
        core.ndsManager.sram = core'.console.nds /\ core.ndsManager.sram = played.nds
  <2>1. core.ndsManager.length > 0 => core.ndsManager.sram = played.nds
    BY <1>1 DEF IInv, NdsHeld
  <2>2. phase = "primed" => ~core.ndsSramInstalled
    BY DEF IInv, Life
  <2>3. phase = "running" /\ core.ndsManager.length > 0 => core.ndsManager.sram = core.console.nds
    BY <1>2 DEF IInv, NdsHeld
  <2> QED
    BY <1>1, <1>2, <1>5, <2>1, <2>2, <2>3
<1>9. TypeOK'
  BY <1>1, <1>3 DEF IInv, TypeOK, Phase
<1>10. TasksReady'
  BY <1>1, <1>4, <1>5 DEF IInv, TasksReady, NoSession, Session, Waits
<1>11. Life'
  BY <1>1, <1>2, <1>4, <1>6, <1>7 DEF IInv, Life, NoSession, Session
<1>12. NdsHeld'
  BY <1>1, <1>4, <1>8 DEF IInv, NdsHeld, NoSession
<1>13. GbaHeld'
  BY <1>1, <1>4, <1>5, <1>6, <1>2 DEF IInv, GbaHeld, Session
<1>14. FirmwareHeld'
  BY <1>1, <1>2, <1>5, <1>6 DEF IInv, FirmwareHeld
<1> QED
  BY <1>9, <1>10, <1>11, <1>12, <1>13, <1>14 DEF IInv

LEMMA ErrorFrameStep == ASSUME IInv, ErrorFrame PROVE IInv'
<1>1. /\ phase = "primed" /\ core.messageScreen /\ phase' = "running"
      /\ UNCHANGED <<core, tasks, nextIdent, disk, fault, played>>
  BY DEF ErrorFrame
<1>2. core.console = None /\ core.ndsManager = NoManager
  BY <1>1 DEF IInv, Life, NoSession
<1>3. TypeOK'
  BY <1>1 DEF IInv, TypeOK, Phase
<1>4. TasksReady'
  BY <1>1 DEF IInv, TasksReady, NoSession, Session, Waits
<1>5. Life'
  BY <1>1 DEF IInv, Life, NoSession, Session
<1>6. NdsHeld' /\ GbaHeld' /\ FirmwareHeld'
  BY <1>1, <1>2 DEF IInv, NdsHeld, GbaHeld, FirmwareHeld, Session, NoSession
<1> QED
  BY <1>3, <1>4, <1>5, <1>6 DEF IInv

-----------------------------------------------------------------------------
(* The end of a session *)

\* Cancelling every task brings the player's data to the disk and finds its console.
LEMMA CheckBeforeUnload ==
  ASSUME IInv, phase \in {"primed", "running", "shutdown"},
         NEW s, s = CheckTasks([core |-> core, disk |-> WithFrontendSave(disk), fault |-> fault],
                               CancelAll(tasks))
  PROVE  /\ s \in State /\ s.fault = None
         /\ s.disk.nds = played.nds
         /\ \A i \in played.gba : s.disk.gba[i] = New
         /\ \A type \in ConsoleType : s.disk.firmware[type] = played.firmware[type]
<1> DEFINE d == WithFrontendSave(disk)
           s0 == [core |-> core, disk |-> d, fault |-> fault]
           q == CancelAll(tasks)
<1>1. /\ d \in DiskType /\ d.nds = played.nds
      /\ d.gba = disk.gba /\ d.firmware = disk.firmware
  BY FrontendSaveIs
<1> HIDE DEF d
<1>2. core \in CoreType /\ fault = None /\ tasks \in Seq(TaskType)
  BY DEF IInv, TypeOK, Life
<1>3. s0 \in State /\ s0.core = core /\ s0.disk = d /\ s0.fault = None
  BY <1>1, <1>2 DEF State
<1> HIDE DEF s0
<1>4. /\ q \in Seq(TaskType)
      /\ \A t \in Elements(q) : Ended(t)
      /\ \A t \in Elements(q) : \E u \in Elements(tasks) : u.title = t.title /\ u.path = t.path
      /\ \A u \in Elements(tasks) : \E t \in Elements(q) : u.title = t.title /\ u.path = t.path
  BY <1>2, CancelledAll
<1> HIDE DEF q
<1>5. s = CheckTasks(s0, q)
  BY DEF s0, d, q
<1>6. Effect(s0, s, Elements(q))
  BY <1>3, <1>4, <1>5, CheckEffect
<1>7. /\ core.console = None => \A t \in Elements(q) : t.title # "firmware"
      /\ core.console # None =>
           /\ core.console.type \in ConsoleType
           /\ \A t \in Elements(q) : t.title = "firmware" => t.path = core.console.type
           /\ \E t \in Elements(q) : t.title = "firmware" /\ t.path = core.console.type
  <2>1. CASE core.console = None
    <3>1. phase = "shutdown" \/ core.messageScreen
      BY <2>1 DEF IInv, Life, Session
    <3>2. \A t \in Elements(tasks) : t.title # "firmware"
      BY <3>1 DEF IInv, TasksReady, Waits
    <3> QED
      BY <1>4, <2>1, <3>2
  <2>2. CASE core.console # None
    <3>1. phase \in Session /\ ~core.messageScreen
      BY <2>2 DEF IInv, Life, Session
    <3>2. /\ \A t \in Elements(tasks) : t.title = "firmware" => t.path = core.console.type
          /\ \E t \in Elements(tasks) : t.title = "firmware"
      BY <3>1 DEF IInv, TasksReady, Waits, Session
    <3>3. core.console.type \in ConsoleType
      BY <3>1, SessionHas
    <3> QED
      BY <1>4, <2>2, <3>2, <3>3
  <2> QED
    BY <2>1, <2>2
<1>8. s.fault = None
  BY <1>3, <1>4, <1>6, <1>7 DEF Effect
<1>9. ASSUME NEW i \in played.gba PROVE s.disk.gba[i] = New
  <2>1. core.gbaManager.length \in Nat
    BY <1>2, ManagerParts DEF CoreType
  <2>2. CASE core.gbaManager.length > 0
    <3>1. \E t \in Elements(q) : t.title = "gba" /\ Ended(t)
      BY <1>4, <2>2 DEF IInv, TasksReady, Waits, Session
    <3>2. s.disk.gba = core.gbaManager.sram
      BY <1>3, <1>6, <2>2, <3>1 DEF Effect
    <3>3. core.gbaManager.sram[i] = New
      BY <2>2 DEF IInv, GbaHeld, Session
    <3> QED
      BY <3>2, <3>3
  <2>3. CASE ~(core.gbaManager.length > 0)
    <3>1. s.disk.gba = disk.gba
      BY <1>1, <1>3, <1>6, <2>3 DEF Effect
    <3>2. disk.gba[i] = New
      BY <2>3 DEF IInv, GbaHeld
    <3> QED
      BY <3>1, <3>2
  <2> QED
    BY <2>2, <2>3
<1>10. ASSUME NEW type \in ConsoleType PROVE s.disk.firmware[type] = played.firmware[type]
  <2>1. CASE core.console # None /\ core.console.type = type
    <3>1. s.disk.firmware[type] = core.console.firmware
      BY <1>3, <1>4, <1>6, <1>7, <2>1 DEF Effect
    <3>2. played.firmware[type] = core.console.firmware
      BY <2>1 DEF IInv, FirmwareHeld
    <3> QED
      BY <3>1, <3>2
  <2>2. CASE ~(core.console # None /\ core.console.type = type)
    <3>1. s.disk.firmware[type] = disk.firmware[type]
      BY <1>1, <1>3, <1>6, <1>7, <2>2 DEF Effect
    <3>2. played.firmware[type] = disk.firmware[type]
      BY <2>2 DEF IInv, FirmwareHeld
    <3> QED
      BY <3>1, <3>2
  <2> QED
    BY <2>1, <2>2
<1>11. s.disk.nds = played.nds
  BY <1>1, <1>3, <1>6 DEF Effect
<1>12. s \in State
  BY <1>6 DEF Effect
<1> QED
  BY <1>8, <1>9, <1>10, <1>11, <1>12

LEMMA RetroUnloadGameStep == ASSUME IInv, RetroUnloadGame PROVE IInv'
<1> DEFINE s == CheckTasks([core |-> core, disk |-> WithFrontendSave(disk), fault |-> fault],
                           CancelAll(tasks))
           u == UnloadGame(s)
<1>1. /\ phase \in {"primed", "running", "shutdown"}
      /\ phase' = PhaseAfter("unloaded", u.fault) /\ core' = u.core /\ disk' = u.disk
      /\ fault' = u.fault /\ tasks' = Running(CancelAll(tasks))
      /\ UNCHANGED <<nextIdent, played>>
  BY DEF RetroUnloadGame
<1>2. /\ s \in State /\ s.fault = None
      /\ s.disk.nds = played.nds
      /\ \A i \in played.gba : s.disk.gba[i] = New
      /\ \A type \in ConsoleType : s.disk.firmware[type] = played.firmware[type]
  <2> HIDE DEF s
  <2> QED
    BY <1>1, CheckBeforeUnload DEF s
<1> HIDE DEF s
<1>3. s.core \in CoreType /\ s.disk \in DiskType
      /\ s = [core |-> s.core, disk |-> s.disk, fault |-> s.fault]
  BY <1>2 DEF State
<1>4. /\ u.core \in CoreType /\ u.disk \in DiskType
      /\ u.disk.nds = s.disk.nds /\ u.disk.gba = s.disk.gba /\ u.disk.firmware = s.disk.firmware
      /\ \/ u.fault = "UnloadGame"
         \/ u.fault = None /\ u.core.console = None
  <2>1. CASE s.core.nds # "dsiware"
    <3>1. u.core = [s.core EXCEPT !.console = None] /\ u.disk = s.disk /\ u.fault = s.fault
      BY <1>3, <2>1 DEF UnloadGame
    <3> HIDE DEF u
    <3> QED
      BY <1>2, <1>3, <3>1 DEF CoreType
  <2>2. CASE s.core.nds = "dsiware" /\ s.core.console = None
    <3>1. u.core = s.core /\ u.disk = s.disk /\ u.fault = "UnloadGame"
      BY <1>3, <2>2 DEF UnloadGame
    <3> HIDE DEF u
    <3> QED
      BY <1>2, <1>3, <3>1
  <2>3. CASE s.core.nds = "dsiware" /\ s.core.console # None
    <3>1. /\ u.core = [s.core EXCEPT !.console = None]
          /\ u.disk = [s.disk EXCEPT !.title = "absent"] /\ u.fault = s.fault
      BY <1>3, <2>3 DEF UnloadGame
    <3> HIDE DEF u
    <3> QED
      BY <1>2, <1>3, <3>1 DEF CoreType, DiskType
  <2> QED
    BY <2>1, <2>2, <2>3
<1> HIDE DEF u
<1>5. tasks' \in Seq(TaskType) /\ Elements(tasks') = {}
  <2>1. tasks \in Seq(TaskType)
    BY DEF IInv, TypeOK
  <2>2. CancelAll(tasks) \in Seq(TaskType) /\ \A t \in Elements(CancelAll(tasks)) : Ended(t)
    BY <2>1, CancelledAll
  <2> QED
    BY <1>1, <2>2, RunningTasks
<1>6. u.fault \in Fault \cup {None} /\ (phase' = "unloaded" \/ phase' = "faulted")
  BY <1>1, <1>4 DEF Fault, PhaseAfter
<1>7. TypeOK'
  BY <1>1, <1>4, <1>5, <1>6 DEF IInv, TypeOK, Phase
<1>8. CASE u.fault = "UnloadGame"
  <2>1. phase' = "faulted"
    BY <1>1, <1>8, NoneAssumption DEF PhaseAfter, Fault
  <2> QED
    BY <1>1, <1>7, <1>8, <2>1, Faulted
<1>9. CASE u.fault # "UnloadGame"
  <2>1. phase' = "unloaded" /\ fault' = None /\ core'.console = None
    BY <1>1, <1>4, <1>9 DEF PhaseAfter
  <2>2. TasksReady'
    BY <1>5, <2>1 DEF TasksReady, Session
  <2>3. Life'
    BY <2>1, NoneAssumption DEF Life, NoSession, Session, Fault
  <2>4. NdsHeld' /\ GbaHeld' /\ FirmwareHeld'
    BY <1>1, <1>2, <1>4, <2>1 DEF NdsHeld, GbaHeld, FirmwareHeld, Session
  <2> QED
    BY <1>7, <2>2, <2>3, <2>4 DEF IInv
<1> QED
  BY <1>8, <1>9

-----------------------------------------------------------------------------
(* A reset *)

\* retro_reset's flush: every file holds what was played, and the tasks that stay are
\* those of the frontend's session without the firmware task.
LEMMA FlushedHas ==
  ASSUME IInv, phase = "running", ~core.messageScreen, NEW s, s = Flushed
  PROVE  /\ s.core \in CoreType /\ s.disk \in DiskType /\ s.fault = None
         /\ s.core.console = core.console /\ s.core.nds = core.nds
         /\ s.core.messageScreen = core.messageScreen
         /\ s.core.ndsManager = core.ndsManager /\ s.core.gbaManager = core.gbaManager
         /\ s.disk.nds = disk.nds
         /\ \A i \in played.gba : s.disk.gba[i] = New
         /\ \A type \in ConsoleType : s.disk.firmware[type] = played.firmware[type]
         /\ TasksLeft \in Seq(TaskType)
         /\ \A t \in Elements(TasksLeft) :
              t.ident < nextIdent /\ ~Ended(t) /\ t.title # "firmware"
         /\ core.gbaManager.length > 0 => \E t \in Elements(TasksLeft) : t.title = "gba"
<1> DEFINE c == [core EXCEPT !.gbaTimer = 0, !.firmwareTimer = 0]
           s0 == [core |-> c, disk |-> disk, fault |-> fault]
           q == CancelFlush(tasks, core)
<1>1. /\ core \in CoreType /\ disk \in DiskType /\ fault = None /\ tasks \in Seq(TaskType)
      /\ core.console # None /\ core.console.type \in ConsoleType
      /\ core.gbaManager.length \in Nat
  BY SessionHas DEF Session, IInv, TypeOK
<1>2. /\ \A t \in Elements(tasks) :
           /\ t.ident < nextIdent /\ (Ended(t) => t.title = "rumble")
           /\ t.title = "firmware" <=> t.ident = core.flushTaskId
           /\ t.title = "firmware" => t.path = core.console.type
      /\ \E t \in Elements(tasks) : t.title = "firmware"
      /\ core.gbaManager.length > 0 => \E t \in Elements(tasks) : t.title = "gba"
  BY DEF IInv, TasksReady, Waits, Session
<1>3. /\ c \in CoreType /\ c.console = core.console /\ c.nds = core.nds
      /\ c.messageScreen = core.messageScreen
      /\ c.ndsManager = core.ndsManager /\ c.gbaManager = core.gbaManager
      /\ c.gbaTimer = 0
  <2>1. 0 \in TimerType
    BY CoreAssumption DEF TimerType
  <2> QED
    BY <1>1, <2>1 DEF CoreType
<1> HIDE DEF c
<1>4. s0 \in State /\ s0.core = c /\ s0.disk = disk /\ s0.fault = None
  BY <1>1, <1>3 DEF State
<1> HIDE DEF s0
<1>5. /\ q \in Seq(TaskType)
      /\ \A u \in Elements(tasks) : u.ident # core.flushTaskId => u \in Elements(q)
      /\ \A u \in Elements(tasks) : u.ident = core.flushTaskId =>
           \E t \in Elements(q) : Ended(t) /\ t.title = u.title /\ t.path = u.path
      /\ \A t \in Elements(q) :
           \/ t \in Elements(tasks) /\ t.ident # core.flushTaskId
           \/ Ended(t) /\ \E u \in Elements(tasks) :
                u.ident = core.flushTaskId /\ t.title = u.title /\ t.path = u.path
  BY <1>1, CancelledFound DEF CancelFlush
<1>6. TasksLeft = Running(q)
  BY DEF TasksLeft
<1>7. s = CheckTasks(s0, q)
  BY DEF Flushed, s0, c
<1> HIDE DEF q
<1>8. Effect(s0, s, Elements(q))
  BY <1>4, <1>5, <1>7, CheckEffect
<1>9. /\ s.core \in CoreType /\ s.disk \in DiskType
      /\ s.core.console = c.console /\ s.core.nds = c.nds
      /\ s.core.messageScreen = c.messageScreen
      /\ s.core.ndsManager = c.ndsManager /\ s.core.gbaManager = c.gbaManager
  BY <1>4, <1>8, EffectKeeps
<1>10. s.fault = None /\ s.disk.nds = disk.nds
  BY <1>1, <1>3, <1>4, <1>8 DEF Effect
<1>11. core.gbaManager.length > 0 =>
         \E t \in Elements(q) : t \in Elements(tasks) /\ t.title = "gba" /\ ~Ended(t)
  <2> SUFFICES ASSUME core.gbaManager.length > 0
               PROVE  \E t \in Elements(q) : t \in Elements(tasks) /\ t.title = "gba" /\ ~Ended(t)
    OBVIOUS
  <2>1. PICK t \in Elements(tasks) : t.title = "gba"
    BY <1>2
  <2>2. t.ident # core.flushTaskId /\ ~Ended(t)
    BY <1>2, <2>1
  <2> QED
    BY <1>5, <2>1, <2>2
<1>12. ASSUME NEW i \in played.gba PROVE s.disk.gba[i] = New
  <2>1. CASE core.gbaManager.length > 0
    <3>1. s.disk.gba = core.gbaManager.sram
      BY <1>3, <1>4, <1>8, <1>11, <2>1 DEF Effect
    <3>2. core.gbaManager.sram[i] = New
      BY <2>1 DEF IInv, GbaHeld, Session
    <3> QED
      BY <3>1, <3>2
  <2>2. CASE ~(core.gbaManager.length > 0)
    <3>1. s.disk.gba = disk.gba
      BY <1>3, <1>4, <1>8, <2>2 DEF Effect
    <3>2. disk.gba[i] = New
      BY <2>2 DEF IInv, GbaHeld
    <3> QED
      BY <3>1, <3>2
  <2> QED
    BY <2>1, <2>2
<1>13. /\ \A t \in Elements(q) : t.title = "firmware" => t.path = core.console.type
       /\ \E t \in Elements(q) : t.title = "firmware" /\ Ended(t) /\ t.path = core.console.type
  BY <1>2, <1>5
<1>14. ASSUME NEW type \in ConsoleType PROVE s.disk.firmware[type] = played.firmware[type]
  <2>1. CASE core.console.type = type
    <3>1. s.disk.firmware[type] = core.console.firmware
      BY <1>1, <1>3, <1>4, <1>8, <1>13, <2>1 DEF Effect
    <3>2. played.firmware[type] = core.console.firmware
      BY <1>1, <2>1 DEF IInv, FirmwareHeld
    <3> QED
      BY <3>1, <3>2
  <2>2. CASE core.console.type # type
    <3>1. s.disk.firmware[type] = disk.firmware[type]
      BY <1>4, <1>8, <1>13, <2>2 DEF Effect
    <3>2. played.firmware[type] = disk.firmware[type]
      BY <2>2 DEF IInv, FirmwareHeld
    <3> QED
      BY <3>1, <3>2
  <2> QED
    BY <2>1, <2>2
<1>15. TasksLeft \in Seq(TaskType) /\ Elements(TasksLeft) = {t \in Elements(q) : ~Ended(t)}
  BY <1>5, <1>6, RunningTasks
<1>16. \A t \in Elements(TasksLeft) :
         t.ident < nextIdent /\ ~Ended(t) /\ t.title # "firmware"
  BY <1>2, <1>5, <1>15
<1>17. core.gbaManager.length > 0 => \E t \in Elements(TasksLeft) : t.title = "gba"
  BY <1>11, <1>15
<1> QED
  BY <1>3, <1>9, <1>10, <1>12, <1>14, <1>15, <1>16, <1>17

LEMMA ResetFailsStep ==
  ASSUME IInv, phase = "running", ~core.messageScreen, ResetFails(Flushed)
  PROVE  IInv'
<1> DEFINE s == Flushed
<1>1. /\ phase' = PhaseAfter("shutdown", s.fault)
      /\ core' = [s.core EXCEPT !.console = None]
      /\ tasks' = TasksLeft /\ disk' = s.disk /\ fault' = s.fault
      /\ UNCHANGED <<nextIdent, played>>
  BY DEF ResetFails
<1>2. /\ s.core \in CoreType /\ s.disk \in DiskType /\ s.fault = None
      /\ s.core.messageScreen = core.messageScreen
      /\ s.core.ndsManager = core.ndsManager /\ s.core.gbaManager = core.gbaManager
      /\ s.disk.nds = disk.nds
      /\ \A i \in played.gba : s.disk.gba[i] = New
      /\ \A type \in ConsoleType : s.disk.firmware[type] = played.firmware[type]
      /\ TasksLeft \in Seq(TaskType)
      /\ \A t \in Elements(TasksLeft) :
           t.ident < nextIdent /\ ~Ended(t) /\ t.title # "firmware"
      /\ core.gbaManager.length > 0 => \E t \in Elements(TasksLeft) : t.title = "gba"
  <2> HIDE DEF s
  <2> QED
    BY FlushedHas DEF s
<1> HIDE DEF s
<1>3. phase' = "shutdown" /\ fault' = None
  BY <1>1, <1>2 DEF PhaseAfter
<1>4. /\ core' \in CoreType /\ core'.console = None /\ ~core'.messageScreen
      /\ core'.ndsManager = core.ndsManager /\ core'.gbaManager = core.gbaManager
  BY <1>1, <1>2 DEF CoreType
<1>5. TypeOK'
  BY <1>1, <1>2, <1>3, <1>4 DEF IInv, TypeOK, Phase
<1>6. TasksReady'
  BY <1>1, <1>2, <1>3, <1>4 DEF TasksReady, Waits, NoSession, Session
<1>7. Life'
  BY <1>3, <1>4, NoneAssumption DEF Life, NoSession, Session, Fault
<1>8. NdsHeld'
  BY <1>1, <1>2, <1>3, <1>4 DEF IInv, NdsHeld, NoSession
<1>9. GbaHeld'
  BY <1>1, <1>2, <1>3, <1>4 DEF IInv, GbaHeld, Session
<1>10. FirmwareHeld'
  BY <1>1, <1>2, <1>4 DEF FirmwareHeld
<1> QED
  BY <1>5, <1>6, <1>7, <1>8, <1>9, <1>10 DEF IInv

\* Flush of the whole memory copies the whole memory.
LEMMA FlushAll ==
  ASSUME NEW m \in ManagerType, m.length # 0, NEW new \in Sram
  PROVE  Flush(m, new, SramLength, 0, SramLength) = [length |-> SramLength, sram |-> new]
<1>1. 0 \in Cells /\ SramLength \in Nat
  BY CoreAssumption DEF Cells
<1> DEFINE old == m.sram
<1>2. m = [length |-> SramLength, sram |-> old]
  BY ManagerParts
<1> HIDE DEF old
<1>3. Flush(m, new, SramLength, 0, SramLength)
        = [length |-> SramLength, sram |-> [i \in Cells |->
             IF i \in Touched(SramLength, 0, SramLength) THEN new[i] ELSE old[i]]]
  BY <1>1, <1>2, FlushIs
<1>4. \A i \in Cells : i \in Touched(SramLength, 0, SramLength)
  BY CoreAssumption DEF Touched, Cells
<1>5. [i \in Cells |-> IF i \in Touched(SramLength, 0, SramLength) THEN new[i] ELSE old[i]] = new
  BY <1>4 DEF Sram
<1> QED
  BY <1>3, <1>5

\* SetNDSSave reports the memory the frontend's buffer already holds.
LEMMA NdsReportIs ==
  ASSUME NEW c \in CoreType, c.console \in ConsoleRecord, c.console.nds # NoSram,
         c.ndsManager.length > 0 => c.ndsManager.sram = c.console.nds,
         NEW d, d = WriteNdsSave(c, 0, SramLength)
  PROVE  d = c
<1>1. c.ndsManager \in ManagerType /\ c.ndsManager.length \in Nat /\ c.console.nds \in Sram
  BY ManagerParts DEF CoreType, ConsoleRecord
<1>2. CASE c.ndsManager.length = 0
  BY <1>2 DEF WriteNdsSave
<1>3. CASE c.ndsManager.length # 0
  <2>1. c.ndsManager = [length |-> SramLength, sram |-> c.console.nds]
    BY <1>1, <1>3, ManagerParts
  <2> DEFINE m == c.ndsManager
             new == c.console.nds
  <2>2. m \in ManagerType /\ m.length # 0 /\ new \in Sram
    BY <1>1, <1>3
  <2> HIDE DEF m, new
  <2>3. Flush(m, new, SramLength, 0, SramLength) = [length |-> SramLength, sram |-> new]
    BY <2>2, FlushAll
  <2>4. Flush(m, new, SramLength, 0, SramLength) = m
    BY <2>1, <2>3 DEF m, new
  <2>5. d = [c EXCEPT !.ndsManager = m]
    BY <1>3, <2>4 DEF WriteNdsSave, m, new
  <2> QED
    BY <2>5 DEF CoreType, m
<1> QED
  BY <1>2, <1>3

\* SetGBASave reports the whole memory: the buffer then holds it.
LEMMA GbaReportIs ==
  ASSUME NEW c \in CoreType, c.console \in ConsoleRecord, c.console.gba # NoSram,
         c.gbaManager.length > 0, NEW d, d = WriteGbaSave(c, 0, SramLength)
  PROVE  /\ d \in CoreType /\ d.console = c.console
         /\ d.nds = c.nds /\ d.messageScreen = c.messageScreen /\ d.flushTaskId = c.flushTaskId
         /\ d.ndsManager = c.ndsManager
         /\ d.gbaManager = [length |-> SramLength, sram |-> c.console.gba]
<1> DEFINE m == c.gbaManager
           new == c.console.gba
           k == [length |-> SramLength, sram |-> new]
<1>1. m \in ManagerType /\ m.length # 0 /\ new \in Sram
  BY DEF CoreType, ConsoleRecord
<1>2. k \in ManagerType
  BY <1>1 DEF ManagerType
<1> HIDE DEF m, new, k
<1>3. Flush(m, new, SramLength, 0, SramLength) = k
  BY <1>1, FlushAll DEF k
<1>4. d = [c EXCEPT !.gbaManager = k, !.gbaTimer = FlushDelay]
  BY <1>1, <1>3 DEF WriteGbaSave, m, new
<1>5. FlushDelay \in TimerType
  BY CoreAssumption DEF TimerType
<1>6. /\ d \in CoreType /\ d.console = c.console
      /\ d.nds = c.nds /\ d.messageScreen = c.messageScreen /\ d.flushTaskId = c.flushTaskId
      /\ d.ndsManager = c.ndsManager /\ d.gbaManager = k
  BY <1>2, <1>4, <1>5 DEF CoreType
<1> QED
  BY <1>6 DEF k, new

LEMMA ResetConsoleStep ==
  ASSUME IInv, phase = "running", ~core.messageScreen,
         NEW type \in TypesFor(core.nds), NEW rumblePak \in BOOLEAN, NEW reports \in BOOLEAN,
         ResetConsole(Flushed, type, rumblePak, reports)
  PROVE  IInv'
<1> DEFINE s == Flushed
           old == s.core.console
           created == CreateConsole(s.core, s.disk, type, rumblePak)
           console == KeepSaves(old, created)
           c == [s.core EXCEPT !.console = console, !.ndsSramInstalled = FALSE,
                               !.flushTaskId = nextIdent]
           setsGba == reports /\ old.gba # NoSram /\ console.gba # NoSram
           c1 == IF reports /\ old.nds # NoSram THEN WriteNdsSave(c, 0, SramLength) ELSE c
           c2 == IF setsGba THEN WriteGbaSave(c1, 0, SramLength) ELSE c1
           firmwareTask == NewTask(nextIdent, "firmware", type)
           others == FinishFound(Push(TasksLeft, firmwareTask), "rumble")
           rumbleTask == NewTask(nextIdent + 1, "rumble", type)
<1>1. /\ core' = c2
      /\ fault' = IF s.fault = None /\ setsGba THEN WriteGbaSaveFault(c1) ELSE s.fault
      /\ tasks' = IF console.rumblePak THEN Push(others, rumbleTask) ELSE others
      /\ nextIdent' = nextIdent + IF console.rumblePak THEN 2 ELSE 1
      /\ disk' = InstallDsiware(s.core, s.disk)
      /\ phase' = PhaseAfter("running", fault')
      /\ played' = played
  BY DEF ResetConsole
<1>2. type \in ConsoleType /\ nextIdent \in Nat
  BY DEF TypesFor, ConsoleType, IInv, TypeOK
<1>3. /\ s.core \in CoreType /\ s.disk \in DiskType /\ s.fault = None
      /\ old = core.console /\ s.core.nds = core.nds
      /\ s.core.messageScreen = core.messageScreen
      /\ s.core.ndsManager = core.ndsManager /\ s.core.gbaManager = core.gbaManager
      /\ s.disk.nds = disk.nds
      /\ \A i \in played.gba : s.disk.gba[i] = New
      /\ \A t \in ConsoleType : s.disk.firmware[t] = played.firmware[t]
      /\ TasksLeft \in Seq(TaskType)
      /\ \A t \in Elements(TasksLeft) :
           t.ident < nextIdent /\ ~Ended(t) /\ t.title # "firmware"
      /\ core.gbaManager.length > 0 => \E t \in Elements(TasksLeft) : t.title = "gba"
  <2> DEFINE r == Flushed
  <2> HIDE DEF r
  <2>1. /\ r.core \in CoreType /\ r.disk \in DiskType /\ r.fault = None
        /\ r.core.console = core.console /\ r.core.nds = core.nds
        /\ r.core.messageScreen = core.messageScreen
        /\ r.core.ndsManager = core.ndsManager /\ r.core.gbaManager = core.gbaManager
        /\ r.disk.nds = disk.nds
        /\ \A i \in played.gba : r.disk.gba[i] = New
        /\ \A t \in ConsoleType : r.disk.firmware[t] = played.firmware[t]
        /\ TasksLeft \in Seq(TaskType)
        /\ \A t \in Elements(TasksLeft) :
             t.ident < nextIdent /\ ~Ended(t) /\ t.title # "firmware"
        /\ core.gbaManager.length > 0 => \E t \in Elements(TasksLeft) : t.title = "gba"
    BY FlushedHas DEF r
  <2> QED
    BY <2>1 DEF r
<1> HIDE DEF s
<1>4. /\ core.console \in ConsoleRecord /\ core.console # None
      /\ core.nds = "game" <=> core.console.nds # NoSram
      /\ core.nds = "game" <=> core.ndsManager.length > 0
      /\ core.ndsManager.length \in Nat /\ core.gbaManager.length \in Nat
      /\ core.gbaManager \in ManagerType
      /\ played.firmware \in [ConsoleType -> Firmware]
  BY SessionHas DEF Session
<1>5. /\ created \in ConsoleRecord /\ created # None
      /\ created.type = type /\ created.firmware = s.disk.firmware[type]
      /\ created.nds # NoSram <=> core.nds = "game"
      /\ created.gba = NoSram \/ created.gba = s.disk.gba
  BY <1>2, <1>3, CreateIs
<1> HIDE DEF created, old
<1>6. /\ console \in ConsoleRecord /\ console.type = type
      /\ console.firmware = s.disk.firmware[type]
      /\ console.nds = IF core.console.nds = NoSram THEN created.nds ELSE core.console.nds
      /\ console.gba = IF old.gba = NoSram \/ created.gba = NoSram THEN created.gba ELSE old.gba
      /\ console.rumblePak \in BOOLEAN
  BY <1>3, <1>4, <1>5 DEF KeepSaves, ConsoleRecord
<1> HIDE DEF console
<1>7. console.nds # NoSram <=> core.nds = "game"
  BY <1>4, <1>5, <1>6
<1>8. core.ndsManager.length > 0 =>
        core.ndsManager.sram = console.nds /\ core.ndsManager.sram = played.nds
  <2>1. core.ndsManager.length > 0 =>
          core.ndsManager.sram = core.console.nds /\ core.ndsManager.sram = played.nds
    BY <1>4 DEF IInv, NdsHeld
  <2> QED
    BY <1>4, <1>6, <2>1
<1>9. /\ c \in CoreType /\ c.console = console /\ c.nds = core.nds
      /\ c.messageScreen = core.messageScreen /\ c.flushTaskId = nextIdent
      /\ c.ndsManager = core.ndsManager /\ c.gbaManager = core.gbaManager
  BY <1>2, <1>3, <1>6 DEF CoreType
<1> HIDE DEF c
<1>10. c1 = c
  <2>1. CASE reports /\ old.nds # NoSram
    <3>1. c.console \in ConsoleRecord /\ c.console.nds # NoSram
          /\ (c.ndsManager.length > 0 => c.ndsManager.sram = c.console.nds)
      BY <1>3, <1>4, <1>6, <1>7, <1>8, <1>9, <2>1
    <3>2. c1 = WriteNdsSave(c, 0, SramLength)
      BY <2>1
    <3> HIDE DEF c1
    <3> QED
      BY <1>9, <3>1, <3>2, NdsReportIs
  <2>2. CASE ~(reports /\ old.nds # NoSram)
    BY <2>2
  <2> QED
    BY <2>1, <2>2
<1> HIDE DEF c1
<1>11. nextIdent' \in Nat /\ disk' \in DiskType /\ disk'.nds = disk.nds
       /\ disk'.gba = s.disk.gba /\ disk'.firmware = s.disk.firmware
  <2>1. nextIdent' \in Nat
    BY <1>1, <1>2
  <2> QED
    BY <1>1, <1>3, <2>1, InstalledTitle
<1>12. /\ tasks' \in Seq(TaskType)
       /\ \A t \in Elements(tasks') :
            /\ t.ident < nextIdent' /\ (Ended(t) => t.title = "rumble")
            /\ t.title = "firmware" <=> t.ident = nextIdent
            /\ t.title = "firmware" => t.path = type
       /\ \E t \in Elements(tasks') : t.title = "firmware"
       /\ core.gbaManager.length > 0 => \E t \in Elements(tasks') : t.title = "gba"
  <2> DEFINE left == TasksLeft
             pushed == Push(left, firmwareTask)
  <2>1. /\ firmwareTask \in TaskType /\ firmwareTask.ident = nextIdent
        /\ firmwareTask.title = "firmware" /\ firmwareTask.path = type /\ ~Ended(firmwareTask)
        /\ rumbleTask \in TaskType /\ rumbleTask.ident = nextIdent + 1
        /\ rumbleTask.title = "rumble"
    BY <1>2 DEF NewTask, TaskType, Ended
  <2>2. /\ left \in Seq(TaskType)
        /\ \A t \in Elements(left) : t.ident < nextIdent /\ ~Ended(t) /\ t.title # "firmware"
        /\ core.gbaManager.length > 0 => \E t \in Elements(left) : t.title = "gba"
    BY <1>3
  <2>3. others = FinishFound(pushed, "rumble")
    OBVIOUS
  <2>4. tasks' = IF console.rumblePak THEN Append(others, rumbleTask) ELSE others
    BY <1>1 DEF Push
  <2> HIDE DEF firmwareTask, rumbleTask, others, left
  <2>5. pushed \in Seq(TaskType) /\ Elements(pushed) = Elements(left) \cup {firmwareTask}
    <3>1. pushed = Append(left, firmwareTask)
      BY DEF Push
    <3> HIDE DEF pushed
    <3>2. left \in Seq(TaskType)
      BY <2>2
    <3>3. firmwareTask \in TaskType
      BY <2>1
    <3> QED
      BY <3>1, <3>2, <3>3, ElementsAppend, Zenon
  <2> HIDE DEF pushed
  <2>6. /\ others \in Seq(TaskType)
        /\ \A u \in Elements(pushed) : u.title # "rumble" => u \in Elements(others)
        /\ \A t \in Elements(others) :
             \E u \in Elements(pushed) : t.ident = u.ident /\ t.title = u.title /\ t.path = u.path
                /\ (t = u \/ t.title = "rumble")
    BY <2>3, <2>5, FinishedFound
  <2>7. \A u \in Elements(left) : u \in TaskType
    BY <2>2, ElementsTyped, Zenon
  <2>8. \A t \in Elements(others) :
          /\ t.ident < nextIdent + 1 /\ (Ended(t) => t.title = "rumble")
          /\ t.title = "firmware" <=> t.ident = nextIdent
          /\ t.title = "firmware" => t.path = type
    <3> SUFFICES ASSUME NEW t \in Elements(others)
                 PROVE  /\ t.ident < nextIdent + 1 /\ (Ended(t) => t.title = "rumble")
                        /\ t.title = "firmware" <=> t.ident = nextIdent
                        /\ t.title = "firmware" => t.path = type
      OBVIOUS
    <3>1. PICK u \in Elements(pushed) :
            t.ident = u.ident /\ t.title = u.title /\ t.path = u.path
              /\ (t = u \/ t.title = "rumble")
      BY <2>6
    <3>2. CASE u = firmwareTask
      BY <1>2, <2>1, <3>1, <3>2
    <3>3. CASE u \in Elements(left)
      <4>1. u.ident \in Nat
        BY <2>7, <3>3 DEF TaskType
      <4> QED
        BY <1>2, <2>2, <3>1, <3>3, <4>1
    <3> QED
      BY <2>5, <3>2, <3>3
  <2>9. firmwareTask \in Elements(others)
    BY <2>1, <2>5, <2>6
  <2>10. core.gbaManager.length > 0 => \E t \in Elements(others) : t.title = "gba"
    BY <2>2, <2>5, <2>6
  <2>11. \A t \in Elements(others) : t.ident \in Nat
    <3>1. \A t \in Elements(others) : t \in TaskType
      BY <2>6, ElementsTyped, Zenon
    <3> QED
      BY <3>1 DEF TaskType
  <2>12. CASE console.rumblePak
    <3>1. tasks' = Append(others, rumbleTask) /\ nextIdent' = nextIdent + 2
      BY <1>1, <2>4, <2>12
    <3>2. tasks' \in Seq(TaskType) /\ Elements(tasks') = Elements(others) \cup {rumbleTask}
      <4>1. others \in Seq(TaskType)
        BY <2>6
      <4>2. rumbleTask \in TaskType
        BY <2>1
      <4>3. tasks' = Append(others, rumbleTask)
        BY <3>1
      <4> HIDE DEF setsGba, c2
      <4> QED
        BY <4>1, <4>2, <4>3, ElementsAppend, Zenon
    <3>3. \A t \in Elements(tasks') :
            /\ t.ident < nextIdent' /\ (Ended(t) => t.title = "rumble")
            /\ t.title = "firmware" <=> t.ident = nextIdent
            /\ t.title = "firmware" => t.path = type
      <4>1. \A t \in Elements(others) : t.ident < nextIdent'
        BY <1>2, <2>8, <2>11, <3>1
      <4>2. rumbleTask.ident < nextIdent' /\ rumbleTask.ident # nextIdent
        BY <1>2, <2>1, <3>1
      <4> QED
        BY <2>1, <2>8, <3>2, <4>1, <4>2
    <3> QED
      BY <2>1, <2>9, <2>10, <3>2, <3>3
  <2>13. CASE ~console.rumblePak
    <3>1. tasks' = others /\ nextIdent' = nextIdent + 1
      BY <1>1, <2>4, <2>13
    <3> QED
      BY <2>1, <2>6, <2>8, <2>9, <2>10, <3>1
  <2> QED
    BY <2>12, <2>13
<1> HIDE DEF others, firmwareTask, rumbleTask
<1>13. CASE setsGba /\ core.gbaManager.length = 0
  <2>1. /\ core' = c /\ fault' = "WriteGbaSave" /\ phase' = "faulted"
    BY <1>1, <1>3, <1>9, <1>10, <1>13, NoneAssumption DEF WriteGbaSaveFault, WriteGbaSave, PhaseAfter, Fault
  <2>2. TypeOK'
    BY <1>1, <1>9, <1>11, <1>12, <2>1 DEF IInv, TypeOK, Phase, Fault
  <2> QED
    BY <2>1, <2>2, Faulted
<1>14. CASE ~(setsGba /\ core.gbaManager.length = 0)
  <2>1. fault' = None /\ phase' = "running"
    BY <1>1, <1>3, <1>9, <1>10, <1>14 DEF WriteGbaSaveFault, PhaseAfter
  <2>2. /\ core' \in CoreType /\ core'.console = console /\ core'.nds = core.nds
        /\ core'.messageScreen = core.messageScreen /\ core'.flushTaskId = nextIdent
        /\ core'.ndsManager = core.ndsManager
        /\ core'.gbaManager.length = core.gbaManager.length
        /\ \/ core'.gbaManager = core.gbaManager
           \/ core'.gbaManager.sram = console.gba /\ console.gba # NoSram
    <3>1. CASE setsGba
      <4>1. c.gbaManager.length > 0 /\ c.console \in ConsoleRecord /\ c.console.gba # NoSram
        BY <1>4, <1>6, <1>9, <1>14, <3>1
      <4>2. core' = WriteGbaSave(c, 0, SramLength)
        BY <1>1, <1>10, <3>1
      <4>3. /\ core' \in CoreType /\ core'.console = c.console
            /\ core'.nds = c.nds /\ core'.messageScreen = c.messageScreen
            /\ core'.flushTaskId = c.flushTaskId
            /\ core'.ndsManager = c.ndsManager
            /\ core'.gbaManager = [length |-> SramLength, sram |-> c.console.gba]
        BY <1>9, <4>1, <4>2, GbaReportIs
      <4>4. core.gbaManager.length = SramLength
        BY <1>4, <1>9, <4>1, ManagerParts
      <4> QED
        BY <1>9, <4>1, <4>3, <4>4
    <3>2. CASE ~setsGba
      BY <1>1, <1>9, <1>10, <3>2
    <3> QED
      BY <3>1, <3>2
  <2>3. core'.console # None
    BY <1>6, <2>2, NoneAssumption
  <2>4. TypeOK'
    BY <1>1, <1>11, <1>12, <2>1, <2>2 DEF IInv, TypeOK, Phase
  <2>5. TasksReady'
    BY <1>6, <1>12, <2>1, <2>2 DEF TasksReady, Waits, NoSession, Session
  <2>6. Life'
    BY <1>4, <1>7, <2>1, <2>2, <2>3, NoneAssumption DEF Life, NoSession, Session, Fault
  <2>7. NdsHeld'
    BY <1>1, <1>8, <1>11, <2>1, <2>2 DEF IInv, NdsHeld, NoSession
  <2>8. GbaHeld'
    <3> SUFFICES ASSUME NEW i \in played.gba
                 PROVE  IF core'.gbaManager.length > 0
                        THEN /\ core'.gbaManager.sram[i] = New
                             /\ core'.console # None /\ core'.console.gba # NoSram =>
                                  core'.console.gba[i] = New
                        ELSE disk'.gba[i] = New
      BY <1>1, <2>1 DEF GbaHeld, Session
    <3>1. CASE core'.gbaManager.length > 0
      <4>1. /\ core.gbaManager.sram[i] = New
            /\ core.console.gba # NoSram => core.console.gba[i] = New
        BY <1>4, <2>2, <3>1 DEF IInv, GbaHeld, Session
      <4>2. console.gba # NoSram => console.gba[i] = New
        BY <1>3, <1>5, <1>6, <4>1
      <4> QED
        BY <2>2, <3>1, <4>1, <4>2
    <3>2. CASE ~(core'.gbaManager.length > 0)
      BY <1>3, <1>11, <3>2
    <3> QED
      BY <3>1, <3>2
  <2>9. FirmwareHeld'
    BY <1>1, <1>2, <1>3, <1>6, <1>11, <2>2 DEF FirmwareHeld
  <2> QED
    BY <2>4, <2>5, <2>6, <2>7, <2>8, <2>9 DEF IInv
<1> QED
  BY <1>13, <1>14

LEMMA RetroResetStep == ASSUME IInv, RetroReset PROVE IInv'
BY ResetFailsStep, ResetConsoleStep DEF RetroReset

LEMMA RetroRunStep == ASSUME IInv, RetroRun PROVE IInv'
<1>1. ASSUME NEW w \in GameWrite, Frame(w) PROVE IInv'
  BY <1>1, FrameFaults, FrameStep
<1> QED
  BY <1>1, NotReadyStep, ErrorFrameStep DEF RetroRun

-----------------------------------------------------------------------------
(* The theorems *)

LEMMA InvStep == ASSUME IInv, [Next]_vars PROVE IInv'
<1>1. CASE Next
  BY <1>1, RetroInitStep, RetroLoadGameStep, FrontendReadsSaveStep, FrontendSavesStep,
     RetroRunStep, RetroResetStep, RetroUnloadGameStep, RetroDeinitStep DEF Next
<1>2. CASE UNCHANGED vars
  BY <1>2 DEF vars, IInv, TypeOK, TasksReady, Life, NdsHeld, GbaHeld, FirmwareHeld, Waits
<1> QED
  BY <1>1, <1>2

LEMMA Invariant == Spec => []IInv
BY InitHolds, InvStep, PTL DEF Spec

\* The parts of the state keep their types; a flush timer is off or between 0 and the
\* delay, whatever the order of writes, checks and resets (tasks.cpp:205-237, 280-320).
THEOREM TypeCorrect == Spec => []TypeOK
<1>1. IInv => TypeOK
  BY DEF IInv
<1> QED
  BY <1>1, Invariant, PTL

\* Once it is installed, the save memory the frontend autosaves from equals the
\* cartridge's, wherever a write begins, through resets that give the new console the
\* memory of the old one (sram.cpp:84-124, core.cpp:184-251).
THEOREM NdsBufferCorrect == Spec => []NdsBufferTracksCart
<1>1. IInv => NdsBufferTracksCart
  <2> SUFFICES ASSUME IInv, phase # "faulted", core.ndsSramInstalled, core.console # None,
                      core.ndsManager.length > 0
               PROVE  core.ndsManager.sram = core.console.nds
    BY DEF NdsBufferTracksCart
  <2>1. phase \in Phase
    BY DEF IInv, TypeOK
  <2>2. CASE phase \in {"loaded", "primed"}
    BY <2>2 DEF IInv, Life
  <2>3. CASE phase = "running"
    BY <2>3 DEF IInv, NdsHeld
  <2>4. CASE phase \in NoSession \cup {"shutdown"}
    BY <2>4 DEF IInv, Life
  <2> QED
    BY <2>1, <2>2, <2>3, <2>4 DEF Phase, NoSession
<1> QED
  BY <1>1, Invariant, PTL

\* When a session has ended, the DS save file holds the player's progress, over any
\* number of sessions, resets and changes of console type (core.cpp:221-251, 354-375).
THEOREM NdsProgressCorrect == Spec => []NdsProgressKept
<1>1. IInv => NdsProgressKept
  BY DEF IInv, NdsHeld, NdsProgressKept, NoSession
<1> QED
  BY <1>1, Invariant, PTL

\* When a session has ended, the GBA save file has every byte the game wrote in it, for
\* any delay of the flushes and any number of tasks in the queue (tasks.cpp:211-237).
THEOREM GbaWritesCorrect == Spec => []GbaWritesKept
<1>1. IInv => GbaWritesKept
  BY DEF IInv, GbaHeld, GbaWritesKept, NoSession, Session
<1> QED
  BY <1>1, Invariant, PTL

\* When a session has ended, the firmware file of each type of console holds the last
\* settings made on that type: a reset to the other type never mixes them up
\* (core.cpp:209, tasks.cpp:280-293).
THEOREM FirmwareCorrect == Spec => []FirmwareKept
<1>1. IInv => FirmwareKept
  <2> SUFFICES ASSUME IInv, phase \in {"unloaded", "out"}
               PROVE  disk.firmware = played.firmware
    BY DEF FirmwareKept
  <2>1. disk.firmware \in [ConsoleType -> Firmware] /\ played.firmware \in [ConsoleType -> Firmware]
    BY DEF IInv, TypeOK, DiskType
  <2>2. core.console = None /\ phase # "faulted"
    BY DEF IInv, Life, NoSession
  <2>3. \A type \in ConsoleType : played.firmware[type] = disk.firmware[type]
    BY <2>2 DEF IInv, FirmwareHeld
  <2> QED
    BY <2>1, <2>3
<1> QED
  BY <1>1, Invariant, PTL

\* No task runs or is cleaned up without a console to flush or to show, in particular
\* none after a reset that lost the console (tasks.cpp:146, 308), and a core that runs
\* frames has one (core.cpp:139).
THEOREM TasksFindConsoleCorrect == Spec => []TasksFindConsole
<1>1. IInv => TasksFindConsole
  BY DEF IInv, Life, TasksFindConsole, Session
<1> QED
  BY <1>1, Invariant, PTL
=============================================================================
