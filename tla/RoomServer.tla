----------------------------- MODULE RoomServer -----------------------------
(***************************************************************************)
(* The room server, container/server/server.mjs: one Node process that     *)
(* starts and stops the native runner on request, follows it by its events *)
(* and hands the players' input to it in one file per slot.                *)
(*                                                                         *)
(* Each start is a generation g of processes: a leader (the runner's       *)
(* parent process) and the players it forked, all in one process group.    *)
(* Of LanRoomRunner this module keeps what the server can see: the leader  *)
(* ends by itself after its players or is killed before them, and players  *)
(* without a leader end in time.                                           *)
(*                                                                         *)
(* Handlers run one at a time.  Node emits "spawn", or "error" when the    *)
(* program cannot be run, before the next request is handled, so either is *)
(* part of the start; a running leader's group can always be signalled, so *)
(* the fallback behind process.kill is never taken.                        *)
(***************************************************************************)
EXTENDS Integers, FiniteSets

CONSTANTS
  Slot,      \* the players of the room
  Input,     \* what a player can press; None is nothing
  None,
  Starts,    \* bound: runners spawned
  Bodies     \* bound: input requests whose body has not arrived, per slot

ASSUME ServerAssumption ==
  /\ None \in Input
  /\ Starts \in Nat /\ Bodies \in Nat

Gen == 1..Starts

VARIABLES
  \* the server
  runner,      \* generation of the last spawn, 0 for null
  runnerState, runnerExit,
  bodies,      \* input requests waiting in readBody, [slot, input]
  \* files
  file,        \* input.bin of each slot
  assets,      \* the ROM and the core are there
  \* processes of each generation
  leader,      \* "none", "running", "ended" until Node has seen it, "gone"
  how,         \* how the leader ended
  players,     \* its player processes are running
  signalled,   \* SIGTERM is on its way to the leader, to the players
  \* history
  since        \* generation whose start or a later request wrote each file

serverVars == <<runner, runnerState, runnerExit, bodies>>
procVars == <<leader, how, players, signalled>>
vars == <<serverVars, file, assets, procVars, since>>

Clean == {"code 0", "SIGTERM"}
HowEnded == {"code 0", "code 1", "SIGTERM", "signal"}

Init ==
  /\ runner = 0 /\ runnerState = "stopped" /\ runnerExit = "null"
  /\ bodies = {}
  /\ file \in [Slot -> Input]          \* left by an earlier server
  /\ assets \in BOOLEAN
  /\ leader = [g \in Gen |-> "none"]
  /\ how = [g \in Gen |-> "null"]
  /\ players = [g \in Gen |-> FALSE]
  /\ signalled = [g \in Gen |-> {}]
  /\ since = [s \in Slot |-> 0]

------------------------------------------------------------------------------
(* The server *)

\* exitCode and signalCode are set when the exit is handled.
ProcessRunningByState == runnerState = "running"   \* trusts its own variable
ProcessRunning == runner # 0 /\ leader[runner] \in {"running", "ended"}

\* What is reset before a runner is spawned.
KeepInputs(g) == UNCHANGED <<file, since>>         \* the loop is forgotten
ResetInputs(g) ==
  /\ file' = [s \in Slot |-> None]
  /\ since' = [s \in Slot |-> g]

\* The "spawn" handler's assignment, and the state without it.
AfterSpawn == "running"

\* startRunner.  A running room answers ok and starts nothing, a missing ROM or
\* core answers 409.
StartRunner ==
  /\ ~ProcessRunning /\ assets
  /\ runner < Starts
  /\ LET g == runner + 1 IN
       /\ ResetInputs(g)
       /\ runner' = g
       /\ \/ /\ runnerState' = AfterSpawn /\ runnerExit' = "null"
             /\ leader' = [leader EXCEPT ![g] = "running"]
             /\ players' = [players EXCEPT ![g] = TRUE]
             /\ UNCHANGED how
          \/ /\ runnerState' = "error" /\ runnerExit' = "spawn"
             /\ leader' = [leader EXCEPT ![g] = "gone"]
             /\ how' = [how EXCEPT ![g] = "spawn"]
             /\ UNCHANGED players
  /\ UNCHANGED <<bodies, assets, signalled>>

\* process.kill(-pid, "SIGTERM").
KillNobody(g) == UNCHANGED signalled   \* no signal is sent
SendSigterm(g) == signalled' = [signalled EXCEPT ![g] = {"leader", "players"}]

\* stopRunner.
StopRunner ==
  /\ IF ProcessRunning
     THEN SendSigterm(runner) /\ runnerState' = "stopping"
     ELSE runnerState' = "stopped" /\ UNCHANGED signalled
  /\ UNCHANGED <<runner, runnerExit, bodies, file, assets, leader, how, players, since>>

\* The "exit" handler.
StateAfterMutant(h) == IF h = "code 0" THEN "stopped" ELSE "error"
StateAfter(h) == IF h \in Clean THEN "stopped" ELSE "error"
RunnerExits(g) ==
  /\ leader[g] = "ended"
  /\ leader' = [leader EXCEPT ![g] = "gone"]
  /\ runnerExit' = how[g]
  /\ runnerState' = StateAfter(how[g])
  /\ UNCHANGED <<runner, bodies, file, assets, how, players, signalled, since>>

\* POST /api/input: the handler waits for the body ...
InputRequest(s, i) ==
  /\ Cardinality({b \in bodies : b.slot = s}) < Bodies
  /\ bodies' = bodies \cup {[slot |-> s, input |-> i]}
  /\ UNCHANGED <<runner, runnerState, runnerExit, file, assets, procVars, since>>

\* ... and writes it when it is there, in any order.
WriteInput(b) ==
  /\ b \in bodies
  /\ bodies' = bodies \ {b}
  /\ file' = [file EXCEPT ![b.slot] = b.input]
  /\ since' = [since EXCEPT ![b.slot] = runner]
  /\ UNCHANGED <<runner, runnerState, runnerExit, assets, procVars>>

------------------------------------------------------------------------------
(* The processes *)

LeaderEnds(g, h) ==
  /\ leader[g] = "running"
  /\ leader' = [leader EXCEPT ![g] = "ended"]
  /\ how' = [how EXCEPT ![g] = h]
  /\ UNCHANGED <<serverVars, file, assets, players, signalled, since>>

\* The runner finishes after its players, fails before all are forked, or dies
\* of SIGPIPE or at somebody's hand; players may be left.
LeaderLeaves(g) ==
  \/ ~players[g] /\ LeaderEnds(g, "code 0")
  \/ LeaderEnds(g, "code 1")
  \/ LeaderEnds(g, "signal")

\* SIGTERM arrives, at each process for itself; nobody handles it.
LeaderTerminated(g) == "leader" \in signalled[g] /\ LeaderEnds(g, "SIGTERM")

PlayersEnd(g) ==
  /\ players' = [players EXCEPT ![g] = FALSE]
  /\ UNCHANGED <<serverVars, file, assets, leader, how, signalled, since>>
PlayersTerminated(g) == players[g] /\ "players" \in signalled[g] /\ PlayersEnd(g)

\* Crashes, failed boots, or the end of file from the leader's socket.
PlayersLeave(g) == players[g] /\ PlayersEnd(g)

------------------------------------------------------------------------------

Request == StartRunner \/ StopRunner \/ \E s \in Slot, i \in Input : InputRequest(s, i)

Next ==
  \/ Request
  \/ \E b \in bodies : WriteInput(b)
  \/ \E g \in Gen : \/ RunnerExits(g) \/ LeaderLeaves(g) \/ LeaderTerminated(g)
                    \/ PlayersTerminated(g) \/ PlayersLeave(g)

Spec == Init /\ [][Next]_vars

\* Node's event loop runs, signals arrive, and players without a leader end
\* (OrphansEnd of LanRoomRunner).  Nothing else about the processes is assumed.
FairSpec ==
  /\ Spec
  /\ \A g \in Gen :
       /\ WF_vars(RunnerExits(g))
       /\ WF_vars(LeaderTerminated(g))
       /\ WF_vars(PlayersTerminated(g))

------------------------------------------------------------------------------
(* Properties *)

\* There is never a second runner beside the first, however starts and stops
\* are interleaved with the runner's own end (startRunner's first line).
OneRunner == Cardinality({g \in Gen : leader[g] \in {"running", "ended"}}) <= 1

\* What the status says is so: a runner that has not exited is running or being
\* stopped, one that has is stopped or failed, runnerExit tells how the last
\* one ended, and a room that only was asked to stop has not failed.
StateTruthful ==
  /\ ProcessRunning => runnerState \in {"running", "stopping"} /\ runnerExit = "null"
  /\ ~ProcessRunning => runnerState \in {"stopped", "error"}
  /\ (runner # 0 /\ ~ProcessRunning) => runnerExit = how[runner]
  /\ (runnerState = "error") => runnerExit \notin Clean

\* A new runner reads no input that was written before it was started.
InputIsFresh ==
  (runner # 0 /\ leader[runner] = "running") => \A s \in Slot : since[s] = runner

\* A stop is carried out: every process of the room ends and the status no
\* longer says that it is stopping.
StopEnds ==
  \A g \in Gen :
    (runner = g /\ runnerState = "stopping") ~>
      (runnerState # "stopping" /\ leader[g] = "gone" /\ ~players[g])
=============================================================================
