-------------------------- MODULE RoomServerProofs --------------------------
(***************************************************************************)
(* Theorems about RoomServer, for any players, inputs and number of starts.*)
(*                                                                         *)
(* The server knows one generation of processes, the last it spawned.  That*)
(* the others cannot surprise it is an invariant of its own (LastMatters): *)
(* later generations do not exist yet and the exit of every earlier leader *)
(* has been handled, so each exit event is about the runner the variables  *)
(* describe.                                                               *)
(***************************************************************************)
EXTENDS RoomServer, TLAPS, FiniteSetTheorems

LeaderStates == {"none", "running", "ended", "gone"}
Ends == HowEnded \cup {"null", "spawn"}

Shape ==
  /\ runner \in 0..Starts
  /\ leader \in [Gen -> LeaderStates]
  /\ how \in [Gen -> Ends]
  /\ since \in [Slot -> 0..Starts]

LastMatters ==
  /\ \A g \in Gen : g > runner => leader[g] = "none"
  /\ \A g \in Gen : g < runner => leader[g] = "gone"
  /\ runner # 0 => leader[runner] # "none"

\* The last one to write an input file was a request to the current runner, or
\* its start.
WrittenForRunner == \A s \in Slot : since[s] = runner

IInv == Shape /\ LastMatters /\ StateTruthful /\ WrittenForRunner

LEMMA StartsNat == Starts \in Nat
BY ServerAssumption

LEMMA IInvInit == Init => IInv
BY StartsNat DEF Init, IInv, Shape, LastMatters, StateTruthful, WrittenForRunner, Gen,
   LeaderStates, Ends, ProcessRunning

\* What a start leaves behind.
LEMMA StartKeeps == IInv /\ StartRunner => IInv'
<1> SUFFICES ASSUME IInv, StartRunner PROVE IInv'
  OBVIOUS
<1> USE StartsNat DEF IInv
<1> DEFINE g == runner + 1
<1>1. runner \in Nat /\ g \in Gen /\ runner' = g /\ g \in 0..Starts /\ g # 0
  BY DEF Shape, StartRunner, Gen
<1>2. \A h \in Gen : h # g => leader'[h] = leader[h]
  BY <1>1 DEF Shape, StartRunner
<1>3. leader'[g] \in {"running", "gone"}
  BY <1>1 DEF Shape, StartRunner
<1>4. Shape'
  <2>1. since' \in [Slot -> 0..Starts]
    BY <1>1 DEF StartRunner, ResetInputs
  <2>2. leader' \in [Gen -> LeaderStates] /\ how' \in [Gen -> Ends]
    BY <1>1 DEF StartRunner, Shape, LeaderStates, Ends
  <2>3. QED
    BY <1>1, <2>1, <2>2 DEF Shape
<1>5. LastMatters'
  <2>1. ASSUME NEW h \in Gen, h < g PROVE leader[h] = "gone"
    <3>1. CASE h = runner
      <4>1. leader[h] \notin {"none", "running", "ended"}
        BY <3>1, <1>1, <2>1 DEF StartRunner, ProcessRunning, LastMatters, Gen
      <4>2. QED
        BY <4>1 DEF Shape, LeaderStates
    <3>2. CASE h # runner
      BY <3>2, <2>1, <1>1 DEF LastMatters, Gen
    <3>3. QED
      BY <3>1, <3>2
  <2>2. \A h \in Gen : h > g => leader[h] = "none"
    BY <1>1 DEF LastMatters, Gen
  <2>3. \A h \in Gen : h \in Nat
    BY DEF Gen
  <2>4. QED
    BY <1>1, <1>2, <1>3, <2>1, <2>2, <2>3 DEF LastMatters
<1>6. StateTruthful'
  <2>1. CASE /\ runnerState' = AfterSpawn /\ runnerExit' = "null"
             /\ leader' = [leader EXCEPT ![g] = "running"]
    BY <2>1, <1>1 DEF StateTruthful, ProcessRunning, AfterSpawn, Clean, Shape
  <2>2. CASE /\ runnerState' = "error" /\ runnerExit' = "spawn"
             /\ leader' = [leader EXCEPT ![g] = "gone"]
             /\ how' = [how EXCEPT ![g] = "spawn"]
    BY <2>2, <1>1 DEF StateTruthful, ProcessRunning, Clean, Shape
  <2>3. QED
    BY <2>1, <2>2 DEF StartRunner
<1>7. WrittenForRunner'
  BY <1>1 DEF WrittenForRunner, StartRunner, ResetInputs
<1>8. QED
  BY <1>4, <1>5, <1>6, <1>7

LEMMA ExitKeeps == ASSUME NEW g \in Gen, IInv, RunnerExits(g) PROVE IInv'
<1> USE StartsNat DEF IInv
<1>1. g = runner /\ runner # 0
  BY DEF RunnerExits, LastMatters, Shape, Gen
<1>2. runner' = runner /\ leader' = [leader EXCEPT ![g] = "gone"] /\ how' = how /\ since' = since
  BY DEF RunnerExits
<1>3. Shape'
  BY <1>2 DEF Shape, LeaderStates
<1>4. LastMatters'
  BY <1>1, <1>2 DEF LastMatters, Shape
<1>5. StateTruthful'
  BY <1>1, <1>2 DEF StateTruthful, ProcessRunning, RunnerExits, StateAfter, Shape
<1>6. WrittenForRunner'
  BY <1>2 DEF WrittenForRunner
<1>7. QED
  BY <1>3, <1>4, <1>5, <1>6

\* A leader ends unseen by the server: its handlers still describe a process
\* that has not exited.
LEMMA EndKeeps ==
  ASSUME NEW g \in Gen, NEW h \in HowEnded, IInv, LeaderEnds(g, h) PROVE IInv'
<1> USE StartsNat DEF IInv
<1>1. g = runner /\ runner # 0 /\ leader[g] = "running"
  BY DEF LeaderEnds, LastMatters, Shape, Gen
<1>2. /\ UNCHANGED <<runner, runnerState, runnerExit, since>>
      /\ leader' = [leader EXCEPT ![g] = "ended"] /\ how' = [how EXCEPT ![g] = h]
  BY DEF LeaderEnds, serverVars
<1>3. Shape'
  BY <1>2 DEF Shape, LeaderStates, Ends
<1>4. LastMatters'
  BY <1>1, <1>2 DEF LastMatters, Shape
<1>5. StateTruthful'
  BY <1>1, <1>2 DEF StateTruthful, ProcessRunning, Shape
<1>6. WrittenForRunner'
  BY <1>2 DEF WrittenForRunner
<1>7. QED
  BY <1>3, <1>4, <1>5, <1>6

LEMMA IInvNext == IInv /\ [Next]_vars => IInv'
<1> SUFFICES ASSUME IInv, [Next]_vars PROVE IInv'
  OBVIOUS
<1>u. ASSUME UNCHANGED <<runner, runnerState, runnerExit, leader, how, since>> PROVE IInv'
  BY <1>u DEF IInv, Shape, LastMatters, StateTruthful, WrittenForRunner, ProcessRunning
<1>1. CASE StartRunner
  BY <1>1, StartKeeps
<1>2. CASE StopRunner
  <2>1. UNCHANGED <<runner, runnerExit, leader, how, since>>
    BY <1>2 DEF StopRunner
  <2>2. StateTruthful'
    BY <1>2, <2>1 DEF StopRunner, IInv, StateTruthful, ProcessRunning
  <2>3. QED
    BY <2>1, <2>2 DEF IInv, Shape, LastMatters, WrittenForRunner
<1>3. ASSUME NEW s \in Slot, NEW i \in Input, InputRequest(s, i) PROVE IInv'
  BY <1>3, <1>u DEF InputRequest, procVars
<1>4. ASSUME NEW b \in bodies, WriteInput(b) PROVE IInv'
  <2>1. /\ UNCHANGED <<runner, runnerState, runnerExit, leader, how>>
        /\ since' = [since EXCEPT ![b.slot] = runner]
    BY <1>4 DEF WriteInput, procVars
  <2>2. since' \in [Slot -> 0..Starts] /\ WrittenForRunner'
    BY <2>1 DEF IInv, Shape, WrittenForRunner
  <2>3. QED
    BY <2>1, <2>2 DEF IInv, Shape, LastMatters, StateTruthful, ProcessRunning
<1>5. ASSUME NEW g \in Gen, RunnerExits(g) PROVE IInv'
  BY <1>5, ExitKeeps
<1>6. ASSUME NEW g \in Gen, LeaderLeaves(g) \/ LeaderTerminated(g) PROVE IInv'
  <2>1. \E h \in HowEnded : LeaderEnds(g, h)
    BY <1>6 DEF LeaderLeaves, LeaderTerminated, HowEnded
  <2>2. QED
    BY <2>1, EndKeeps
<1>7. ASSUME NEW g \in Gen, PlayersTerminated(g) \/ PlayersLeave(g) PROVE IInv'
  BY <1>7, <1>u DEF PlayersTerminated, PlayersLeave, PlayersEnd, serverVars
<1>8. CASE UNCHANGED vars
  BY <1>8, <1>u DEF vars, serverVars, procVars
<1>9. QED
  BY <1>1, <1>2, <1>3, <1>4, <1>5, <1>6, <1>7, <1>8 DEF Next, Request

LEMMA Invariance == Spec => []IInv
BY IInvInit, IInvNext, PTL DEF Spec

------------------------------------------------------------------------------
(* The theorems *)

\* However starts, stops and exits are interleaved, no two runners exist at the
\* same time: startRunner's first line is enough (server.mjs:176).
THEOREM OneRunnerCorrect == Spec => []OneRunner
<1>1. IInv => OneRunner
  <2> SUFFICES ASSUME IInv PROVE OneRunner
    OBVIOUS
  <2> DEFINE running == {g \in Gen : leader[g] \in {"running", "ended"}}
  <2>1. running \subseteq {runner}
    BY DEF IInv, Shape, LastMatters, Gen
  <2>2. IsFiniteSet({runner}) /\ Cardinality({runner}) = 1
    BY FS_Singleton
  <2>3. Cardinality(running) <= 1
    BY <2>1, <2>2, FS_Subset
  <2>4. QED
    BY <2>3 DEF OneRunner
<1>2. QED
  BY <1>1, Invariance, PTL

\* What the status request answers is so, after any requests and any ends of the
\* runner (the "spawn", "error" and "exit" handlers).
THEOREM StateTruthfulCorrect == Spec => []StateTruthful
<1>1. IInv => StateTruthful
  BY DEF IInv
<1>2. QED
  BY <1>1, Invariance, PTL

\* No runner reads an input of an earlier room, although requests may wait for
\* their bodies across a stop and a start.
THEOREM InputIsFreshCorrect == Spec => []InputIsFresh
<1>1. IInv => InputIsFresh
  BY DEF IInv, WrittenForRunner, InputIsFresh
<1>2. QED
  BY <1>1, Invariance, PTL
=============================================================================
