------------------------ MODULE LanRoomRunnerProofs ------------------------
(***************************************************************************)
(* Theorems about LanRoomRunner, for every number of players, frame limit, *)
(* packet budget, socket capacity and set of faults: who is connected, and *)
(* what is delivered.                                                      *)
(***************************************************************************)
EXTENDS LanRoomRunner, TLAPS, FiniteSetTheorems, SequenceTheorems

----------------------------------------------------------------------------
(* Types and connections.                                                  *)
(*                                                                         *)
(* TypeOK says that alive_count is a natural number, which rests on the    *)
(* bookkeeping of who is still served.  ShapeOK is TypeOK with an integer  *)
(* there; Served is that bookkeeping; together they are inductive.         *)

Phase == {"fork", "poll", "scan", "write", "done", "failed", "killed"}
ChildPc == {"unborn", "boot", "poll1", "run", "runpoll", "poll2", "stop", "fail", "unload",
            "exited"}

ParentShape ==
  /\ phase \in Phase
  /\ forked \in 0..Players
  /\ alive \in [Slot -> BOOLEAN] /\ ready \in [Slot -> BOOLEAN]
  /\ child_stats \in [Slot -> StatsType] /\ routed \in [Slot -> Nat]
  /\ reaped \in SUBSET Slot
  /\ alive_count \in Int /\ probe_sent \in BOOLEAN
  /\ readable \in SUBSET Slot /\ hup \in SUBSET Slot /\ cur \in Slot \cup {NoSlot}
  /\ out_msg \in Message /\ out_to \in SUBSET Slot
  /\ exit_code \in {0, 1}

ChildShape ==
  /\ cpc \in [Slot -> ChildPc]
  /\ rc \in [Slot -> {0, 1, Signalled}]
  /\ frame \in [Slot -> Nat] /\ shutdown_requested \in [Slot -> BOOLEAN]
  /\ sending \in [Slot -> Dest \cup {NoSlot}]
  /\ sent \in [Slot -> Seq(Dest)] /\ got \in [Slot -> Seq(Message)]

SocketShape ==
  /\ up \in [Slot -> Seq(Message)] /\ down \in [Slot -> Seq(Message)]

ShapeOK == ParentShape /\ SocketShape /\ ChildShape

LEMMA ShapeType == ShapeOK /\ alive_count \in Nat => TypeOK
BY DEF ShapeOK, ParentShape, SocketShape, ChildShape, TypeOK, Phase, ChildPc

LEMMA Constructors ==
  /\ ProbeMsg \in Message
  /\ \A s \in Slot : ReadyMsg(s) \in Message
  /\ \A s \in Slot, d \in Dest, n \in Nat : Packet(s, d, n) \in Message
  /\ \A s \in Slot, st \in StatsType : StatsMsg(s, st) \in Message
BY DEF Message, ProbeMsg, ReadyMsg, Packet, StatsMsg, NoStats, StatsType, Dest, NoSlot, Slot

LEMMA Readdressed ==
  ASSUME NEW m \in Message, NEW s \in Slot
  PROVE  /\ [m EXCEPT !.src = s] \in Message
         /\ m.stats \in StatsType /\ m.dst \in Dest \cup {NoSlot}
BY DEF Message

LEMMA ShapeInit == Init => ShapeOK
<1>1. NoStats \in StatsType
  BY DEF NoStats, StatsType
<1> SUFFICES ASSUME Init PROVE ShapeOK
  OBVIOUS
<1>2. ParentShape
  <2>1. /\ phase \in Phase /\ forked \in 0..Players /\ out_msg \in Message
        /\ exit_code \in {0, 1} /\ alive_count \in Int /\ probe_sent \in BOOLEAN
    <3>1. Players \in Nat
      BY RoomAssumption
    <3>2. forked \in 0..Players /\ alive_count \in Int
      BY <3>1 DEF Init
    <3>3. phase \in Phase /\ exit_code \in {0, 1} /\ probe_sent \in BOOLEAN
      BY DEF Init, Phase
    <3>4. out_msg \in Message
      BY Constructors DEF Init
    <3>5. QED
      BY <3>2, <3>3, <3>4
  <2>2. /\ alive \in [Slot -> BOOLEAN] /\ ready \in [Slot -> BOOLEAN]
        /\ child_stats \in [Slot -> StatsType] /\ routed \in [Slot -> Nat]
    BY <1>1 DEF Init
  <2>3. /\ reaped \in SUBSET Slot /\ readable \in SUBSET Slot /\ hup \in SUBSET Slot
        /\ cur \in Slot \cup {NoSlot} /\ out_to \in SUBSET Slot
    BY DEF Init
  <2>4. QED
    BY <2>1, <2>2, <2>3 DEF ParentShape
<1>3. SocketShape
  BY DEF Init, SocketShape
<1>4. ChildShape
  BY DEF Init, ChildShape, ChildPc
<1>5. QED
  BY <1>2, <1>3, <1>4 DEF ShapeOK

LEMMA ShapeParent == ShapeOK /\ (ParentStep \/ ForkFails \/ ParentDies) => ShapeOK'
<1> SUFFICES ASSUME ShapeOK, ParentStep \/ ForkFails \/ ParentDies PROVE ShapeOK'
  OBVIOUS
<1> USE DEF ShapeOK, ParentShape, SocketShape, ChildShape
<1>1. CASE ForkPlayer
  <2>1. forked + 1 \in Slot
    BY <1>1, RoomAssumption DEF ForkPlayer, Slot, Phase
  <2>2. alive' \in [Slot -> BOOLEAN] /\ cpc' \in [Slot -> ChildPc]
    BY <1>1, <2>1 DEF ForkPlayer, ChildPc
  <2>3. forked' \in 0..Players /\ phase' \in Phase /\ alive_count' \in Int
    BY <1>1, <2>1, RoomAssumption DEF ForkPlayer, Phase, Slot
  <2>4. QED
    BY <1>1, <2>2, <2>3 DEF ForkPlayer
<1>2. CASE ForkFails
  BY <1>2 DEF ForkFails, childVars, Phase
<1>3. CASE ParentDies
  BY <1>3 DEF ParentDies, childVars, Phase
<1>4. CASE PollReturns
  BY <1>4 DEF PollReturns, childVars, Phase
<1>5. CASE FinishEvent
  <2>1. Cardinality(hup \cap {cur}) \in Nat
    BY FS_Subset, FS_Singleton, FS_CardinalityType
  <2>2. QED
    BY <1>5, <2>1 DEF FinishEvent, Close, childVars, Phase
<1>6. CASE Reap
  <2> DEFINE dead == {s \in Slot : alive[s] /\ cpc[s] = "exited"}
  <2>1. Cardinality(dead) \in Nat
    <3>1. IsFiniteSet(Slot)
      BY FS_Interval, RoomAssumption DEF Slot
    <3>2. dead \in SUBSET Slot
      OBVIOUS
    <3>3. QED
      BY <3>1, <3>2, FS_Subset, FS_CardinalityType
  <2>2. QED
    BY <1>6, <2>1 DEF Reap, Close, childVars, Phase
<1>7. CASE Finish
  BY <1>7 DEF Finish, childVars, Phase
<1>8. ASSUME NEW s \in Slot, HandleEvent(s) PROVE ShapeOK'
  <2>1. CASE up[s] = <<>>
    BY <1>8, <2>1 DEF HandleEvent, childVars, Phase
  <2>2. CASE up[s] # <<>>
    <3> DEFINE m == Head(up[s])
    <3>1. m \in Message /\ Tail(up[s]) \in Seq(Message)
      BY <2>2
    <3>2. m.stats \in StatsType /\ [m EXCEPT !.src = s] \in Message
      BY <3>1, Readdressed
    <3>a. up' \in [Slot -> Seq(Message)]
      BY <1>8, <2>2, <3>1 DEF HandleEvent, TakeMessage
    <3>b. ready' \in [Slot -> BOOLEAN]
      <4>1. ready' = [ready EXCEPT ![s] = ready[s] \/ m.type = "READY"]
        BY <1>8, <2>2 DEF HandleEvent
      <4>2. (ready[s] \/ m.type = "READY") \in BOOLEAN
        OBVIOUS
      <4>3. QED
        BY <4>1, <4>2
    <3>c. child_stats' \in [Slot -> StatsType]
      <4> DEFINE st == IF m.type = "STATS" THEN m.stats ELSE child_stats[s]
      <4>1. child_stats' = [child_stats EXCEPT ![s] = st]
        BY <1>8, <2>2 DEF HandleEvent, StoreStats
      <4>2. st \in StatsType
        BY <3>2
      <4>3. QED
        BY <4>1, <4>2
    <3>4. out_msg' \in Message /\ out_to' \in SUBSET Slot /\ probe_sent' \in BOOLEAN
      BY <1>8, <2>2, <3>2, Constructors DEF HandleEvent, Targets
    <3>5. QED
      BY <1>8, <2>2, <3>a, <3>b, <3>c, <3>4 DEF HandleEvent, childVars, Phase
  <2>3. QED
    BY <2>1, <2>2
<1>9. ASSUME NEW t \in Slot, ParentWrites(t) PROVE ShapeOK'
  <2>1. routed' \in [Slot -> Nat] /\ down' \in [Slot -> Seq(Message)] /\ phase' \in Phase
    <3>1. CASE ~alive[t] \/ cpc[t] = "exited"
      BY <1>9, <3>1 DEF ParentWrites, Phase
    <3>2. CASE alive[t] /\ cpc[t] # "exited"
      <4>1. phase' = phase
        BY <1>9, <3>2 DEF ParentWrites
      <4>2. down' = [down EXCEPT ![t] = Append(down[t], out_msg)]
        BY <1>9, <3>2 DEF ParentWrites
      <4> DEFINE n == IF out_msg.type = "PACKET" THEN routed[t] + 1 ELSE routed[t]
      <4>3. routed' = [routed EXCEPT ![t] = n] /\ n \in Nat
        BY <1>9, <3>2 DEF ParentWrites
      <4>4. routed' \in [Slot -> Nat]
        BY <4>3
      <4>5. Append(down[t], out_msg) \in Seq(Message)
        OBVIOUS
      <4>6. down' \in [Slot -> Seq(Message)]
        BY <4>2, <4>5
      <4>7. QED
        BY <4>1, <4>4, <4>6
    <3>3. QED
      BY <3>1, <3>2
  <2>2. QED
    BY <1>9, <2>1 DEF ParentWrites, Remaining, childVars
<1>10. QED
  BY <1>1, <1>2, <1>3, <1>4, <1>5, <1>6, <1>7, <1>8, <1>9 DEF ParentStep

LEMMA ShapeChild ==
  ASSUME NEW s \in Slot, ShapeOK, ChildStep(s) \/ Crash(s) PROVE ShapeOK'
<1> USE DEF ShapeOK, ParentShape, SocketShape, ChildShape
<1>1. CASE BootOk(s)
  BY <1>1, Constructors DEF BootOk, ChildWrites, parentVars, ChildPc
<1>2. CASE BootFails(s)
  BY <1>2 DEF BootFails, parentVars, ChildPc
<1>3. CASE ChildReceives(s)
  <2>1. Head(down[s]) \in Message /\ Tail(down[s]) \in Seq(Message)
    BY <1>3 DEF ChildReceives
  <2>2. Head(down[s]).dst \in Dest \cup {NoSlot}
    BY <2>1 DEF Message
  <2>3. QED
    BY <1>3, <2>1, <2>2 DEF ChildReceives, parentVars
<1>4. CASE PollEnds(s)
  <2>1. shutdown_requested' \in [Slot -> BOOLEAN]
    BY <1>4 DEF PollEnds, EndOfFile
  <2>2. frame' \in [Slot -> Nat] /\ cpc' \in [Slot -> ChildPc]
    <3>1. CASE cpc[s] = "poll2"
      <4> DEFINE f == IF Frames = 0 THEN 0 ELSE frame[s] + 1
                 next == IF MoreFrames(f, shutdown_requested'[s]) THEN "poll1" ELSE "stop"
      <4>1. frame' = [frame EXCEPT ![s] = f] /\ cpc' = [cpc EXCEPT ![s] = next]
        BY <1>4, <3>1 DEF PollEnds
      <4>2. f \in Nat /\ next \in ChildPc
        BY DEF ChildPc
      <4>3. QED
        BY <4>1, <4>2
    <3>2. CASE cpc[s] # "poll2"
      BY <1>4, <3>2 DEF PollEnds, ChildPc
    <3>3. QED
      BY <3>1, <3>2
  <2>3. QED
    BY <1>4, <2>1, <2>2 DEF PollEnds, parentVars
<1>5. CASE CoreSends(s)
  BY <1>5 DEF CoreSends, parentVars
<1>6. CASE CorePolls(s)
  BY <1>6 DEF CorePolls, parentVars, ChildPc
<1>7. CASE CoreReturns(s)
  BY <1>7 DEF CoreReturns, parentVars, ChildPc
<1>8. CASE ChildSends(s)
  <2>1. sending[s] \in Dest /\ Len(sent[s]) + 1 \in Nat
    BY <1>8 DEF ChildSends
  <2>2. Packet(s, sending[s], Len(sent[s]) + 1) \in Message
    BY <2>1, Constructors
  <2>3. up' \in [Slot -> Seq(Message)]
    BY <1>8, <2>2 DEF ChildSends, ChildWrites
  <2>4. sent' \in [Slot -> Seq(Dest)] /\ sending' \in [Slot -> Dest \cup {NoSlot}]
    BY <1>8, <2>1 DEF ChildSends
  <2>5. QED
    BY <1>8, <2>3, <2>4 DEF ChildSends, parentVars
<1>9. CASE WriteStats(s)
  <2>1. [sent |-> Len(sent[s]), received |-> Len(got[s])] \in StatsType
    BY DEF StatsType
  <2>2. up' \in [Slot -> Seq(Message)]
    BY <1>9, <2>1, Constructors DEF WriteStats, ChildWrites
  <2>3. QED
    BY <1>9, <2>2 DEF WriteStats, parentVars, ChildPc
<1>10. CASE ChildSigpipe(s)
  BY <1>10 DEF ChildSigpipe, Ends, parentVars, ChildPc
<1>11. CASE ChildExits(s)
  BY <1>11 DEF ChildExits, Ends, parentVars, ChildPc
<1>12. CASE Crash(s)
  BY <1>12 DEF Crash, Ends, parentVars, ChildPc
<1>13. QED
  BY <1>1, <1>2, <1>3, <1>4, <1>5, <1>6, <1>7, <1>8, <1>9, <1>10, <1>11, <1>12 DEF ChildStep

LEMMA ShapeNext == ShapeOK /\ [Next]_vars => ShapeOK'
<1> SUFFICES ASSUME ShapeOK, [Next]_vars PROVE ShapeOK'
  OBVIOUS
<1>1. CASE Sigterm
  BY <1>1 DEF Sigterm, ShapeOK, ParentShape, SocketShape, ChildShape, Phase, ChildPc
<1>2. CASE UNCHANGED vars
  BY <1>2 DEF vars, parentVars, childVars, ShapeOK, ParentShape, SocketShape, ChildShape
<1>3. QED
  BY <1>1, <1>2, ShapeParent, ShapeChild DEF Next, Fault, Over

------------------------------------------------------------------------------
(* Who is served *)

\* The parent serves exactly the forked children it has not given up, it gives
\* up only children that ended, and what poll reported stays true of the
\* players whose events are still to be handled.
Served ==
  /\ forked < Players => phase \in {"fork", "failed", "killed"} /\ alive_count = 0
  /\ phase = "fork" => forked < Players /\ \A s \in Slot : s <= forked => alive[s]
  /\ \A s \in Slot : s > forked => ~alive[s] /\ cpc[s] = "unborn"
  /\ \A s \in Slot : s <= forked => cpc[s] # "unborn" /\ (alive[s] \/ cpc[s] = "exited")
  /\ \A s \in hup : cpc[s] = "exited"
  /\ phase \in {"scan", "write"} => \A s \in readable : alive[s]
  /\ phase = "write" => cur \in readable
  /\ phase = "scan" => \A s \in readable : up[s] = <<>> => s \in hup
  /\ phase = "write" => \A s \in readable \ {cur} : up[s] = <<>> => s \in hup
Counted == forked = Players => alive_count = Cardinality({s \in Slot : alive[s]})

LEMMA AppendNonempty ==
  ASSUME NEW q \in Seq(Message), NEW m \in Message
  PROVE  Append(q, m) # <<>>
<1>1. Len(Append(q, m)) = Len(q) + 1 /\ Len(q) \in Nat
  OBVIOUS
<1>2. Len(<<>>) = 0
  OBVIOUS
<1>3. QED
  BY <1>1, <1>2

\* A message written to s's stream leaves no stream emptier.
LEMMA WriteFrame ==
  ASSUME NEW s \in Slot, NEW m \in Message, SocketShape, ChildWrites(s, m)
  PROVE  \A r \in Slot : up'[r] = <<>> => up[r] = <<>>
<1>1. up' = [up EXCEPT ![s] = Append(up[s], m)]
  BY DEF ChildWrites
<1>2. up \in [Slot -> Seq(Message)]
  BY DEF SocketShape
<1>3. Append(up[s], m) # <<>>
  BY <1>2, AppendNonempty
<1>4. QED
  BY <1>1, <1>2, <1>3

\* What a step of child s leaves alone: the parent, the other children, and the
\* fact that a stream has something in it.  It starts no child and revives none.
LEMMA ChildFrame ==
  ASSUME NEW s \in Slot, ShapeOK, ChildStep(s) \/ Crash(s)
  PROVE  /\ UNCHANGED parentVars
         /\ \A r \in Slot : r # s => cpc'[r] = cpc[r]
         /\ cpc'[s] = cpc[s] \/ (Running(s) /\ cpc'[s] # "unborn")
         /\ \A r \in Slot : up'[r] = <<>> => up[r] = <<>>
<1> USE DEF ShapeOK, SocketShape, ChildShape
<1>1. CASE BootOk(s)
  <2>1. \A r \in Slot : up'[r] = <<>> => up[r] = <<>>
    BY <1>1, Constructors, WriteFrame DEF BootOk
  <2>2. QED
    BY <1>1, <2>1 DEF BootOk, Running
<1>2. CASE BootFails(s)
  BY <1>2 DEF BootFails, Running
<1>3. CASE ChildReceives(s)
  BY <1>3 DEF ChildReceives
<1>4. CASE PollEnds(s)
  <2>1. UNCHANGED parentVars /\ up' = up /\ Running(s)
    BY <1>4 DEF PollEnds, Polling, Running
  <2>2. \E pc \in {"run", "poll1", "stop"} : cpc' = [cpc EXCEPT ![s] = pc]
    BY <1>4 DEF PollEnds
  <2>3. QED
    BY <2>1, <2>2
<1>5. CASE CoreSends(s)
  BY <1>5 DEF CoreSends
<1>6. CASE CorePolls(s)
  BY <1>6 DEF CorePolls, Executing, Running
<1>7. CASE CoreReturns(s)
  BY <1>7 DEF CoreReturns, Executing, Running
<1>8. CASE ChildSends(s)
  <2>1. Packet(s, sending[s], Len(sent[s]) + 1) \in Message
    BY <1>8, Constructors DEF ChildSends
  <2>2. \A r \in Slot : up'[r] = <<>> => up[r] = <<>>
    BY <1>8, <2>1, WriteFrame DEF ChildSends
  <2>3. QED
    BY <1>8, <2>2 DEF ChildSends
<1>9. CASE WriteStats(s)
  <2>1. [sent |-> Len(sent[s]), received |-> Len(got[s])] \in StatsType
    BY DEF StatsType
  <2>2. StatsMsg(s, [sent |-> Len(sent[s]), received |-> Len(got[s])]) \in Message
    BY <2>1, Constructors
  <2>3. \A r \in Slot : up'[r] = <<>> => up[r] = <<>>
    BY <1>9, <2>2, WriteFrame DEF WriteStats
  <2>4. QED
    BY <1>9, <2>3 DEF WriteStats, Running
<1>10. CASE ChildSigpipe(s)
  BY <1>10 DEF ChildSigpipe, Ends
<1>11. CASE ChildExits(s)
  BY <1>11 DEF ChildExits, Ends, Running
<1>12. CASE Crash(s)
  BY <1>12 DEF Crash, Ends
<1>13. QED
  BY <1>1, <1>2, <1>3, <1>4, <1>5, <1>6, <1>7, <1>8, <1>9, <1>10, <1>11, <1>12 DEF ChildStep

LEMMA ServedInit == Init => Served
BY RoomAssumption DEF Init, Served, Slot

LEMMA ServedNext == ShapeOK /\ Served /\ [Next]_vars => Served'
<1> SUFFICES ASSUME ShapeOK, Served, [Next]_vars PROVE Served'
  OBVIOUS
<1> USE DEF Served
<1>1. CASE ForkPlayer
  <2> USE DEF ShapeOK, ParentShape, ChildShape
  <2>1. /\ phase = "fork" /\ forked < Players /\ forked' = forked + 1
        /\ forked \in Nat /\ Players \in Nat /\ forked + 1 \in Slot
        /\ UNCHANGED <<readable, hup, cur, up>>
    BY <1>1, RoomAssumption DEF ForkPlayer, Slot
  <2>2. /\ \A s \in Slot : s # forked + 1 => cpc'[s] = cpc[s] /\ alive'[s] = alive[s]
        /\ cpc'[forked + 1] = "boot" /\ alive'[forked + 1]
    BY <1>1, <2>1 DEF ForkPlayer
  <2>3. /\ forked' < Players => phase' = "fork" /\ alive_count' = 0
        /\ phase' = "fork" => forked' < Players
        /\ phase' \in {"fork", "poll"}
    BY <1>1, <2>1 DEF ForkPlayer
  <2>4. \A s \in Slot : s \in Nat
    BY DEF Slot
  <2>5. ASSUME NEW s \in Slot, s > forked' PROVE ~alive'[s] /\ cpc'[s] = "unborn"
    <3>1. s # forked + 1 /\ s > forked
      BY <2>1, <2>4, <2>5
    <3>2. ~alive[s] /\ cpc[s] = "unborn"
      BY <3>1
    <3>3. QED
      BY <3>1, <3>2, <2>2
  <2>6. ASSUME NEW s \in Slot, s <= forked' PROVE cpc'[s] # "unborn" /\ alive'[s]
    <3>1. CASE s = forked + 1
      BY <3>1, <2>2
    <3>2. CASE s # forked + 1
      <4>1. s <= forked
        BY <3>2, <2>1, <2>4, <2>6
      <4>2. alive[s] /\ cpc[s] # "unborn"
        BY <4>1, <2>1
      <4>3. QED
        BY <3>2, <4>2, <2>2
    <3>3. QED
      BY <3>1, <3>2
  <2>7. ASSUME NEW s \in hup' PROVE cpc'[s] = "exited"
    <3>1. s \in Slot /\ cpc[s] = "exited"
      BY <2>1
    <3>2. s # forked + 1
      <4>1. forked + 1 > forked
        BY <2>1
      <4>2. cpc[forked + 1] = "unborn"
        BY <4>1, <2>1
      <4>3. QED
        BY <3>1, <4>2
    <3>3. QED
      BY <3>1, <3>2, <2>2
  <2>8. QED
    BY <2>1, <2>3, <2>5, <2>6, <2>7
<1>2. CASE ForkFails
  BY <1>2 DEF ForkFails, childVars
<1>3. CASE ParentDies
  BY <1>3 DEF ParentDies, ParentGone, childVars
<1>4. CASE Sigterm
  BY <1>4 DEF Sigterm, ParentGone, Running, ShapeOK, ParentShape, ChildShape
<1>5. CASE PollReturns
  BY <1>5 DEF PollReturns, childVars
<1>6. CASE FinishEvent
  BY <1>6 DEF FinishEvent, Close, childVars, ShapeOK, ParentShape
<1>7. CASE Reap
  BY <1>7 DEF Reap, Close, childVars
<1>8. CASE Finish
  BY <1>8 DEF Finish, childVars
<1>9. ASSUME NEW s \in Slot, HandleEvent(s) PROVE Served'
  <2>1. \A r \in Slot : r # s => up'[r] = up[r]
    BY <1>9 DEF HandleEvent, TakeMessage, ShapeOK, SocketShape
  <2>2. hup' = hup \/ (hup' = hup \cup {s} /\ up[s] = <<>>)
    BY <1>9 DEF HandleEvent
  <2>3. phase = "scan" /\ phase' = "write" /\ cur' = s /\ s \in readable
    BY <1>9 DEF HandleEvent
  <2>4. UNCHANGED <<forked, alive, alive_count, readable, cpc>>
    BY <1>9 DEF HandleEvent, childVars
  <2>5. QED
    BY <2>1, <2>2, <2>3, <2>4 DEF ShapeOK, ParentShape
<1>10. ASSUME NEW t \in Slot, ParentWrites(t) PROVE Served'
  <2>1. UNCHANGED <<forked, alive, alive_count, readable, hup, cur, up, cpc>>
    BY <1>10 DEF ParentWrites, childVars
  <2>2. phase = "write" /\ phase' \in {"write", "killed"}
    BY <1>10 DEF ParentWrites
  <2>3. QED
    BY <2>1, <2>2
<1>11. ASSUME NEW s \in Slot, ChildStep(s) \/ Crash(s) PROVE Served'
  <2>1. UNCHANGED <<phase, forked, alive, alive_count, readable, hup, cur>>
    BY <1>11, ChildFrame DEF parentVars
  <2>2. \A r \in Slot : cpc[r] = "exited" => cpc'[r] = "exited"
    BY <1>11, ChildFrame DEF Running
  <2>3. \A r \in Slot : cpc'[r] = "unborn" <=> cpc[r] = "unborn"
    BY <1>11, ChildFrame DEF Running
  <2>4. \A r \in Slot : up'[r] = <<>> => up[r] = <<>>
    BY <1>11, ChildFrame
  <2>5. QED
    BY <2>1, <2>2, <2>3, <2>4 DEF ShapeOK, ParentShape
<1>12. CASE UNCHANGED vars
  BY <1>12 DEF vars, parentVars, childVars
<1>13. QED
  BY <1>1, <1>2, <1>3, <1>4, <1>5, <1>6, <1>7, <1>8, <1>9, <1>10, <1>11, <1>12
  DEF Next, ParentStep, Fault, Over

------------------------------------------------------------------------------
(* How many are served *)

AliveSet == {s \in Slot : alive[s]}

LEMMA SlotFinite == IsFiniteSet(Slot) /\ Cardinality(Slot) = Players
BY FS_Interval, RoomAssumption DEF Slot

\* Closing a set of served players keeps the count right.
LEMMA CloseCounts ==
  ASSUME NEW S \in SUBSET Slot, ShapeOK, \A s \in S : alive[s],
         alive_count = Cardinality(AliveSet), Close(S)
  PROVE  alive_count' = Cardinality(AliveSet')
<1>1. AliveSet \in SUBSET Slot /\ IsFiniteSet(AliveSet)
  BY SlotFinite, FS_Subset DEF AliveSet
<1>2. AliveSet' = AliveSet \ S
  BY DEF AliveSet, Close, ShapeOK, ParentShape
<1>3. AliveSet \cap S = S
  BY DEF AliveSet
<1>4. Cardinality(AliveSet \ S) = Cardinality(AliveSet) - Cardinality(AliveSet \cap S)
  BY <1>1, FS_Difference
<1>5. QED
  BY <1>2, <1>3, <1>4 DEF Close

LEMMA CountedInit == Init => Counted
<1>1. Init => forked # Players
  BY RoomAssumption DEF Init
<1>2. QED
  BY <1>1 DEF Counted

LEMMA CountedNext == ShapeOK /\ Served /\ Counted /\ [Next]_vars => Counted'
<1> SUFFICES ASSUME ShapeOK, Served, Counted, [Next]_vars PROVE Counted'
  OBVIOUS
<1>u. ASSUME UNCHANGED <<forked, alive, alive_count>> PROVE Counted'
  BY <1>u DEF Counted
<1>1. CASE ForkPlayer
  <2>1. CASE forked + 1 # Players
    BY <1>1, <2>1 DEF ForkPlayer, Counted
  <2>2. CASE forked + 1 = Players
    <3>1. \A s \in Slot : s <= forked => alive[s]
      BY <1>1 DEF ForkPlayer, Served
    <3>2. AliveSet' = Slot
      BY <1>1, <2>2, <3>1 DEF ForkPlayer, AliveSet, ShapeOK, ParentShape, Slot
    <3>3. alive_count' = Players
      BY <1>1, <2>2 DEF ForkPlayer
    <3>4. QED
      BY <3>2, <3>3, SlotFinite DEF Counted, AliveSet
  <2>3. QED
    BY <2>1, <2>2
<1>2. CASE ForkFails
  BY <1>2, <1>u DEF ForkFails
<1>3. CASE ParentDies
  BY <1>3, <1>u DEF ParentDies
<1>4. CASE Sigterm
  BY <1>4, <1>u DEF Sigterm
<1>5. CASE PollReturns
  BY <1>5, <1>u DEF PollReturns
<1>6. CASE FinishEvent
  <2>1. forked = Players /\ forked' = forked
    BY <1>6, RoomAssumption DEF FinishEvent, Served, ShapeOK, ParentShape
  <2>2. hup \cap {cur} \in SUBSET Slot /\ \A s \in hup \cap {cur} : alive[s]
    BY <1>6 DEF FinishEvent, Served, ShapeOK, ParentShape
  <2>3. alive_count = Cardinality(AliveSet) /\ Close(hup \cap {cur})
    BY <1>6, <2>1 DEF FinishEvent, Counted, AliveSet
  <2>4. QED
    BY <2>1, <2>2, <2>3, CloseCounts DEF Counted, AliveSet
<1>7. CASE Reap
  <2> DEFINE dead == {s \in Slot : alive[s] /\ cpc[s] = "exited"}
  <2>1. forked = Players /\ forked' = forked
    BY <1>7, RoomAssumption DEF Reap, Served, ShapeOK, ParentShape
  <2>2. dead \in SUBSET Slot /\ \A s \in dead : alive[s]
    OBVIOUS
  <2>3. alive_count = Cardinality(AliveSet) /\ Close(dead)
    BY <1>7, <2>1 DEF Reap, Counted, AliveSet
  <2>4. QED
    BY <2>1, <2>2, <2>3, CloseCounts DEF Counted, AliveSet
<1>8. CASE Finish
  BY <1>8, <1>u DEF Finish
<1>9. ASSUME NEW s \in Slot, HandleEvent(s) PROVE Counted'
  BY <1>9, <1>u DEF HandleEvent
<1>10. ASSUME NEW t \in Slot, ParentWrites(t) PROVE Counted'
  BY <1>10, <1>u DEF ParentWrites
<1>11. ASSUME NEW s \in Slot, ChildStep(s) \/ Crash(s) PROVE Counted'
  BY <1>11, <1>u, ChildFrame DEF parentVars
<1>12. CASE UNCHANGED vars
  BY <1>12, <1>u DEF vars, parentVars
<1>13. QED
  BY <1>1, <1>2, <1>3, <1>4, <1>5, <1>6, <1>7, <1>8, <1>9, <1>10, <1>11, <1>12
  DEF Next, ParentStep, Fault, Over

------------------------------------------------------------------------------
(* The theorems *)

IInv == ShapeOK /\ Served /\ Counted

LEMMA Invariance == Spec => []IInv
<1>1. Init => IInv
  BY ShapeInit, ServedInit, CountedInit DEF IInv
<1>2. IInv /\ [Next]_vars => IInv'
  BY ShapeNext, ServedNext, CountedNext DEF IInv
<1>3. QED
  BY <1>1, <1>2, PTL DEF Spec

LEMMA CountIsNatural == IInv => alive_count \in Nat
<1> SUFFICES ASSUME IInv PROVE alive_count \in Nat
  OBVIOUS
<1>1. CASE forked < Players
  BY <1>1 DEF IInv, Served
<1>2. CASE ~(forked < Players)
  <2>1. forked = Players
    BY <1>2, RoomAssumption DEF IInv, ShapeOK, ParentShape
  <2>2. AliveSet \in SUBSET Slot
    BY DEF AliveSet
  <2>3. Cardinality(AliveSet) \in Nat
    BY <2>2, SlotFinite, FS_Subset, FS_CardinalityType
  <2>4. QED
    BY <2>1, <2>3 DEF IInv, Counted, AliveSet
<1>3. QED
  BY <1>1, <1>2

\* Every state of run_parent and run_child has the types the C program gives its
\* variables; in particular the unsigned alive_count never goes below zero.
THEOREM TypeCorrect == Spec => []TypeOK
<1>1. IInv => TypeOK
  BY CountIsNatural, ShapeType DEF IInv
<1>2. QED
  BY <1>1, Invariance, PTL

\* The event loop's counter is the number of players still served, and a player
\* is given up only after its process ended, whatever crashes and whenever.
THEOREM AliveCountCorrect == Spec => []AliveCountAgrees
<1>1. IInv => AliveCountAgrees
  <2> SUFFICES ASSUME IInv, forked = Players
               PROVE  /\ alive_count = Cardinality({s \in Slot : alive[s]})
                      /\ \A s \in Slot : alive[s] \/ cpc[s] = "exited"
    BY DEF AliveCountAgrees
  <2>1. alive_count = Cardinality({s \in Slot : alive[s]})
    BY DEF IInv, Counted
  <2>2. \A s \in Slot : s <= forked
    BY RoomAssumption DEF Slot
  <2>3. QED
    BY <2>1, <2>2 DEF IInv, Served
<1>2. QED
  BY <1>1, Invariance, PTL

----------------------------------------------------------------------------
(* Delivery: packets arrive in order and at most once, none is lost while  *)
(* its sender is connected and its receiver runs, the totals are each      *)
(* child's last word, and the room implements PacketSwitch.                *)
(*                                                                         *)
(* What a stream may hold is a set of messages (Upward, Downward,          *)
(* Received), so that an invariant of every message in it is the sequence  *)
(* being one over that set, which Append and Tail keep.                    *)

\* A child's last word: it has written its STATS and handles no more packets.
Quit(s) == cpc[s] \in {"unload", "exited"}
Final(s, st) == Quit(s) /\ st = [sent |-> Len(sent[s]), received |-> Len(got[s])]

\* m is a packet its sender sent, to player t among others.
MeantFor(m, t) ==
  /\ m.src \in Slot \ {t}
  /\ m.id \in DOMAIN sent[m.src]
  /\ sent[m.src][m.id] \in {t, Broadcast}

\* What child s may have written, what the parent may write to player t, and
\* what t's core may be given.
Upward(s) ==
  {m \in Message : /\ m.src = s /\ m.type \in {"PACKET", "STATS", "READY"}
                   /\ m.type = "PACKET" => /\ m.id \in DOMAIN sent[s]
                                           /\ m.dst = sent[s][m.id]
                   /\ m.type = "STATS" => Final(s, m.stats)}
Received(t) == {m \in Message : m.type = "PACKET" /\ MeantFor(m, t)}
Downward(t) == Received(t) \cup {ProbeMsg}

Streams ==
  /\ \A s \in Slot : up[s] \in Seq(Upward(s))
  /\ \A t \in Slot : down[t] \in Seq(Downward(t)) /\ got[t] \in Seq(Received(t))
  /\ \A t \in out_to : out_msg \in Downward(t)

\* The parent writes only while it handles an event.
WritesInTurn == phase \in {"fork", "poll", "scan"} => out_to = {}

\* A packet is being written only inside a poll or a frame, never to oneself.
SendsInFrame ==
  /\ \A s \in Slot : sending[s] # NoSlot =>
       cpc[s] \in {"poll1", "run", "runpoll", "poll2"} /\ sending[s] # s
  /\ \A s \in Slot : cpc[s] = "unborn" => sent[s] = <<>>

StatsKnown == \A s \in Slot : child_stats[s] # NoStats => Final(s, child_stats[s])

Flow == Streams /\ WritesInTurn /\ SendsInFrame /\ StatsKnown

\* What is routed to t is on its way to its core or was given to it, and with it
\* one probe at the most, which only probe_sent allows.
Budget(t) ==
  \/ /\ down[t] \in Seq(Received(t))
     /\ Len(got[t]) + Len(down[t]) <= routed[t]
  \/ /\ probe_sent /\ ~(t \in out_to /\ out_msg.type = "PROBE_SEND")
     /\ \E k \in DOMAIN down[t] :
          /\ down[t][k].type # "PACKET"
          /\ \A j \in DOMAIN down[t] : j # k => down[t][j] \in Received(t)
     /\ Len(got[t]) + Len(down[t]) <= routed[t] + 1
Budgets ==
  /\ \A t \in Slot : Budget(t)
  /\ out_to # {} /\ out_msg.type = "PROBE_SEND" => probe_sent

\* A packet for t is somewhere between its sender's stream and t's core.
OnItsWay(s, t, i) ==
  \/ Holds(got[t], s, i) \/ Holds(down[t], s, i) \/ Holds(up[s], s, i)
  \/ t \in out_to /\ Holds(<<out_msg>>, s, i)

------------------------------------------------------------------------------
(* Sequences of messages *)

\* Appending, taking the head, and what they do to each position.
LEMMA Positions ==
  ASSUME NEW q \in Seq(Message)
  PROVE  /\ Len(q) \in Nat /\ DOMAIN q = 1..Len(q)
         /\ \A k \in DOMAIN q : q[k] \in Message
         /\ \A m \in Message :
              /\ DOMAIN Append(q, m) = 1..Len(q) + 1 /\ Len(Append(q, m)) = Len(q) + 1
              /\ \A k \in 1..Len(q) : Append(q, m)[k] = q[k]
              /\ Append(q, m)[Len(q) + 1] = m
         /\ q # <<>> =>
              /\ Len(q) >= 1 /\ Head(q) = q[1] /\ Head(q) \in Message
              /\ Tail(q) \in Seq(Message)
              /\ DOMAIN Tail(q) = 1..Len(q) - 1 /\ Len(Tail(q)) = Len(q) - 1
              /\ \A k \in 1..Len(q) - 1 : Tail(q)[k] = q[k + 1]
<1>1. Len(q) \in Nat /\ DOMAIN q = 1..Len(q) /\ \A k \in DOMAIN q : q[k] \in Message
  BY LenProperties, ElementOfSeq
<1>2. ASSUME NEW m \in Message
      PROVE  /\ DOMAIN Append(q, m) = 1..Len(q) + 1 /\ Len(Append(q, m)) = Len(q) + 1
             /\ \A k \in 1..Len(q) : Append(q, m)[k] = q[k]
             /\ Append(q, m)[Len(q) + 1] = m
  BY AppendProperties, LenProperties
<1>3. ASSUME q # <<>>
      PROVE  /\ Len(q) >= 1 /\ Head(q) = q[1] /\ Head(q) \in Message
             /\ Tail(q) \in Seq(Message)
             /\ DOMAIN Tail(q) = 1..Len(q) - 1 /\ Len(Tail(q)) = Len(q) - 1
             /\ \A k \in 1..Len(q) - 1 : Tail(q)[k] = q[k + 1]
  <2>1. Len(q) \in Nat \ {0}
    BY <1>3, EmptySeq
  <2>2. /\ Head(q) \in Message /\ Tail(q) \in Seq(Message) /\ Len(Tail(q)) = Len(q) - 1
        /\ \A k \in 1..Len(Tail(q)) : Tail(q)[k] = q[k + 1]
    BY <1>3, HeadTailProperties
  <2>3. DOMAIN Tail(q) = 1..Len(Tail(q))
    BY <2>2, LenProperties
  <2>4. Head(q) = q[1]
    OBVIOUS
  <2>5. QED
    BY <2>1, <2>2, <2>3, <2>4
<1>4. QED
  BY <1>1, <1>2, <1>3

LEMMA OneMore == \A n \in Nat : \A k \in 1..n + 1 : k \in 1..n \/ k = n + 1
OBVIOUS

LEMMA EmptyStream == ASSUME NEW q PROVE Sorted(<<>>) /\ Before(<<>>, q) /\ Before(q, <<>>)
BY DEF Sorted, Before

\* Order, at the end of a stream ...
LEMMA OrderAppend ==
  ASSUME NEW q \in Seq(Message), NEW m \in Message
  PROVE  /\ Sorted(q) /\ Before(q, <<m>>) => Sorted(Append(q, m))
         /\ \A p : Before(p, q) /\ Before(p, <<m>>) => Before(p, Append(q, m))
         /\ \A p : Before(q, p) /\ Before(<<m>>, p) => Before(Append(q, m), p)
<1> DEFINE r == Append(q, m)
<1>1. /\ DOMAIN q = 1..Len(q) /\ DOMAIN r = 1..Len(q) + 1 /\ Len(q) \in Nat
      /\ \A k \in 1..Len(q) : r[k] = q[k]
      /\ r[Len(q) + 1] = m
  BY Positions
<1>2. DOMAIN <<m>> = {1} /\ <<m>>[1] = m
  OBVIOUS
<1> HIDE DEF r
<1>3. \A k \in DOMAIN r : (k \in DOMAIN q /\ r[k] = q[k]) \/ (k = Len(q) + 1 /\ r[k] = m)
  BY <1>1
<1>4. ASSUME Sorted(q), Before(q, <<m>>) PROVE Sorted(r)
  BY <1>1, <1>2, <1>3, <1>4 DEF Sorted, Before
<1>5. ASSUME NEW p, Before(p, q), Before(p, <<m>>) PROVE Before(p, r)
  BY <1>2, <1>3, <1>5 DEF Before
<1>6. ASSUME NEW p, Before(q, p), Before(<<m>>, p) PROVE Before(r, p)
  BY <1>2, <1>3, <1>6 DEF Before
<1>7. QED
  BY <1>4, <1>5, <1>6 DEF r

\* ... and at its head.
LEMMA OrderTail ==
  ASSUME NEW q \in Seq(Message), q # <<>>
  PROVE  /\ Sorted(q) => Sorted(Tail(q)) /\ Before(<<Head(q)>>, Tail(q))
         /\ \A p : Before(p, q) => Before(p, Tail(q)) /\ Before(p, <<Head(q)>>)
         /\ \A p : Before(q, p) => Before(Tail(q), p) /\ Before(<<Head(q)>>, p)
<1> DEFINE r == Tail(q)
           h == Head(q)
<1>1. /\ DOMAIN q = 1..Len(q) /\ DOMAIN r = 1..Len(q) - 1 /\ Len(q) \in Nat /\ Len(q) >= 1
      /\ \A k \in 1..Len(q) - 1 : r[k] = q[k + 1]
      /\ h = q[1]
  BY Positions
<1>2. DOMAIN <<h>> = {1} /\ <<h>>[1] = h
  OBVIOUS
<1> HIDE DEF r, h
<1>3. /\ \A k \in DOMAIN r : k + 1 \in DOMAIN q /\ r[k] = q[k + 1]
      /\ 1 \in DOMAIN q /\ \A k \in DOMAIN r : k \in Nat /\ k >= 1
  BY <1>1
<1>4. ASSUME Sorted(q) PROVE Sorted(r) /\ Before(<<h>>, r)
  <2>1. ASSUME NEW i \in DOMAIN r, NEW j \in DOMAIN r, i < j PROVE Older(r[i], r[j])
    <3>1. i + 1 < j + 1
      BY <2>1, <1>3
    <3>2. QED
      BY <3>1, <1>3, <1>4 DEF Sorted
  <2>2. ASSUME NEW j \in DOMAIN r PROVE Older(h, r[j])
    <3>1. 1 < j + 1
      BY <1>3
    <3>2. QED
      BY <3>1, <1>1, <1>3, <1>4 DEF Sorted
  <2>3. QED
    BY <2>1, <2>2, <1>2 DEF Sorted, Before
<1>5. ASSUME NEW p, Before(p, q) PROVE Before(p, r) /\ Before(p, <<h>>)
  BY <1>1, <1>2, <1>3, <1>5 DEF Before
<1>6. ASSUME NEW p, Before(q, p) PROVE Before(r, p) /\ Before(<<h>>, p)
  BY <1>1, <1>2, <1>3, <1>6 DEF Before
<1>7. QED
  BY <1>4, <1>5, <1>6 DEF r, h

\* A packet stays findable when others follow, and until it is the head.
LEMMA HoldsAppend ==
  ASSUME NEW q \in Seq(Message), NEW m \in Message, NEW s, NEW i
  PROVE  /\ Holds(q, s, i) => Holds(Append(q, m), s, i)
         /\ Holds(<<m>>, s, i) => Holds(Append(q, m), s, i)
<1> DEFINE r == Append(q, m)
<1>1. /\ DOMAIN q = 1..Len(q) /\ DOMAIN r = 1..Len(q) + 1 /\ Len(q) \in Nat
      /\ \A k \in 1..Len(q) : r[k] = q[k]
      /\ r[Len(q) + 1] = m
  BY Positions
<1>2. DOMAIN <<m>> = {1} /\ <<m>>[1] = m
  OBVIOUS
<1> HIDE DEF r
<1>3. (\A k \in DOMAIN q : k \in DOMAIN r) /\ Len(q) + 1 \in DOMAIN r
  BY <1>1
<1>4. Holds(q, s, i) => Holds(r, s, i)
  BY <1>1, <1>3 DEF Holds
<1>5. Holds(<<m>>, s, i) => Holds(r, s, i)
  BY <1>1, <1>2, <1>3 DEF Holds
<1>6. QED
  BY <1>4, <1>5 DEF r

LEMMA HoldsTail ==
  ASSUME NEW q \in Seq(Message), q # <<>>, NEW s, NEW i, Holds(q, s, i)
  PROVE  Holds(Tail(q), s, i) \/ Holds(<<Head(q)>>, s, i)
<1> DEFINE r == Tail(q)
           h == Head(q)
<1>1. /\ DOMAIN q = 1..Len(q) /\ DOMAIN r = 1..Len(q) - 1 /\ Len(q) \in Nat /\ Len(q) >= 1
      /\ \A k \in 1..Len(q) - 1 : r[k] = q[k + 1]
      /\ h = q[1]
  BY Positions
<1>2. DOMAIN <<h>> = {1} /\ <<h>>[1] = h
  OBVIOUS
<1> SUFFICES Holds(r, s, i) \/ Holds(<<h>>, s, i)
  OBVIOUS
<1> HIDE DEF r, h
<1>3. PICK k \in DOMAIN q : q[k].type = "PACKET" /\ q[k].src = s /\ q[k].id = i
  BY DEF Holds
<1>4. CASE k = 1
  BY <1>1, <1>2, <1>3, <1>4 DEF Holds
<1>5. CASE k # 1
  <2>1. k - 1 \in 1..Len(q) - 1 /\ (k - 1) + 1 = k
    BY <1>1, <1>5
  <2>2. k - 1 \in DOMAIN r /\ r[k - 1] = q[k]
    BY <1>1, <2>1
  <2>3. QED
    BY <2>2, <1>3 DEF Holds
<1>6. QED
  BY <1>4, <1>5

------------------------------------------------------------------------------
(* Kinds of steps *)

\* Steps that hand nothing on: at most they empty the stream of a child the
\* parent gave up or of a child that ended.
Thins ==
  /\ UNCHANGED <<got, sent, out_msg, out_to, routed, child_stats, probe_sent>>
  /\ \A s \in Slot : up'[s] = up[s] \/ (up'[s] = <<>> /\ ~alive'[s])
  /\ \A s \in Slot : \/ down'[s] = down[s]
                     \/ down'[s] = <<>> /\ (cpc'[s] = "exited" \/ ParentGone')

LEMMA StepKinds ==
  ASSUME ShapeOK, [Next]_vars
  PROVE  \/ Thins
         \/ \E s \in Slot : \/ BootOk(s) \/ WriteStats(s) \/ ChildSends(s) \/ ChildReceives(s)
                            \/ HandleEvent(s) \/ ParentWrites(s)
<1> USE DEF Thins
<1>1. CASE ForkPlayer \/ ForkFails \/ ParentDies \/ PollReturns \/ Finish
  BY <1>1 DEF ForkPlayer, ForkFails, ParentDies, PollReturns, Finish, childVars
<1>2. CASE FinishEvent \/ Reap
  BY <1>2 DEF FinishEvent, Reap, Close, childVars
<1>3. CASE Sigterm
  BY <1>3 DEF Sigterm, ParentGone
<1>4. ASSUME NEW s \in Slot, BootFails(s) \/ PollEnds(s) \/ CoreSends(s) \/ CorePolls(s)
                             \/ CoreReturns(s)
      PROVE  Thins
  BY <1>4 DEF BootFails, PollEnds, CoreSends, CorePolls, CoreReturns, parentVars
<1>5. ASSUME NEW s \in Slot, ChildSigpipe(s) \/ ChildExits(s) \/ Crash(s) PROVE Thins
  BY <1>5 DEF ChildSigpipe, ChildExits, Crash, Ends, parentVars, ShapeOK, ChildShape, SocketShape
<1>6. CASE UNCHANGED vars
  BY <1>6 DEF vars, parentVars, childVars
<1>7. QED
  BY <1>1, <1>2, <1>3, <1>4, <1>5, <1>6 DEF Next, ParentStep, ChildStep, Fault, Over

\* What was sent stays sent, and a child that wrote its STATS has said and heard
\* its last.
Grows ==
  /\ \A s \in Slot : \A i \in DOMAIN sent[s] : i \in DOMAIN sent'[s] /\ sent'[s][i] = sent[s][i]
  /\ \A s \in Slot : Quit(s) => Quit(s)' /\ sent'[s] = sent[s] /\ got'[s] = got[s]

LEMMA QuitForGood ==
  ASSUME ShapeOK, Served, SendsInFrame, [Next]_vars
  PROVE  \A s \in Slot : Quit(s) => Quit(s)'
<1> USE DEF Quit
<1>1. CASE ForkPlayer
  <2>1. cpc[forked + 1] = "unborn" /\ cpc' = [cpc EXCEPT ![forked + 1] = "boot"]
    BY <1>1, RoomAssumption DEF ForkPlayer, Served, ShapeOK, ParentShape, Slot
  <2>2. QED
    BY <2>1 DEF ShapeOK, ChildShape
<1>2. CASE Sigterm
  BY <1>2 DEF Sigterm, Running, ShapeOK, ChildShape
<1>3. ASSUME NEW s \in Slot, ChildStep(s) \/ Crash(s) PROVE \A r \in Slot : Quit(r) => Quit(r)'
  <2>1. \A r \in Slot : r # s => cpc'[r] = cpc[r]
    BY <1>3, ChildFrame
  <2>2. Quit(s) => Quit(s)'
    BY <1>3 DEF ChildStep, BootOk, BootFails, ChildReceives, PollEnds, Polling, CoreSends,
       CorePolls, CoreReturns, Executing, ChildSends, WriteStats, ChildSigpipe, ChildExits,
       Crash, Ends, ShapeOK, ChildShape
  <2>3. QED
    BY <2>1, <2>2
<1>4. CASE \/ ForkFails \/ ParentDies \/ PollReturns \/ FinishEvent \/ Reap \/ Finish
           \/ \E s \in Slot : HandleEvent(s) \/ ParentWrites(s)
  BY <1>4 DEF ForkFails, ParentDies, PollReturns, FinishEvent, Reap, Finish, HandleEvent,
     ParentWrites, childVars
<1>5. CASE UNCHANGED vars
  BY <1>5 DEF vars, childVars
<1>6. QED
  BY <1>1, <1>2, <1>3, <1>4, <1>5 DEF Next, ParentStep, Fault, Over

LEMMA HistoryGrows ==
  ASSUME ShapeOK, Served, SendsInFrame, [Next]_vars
  PROVE  Grows
<1>q. \A s \in Slot : Quit(s) => Quit(s)'
  BY QuitForGood
<1>1. CASE UNCHANGED <<sent, got>>
  BY <1>1, <1>q DEF Grows
<1>2. ASSUME NEW s \in Slot, ChildSends(s) PROVE Grows
  <2>1. sending[s] \in Dest /\ sent[s] \in Seq(Dest) /\ ~Quit(s)
    BY <1>2 DEF ChildSends, ShapeOK, ChildShape, SendsInFrame, Quit
  <2>2. sent' = [sent EXCEPT ![s] = Append(sent[s], sending[s])] /\ got' = got
    BY <1>2 DEF ChildSends
  <2>3. /\ DOMAIN sent[s] = 1..Len(sent[s]) /\ Len(sent[s]) \in Nat
        /\ DOMAIN Append(sent[s], sending[s]) = 1..Len(sent[s]) + 1
        /\ \A i \in 1..Len(sent[s]) : Append(sent[s], sending[s])[i] = sent[s][i]
    BY <2>1, AppendProperties, LenProperties
  <2>4. \A i \in DOMAIN sent[s] : i \in DOMAIN sent'[s] /\ sent'[s][i] = sent[s][i]
    BY <2>2, <2>3 DEF ShapeOK, ChildShape
  <2>5. \A r \in Slot : r # s => sent'[r] = sent[r]
    BY <2>2 DEF ShapeOK, ChildShape
  <2>6. QED
    BY <1>q, <2>1, <2>2, <2>4, <2>5 DEF Grows
<1>3. ASSUME NEW s \in Slot, ChildReceives(s) PROVE Grows
  <2>1. ~Quit(s) /\ sent' = sent /\ \A r \in Slot : r # s => got'[r] = got[r]
    BY <1>3 DEF ChildReceives, Polling, Quit, ShapeOK, ChildShape
  <2>2. QED
    BY <1>q, <2>1 DEF Grows
<1>4. ASSUME NEW s \in Slot, BootOk(s) \/ WriteStats(s) \/ HandleEvent(s) \/ ParentWrites(s)
      PROVE  UNCHANGED <<sent, got>>
  BY <1>4 DEF BootOk, WriteStats, HandleEvent, ParentWrites, childVars
<1>5. QED
  BY <1>1, <1>2, <1>3, <1>4, StepKinds DEF Thins

\* So what a stream may hold only ever becomes more.
LEMMA StreamSetsGrow ==
  ASSUME Grows
  PROVE  /\ \A s \in Slot : Upward(s) \subseteq Upward(s)'
         /\ \A t \in Slot : Received(t) \subseteq Received(t)' /\ Downward(t) \subseteq Downward(t)'
<1>1. ASSUME NEW s \in Slot, NEW m \in Upward(s) PROVE m \in Upward(s)'
  BY <1>1 DEF Grows, Upward, Final
<1>2. ASSUME NEW t \in Slot, NEW m \in Received(t) PROVE m \in Received(t)'
  BY <1>2 DEF Grows, Received, MeantFor
<1>3. QED
  BY <1>1, <1>2 DEF Downward

------------------------------------------------------------------------------
(* Flow: what is in the streams *)

LEMMA FlowInit == Init => Flow
<1> SUFFICES ASSUME Init PROVE Flow
  OBVIOUS
<1>1. Streams
  BY EmptySeq DEF Init, Streams
<1>2. WritesInTurn /\ SendsInFrame /\ StatsKnown
  BY DEF Init, WritesInTurn, SendsInFrame, StatsKnown
<1>3. QED
  BY <1>1, <1>2 DEF Flow

LEMMA WritesInTurnNext == WritesInTurn /\ [Next]_vars => WritesInTurn'
<1> SUFFICES ASSUME WritesInTurn, [Next]_vars PROVE WritesInTurn'
  OBVIOUS
<1>1. CASE UNCHANGED <<phase, out_to>>
  BY <1>1 DEF WritesInTurn
<1>2. CASE ForkPlayer \/ ForkFails \/ ParentDies \/ Sigterm \/ PollReturns \/ FinishEvent
           \/ Reap \/ Finish
  BY <1>2 DEF WritesInTurn, ForkPlayer, ForkFails, ParentDies, Sigterm, PollReturns, FinishEvent,
     Reap, Finish
<1>3. ASSUME NEW s \in Slot, HandleEvent(s) \/ ParentWrites(s) PROVE WritesInTurn'
  BY <1>3 DEF WritesInTurn, HandleEvent, ParentWrites
<1>4. ASSUME NEW s \in Slot, ChildStep(s) \/ Crash(s) PROVE UNCHANGED <<phase, out_to>>
  BY <1>4 DEF ChildStep, BootOk, BootFails, ChildReceives, PollEnds, CoreSends, CorePolls,
     CoreReturns, ChildSends, WriteStats, ChildSigpipe, ChildExits, Crash, parentVars
<1>5. CASE UNCHANGED vars
  BY <1>1, <1>5 DEF vars, parentVars
<1>6. QED
  BY <1>1, <1>2, <1>3, <1>4, <1>5 DEF Next, ParentStep, Fault, Over

LEMMA SendsInFrameNext ==
  ASSUME ShapeOK, Served, Streams, SendsInFrame, [Next]_vars
  PROVE  SendsInFrame'
<1> USE DEF SendsInFrame
<1>1. CASE UNCHANGED <<cpc, sending, sent>>
  BY <1>1
<1>2. CASE ForkPlayer
  <2>1. /\ cpc[forked + 1] = "unborn" /\ cpc' = [cpc EXCEPT ![forked + 1] = "boot"]
        /\ UNCHANGED <<sending, sent>>
    BY <1>2, RoomAssumption DEF ForkPlayer, Served, ShapeOK, ParentShape, Slot
  <2>2. QED
    BY <2>1 DEF ShapeOK, ChildShape
<1>3. CASE Sigterm
  BY <1>3 DEF Sigterm, Running, ShapeOK, ChildShape
<1>4. CASE \/ ForkFails \/ ParentDies \/ PollReturns \/ FinishEvent \/ Reap \/ Finish
           \/ \E s \in Slot : HandleEvent(s) \/ ParentWrites(s)
  BY <1>1, <1>4 DEF ForkFails, ParentDies, PollReturns, FinishEvent, Reap, Finish, HandleEvent,
     ParentWrites, childVars
<1>5. ASSUME NEW s \in Slot, BootOk(s) \/ BootFails(s) \/ PollEnds(s) \/ CorePolls(s)
                             \/ CoreReturns(s) \/ WriteStats(s)
      PROVE  SendsInFrame'
  <2>1. \A r \in Slot : r # s => cpc'[r] = cpc[r]
    BY <1>5, ChildFrame DEF ChildStep
  <2>2. UNCHANGED <<sending, sent>> /\ cpc[s] # "unborn"
    BY <1>5 DEF BootOk, BootFails, PollEnds, Polling, CorePolls, CoreReturns, Executing, WriteStats
  <2>3. sending[s] = NoSlot
    BY <1>5 DEF BootOk, BootFails, PollEnds, Polling, CorePolls, CoreReturns, Executing, WriteStats
  <2>4. cpc'[s] # "unborn"
    BY <1>5, <2>2, ChildFrame DEF ChildStep
  <2>5. QED
    BY <2>1, <2>2, <2>3, <2>4
<1>6. ASSUME NEW s \in Slot, ChildReceives(s) PROVE SendsInFrame'
  <2>1. UNCHANGED <<cpc, sent>> /\ cpc[s] \in {"poll1", "runpoll", "poll2"}
    BY <1>6 DEF ChildReceives, Polling
  <2>2. Head(down[s]) \in Downward(s)
    BY <1>6, HeadTailProperties DEF ChildReceives, Streams
  <2>3. sending' = [sending EXCEPT ![s] = sending'[s]] /\ sending'[s] \in {sending[s], Broadcast}
    <3>1. Head(down[s]).type = "PROBE_SEND" => Head(down[s]).dst = Broadcast
      BY <2>2 DEF Downward, Received, ProbeMsg
    <3>2. QED
      BY <1>6, <3>1 DEF ChildReceives, ShapeOK, ChildShape
  <2>4. QED
    BY <2>1, <2>3, BroadcastAssumption DEF ShapeOK, ChildShape
<1>7. ASSUME NEW s \in Slot, CoreSends(s) PROVE SendsInFrame'
  BY <1>7 DEF CoreSends, Executing, ShapeOK, ChildShape
<1>8. ASSUME NEW s \in Slot, ChildSends(s) PROVE SendsInFrame'
  BY <1>8 DEF ChildSends, ShapeOK, ChildShape
<1>9. ASSUME NEW s \in Slot, ChildSigpipe(s) \/ ChildExits(s) \/ Crash(s) PROVE SendsInFrame'
  BY <1>9 DEF ChildSigpipe, ChildExits, Crash, Ends, Running, ShapeOK, ChildShape
<1>10. CASE UNCHANGED vars
  BY <1>1, <1>10 DEF vars, childVars
<1>11. QED
  BY <1>1, <1>2, <1>3, <1>4, <1>5, <1>6, <1>7, <1>8, <1>9, <1>10
  DEF Next, ParentStep, ChildStep, Fault, Over

\* What is in the streams, put in terms of the next state.
LEMMA StreamsAged ==
  ASSUME Streams, Grows
  PROVE  /\ \A s \in Slot : up[s] \in Seq(Upward(s)')
         /\ \A t \in Slot : down[t] \in Seq(Downward(t)') /\ got[t] \in Seq(Received(t)')
         /\ \A t \in Slot \cap out_to : out_msg \in Downward(t)'
BY StreamSetsGrow, SeqMonotonic DEF Streams

LEMMA StreamsNext ==
  ASSUME ShapeOK, ShapeOK', Served, Flow, [Next]_vars
  PROVE  Streams'
<1> USE DEF Flow
<1>g. Grows
  BY HistoryGrows
<1>a. /\ \A s \in Slot : up[s] \in Seq(Upward(s)')
      /\ \A t \in Slot : down[t] \in Seq(Downward(t)') /\ got[t] \in Seq(Received(t)')
      /\ \A t \in out_to : t \in Slot /\ out_msg \in Downward(t)'
  BY <1>g, StreamsAged DEF ShapeOK, ParentShape
<1>1. CASE Thins
  BY <1>1, <1>a, EmptySeq DEF Thins, Streams
<1>2. ASSUME NEW s \in Slot, BootOk(s) \/ WriteStats(s) \/ ChildSends(s) PROVE Streams'
  <2>1. PICK m \in Upward(s)' : up' = [up EXCEPT ![s] = Append(up[s], m)]
    <3>1. CASE BootOk(s)
      <4>1. ReadyMsg(s) \in Upward(s)'
        BY Constructors DEF Upward, ReadyMsg
      <4>2. QED
        BY <3>1, <4>1 DEF BootOk, ChildWrites
    <3>2. CASE WriteStats(s)
      <4> DEFINE st == [sent |-> Len(sent[s]), received |-> Len(got[s])]
      <4>1. st \in StatsType
        BY DEF StatsType, ShapeOK, ChildShape
      <4>2. Quit(s)' /\ st = [sent |-> Len(sent'[s]), received |-> Len(got'[s])]
        BY <3>2 DEF WriteStats, Quit, ShapeOK, ChildShape
      <4>3. StatsMsg(s, st) \in Upward(s)'
        BY <4>1, <4>2, Constructors DEF Upward, StatsMsg, Final
      <4>4. QED
        BY <3>2, <4>3 DEF WriteStats, ChildWrites
    <3>3. CASE ChildSends(s)
      <4> DEFINE m == Packet(s, sending[s], Len(sent[s]) + 1)
      <4>1. sending[s] \in Dest /\ sent[s] \in Seq(Dest) /\ Len(sent[s]) + 1 \in Nat
        BY <3>3 DEF ChildSends, ShapeOK, ChildShape
      <4>2. m \in Message
        BY <4>1, Constructors
      <4>3. sent'[s] = Append(sent[s], sending[s])
        BY <3>3 DEF ChildSends, ShapeOK, ChildShape
      <4>4. Len(sent[s]) + 1 \in DOMAIN sent'[s] /\ sent'[s][Len(sent[s]) + 1] = sending[s]
        BY <4>1, <4>3, AppendProperties, LenProperties
      <4>5. m \in Upward(s)'
        BY <4>2, <4>4 DEF Upward, Packet
      <4>6. QED
        BY <3>3, <4>5 DEF ChildSends, ChildWrites
    <3>4. QED
      BY <1>2, <3>1, <3>2, <3>3
  <2>2. UNCHANGED <<down, got, out_msg, out_to>>
    BY <1>2 DEF BootOk, WriteStats, ChildSends, parentVars
  <2>3. Append(up[s], m) \in Seq(Upward(s)')
    BY <1>a, <2>1, AppendProperties
  <2>4. \A r \in Slot : up'[r] \in Seq(Upward(r)')
    BY <1>a, <2>1, <2>3 DEF ShapeOK, SocketShape
  <2>5. QED
    BY <1>a, <2>2, <2>4 DEF Streams
<1>3. ASSUME NEW s \in Slot, ChildReceives(s) PROVE Streams'
  <2> DEFINE m == Head(down[s])
  <2>1. m \in Downward(s)' /\ Tail(down[s]) \in Seq(Downward(s)')
    BY <1>3, <1>a, HeadTailProperties DEF ChildReceives
  <2>2. UNCHANGED <<up, out_msg, out_to>> /\ down' = [down EXCEPT ![s] = Tail(down[s])]
    BY <1>3 DEF ChildReceives, parentVars
  <2>3. got' = [got EXCEPT ![s] = IF m.type = "PACKET" THEN Append(got[s], m) ELSE got[s]]
    BY <1>3 DEF ChildReceives
  <2>4. m.type = "PACKET" => m \in Received(s)'
    BY <2>1 DEF Downward, ProbeMsg
  <2>5. m.type = "PACKET" => Append(got[s], m) \in Seq(Received(s)')
    BY <1>a, <2>4, AppendProperties
  <2>6. \A t \in Slot : down'[t] \in Seq(Downward(t)')
    BY <1>a, <2>1, <2>2 DEF ShapeOK, SocketShape
  <2>7. \A t \in Slot : got'[t] \in Seq(Received(t)')
    BY <1>a, <2>3, <2>5 DEF ShapeOK, ChildShape
  <2>8. QED
    BY <1>a, <2>2, <2>6, <2>7 DEF Streams
<1>4. ASSUME NEW s \in Slot, HandleEvent(s) PROVE Streams'
  <2>1. UNCHANGED <<down, got>> /\ out_to = {}
    BY <1>4 DEF HandleEvent, childVars, WritesInTurn
  <2>2. CASE up[s] = <<>>
    BY <1>4, <1>a, <2>1, <2>2 DEF HandleEvent, Streams
  <2>3. CASE up[s] # <<>>
    <3> DEFINE m == Head(up[s])
    <3>1. m \in Upward(s)' /\ Tail(up[s]) \in Seq(Upward(s)')
      BY <2>3, <1>a, HeadTailProperties
    <3>2. up' = [up EXCEPT ![s] = Tail(up[s])]
      BY <1>4, <2>3 DEF HandleEvent, TakeMessage
    <3>3. \A r \in Slot : up'[r] \in Seq(Upward(r)')
      BY <1>a, <3>1, <3>2 DEF ShapeOK, SocketShape
    <3>4. ASSUME NEW t \in out_to' PROVE out_msg' \in Downward(t)'
      <4>1. CASE m.type = "PACKET"
        <5>1. /\ m \in Message /\ m.src = s
              /\ m.id \in DOMAIN sent'[s] /\ m.dst = sent'[s][m.id]
          BY <3>1, <4>1 DEF Upward
        <5>2. out_msg' = [m EXCEPT !.src = s] /\ out_to' = Targets(s, m.dst)
          BY <1>4, <2>3, <4>1 DEF HandleEvent
        <5>3. [m EXCEPT !.src = s] = m
          BY <5>1 DEF Message
        <5>4. t \in Slot /\ t # s /\ m.dst \in {t, Broadcast}
          BY <5>2 DEF Targets
        <5>5. out_msg' \in Received(t)'
          BY <4>1, <5>1, <5>2, <5>3, <5>4 DEF Received, MeantFor
        <5>6. QED
          BY <5>5 DEF Downward
      <4>2. CASE m.type # "PACKET"
        <5>1. out_msg' = ProbeMsg
          BY <1>4, <2>1, <2>3, <3>4, <4>2 DEF HandleEvent
        <5>2. QED
          BY <5>1 DEF Downward
      <4>3. QED
        BY <4>1, <4>2
    <3>5. QED
      BY <1>a, <2>1, <3>3, <3>4 DEF Streams
  <2>4. QED
    BY <2>2, <2>3
<1>5. ASSUME NEW t \in Slot, ParentWrites(t) PROVE Streams'
  <2>1. UNCHANGED <<up, got, out_msg>> /\ t \in out_to /\ out_to' \subseteq out_to
    BY <1>5 DEF ParentWrites, Remaining, childVars
  <2>2. down' = down \/ down' = [down EXCEPT ![t] = Append(down[t], out_msg)]
    BY <1>5 DEF ParentWrites
  <2>3. Append(down[t], out_msg) \in Seq(Downward(t)')
    BY <1>a, <2>1, AppendProperties
  <2>4. \A r \in Slot : down'[r] \in Seq(Downward(r)')
    BY <1>a, <2>2, <2>3 DEF ShapeOK, SocketShape
  <2>5. QED
    BY <1>a, <2>1, <2>4 DEF Streams
<1>6. QED
  BY <1>1, <1>2, <1>3, <1>4, <1>5, StepKinds

LEMMA StatsKnownNext ==
  ASSUME ShapeOK, Served, Flow, [Next]_vars
  PROVE  StatsKnown'
<1> USE DEF Flow
<1>g. \A s \in Slot : \A st : Final(s, st) => Final(s, st)'
  BY HistoryGrows DEF Grows, Final
<1>1. CASE UNCHANGED child_stats
  BY <1>1, <1>g DEF StatsKnown
<1>2. ASSUME NEW s \in Slot, HandleEvent(s) PROVE StatsKnown'
  <2>1. CASE up[s] = <<>>
    BY <1>1, <1>2, <2>1 DEF HandleEvent
  <2>2. CASE up[s] # <<>>
    <3> DEFINE m == Head(up[s])
    <3>1. child_stats' = [child_stats EXCEPT ![s] = IF m.type = "STATS" THEN m.stats
                                                    ELSE child_stats[s]]
      BY <1>2, <2>2 DEF HandleEvent, StoreStats
    <3>2. m \in Upward(s)
      BY <2>2, HeadTailProperties DEF Streams
    <3>3. m.type = "STATS" => Final(s, m.stats)
      BY <3>2 DEF Upward
    <3>4. QED
      BY <1>g, <3>1, <3>3 DEF StatsKnown, ShapeOK, ParentShape
  <2>3. QED
    BY <2>1, <2>2
<1>3. ASSUME NEW s \in Slot, \/ BootOk(s) \/ WriteStats(s) \/ ChildSends(s) \/ ChildReceives(s)
                             \/ ParentWrites(s)
      PROVE  UNCHANGED child_stats
  BY <1>3 DEF BootOk, WriteStats, ChildSends, ChildReceives, ParentWrites, parentVars
<1>4. QED
  BY <1>1, <1>2, <1>3, StepKinds DEF Thins

LEMMA FlowNext == IInv /\ IInv' /\ Flow /\ [Next]_vars => Flow'
BY WritesInTurnNext, SendsInFrameNext, StreamsNext, StatsKnownNext DEF IInv, Flow

------------------------------------------------------------------------------
(* Order *)

LEMMA Unordered ==
  ASSUME NEW m, m.type # "PACKET", NEW q
  PROVE  Before(q, <<m>>) /\ Before(<<m>>, q)
BY DEF Before, Older

\* The number of a new packet is higher than any its sender's packets have.
LEMMA Newest ==
  ASSUME ShapeOK, Streams, NEW s \in Slot, NEW m, m.src = s, m.id = Len(sent[s]) + 1
  PROVE  /\ \A t \in Slot : Before(got[t], <<m>>) /\ Before(down[t], <<m>>)
         /\ \A r \in Slot : Before(up[r], <<m>>)
         /\ \A t \in out_to : Before(<<out_msg>>, <<m>>)
<1>1. DOMAIN sent[s] = 1..Len(sent[s]) /\ Len(sent[s]) \in Nat
  BY LenProperties DEF ShapeOK, ChildShape
<1>2. ASSUME NEW p, p.type = "PACKET" /\ p.src = s => p.id \in DOMAIN sent[s]
      PROVE  Older(p, m)
  BY <1>1, <1>2 DEF Older
<1>3. ASSUME NEW q, \A k \in DOMAIN q : q[k].type = "PACKET" /\ q[k].src = s
                                          => q[k].id \in DOMAIN sent[s]
      PROVE  Before(q, <<m>>)
  <2>1. \A k \in DOMAIN q : Older(q[k], m)
    BY <1>2, <1>3
  <2>2. QED
    BY <2>1 DEF Before
<1>4. ASSUME NEW t \in Slot PROVE Before(got[t], <<m>>) /\ Before(down[t], <<m>>)
  <2>1. \A k \in DOMAIN got[t] : got[t][k] \in Received(t)
    BY ElementOfSeq, LenProperties DEF Streams
  <2>2. \A k \in DOMAIN down[t] : down[t][k] \in Downward(t)
    BY ElementOfSeq, LenProperties DEF Streams
  <2>3. QED
    BY <1>3, <2>1, <2>2 DEF Received, Downward, MeantFor, ProbeMsg
<1>5. ASSUME NEW r \in Slot PROVE Before(up[r], <<m>>)
  <2>1. \A k \in DOMAIN up[r] : up[r][k] \in Upward(r)
    BY ElementOfSeq, LenProperties DEF Streams
  <2>2. QED
    BY <1>3, <2>1 DEF Upward
<1>6. ASSUME NEW t \in out_to PROVE Before(<<out_msg>>, <<m>>)
  <2>1. out_msg \in Downward(t)
    BY DEF Streams
  <2>2. Older(out_msg, m)
    BY <1>2, <2>1 DEF Received, Downward, MeantFor, ProbeMsg
  <2>3. QED
    BY <2>2 DEF Before
<1>7. QED
  BY <1>4, <1>5, <1>6

\* InOrderOnce for one receiver.
InOrder(t) ==
  /\ Sorted(got[t]) /\ Sorted(down[t]) /\ Sorted(up[t]) /\ Before(got[t], down[t])
  /\ \A s \in Slot : Before(got[t], up[s]) /\ Before(down[t], up[s])
  /\ t \in out_to =>
       /\ Before(got[t], <<out_msg>>) /\ Before(down[t], <<out_msg>>)
       /\ \A s \in Slot : Before(<<out_msg>>, up[s])

LEMMA OrderPerPlayer == InOrderOnce <=> \A t \in Slot : InOrder(t)
BY DEF InOrderOnce, InOrder

\* A message that is newer than all the others is written to the parent.
LEMMA OrderUp ==
  ASSUME ShapeOK, InOrderOnce, NEW s \in Slot, NEW m \in Message,
         \A t \in Slot : Before(got[t], <<m>>) /\ Before(down[t], <<m>>),
         Before(up[s], <<m>>), \A t \in out_to : Before(<<out_msg>>, <<m>>),
         up' = [up EXCEPT ![s] = Append(up[s], m)], UNCHANGED <<down, got, out_msg, out_to>>
  PROVE  InOrderOnce'
<1>0. \A t \in Slot : InOrder(t)
  BY OrderPerPlayer
<1>1. up[s] \in Seq(Message) /\ up'[s] = Append(up[s], m) /\ \A r \in Slot : r # s => up'[r] = up[r]
  BY DEF ShapeOK, SocketShape
<1>2. Sorted(up'[s])
  BY <1>0, <1>1, OrderAppend DEF InOrder
<1>3. \A p : Before(p, up[s]) /\ Before(p, <<m>>) => Before(p, up'[s])
  BY <1>1, OrderAppend
<1>4. ASSUME NEW t \in Slot PROVE InOrder(t)'
  <2>1. Sorted(up'[t])
    BY <1>0, <1>1, <1>2 DEF InOrder
  <2>2. ASSUME NEW r \in Slot
        PROVE  /\ Before(got[t], up'[r]) /\ Before(down[t], up'[r])
               /\ t \in out_to => Before(<<out_msg>>, up'[r])
    <3>1. CASE r = s
      BY <3>1, <1>0, <1>3 DEF InOrder
    <3>2. CASE r # s
      BY <3>2, <1>0, <1>1 DEF InOrder
    <3>3. QED
      BY <3>1, <3>2
  <2>3. QED
    BY <1>0, <2>1, <2>2 DEF InOrder
<1>5. QED
  BY <1>4, OrderPerPlayer DEF InOrderOnce, InOrder

LEMMA OrderNext ==
  ASSUME ShapeOK, Flow, InOrderOnce, [Next]_vars
  PROVE  InOrderOnce'
<1> USE DEF Flow
<1>0. \A t \in Slot : InOrder(t)
  BY OrderPerPlayer
<1>q. (\A t \in Slot : InOrder(t)') => InOrderOnce'
  BY DEF InOrderOnce, InOrder
<1>1. CASE Thins
  <2>1. ASSUME NEW t \in Slot PROVE InOrder(t)'
    <3>1. /\ got' = got /\ out_msg' = out_msg /\ out_to' = out_to
          /\ \A s \in Slot : up'[s] \in {up[s], <<>>} /\ down'[s] \in {down[s], <<>>}
      BY <1>1 DEF Thins
    <3>2. InOrder(t)
      BY <1>0
    <3>3. Sorted(up'[t]) /\ Sorted(down'[t]) /\ Before(got[t], down'[t])
      BY <3>1, <3>2, EmptyStream DEF InOrder
    <3>4. ASSUME NEW s \in Slot
          PROVE  /\ Before(got[t], up'[s]) /\ Before(down'[t], up'[s])
                 /\ t \in out_to => Before(<<out_msg>>, up'[s])
      BY <3>1, <3>2, EmptyStream DEF InOrder
    <3>5. t \in out_to => Before(down'[t], <<out_msg>>)
      BY <3>1, <3>2, EmptyStream DEF InOrder
    <3>6. QED
      BY <3>1, <3>2, <3>3, <3>4, <3>5 DEF InOrder
  <2>2. QED
    BY <1>q, <2>1
<1>2. ASSUME NEW s \in Slot, BootOk(s) \/ WriteStats(s) PROVE InOrderOnce'
  <2>1. \E m \in Message : m.type # "PACKET" /\ up' = [up EXCEPT ![s] = Append(up[s], m)]
    <3>1. CASE BootOk(s)
      BY <3>1, Constructors DEF BootOk, ChildWrites, ReadyMsg
    <3>2. CASE WriteStats(s)
      <4>1. [sent |-> Len(sent[s]), received |-> Len(got[s])] \in StatsType
        BY DEF StatsType, ShapeOK, ChildShape
      <4>2. QED
        BY <3>2, <4>1, Constructors DEF WriteStats, ChildWrites, StatsMsg
    <3>3. QED
      BY <1>2, <3>1, <3>2
  <2>2. PICK m \in Message : m.type # "PACKET" /\ up' = [up EXCEPT ![s] = Append(up[s], m)]
    BY <2>1
  <2>3. UNCHANGED <<down, got, out_msg, out_to>>
    BY <1>2 DEF BootOk, WriteStats, parentVars
  <2>4. QED
    BY <2>2, <2>3, Unordered, OrderUp
<1>3. ASSUME NEW s \in Slot, ChildSends(s) PROVE InOrderOnce'
  <2> DEFINE m == Packet(s, sending[s], Len(sent[s]) + 1)
  <2>1. m \in Message /\ m.src = s /\ m.id = Len(sent[s]) + 1
    BY <1>3, Constructors DEF ChildSends, ShapeOK, ChildShape, Packet
  <2>2. up' = [up EXCEPT ![s] = Append(up[s], m)] /\ UNCHANGED <<down, got, out_msg, out_to>>
    BY <1>3 DEF ChildSends, ChildWrites, parentVars
  <2> HIDE DEF m
  <2>3. QED
    BY <2>1, <2>2, Newest, OrderUp
<1>4. ASSUME NEW t \in Slot, ChildReceives(t) PROVE InOrderOnce'
  <2> DEFINE m == Head(down[t])
  <2>1. /\ down[t] \in Seq(Message) /\ down[t] # <<>> /\ m \in Message /\ got[t] \in Seq(Message)
        /\ Tail(down[t]) \in Seq(Message)
    BY <1>4, HeadTailProperties DEF ChildReceives, ShapeOK, SocketShape, ChildShape
  <2>2. /\ down'[t] = Tail(down[t]) /\ got'[t] \in {got[t], Append(got[t], m)}
        /\ \A r \in Slot : r # t => down'[r] = down[r] /\ got'[r] = got[r]
        /\ UNCHANGED <<up, out_msg, out_to>>
    BY <1>4 DEF ChildReceives, parentVars, ShapeOK, SocketShape, ChildShape
  <2> HIDE DEF m
  <2>3. \A r \in Slot : r # t => InOrder(r)'
    BY <1>0, <2>2 DEF InOrder
  <2>4. /\ Sorted(Tail(down[t])) /\ Before(<<m>>, Tail(down[t]))
        /\ Before(got[t], Tail(down[t])) /\ Before(got[t], <<m>>)
        /\ \A s \in Slot : Before(Tail(down[t]), up[s]) /\ Before(<<m>>, up[s])
        /\ t \in out_to => Before(Tail(down[t]), <<out_msg>>) /\ Before(<<m>>, <<out_msg>>)
    BY <1>0, <2>1, OrderTail DEF InOrder, m
  <2>5. CASE got'[t] = got[t]
    BY <1>0, <1>q, <2>2, <2>3, <2>4, <2>5 DEF InOrder
  <2>6. CASE got'[t] = Append(got[t], m)
    <3>1. /\ Sorted(got'[t]) /\ Before(got'[t], Tail(down[t]))
          /\ \A s \in Slot : Before(got'[t], up[s])
          /\ t \in out_to => Before(got'[t], <<out_msg>>)
      BY <1>0, <2>1, <2>4, <2>6, OrderAppend DEF InOrder
    <3>2. InOrder(t)'
      BY <1>0, <2>2, <2>4, <3>1 DEF InOrder
    <3>3. QED
      BY <1>q, <2>3, <3>2
  <2>7. QED
    BY <2>2, <2>5, <2>6
<1>5. ASSUME NEW s \in Slot, HandleEvent(s) PROVE InOrderOnce'
  <2>1. UNCHANGED <<down, got>> /\ out_to = {}
    BY <1>5 DEF HandleEvent, childVars, WritesInTurn
  <2>2. CASE up[s] = <<>>
    <3>1. UNCHANGED <<up, out_msg, out_to>>
      BY <1>5, <2>2 DEF HandleEvent
    <3>2. QED
      BY <1>0, <1>q, <2>1, <3>1 DEF InOrder
  <2>3. CASE up[s] # <<>>
    <3> DEFINE m == Head(up[s])
    <3>1. up[s] \in Seq(Message) /\ m \in Message /\ m \in Upward(s)
      BY <2>3, HeadTailProperties DEF ShapeOK, SocketShape, Streams
    <3>2. up'[s] = Tail(up[s]) /\ \A r \in Slot : r # s => up'[r] = up[r]
      BY <1>5, <2>3 DEF HandleEvent, TakeMessage, ShapeOK, SocketShape
    <3>3. /\ m.type = "PACKET" => out_msg' = [m EXCEPT !.src = s]
          /\ m.type # "PACKET" => out_to' = {} \/ out_msg' = ProbeMsg
      BY <1>5, <2>1, <2>3 DEF HandleEvent
    <3>4. [m EXCEPT !.src = s] = m
      BY <3>1 DEF Upward, Message
    <3>5. m.src = s
      BY <3>1 DEF Upward
    <3> HIDE DEF m
    <3>6. /\ Sorted(up'[s]) /\ Before(<<m>>, up'[s])
          /\ \A p : Before(p, up[s]) => Before(p, up'[s]) /\ Before(p, <<m>>)
      BY <1>0, <2>3, <3>1, <3>2, OrderTail DEF InOrder, m
    <3>7. ASSUME NEW r \in Slot, r # s PROVE Before(<<m>>, up'[r])
      <4>1. \A k \in DOMAIN up[r] : up[r][k] \in Upward(r)
        BY ElementOfSeq, LenProperties DEF Streams
      <4>2. \A k \in DOMAIN up[r] : Older(m, up[r][k])
        BY <3>5, <3>7, <4>1 DEF Upward, Older
      <4>3. QED
        BY <3>2, <3>7, <4>2 DEF Before
    <3>8. ASSUME NEW t \in Slot PROVE InOrder(t)'
      <4>1. Sorted(up'[t])
        BY <1>0, <3>2, <3>6 DEF InOrder
      <4>2. \A r \in Slot : Before(got[t], up'[r]) /\ Before(down[t], up'[r])
        BY <1>0, <3>2, <3>6 DEF InOrder
      <4>3. ASSUME t \in out_to'
            PROVE  /\ Before(got[t], <<out_msg'>>) /\ Before(down[t], <<out_msg'>>)
                   /\ \A r \in Slot : Before(<<out_msg'>>, up'[r])
        <5>1. CASE m.type = "PACKET"
          <6>1. out_msg' = m
            BY <3>3, <3>4, <5>1
          <6>2. Before(got[t], <<m>>) /\ Before(down[t], <<m>>)
            BY <1>0, <3>6 DEF InOrder
          <6>3. \A r \in Slot : Before(<<m>>, up'[r])
            BY <3>6, <3>7
          <6>4. QED
            BY <6>1, <6>2, <6>3
        <5>2. CASE m.type # "PACKET"
          <6>1. out_msg' = ProbeMsg /\ ProbeMsg.type # "PACKET"
            BY <3>3, <4>3, <5>2 DEF ProbeMsg
          <6>2. QED
            BY <6>1, Unordered
        <5>3. QED
          BY <5>1, <5>2
      <4>4. QED
        BY <1>0, <2>1, <4>1, <4>2, <4>3 DEF InOrder
    <3>9. QED
      BY <1>q, <3>8
  <2>4. QED
    BY <2>2, <2>3
<1>6. ASSUME NEW t \in Slot, ParentWrites(t) PROVE InOrderOnce'
  <2>1. UNCHANGED <<up, got, out_msg>> /\ t \in out_to /\ out_to' \subseteq out_to
    BY <1>6 DEF ParentWrites, Remaining, childVars
  <2>2. down' = down \/ down' = [down EXCEPT ![t] = Append(down[t], out_msg)]
    BY <1>6 DEF ParentWrites
  <2>3. CASE down' = down
    BY <1>0, <1>q, <2>1, <2>3 DEF InOrder
  <2>4. CASE down' = [down EXCEPT ![t] = Append(down[t], out_msg)]
    <3>1. /\ down[t] \in Seq(Message) /\ out_msg \in Message
          /\ down'[t] = Append(down[t], out_msg) /\ \A r \in Slot : r # t => down'[r] = down[r]
      BY <2>4 DEF ShapeOK, SocketShape, ParentShape
    <3>2. \A r \in Slot : r # t => InOrder(r)'
      BY <1>0, <2>1, <3>1 DEF InOrder
    <3>3. /\ Sorted(down'[t]) /\ Before(got[t], down'[t])
          /\ \A s \in Slot : Before(down'[t], up[s])
      BY <1>0, <2>1, <3>1, OrderAppend DEF InOrder
    <3>4. t \notin out_to'
      BY <1>6 DEF ParentWrites, Remaining
    <3>5. InOrder(t)'
      BY <1>0, <2>1, <3>3, <3>4 DEF InOrder
    <3>6. QED
      BY <1>q, <3>2, <3>5
  <2>5. QED
    BY <2>2, <2>3, <2>4
<1>7. QED
  BY <1>1, <1>2, <1>3, <1>4, <1>5, <1>6, StepKinds

------------------------------------------------------------------------------
(* Budgets: no more arrives than was routed *)

LEMMA SeqOver ==
  ASSUME NEW q \in Seq(Message), NEW S, \A k \in DOMAIN q : q[k] \in S
  PROVE  q \in Seq(S)
<1>1. Len(q) \in Nat /\ DOMAIN q = 1..Len(q) /\ q \in [1..Len(q) -> Message]
  BY LenProperties
<1>2. q \in [1..Len(q) -> S]
  BY <1>1
<1>3. QED
  BY <1>1, <1>2, SeqDef

\* One packet more in a stream d (now e) and in the count r (now n) ...
LEMMA WrittenSums ==
  \A g, d, e, r, n \in Nat : e = d + 1 =>
    /\ g + d <= r => g + e <= r + 1
    /\ n = r + 1 /\ g + d <= r => g + e <= n
    /\ n = r + 1 /\ g + d <= r + 1 => g + e <= n + 1
OBVIOUS

\* ... and one less in the stream, which may be one more in the history g (now h).
LEMMA TakenSums ==
  \A g, h, d, e, r \in Nat : e = d - 1 =>
    /\ g + d <= r + 1 => g + e <= r
    /\ h = g + 1 /\ g + d <= r => h + e <= r
    /\ h = g + 1 /\ g + d <= r + 1 => h + e <= r + 1
OBVIOUS

LEMMA EmptiedSums ==
  \A g, d, r \in Nat :
    /\ g + d <= r => g + 0 <= r
    /\ d >= 1 /\ g + d <= r + 1 => g + 0 <= r
OBVIOUS

LEMMA BudgetsInit == Init => Budgets
BY EmptySeq DEF Init, Budgets, Budget

\* A player whose stream, history and count are untouched keeps its budget,
\* unless a second probe were begun.
LEMMA BudgetKept ==
  ASSUME Grows, NEW t \in Slot, Budget(t),
         down'[t] = down[t], got'[t] = got[t], routed'[t] = routed[t],
         probe_sent => probe_sent',
         probe_sent /\ t \in out_to' /\ out_msg'.type = "PROBE_SEND"
           => t \in out_to /\ out_msg.type = "PROBE_SEND"
  PROVE  Budget(t)'
<1>1. Received(t) \subseteq Received(t)'
  BY StreamSetsGrow
<1>2. down[t] \in Seq(Received(t)) => down[t] \in Seq(Received(t)')
  BY <1>1, SeqMonotonic
<1>3. QED
  BY <1>1, <1>2 DEF Budget

\* A packet more in the stream and in the count.
LEMMA BudgetWritten ==
  ASSUME ShapeOK, Flow, Budgets, Grows, NEW t \in Slot, ParentWrites(t),
         alive[t], cpc[t] # "exited"
  PROVE  Budget(t)'
<1> DEFINE q == Append(down[t], out_msg)
<1>1. /\ t \in out_to /\ t \notin out_to' /\ UNCHANGED <<got, out_msg, probe_sent, sent>>
      /\ down'[t] = q
      /\ routed'[t] = IF out_msg.type = "PACKET" THEN routed[t] + 1 ELSE routed[t]
  BY DEF ParentWrites, Remaining, childVars, ShapeOK, SocketShape, ParentShape
<1>2. /\ DOMAIN down[t] = 1..Len(down[t]) /\ Len(down[t]) \in Nat
      /\ DOMAIN q = 1..Len(down[t]) + 1 /\ Len(q) = Len(down[t]) + 1
      /\ \A k \in 1..Len(down[t]) : q[k] = down[t][k]
      /\ q[Len(down[t]) + 1] = out_msg
      /\ q \in Seq(Message)
  BY Positions, AppendProperties DEF ShapeOK, SocketShape, ParentShape
<1>3. Len(got[t]) \in Nat /\ routed[t] \in Nat /\ routed'[t] \in Nat
  BY <1>1 DEF ShapeOK, ChildShape, ParentShape
<1>4. Received(t)' = Received(t)
  BY <1>1 DEF Received, MeantFor
<1>5. out_msg \in Downward(t) /\ Budget(t)
  BY <1>1 DEF Flow, Streams, Budgets
<1>n. Len(down[t]) \in Nat /\ Len(q) \in Nat /\ Len(q) = Len(down[t]) + 1
  BY <1>2
<1> HIDE DEF q
<1>6. CASE out_msg.type = "PACKET"
  <2>1. out_msg \in Received(t)
    BY <1>5, <1>6 DEF Downward, ProbeMsg
  <2>2. CASE down[t] \in Seq(Received(t)) /\ Len(got[t]) + Len(down[t]) <= routed[t]
    <3>1. q \in Seq(Received(t))
      BY <2>1, <2>2, AppendProperties DEF q
    <3>2. routed'[t] = routed[t] + 1
      BY <1>1, <1>6
    <3>3. Len(got[t]) + Len(q) <= routed'[t]
      BY <1>3, <1>n, <2>2, <3>2, WrittenSums, ZenonT(60)
    <3>4. QED
      BY <1>1, <1>4, <3>1, <3>3 DEF Budget
  <2>3. CASE ~(down[t] \in Seq(Received(t)) /\ Len(got[t]) + Len(down[t]) <= routed[t])
    <3>1. PICK k \in DOMAIN down[t] :
            /\ down[t][k].type # "PACKET"
            /\ \A j \in DOMAIN down[t] : j # k => down[t][j] \in Received(t)
      BY <1>5, <2>3 DEF Budget
    <3>2. probe_sent /\ Len(got[t]) + Len(down[t]) <= routed[t] + 1
      BY <1>5, <2>3 DEF Budget
    <3>3. k \in DOMAIN q /\ q[k].type # "PACKET"
      BY <1>2, <3>1
    <3>4. ASSUME NEW j \in DOMAIN q, j # k PROVE q[j] \in Received(t)
      BY <1>2, <2>1, <3>1, <3>4
    <3>5. routed'[t] = routed[t] + 1
      BY <1>1, <1>6
    <3>6. Len(got[t]) + Len(q) <= routed'[t] + 1
      BY <1>3, <1>n, <3>2, <3>5, WrittenSums, Zenon
    <3>7. QED
      BY <1>1, <1>4, <3>2, <3>3, <3>4, <3>6 DEF Budget
  <2>4. QED
    BY <2>2, <2>3
<1>7. CASE out_msg.type # "PACKET"
  <2>1. out_msg.type = "PROBE_SEND"
    BY <1>5, <1>7 DEF Downward, Received, ProbeMsg
  <2>2. probe_sent
    BY <1>1, <2>1 DEF Budgets
  <2>3. down[t] \in Seq(Received(t)) /\ Len(got[t]) + Len(down[t]) <= routed[t]
    BY <1>1, <1>5, <2>1 DEF Budget
  <2>4. \A j \in 1..Len(down[t]) : down[t][j] \in Received(t)
    BY <2>3, ElementOfSeq
  <2>5. /\ Len(down[t]) + 1 \in DOMAIN q /\ q[Len(down[t]) + 1].type # "PACKET"
        /\ \A j \in DOMAIN q : j # Len(down[t]) + 1 => q[j] \in Received(t)
    BY <1>2, <1>7, <2>4
  <2>6. routed'[t] = routed[t]
    BY <1>1, <1>7
  <2>7. Len(got[t]) + Len(q) <= routed'[t] + 1
    BY <1>3, <1>n, <2>3, <2>6, WrittenSums, Zenon
  <2>8. QED
    BY <1>1, <1>4, <2>2, <2>5, <2>7 DEF Budget
<1>8. QED
  BY <1>6, <1>7

LEMMA BudgetTaken ==
  ASSUME ShapeOK, Flow, Budgets, Grows, NEW t \in Slot, ChildReceives(t)
  PROVE  Budget(t)'
<1> DEFINE q == Tail(down[t])
           m == Head(down[t])
<1>1. /\ UNCHANGED <<out_to, out_msg, probe_sent, sent, routed>>
      /\ down[t] # <<>> /\ down'[t] = q
      /\ got'[t] = IF m.type = "PACKET" THEN Append(got[t], m) ELSE got[t]
  BY DEF ChildReceives, parentVars, ShapeOK, SocketShape, ChildShape
<1>2. /\ DOMAIN down[t] = 1..Len(down[t]) /\ Len(down[t]) \in Nat /\ Len(down[t]) >= 1
      /\ DOMAIN q = 1..Len(down[t]) - 1 /\ Len(q) = Len(down[t]) - 1
      /\ \A k \in 1..Len(down[t]) - 1 : q[k] = down[t][k + 1]
      /\ q \in Seq(Message) /\ m = down[t][1] /\ m \in Message
  BY <1>1, Positions DEF ShapeOK, SocketShape
<1>3. /\ Len(got[t]) \in Nat /\ routed[t] \in Nat
      /\ Len(Append(got[t], m)) = Len(got[t]) + 1
  BY <1>2, Positions DEF ShapeOK, ChildShape, ParentShape
<1>4. Received(t)' = Received(t)
  BY <1>1 DEF Received, MeantFor
<1>5. Budget(t)
  BY DEF Budgets
<1>n. Len(down[t]) \in Nat /\ Len(q) \in Nat /\ Len(q) = Len(down[t]) - 1
  BY <1>2
<1> HIDE DEF q, m
<1>6. CASE down[t] \in Seq(Received(t)) /\ Len(got[t]) + Len(down[t]) <= routed[t]
  <2>1. q \in Seq(Received(t)) /\ m \in Received(t)
    BY <1>1, <1>6, HeadTailProperties DEF q, m
  <2>2. m.type = "PACKET"
    BY <2>1 DEF Received
  <2>3. Len(got'[t]) = Len(got[t]) + 1 /\ Len(got'[t]) \in Nat
    BY <1>1, <1>3, <2>2
  <2>4. Len(got'[t]) + Len(q) <= routed[t]
    BY <1>3, <1>n, <1>6, <2>3, TakenSums, ZenonT(60)
  <2>5. QED
    BY <1>1, <1>4, <2>1, <2>4 DEF Budget
<1>7. CASE ~(down[t] \in Seq(Received(t)) /\ Len(got[t]) + Len(down[t]) <= routed[t])
  <2>1. /\ probe_sent /\ ~(t \in out_to /\ out_msg.type = "PROBE_SEND")
        /\ Len(got[t]) + Len(down[t]) <= routed[t] + 1
    BY <1>5, <1>7 DEF Budget
  <2>2. PICK k \in DOMAIN down[t] :
          /\ down[t][k].type # "PACKET"
          /\ \A j \in DOMAIN down[t] : j # k => down[t][j] \in Received(t)
    BY <1>5, <1>7 DEF Budget
  <2>3. CASE k = 1
    <3>1. \A j \in DOMAIN q : j + 1 \in DOMAIN down[t] /\ j + 1 # k /\ q[j] = down[t][j + 1]
      BY <1>2, <2>3
    <3>2. q \in Seq(Received(t))
      BY <1>2, <2>2, <3>1, SeqOver
    <3>3. got'[t] = got[t]
      BY <1>1, <1>2, <2>2, <2>3
    <3>4. Len(got[t]) + Len(q) <= routed[t]
      BY <1>3, <1>n, <2>1, TakenSums, Zenon
    <3>5. QED
      BY <1>1, <1>4, <3>2, <3>3, <3>4 DEF Budget
  <2>4. CASE k # 1
    <3>1. m.type = "PACKET"
      BY <1>2, <2>2, <2>4 DEF Received
    <3>2. k - 1 \in DOMAIN q /\ (k - 1) + 1 = k
      BY <1>2, <2>4
    <3>3. q[k - 1].type # "PACKET"
      BY <1>2, <2>2, <3>2
    <3>4. ASSUME NEW j \in DOMAIN q, j # k - 1 PROVE q[j] \in Received(t)
      <4>1. j + 1 \in DOMAIN down[t] /\ j + 1 # k /\ q[j] = down[t][j + 1]
        BY <1>2, <3>4
      <4>2. QED
        BY <2>2, <4>1
    <3>5. Len(got'[t]) = Len(got[t]) + 1 /\ Len(got'[t]) \in Nat
      BY <1>1, <1>3, <3>1
    <3>6. Len(got'[t]) + Len(q) <= routed[t] + 1
      BY <1>3, <1>n, <2>1, <3>5, TakenSums, Zenon
    <3>7. QED
      BY <1>1, <1>4, <2>1, <3>2, <3>3, <3>4, <3>6 DEF Budget
  <2>5. QED
    BY <2>3, <2>4
<1>8. QED
  BY <1>6, <1>7

LEMMA BudgetsNext ==
  ASSUME ShapeOK, Flow, Grows, Budgets, [Next]_vars
  PROVE  Budgets'
<1>0. \A t \in Slot : Budget(t)
  BY DEF Budgets
<1>1. CASE Thins
  <2>1. UNCHANGED <<got, sent, out_msg, out_to, routed, probe_sent>>
    BY <1>1 DEF Thins
  <2>2. ASSUME NEW t \in Slot PROVE Budget(t)'
    <3>1. CASE down'[t] = down[t]
      BY <1>0, <2>1, <3>1, BudgetKept
    <3>2. CASE down'[t] = <<>>
      <4>1. Len(got[t]) \in Nat /\ Len(down[t]) \in Nat /\ routed[t] \in Nat
        BY DEF ShapeOK, ChildShape, SocketShape, ParentShape
      <4>2. \A k \in DOMAIN down[t] : Len(down[t]) >= 1
        BY LenProperties DEF ShapeOK, SocketShape
      <4>a. Len(got[t]) + Len(down[t]) <= routed[t]
              \/ (Len(down[t]) >= 1 /\ Len(got[t]) + Len(down[t]) <= routed[t] + 1)
        BY <1>0, <4>2 DEF Budget
      <4>3. Len(got[t]) + 0 <= routed[t]
        <5>1. CASE Len(got[t]) + Len(down[t]) <= routed[t]
          BY <4>1, <5>1, EmptiedSums, Zenon
        <5>2. CASE Len(down[t]) >= 1 /\ Len(got[t]) + Len(down[t]) <= routed[t] + 1
          BY <4>1, <5>2, EmptiedSums, Zenon
        <5>3. QED
          BY <4>a, <5>1, <5>2
      <4>4. down'[t] \in Seq(Received(t)') /\ Len(down'[t]) = 0
        BY <3>2, EmptySeq
      <4>5. QED
        BY <2>1, <4>1, <4>3, <4>4 DEF Budget
    <3>3. QED
      BY <1>1, <3>1, <3>2 DEF Thins
  <2>3. QED
    BY <2>1, <2>2 DEF Budgets
<1>2. ASSUME NEW s \in Slot, BootOk(s) \/ WriteStats(s) \/ ChildSends(s) PROVE Budgets'
  <2>1. UNCHANGED <<down, got, out_msg, out_to, routed, probe_sent>>
    BY <1>2 DEF BootOk, WriteStats, ChildSends, parentVars
  <2>2. QED
    BY <1>0, <2>1, BudgetKept DEF Budgets
<1>3. ASSUME NEW t \in Slot, ChildReceives(t) PROVE Budgets'
  <2>1. /\ UNCHANGED <<out_msg, out_to, routed, probe_sent>>
        /\ \A r \in Slot : r # t => down'[r] = down[r] /\ got'[r] = got[r]
    BY <1>3 DEF ChildReceives, parentVars, ShapeOK, SocketShape, ChildShape
  <2>2. \A r \in Slot : r # t => Budget(r)'
    BY <1>0, <2>1, BudgetKept
  <2>3. QED
    BY <1>3, <2>1, <2>2, BudgetTaken DEF Budgets
<1>4. ASSUME NEW s \in Slot, HandleEvent(s) PROVE Budgets'
  <2>1. UNCHANGED <<down, got, routed>> /\ out_to = {}
    BY <1>4 DEF HandleEvent, childVars, Flow, WritesInTurn
  <2>2. /\ probe_sent => probe_sent'
        /\ out_to' # {} /\ out_msg'.type = "PROBE_SEND" => probe_sent' /\ ~probe_sent
    <3>1. CASE up[s] = <<>>
      BY <1>4, <2>1, <3>1 DEF HandleEvent
    <3>2. CASE up[s] # <<>>
      <4> DEFINE m == Head(up[s])
      <4>1. m \in Message
        BY <3>2, HeadTailProperties DEF ShapeOK, SocketShape
      <4>2. CASE m.type = "READY" /\ ProbeDue(ready')
        BY <1>4, <3>2, <4>2 DEF HandleEvent, ProbeDue
      <4>3. CASE m.type = "PACKET"
        <5>1. out_msg' = [m EXCEPT !.src = s] /\ probe_sent' = probe_sent
          BY <1>4, <3>2, <4>3 DEF HandleEvent
        <5>2. out_msg'.type = m.type
          BY <4>1, <5>1 DEF Message
        <5>3. QED
          BY <4>3, <5>1, <5>2
      <4>4. CASE ~(m.type = "READY" /\ ProbeDue(ready')) /\ m.type # "PACKET"
        BY <1>4, <2>1, <3>2, <4>4 DEF HandleEvent
      <4>5. QED
        BY <4>2, <4>3, <4>4
    <3>3. QED
      BY <3>1, <3>2
  <2>3. ASSUME NEW t \in Slot PROVE Budget(t)'
    <3>1. /\ down'[t] = down[t] /\ got'[t] = got[t] /\ routed'[t] = routed[t]
          /\ (probe_sent => probe_sent')
          /\ ~(probe_sent /\ t \in out_to' /\ out_msg'.type = "PROBE_SEND")
      BY <2>1, <2>2, Zenon
    <3>2. QED
      BY <1>0, <3>1, BudgetKept
  <2>4. QED
    BY <2>2, <2>3 DEF Budgets
<1>5. ASSUME NEW t \in Slot, ParentWrites(t) PROVE Budgets'
  <2>1. /\ UNCHANGED <<got, out_msg, probe_sent>> /\ t \in out_to /\ out_to' \subseteq out_to
        /\ \A r \in Slot : r # t => down'[r] = down[r] /\ routed'[r] = routed[r]
    BY <1>5 DEF ParentWrites, Remaining, childVars, ShapeOK, SocketShape, ParentShape
  <2>2. \A r \in Slot : r # t => Budget(r)'
    BY <1>0, <2>1, BudgetKept
  <2>3. CASE alive[t] /\ cpc[t] # "exited"
    BY <1>5, <2>1, <2>2, <2>3, BudgetWritten DEF Budgets
  <2>4. CASE ~(alive[t] /\ cpc[t] # "exited")
    <3>1. down' = down /\ routed' = routed
      BY <1>5, <2>4 DEF ParentWrites
    <3>2. QED
      BY <1>0, <2>1, <3>1, BudgetKept DEF Budgets
  <2>5. QED
    BY <2>3, <2>4
<1>6. QED
  BY <1>1, <1>2, <1>3, <1>4, <1>5, StepKinds
------------------------------------------------------------------------------
(* Delivery: nothing is lost while its sender is connected *)

Due(s, t, i) ==
  s # t /\ sent[s][i] \in {t, Broadcast} /\ alive[s] /\ cpc[t] # "exited" /\ ~ParentGone

LEMMA NothingLostPerPacket ==
  NothingLostWhileConnected
    <=> \A s, t \in Slot : \A i \in DOMAIN sent[s] : Due(s, t, i) => OnItsWay(s, t, i)
BY DEF NothingLostWhileConnected, Due, OnItsWay

\* A process that ended stays ended, and only a child without a history is new.
LEMMA EndsForGood ==
  ASSUME ShapeOK, Served, SendsInFrame, [Next]_vars, NEW s \in Slot
  PROVE  /\ cpc[s] = "exited" => cpc'[s] = "exited"
         /\ ParentGone => ParentGone'
         /\ alive'[s] => alive[s] \/ sent'[s] = <<>>
<1>1. CASE ForkPlayer
  <2>1. /\ forked + 1 \in Slot /\ cpc[forked + 1] = "unborn"
        /\ cpc' = [cpc EXCEPT ![forked + 1] = "boot"]
        /\ alive' = [alive EXCEPT ![forked + 1] = TRUE] /\ sent' = sent
    BY <1>1, RoomAssumption DEF ForkPlayer, Served, ShapeOK, ParentShape, Slot
  <2>2. sent[forked + 1] = <<>>
    BY <2>1 DEF SendsInFrame
  <2>3. ~ParentGone
    BY <1>1 DEF ForkPlayer, ParentGone
  <2>4. QED
    BY <2>1, <2>2, <2>3 DEF ShapeOK, ChildShape, ParentShape
<1>2. CASE ForkFails \/ ParentDies
  BY <1>2 DEF ForkFails, ParentDies, childVars, ParentGone
<1>3. CASE Sigterm
  BY <1>3 DEF Sigterm, Running, ParentGone
<1>4. CASE FinishEvent \/ Reap
  BY <1>4 DEF FinishEvent, Reap, Close, childVars, ParentGone
<1>5. CASE PollReturns \/ Finish
  BY <1>5 DEF PollReturns, Finish, childVars, ParentGone
<1>6. ASSUME NEW r \in Slot, HandleEvent(r) \/ ParentWrites(r) PROVE
         cpc' = cpc /\ alive' = alive /\ ~ParentGone
  BY <1>6 DEF HandleEvent, ParentWrites, childVars, ParentGone
<1>7. ASSUME NEW r \in Slot, ChildStep(r) \/ Crash(r)
      PROVE  /\ cpc[s] = "exited" => cpc'[s] = "exited"
             /\ phase' = phase /\ alive' = alive
  <2>1. phase' = phase /\ alive' = alive
    BY <1>7, ChildFrame DEF parentVars
  <2>2. CASE r # s
    BY <1>7, <2>1, <2>2, ChildFrame
  <2>3. CASE r = s
    <3>1. cpc'[s] = cpc[s] \/ Running(s)
      BY <1>7, <2>3, ChildFrame
    <3>2. QED
      BY <2>1, <3>1 DEF Running
  <2>4. QED
    BY <2>2, <2>3
<1>8. CASE UNCHANGED vars
  BY <1>8 DEF vars, parentVars, childVars, ParentGone
<1>9. QED
  BY <1>1, <1>2, <1>3, <1>4, <1>5, <1>6, <1>7, <1>8
  DEF Next, ParentStep, Fault, Over, ParentGone

LEMMA StillDue ==
  ASSUME ShapeOK, Served, Flow, [Next]_vars,
         NEW s \in Slot, NEW t \in Slot, NEW i \in DOMAIN sent'[s], Due(s, t, i)'
  PROVE  /\ alive[s] /\ cpc[t] # "exited" /\ ~ParentGone
         /\ \/ i \in DOMAIN sent[s] /\ Due(s, t, i)
            \/ ChildSends(s) /\ i = Len(sent[s]) + 1
<1>1. cpc[t] # "exited" /\ ~ParentGone
  BY EndsForGood DEF Due, Flow
<1>2. alive[s]
  <2>1. alive[s] \/ sent'[s] = <<>>
    BY EndsForGood DEF Due, Flow
  <2>2. sent'[s] # <<>>
    OBVIOUS
  <2>3. QED
    BY <2>1, <2>2
<1>3. CASE sent'[s] = sent[s]
  BY <1>1, <1>2, <1>3 DEF Due
<1>4. CASE ChildSends(s)
  <2>1. sending[s] \in Dest /\ sent[s] \in Seq(Dest) /\ sent'[s] = Append(sent[s], sending[s])
    BY <1>4 DEF ChildSends, ShapeOK, ChildShape
  <2>2. /\ DOMAIN sent[s] = 1..Len(sent[s]) /\ Len(sent[s]) \in Nat
        /\ DOMAIN sent'[s] = 1..Len(sent[s]) + 1
        /\ \A k \in 1..Len(sent[s]) : sent'[s][k] = sent[s][k]
    BY <2>1, AppendProperties, LenProperties
  <2>3. CASE i \in DOMAIN sent[s]
    BY <1>1, <1>2, <2>2, <2>3 DEF Due
  <2>4. CASE i \notin DOMAIN sent[s]
    <3>1. i \in 1..Len(sent[s]) \/ i = Len(sent[s]) + 1
      BY <2>2, OneMore, Zenon
    <3>2. QED
      BY <1>1, <1>2, <1>4, <2>2, <2>4, <3>1, Zenon
  <2>5. QED
    BY <2>3, <2>4
<1>5. sent'[s] = sent[s] \/ ChildSends(s)
  <2>1. ASSUME NEW r \in Slot, ChildSends(r), r # s PROVE sent'[s] = sent[s]
    BY <2>1 DEF ChildSends, ShapeOK, ChildShape
  <2>2. ASSUME NEW r \in Slot, BootOk(r) \/ WriteStats(r) \/ ChildReceives(r)
                               \/ HandleEvent(r) \/ ParentWrites(r)
        PROVE  sent' = sent
    BY <2>2 DEF BootOk, WriteStats, ChildReceives, HandleEvent, ParentWrites, childVars
  <2>3. QED
    BY <2>1, <2>2, StepKinds DEF Thins
<1>6. QED
  BY <1>1, <1>2, <1>3, <1>4, <1>5

LEMMA DeliveryNext ==
  ASSUME ShapeOK, Served, Flow, NothingLostWhileConnected, [Next]_vars
  PROVE  NothingLostWhileConnected'
<1> SUFFICES ASSUME NEW s \in Slot, NEW t \in Slot, NEW i \in DOMAIN sent'[s], Due(s, t, i)'
             PROVE  OnItsWay(s, t, i)'
  BY NothingLostPerPacket DEF NothingLostWhileConnected, Due, OnItsWay
<1>d. s # t /\ alive'[s] /\ cpc'[t] # "exited" /\ ~ParentGone'
  BY DEF Due
<1>e. alive[s] /\ cpc[t] # "exited" /\ ~ParentGone
  BY StillDue
<1>q. /\ \A r \in Slot : up[r] \in Seq(Message) /\ down[r] \in Seq(Message)
      /\ \A r \in Slot : got[r] \in Seq(Message)
      /\ out_msg \in Message /\ out_to \subseteq Slot
  BY DEF ShapeOK, SocketShape, ChildShape, ParentShape
<1>1. CASE ChildSends(s) /\ i = Len(sent[s]) + 1
  <2> DEFINE m == Packet(s, sending[s], Len(sent[s]) + 1)
  <2>1. m \in Message /\ m.type = "PACKET" /\ m.src = s /\ m.id = i
    BY <1>1, Constructors DEF ChildSends, Packet, ShapeOK, ChildShape
  <2>2. up'[s] = Append(up[s], m)
    BY <1>1 DEF ChildSends, ChildWrites, ShapeOK, SocketShape
  <2> HIDE DEF m
  <2>3. Holds(<<m>>, s, i)
    BY <2>1 DEF Holds
  <2>4. Holds(up'[s], s, i)
    BY <1>q, <2>1, <2>2, <2>3, HoldsAppend
  <2>5. QED
    BY <2>4 DEF OnItsWay
<1>2. CASE OnItsWay(s, t, i)
  <2>1. CASE Thins
    <3>1. up'[s] = up[s] /\ down'[t] = down[t] /\ UNCHANGED <<got, out_msg, out_to>>
      BY <1>d, <2>1 DEF Thins
    <3>2. QED
      BY <1>2, <3>1 DEF OnItsWay
  <2>2. ASSUME NEW r \in Slot, BootOk(r) \/ WriteStats(r) \/ ChildSends(r)
        PROVE  OnItsWay(s, t, i)'
    <3>1. UNCHANGED <<down, got, out_msg, out_to>>
      BY <2>2 DEF BootOk, WriteStats, ChildSends, parentVars
    <3>2. up'[s] = up[s] \/ \E m \in Message : up'[s] = Append(up[s], m)
      <4>1. [sent |-> Len(sent[r]), received |-> Len(got[r])] \in StatsType
        BY DEF StatsType, ShapeOK, ChildShape
      <4>2. ChildSends(r) => sending[r] \in Dest /\ Len(sent[r]) + 1 \in Nat
        BY DEF ChildSends, ShapeOK, ChildShape
      <4>3. \E m \in Message : up' = [up EXCEPT ![r] = Append(up[r], m)]
        BY <2>2, <4>1, <4>2, Constructors DEF BootOk, WriteStats, ChildSends, ChildWrites
      <4>4. QED
        BY <4>3 DEF ShapeOK, SocketShape
    <3>3. Holds(up[s], s, i) => Holds(up'[s], s, i)
      BY <1>q, <3>2, HoldsAppend
    <3>4. QED
      BY <1>2, <3>1, <3>3 DEF OnItsWay
  <2>3. ASSUME NEW r \in Slot, ChildReceives(r) PROVE OnItsWay(s, t, i)'
    <3>1. UNCHANGED <<up, out_msg, out_to>>
      BY <2>3 DEF ChildReceives, parentVars
    <3>2. CASE r # t
      <4>1. down'[t] = down[t] /\ got'[t] = got[t]
        BY <2>3, <3>2 DEF ChildReceives, ShapeOK, SocketShape, ChildShape
      <4>2. QED
        BY <1>2, <3>1, <4>1 DEF OnItsWay
    <3>3. CASE r = t
      <4> DEFINE m == Head(down[t])
      <4>1. /\ down[t] # <<>> /\ down'[t] = Tail(down[t])
            /\ got'[t] = IF m.type = "PACKET" THEN Append(got[t], m) ELSE got[t]
        BY <2>3, <3>3 DEF ChildReceives, ShapeOK, SocketShape, ChildShape
      <4>2. m \in Message
        BY <1>q, <4>1, HeadTailProperties
      <4> HIDE DEF m
      <4>3. Holds(down[t], s, i) => Holds(down'[t], s, i) \/ Holds(<<m>>, s, i)
        BY <1>q, <4>1, HoldsTail DEF m
      <4>4. Holds(<<m>>, s, i) => m.type = "PACKET"
        BY DEF Holds
      <4>5. /\ Holds(<<m>>, s, i) => Holds(got'[t], s, i)
            /\ Holds(got[t], s, i) => Holds(got'[t], s, i)
        BY <1>q, <4>1, <4>2, <4>4, HoldsAppend
      <4>6. QED
        BY <1>2, <3>1, <4>3, <4>5 DEF OnItsWay
    <3>4. QED
      BY <3>2, <3>3
  <2>4. ASSUME NEW r \in Slot, HandleEvent(r) PROVE OnItsWay(s, t, i)'
    <3>1. UNCHANGED <<down, got>> /\ out_to = {}
      BY <2>4 DEF HandleEvent, childVars, Flow, WritesInTurn
    <3>2. CASE r # s
      <4>1. up'[s] = up[s]
        BY <2>4, <3>2 DEF HandleEvent, TakeMessage, ShapeOK, SocketShape
      <4>2. QED
        BY <1>2, <3>1, <4>1 DEF OnItsWay
    <3>3. CASE r = s /\ up[s] = <<>>
      <4>1. up' = up
        BY <2>4, <3>3 DEF HandleEvent
      <4>2. QED
        BY <1>2, <3>1, <4>1 DEF OnItsWay
    <3>4. CASE r = s /\ up[s] # <<>>
      <4> DEFINE m == Head(up[s])
      <4>1. up'[s] = Tail(up[s])
        BY <2>4, <3>4 DEF HandleEvent, TakeMessage, ShapeOK, SocketShape
      <4>2. Holds(up[s], s, i) => Holds(up'[s], s, i) \/ Holds(<<m>>, s, i)
        BY <1>q, <3>4, <4>1, HoldsTail
      <4>3. ASSUME Holds(<<m>>, s, i) PROVE t \in out_to' /\ Holds(<<out_msg'>>, s, i)
        <5>1. m \in Upward(s) /\ m \in Message
          BY <1>q, <3>4, HeadTailProperties DEF Flow, Streams
        <5>2. m.type = "PACKET" /\ m.id = i
          BY <4>3 DEF Holds
        <5>3. m.src = s /\ m.id \in DOMAIN sent[s] /\ m.dst = sent[s][m.id]
          BY <5>1, <5>2 DEF Upward
        <5>4. out_msg' = [m EXCEPT !.src = s] /\ out_to' = Targets(s, m.dst)
          BY <2>4, <3>4, <5>2 DEF HandleEvent
        <5>5. out_msg' = m
          BY <5>1, <5>3, <5>4 DEF Message
        <5>6. alive[t]
          <6>1. phase = "scan"
            BY <2>4 DEF HandleEvent
          <6>2. forked = Players
            BY <6>1, RoomAssumption DEF Served, ShapeOK, ParentShape
          <6>3. t <= forked
            BY <6>2, RoomAssumption DEF Slot
          <6>4. QED
            BY <1>e, <6>3 DEF Served
        <5>7. m.dst \in {t, Broadcast}
          <6>1. sent'[s] = sent[s]
            BY <2>4 DEF HandleEvent, childVars
          <6>2. QED
            BY <5>2, <5>3, <6>1 DEF Due
        <5>8. QED
          BY <1>d, <4>3, <5>4, <5>5, <5>6, <5>7 DEF Targets
      <4>4. QED
        BY <1>2, <3>1, <4>2, <4>3 DEF OnItsWay
    <3>5. QED
      BY <3>2, <3>3, <3>4
  <2>5. ASSUME NEW r \in Slot, ParentWrites(r) PROVE OnItsWay(s, t, i)'
    <3>1. UNCHANGED <<up, got, out_msg>> /\ out_to' = out_to \ {r}
      BY <2>5 DEF ParentWrites, Remaining, childVars
    <3>2. CASE r # t
      <4>1. down'[t] = down[t]
        BY <2>5, <3>2 DEF ParentWrites, ShapeOK, SocketShape
      <4>2. QED
        BY <1>2, <3>1, <3>2, <4>1 DEF OnItsWay
    <3>3. CASE r = t
      <4>1. alive[t]
        <5>1. phase = "write"
          BY <2>5 DEF ParentWrites
        <5>2. forked = Players
          BY <5>1, RoomAssumption DEF Served, ShapeOK, ParentShape
        <5>3. t <= forked
          BY <5>2, RoomAssumption DEF Slot
        <5>4. QED
          BY <1>e, <5>3 DEF Served
      <4>2. down'[t] = Append(down[t], out_msg)
        BY <1>e, <2>5, <3>3, <4>1 DEF ParentWrites, ShapeOK, SocketShape
      <4>3. /\ Holds(down[t], s, i) => Holds(down'[t], s, i)
            /\ Holds(<<out_msg>>, s, i) => Holds(down'[t], s, i)
        BY <1>q, <4>2, HoldsAppend
      <4>4. QED
        BY <1>2, <3>1, <4>3 DEF OnItsWay
    <3>4. QED
      BY <3>2, <3>3
  <2>6. QED
    BY <2>1, <2>2, <2>3, <2>4, <2>5, StepKinds
<1>3. QED
  BY <1>1, <1>2, StillDue, NothingLostPerPacket

------------------------------------------------------------------------------
(* The theorems *)

DInv == IInv /\ Flow /\ InOrderOnce /\ Budgets /\ NothingLostWhileConnected

LEMMA DeliveryInit == Init => InOrderOnce /\ NothingLostWhileConnected
<1> SUFFICES ASSUME Init PROVE InOrderOnce /\ NothingLostWhileConnected
  OBVIOUS
<1>1. /\ \A t \in Slot : got[t] = <<>> /\ down[t] = <<>> /\ up[t] = <<>> /\ sent[t] = <<>>
      /\ out_to = {}
  BY DEF Init
<1>2. InOrderOnce
  BY <1>1, EmptyStream DEF InOrderOnce
<1>3. NothingLostWhileConnected
  BY <1>1 DEF NothingLostWhileConnected
<1>4. QED
  BY <1>2, <1>3

LEMMA DeliveryInvariance == Spec => []DInv
<1>1. Init => DInv
  BY ShapeInit, ServedInit, CountedInit, FlowInit, BudgetsInit, DeliveryInit DEF DInv, IInv
<1>2. DInv /\ [Next]_vars => DInv'
  <2> SUFFICES ASSUME DInv, [Next]_vars PROVE DInv'
    OBVIOUS
  <2>1. IInv'
    BY ShapeNext, ServedNext, CountedNext DEF DInv, IInv
  <2>2. ShapeOK /\ Served /\ Flow /\ InOrderOnce /\ Budgets /\ NothingLostWhileConnected
    BY DEF DInv, IInv
  <2>3. Grows
    BY <2>2, HistoryGrows DEF Flow
  <2>4. Flow' /\ InOrderOnce' /\ Budgets' /\ NothingLostWhileConnected'
    BY <2>1, <2>2, <2>3, FlowNext, OrderNext, BudgetsNext, DeliveryNext DEF DInv
  <2>5. QED
    BY <2>1, <2>4 DEF DInv
<1>3. QED
  BY <1>1, <1>2, PTL DEF Spec

\* Between a sender and a receiver packets keep their order and none is doubled,
\* through both sockets and the hands of route_packet, whatever crashes when.
THEOREM InOrderCorrect == Spec => []InOrderOnce
<1>1. DInv => InOrderOnce
  BY DEF DInv
<1>2. QED
  BY <1>1, DeliveryInvariance, PTL

\* run_parent loses no packet of a sender it is still connected to for a receiver
\* that still runs, whatever happens to the other children.
THEOREM NothingLostCorrect == Spec => []NothingLostWhileConnected
<1>1. DInv => NothingLostWhileConnected
  BY DEF DInv
<1>2. QED
  BY <1>1, DeliveryInvariance, PTL

\* The totals run_parent prints for a child are what that child sent and
\* received in all, and it received no more than was routed to it.
THEOREM StatsFinalCorrect == Spec => []StatsAreFinal
<1>1. DInv => StatsAreFinal
  <2> SUFFICES ASSUME DInv, NEW s \in Slot, child_stats[s] # NoStats
               PROVE  /\ child_stats[s] = [sent |-> Len(sent[s]), received |-> Len(got[s])]
                      /\ Len(got[s]) <= routed[s]
    BY DEF StatsAreFinal
  <2>1. child_stats[s] = [sent |-> Len(sent[s]), received |-> Len(got[s])]
    BY DEF DInv, Flow, StatsKnown, Final
  <2>2. Len(got[s]) \in Nat /\ Len(down[s]) \in Nat /\ routed[s] \in Nat
    BY DEF DInv, IInv, ShapeOK, ChildShape, SocketShape, ParentShape
  <2>3. \A k \in DOMAIN down[s] : Len(down[s]) >= 1
    BY LenProperties DEF DInv, IInv, ShapeOK, SocketShape
  <2>4. \/ Len(got[s]) + Len(down[s]) <= routed[s]
        \/ Len(down[s]) >= 1 /\ Len(got[s]) + Len(down[s]) <= routed[s] + 1
    BY <2>3 DEF DInv, Budgets, Budget
  <2>5. Len(got[s]) + 0 <= routed[s]
    <3>1. CASE Len(got[s]) + Len(down[s]) <= routed[s]
      BY <2>2, <3>1, EmptiedSums, Zenon
    <3>2. CASE Len(down[s]) >= 1 /\ Len(got[s]) + Len(down[s]) <= routed[s] + 1
      BY <2>2, <3>2, EmptiedSums, Zenon
    <3>3. QED
      BY <2>4, <3>1, <3>2
  <2>6. QED
    BY <2>1, <2>2, <2>5
<1>2. QED
  BY <1>1, DeliveryInvariance, PTL

------------------------------------------------------------------------------
(* The switch *)

\* What a history says to the switch, and what it says after one more packet.
Heard(q) == [k \in DOMAIN q |-> [src |-> q[k].src, id |-> q[k].id]]

LEMMA HeardAppend ==
  ASSUME NEW q \in Seq(Message), NEW m \in Message
  PROVE  Heard(Append(q, m)) = Append(Heard(q), [src |-> m.src, id |-> m.id])
<1> DEFINE h == [src |-> m.src, id |-> m.id]
           H == {[src |-> p.src, id |-> p.id] : p \in Message}
<1>1. /\ Len(q) \in Nat /\ DOMAIN q = 1..Len(q)
      /\ DOMAIN Append(q, m) = 1..Len(q) + 1
      /\ \A k \in 1..Len(q) : Append(q, m)[k] = q[k]
      /\ Append(q, m)[Len(q) + 1] = m
      /\ \A k \in DOMAIN q : q[k] \in Message
  BY Positions
<1>2. Heard(q) \in [1..Len(q) -> H]
  BY <1>1 DEF Heard
<1>3. Heard(q) \in Seq(H) /\ Len(Heard(q)) = Len(q) /\ h \in H
  BY <1>1, <1>2, SeqDef, LenProperties
<1>4. /\ DOMAIN Append(Heard(q), h) = 1..Len(q) + 1
      /\ \A k \in 1..Len(q) : Append(Heard(q), h)[k] = Heard(q)[k]
      /\ Append(Heard(q), h)[Len(q) + 1] = h
  BY <1>3, AppendProperties, LenProperties
<1> HIDE DEF H
<1>5. ASSUME NEW k \in 1..Len(q) + 1 PROVE Heard(Append(q, m))[k] = Append(Heard(q), h)[k]
  <2>1. CASE k \in 1..Len(q)
    BY <1>1, <1>4, <2>1 DEF Heard
  <2>2. CASE k = Len(q) + 1
    BY <1>1, <1>4, <2>2 DEF Heard
  <2>3. k \in 1..Len(q) \/ k = Len(q) + 1
    BY <1>1, OneMore, Zenon
  <2>4. QED
    BY <2>1, <2>2, <2>3
<1>6. DOMAIN Heard(Append(q, m)) = 1..Len(q) + 1
  BY <1>1 DEF Heard
<1>7. Append(Heard(q), h) \in Seq(H)
  BY <1>3, AppendProperties
<1>8. QED
  BY <1>4, <1>5, <1>6, <1>7 DEF Heard

\* Every step of the room is a step of the switch, or changes nothing it shows.
LEMMA SwitchStep == DInv /\ [Next]_vars => [Switch!Next]_(Switch!switchVars)
<1> SUFFICES ASSUME DInv, [Next]_vars
             PROVE  Switch!Next \/ UNCHANGED <<sent, got>>
  BY DEF Switch!switchVars
<1>0. ShapeOK /\ Flow /\ InOrderOnce
  BY DEF DInv, IInv
<1>1. ASSUME NEW s \in Slot, ChildSends(s) PROVE Switch!Next
  <2>1. sending[s] \in (Slot \ {s}) \cup {Broadcast}
    BY <1>0, <1>1, BroadcastAssumption
    DEF ChildSends, Flow, SendsInFrame, ShapeOK, ChildShape, Dest, NoSlot
  <2>2. sent' = [sent EXCEPT ![s] = Append(@, sending[s])] /\ got' = got
    BY <1>1 DEF ChildSends
  <2>3. Switch!Send(s)
    BY <2>1, <2>2 DEF Switch!Send
  <2>4. QED
    BY <2>3 DEF Switch!Next
<1>2. ASSUME NEW t \in Slot, ChildReceives(t) PROVE Switch!Next \/ UNCHANGED <<sent, got>>
  <2> DEFINE m == Head(down[t])
  <2>1. /\ down[t] # <<>> /\ sent' = sent
        /\ got' = [got EXCEPT ![t] = IF m.type = "PACKET" THEN Append(got[t], m) ELSE got[t]]
        /\ got \in [Slot -> Seq(Message)] /\ down[t] \in Seq(Message)
    BY <1>0, <1>2 DEF ChildReceives, ShapeOK, ChildShape, SocketShape
  <2>2. m \in Downward(t) /\ m \in Message
    BY <1>0, <2>1, HeadTailProperties DEF Flow, Streams
  <2>3. Before(got[t], <<m>>)
    BY <1>0, <2>1, OrderTail DEF InOrderOnce
  <2> HIDE DEF m
  <2>4. CASE m.type = "PACKET"
    <3>1. /\ m.src \in Slot /\ m.src # t /\ m.id \in DOMAIN sent[m.src]
          /\ sent[m.src][m.id] \in {t, Broadcast}
      BY <2>2, <2>4 DEF Downward, Received, MeantFor, ProbeMsg
    <3>2. \A k \in DOMAIN got[t] : got[t][k].src = m.src => got[t][k].id < m.id
      <4>1. \A k \in DOMAIN got[t] : got[t][k] \in Received(t)
        BY <1>0, ElementOfSeq, LenProperties DEF Flow, Streams
      <4>2. \A k \in DOMAIN got[t] : Older(got[t][k], m)
        BY <2>3 DEF Before
      <4>3. QED
        BY <2>4, <4>1, <4>2 DEF Older, Received
    <3> DEFINE old == [r \in Slot |-> Heard(got[r])]
               new == [r \in Slot |-> Heard(got'[r])]
    <3>3. new = [old EXCEPT ![t] = Append(@, [src |-> m.src, id |-> m.id])]
      <4>1. Heard(got'[t]) = Append(Heard(got[t]), [src |-> m.src, id |-> m.id])
        BY <2>1, <2>2, <2>4, HeardAppend
      <4>2. \A r \in Slot : r # t => got'[r] = got[r]
        BY <2>1
      <4>3. QED
        BY <4>1, <4>2
    <3>4. \E s, r \in Slot : \E i \in DOMAIN sent[s] : Switch!Receive(s, r, i)
      BY <2>1, <3>1, <3>2, <3>3 DEF Switch!Receive, Switch!Reaches, Heard
    <3>5. QED
      BY <3>4 DEF Switch!Next
  <2>5. CASE m.type # "PACKET"
    BY <2>1, <2>5
  <2>6. QED
    BY <2>4, <2>5
<1>3. ASSUME NEW s \in Slot, BootOk(s) \/ WriteStats(s) \/ HandleEvent(s) \/ ParentWrites(s)
      PROVE  UNCHANGED <<sent, got>>
  BY <1>3 DEF BootOk, WriteStats, HandleEvent, ParentWrites, childVars
<1>4. QED
  BY <1>0, <1>1, <1>2, <1>3, StepKinds DEF Thins

\* The room is an ordered broadcast switch: each core receives only what another
\* core sent to it, in the order it was sent and at most once.
THEOREM SwitchCorrect == Spec => SwitchSpec
<1>1. Init => Switch!Init
  BY DEF Init, Switch!Init
<1>2. QED
  BY <1>1, SwitchStep, DeliveryInvariance, PTL DEF Spec, SwitchSpec, Switch!Spec
=============================================================================
