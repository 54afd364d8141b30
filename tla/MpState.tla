------------------------------ MODULE MpState ------------------------------
(***************************************************************************)
(* Local multiplayer inside the core: MpState (net/mp.cpp), the CoreState  *)
(* wrappers (platform/mp.cpp) and the Platform::MP_* calls of libretro.cpp *)
(* by which the emulated wifi of several cores talks over the netpacket    *)
(* interface.  The medium between the cores is PacketSwitch, which the     *)
(* room runner implements.                                                 *)
(*                                                                         *)
(* melonDS's wifi is not in the repository.  It is modelled from how its   *)
(* calls are used: a core whose game hosts sends a command frame, collects *)
(* the replies and sends an acknowledgement; cores wait for host frames    *)
(* and answer commands; any core may exchange other frames in between.     *)
(* Several cores may host, in turn or at once, and answer each other.      *)
(***************************************************************************)
EXTENDS Integers, Sequences, FiniteSets

CONSTANTS
  Slot,        \* the cores, numbered as the frontend numbers its clients
  Broadcast,   \* RETRO_NETPACKET_BROADCAST
  Hosts,       \* the cores whose games may host
  Clients,     \* the cores whose games may join a host
  FirstTime,   \* timestamp of the first command
  Gap,         \* ticks from one command to the next, whoever gives it
  Word,        \* timestamps are unsigned and wrap at Word
  SUCCESSIVE_TIMEOUTS_WARNING,  \* timeouts before the player is warned
  Exchanges,   \* bound: commands the hosts send between them
  Others,      \* bound: core c sends Others[c] other frames
  Switches,    \* bound: core c's netpacket session starts or stops Switches[c] times
  Arrivals     \* bound: Arrivals[c] packets reach core c, the others are lost

ASSUME MpAssumption ==
  /\ Slot \subseteq Nat /\ IsFiniteSet(Slot)
  /\ Hosts \subseteq Slot /\ Clients \subseteq Slot
  /\ \A h \in Hosts : Clients \ {h} # {}
  /\ Broadcast \notin Slot
  /\ FirstTime \in Nat /\ Gap \in Nat \ {0} /\ Exchanges \in Nat
  /\ Word \in Nat /\ FirstTime + Exchanges * Gap < Word
  /\ SUCCESSIVE_TIMEOUTS_WARNING \in Nat \ {0}
  /\ Others \in [Slot -> Nat] /\ Switches \in [Slot -> Nat] /\ Arrivals \in [Slot -> Nat]

Window == 32                       \* ticks a reply may lag behind its command
NoHost == -1                       \* _hostId without a value

\* The consoles a host plays with, and the number each has among them.
Client(h) == Clients \ {h}
Aid(c) == Cardinality({d \in Clients : d <= c})
AidMask(h) == {Aid(c) : c \in Client(h)}

VARIABLES
  \* MpState, one per core
  ready,        \* _sendFn and _pollFn are set
  hostId,       \* _hostId
  queue,        \* receivedPackets
  timeoutCount, warnedHighLatency,
  \* the netpacket medium
  sent, got,    \* as in PacketSwitch
  wire,         \* wire[s][i]: the buffer of the i-th packet s sent
  \* the emulated wifi
  pc,           \* the call core c is in, or "idle"
  time,         \* timestamp of the next command
  clock,        \* timestamp of the command a core exchanges or answers
  mask,         \* MP_RecvReplies' ret
  others,       \* other frames sent
  switches,     \* starts and stops of the session
  taken,        \* history: packets the calls took off the queue
  since         \* history: packets that had come when a core last sent a command

mpVars == <<ready, hostId, queue, timeoutCount, warnedHighLatency>>
mediumVars == <<sent, got, wire>>
wifiVars == <<pc, time, clock, mask, others, switches, taken>>
vars == <<mpVars, mediumVars, wifiVars, since>>

Medium == INSTANCE PacketSwitch

------------------------------------------------------------------------------
(* Packets *)

Type == {"Reply", "Cmd", "Other"}
Frame(type, ts, aid, data) == [type |-> type, ts |-> ts, aid |-> aid, data |-> data]

Number == [Other |-> 0, Reply |-> 1, Cmd |-> 2]

\* Packet::ToBuf and Packet::parsePk: timestamp, aid and the number of the type.
ToBuf(p) == <<p.ts, p.aid, Number[p.type], p.data>>
parsePk(buf) ==
  Frame(CHOOSE t \in Type : Number[t] = buf[3], buf[1], buf[2], buf[4])

\* Unsigned subtraction.
Minus(a, b) == (a - b) % Word

------------------------------------------------------------------------------
(* MpState *)

Init ==
  /\ ready = [c \in Slot |-> FALSE]
  /\ hostId = [c \in Slot |-> NoHost]
  /\ queue = [c \in Slot |-> <<>>]
  /\ timeoutCount = [c \in Slot |-> 0]
  /\ warnedHighLatency = [c \in Slot |-> FALSE]
  /\ Medium!Init /\ wire = [c \in Slot |-> <<>>]
  /\ pc = [c \in Slot |-> "idle"]
  /\ time = FirstTime
  /\ clock = [c \in Slot |-> FirstTime]
  /\ mask = [c \in Slot |-> {}]
  /\ others = [c \in Slot |-> 0]
  /\ switches = [c \in Slot |-> 0]
  /\ taken = [c \in Slot |-> <<>>]
  /\ since = [c \in Slot |-> 0]

\* MpStarted and MpStopped, between two frames: the emulated wifi may be between
\* two calls of an exchange.  Neither touches the queue, the host or the timeout
\* count.
BetweenCalls(c) == pc[c] \in {"idle", "ack", "reply"}

MpStarted(c) ==
  /\ BetweenCalls(c) /\ ~ready[c] /\ switches[c] < Switches[c]
  /\ ready' = [ready EXCEPT ![c] = TRUE]
  /\ switches' = [switches EXCEPT ![c] = @ + 1]
  /\ UNCHANGED <<hostId, queue, timeoutCount, warnedHighLatency, mediumVars, pc, time, clock,
                 mask, others, taken, since>>

MpStopped(c) ==
  /\ BetweenCalls(c) /\ ready[c] /\ switches[c] < Switches[c]
  /\ ready' = [ready EXCEPT ![c] = FALSE]
  /\ switches' = [switches EXCEPT ![c] = @ + 1]
  /\ UNCHANGED <<hostId, queue, timeoutCount, warnedHighLatency, mediumVars, pc, time, clock,
                 mask, others, taken, since>>

\* The host a core knows of after a packet p of core s arrived.
HostAfterFirst(c, p, s) ==             \* the first host is kept
  IF p.type = "Cmd" /\ hostId[c] = NoHost THEN s ELSE hostId[c]
HostAfter(c, p, s) ==
  IF p.type = "Cmd" THEN s ELSE hostId[c]

\* Where a received packet is put.
Enqueue(q, p) == Append(q, p)

\* PacketReceived: a poll of the frontend's or of NextPacket's hands over the
\* i-th packet of core s.  It may come between any two steps of a call, since
\* the call polls whenever its queue is empty.
PacketReceived(c, s, i) ==
  /\ ready[c] /\ Len(got[c]) < Arrivals[c]
  /\ Medium!Receive(s, c, i)
  /\ LET p == parsePk(wire[s][i]) IN
       /\ hostId' = [hostId EXCEPT ![c] = HostAfter(c, p, s)]
       /\ queue' = [queue EXCEPT ![c] = Enqueue(@, p)]
  /\ UNCHANGED <<ready, timeoutCount, warnedHighLatency, wire, wifiVars, since>>

\* SendPacket: commands go to everyone and forget the host; a reply goes to the
\* host alone when one is known.  Without a session nothing is sent.
SendPacket(c, p) ==
  IF ready[c]
  THEN /\ hostId' = [hostId EXCEPT ![c] = IF p.type = "Cmd" THEN NoHost ELSE @]
       /\ LET dest == IF p.type = "Reply" /\ hostId'[c] # NoHost THEN hostId'[c] ELSE Broadcast
          IN sent' = [sent EXCEPT ![c] = Append(@, dest)]
       /\ wire' = [wire EXCEPT ![c] = Append(@, ToBuf(p))]
       /\ since' = [since EXCEPT ![c] = IF p.type = "Cmd" THEN Len(got[c]) ELSE @]
       /\ UNCHANGED got
  ELSE UNCHANGED <<hostId, mediumVars, since>>

\* NextPacket finds a packet.
Takes(c) ==
  /\ ready[c] /\ queue[c] # <<>>
  /\ queue' = [queue EXCEPT ![c] = Tail(@)]
  /\ taken' = [taken EXCEPT ![c] = Append(@, Head(queue[c]))]
  /\ timeoutCount' = [timeoutCount EXCEPT ![c] = 0]
  /\ UNCHANGED warnedHighLatency

\* NextPacketBlock polls for 25 ms in vain.  A count at the limit or
\* above it is all the same to the code.
TimesOut(c) ==
  /\ ready[c] /\ queue[c] = <<>>
  /\ timeoutCount' = [timeoutCount EXCEPT ![c] =
                        IF @ < SUCCESSIVE_TIMEOUTS_WARNING THEN @ + 1 ELSE @]
  /\ warnedHighLatency' = [warnedHighLatency EXCEPT ![c] =
                             @ \/ timeoutCount'[c] >= SUCCESSIVE_TIMEOUTS_WARNING]
  /\ UNCHANGED <<queue, taken>>

\* A call without a session returns at once with nothing.
NoSession(c) == ~ready[c] /\ UNCHANGED <<queue, taken, timeoutCount, warnedHighLatency>>

------------------------------------------------------------------------------
(* The calls of the emulated wifi *)

MP_SendPacket(c) ==
  /\ pc[c] = "idle" /\ others[c] < Others[c]
  /\ SendPacket(c, Frame("Other", clock[c], 0, "frame"))
  /\ others' = [others EXCEPT ![c] = @ + 1]
  /\ UNCHANGED <<ready, queue, timeoutCount, warnedHighLatency, pc, time, clock, mask, switches,
                 taken>>

MP_RecvPacket(c) ==
  /\ pc[c] = "idle"
  /\ Takes(c)
  /\ UNCHANGED <<ready, hostId, mediumVars, pc, time, clock, mask, others, switches, since>>

\* Core h begins an exchange.  The timestamps of the commands go up: the cores'
\* wifi clocks are kept in step.
MP_SendCmd(h) ==
  /\ pc[h] = "idle" /\ time < FirstTime + Exchanges * Gap
  /\ SendPacket(h, Frame("Cmd", time, 0, "command"))
  /\ pc' = [pc EXCEPT ![h] = "replies"]
  /\ clock' = [clock EXCEPT ![h] = time]
  /\ time' = time + Gap
  /\ mask' = [mask EXCEPT ![h] = {}]
  /\ UNCHANGED <<ready, queue, timeoutCount, warnedHighLatency, others, switches, taken>>

\* MP_RecvReplies counts p: a reply that is no older than the window allows.
CountsAnyAge(h, p) ==                  \* the timestamp is not looked at
  p.type = "Reply"
CountsAnyType(h, p) ==                 \* the type is not looked at
  ~(p.ts < Minus(clock[h], Window))
Counts(h, p) ==
  /\ ~(p.ts < Minus(clock[h], Window))
  /\ p.type = "Reply"

\* What makes MP_RecvReplies stop after packet p: only a full mask.
StopsAtStray(h, p, m) ==               \* a frame that is no reply ends the loop
  p.type # "Reply" \/ AidMask(h) \subseteq m
Stops(h, p, m) == AidMask(h) \subseteq m

\* One round of MP_RecvReplies' loop that got a packet.
RepliesRound(h) ==
  /\ pc[h] = "replies" /\ Takes(h)
  /\ LET p == Head(queue[h]) IN
       /\ mask' = [mask EXCEPT ![h] = IF Counts(h, p) THEN @ \cup {p.aid} ELSE @]
       /\ pc' = [pc EXCEPT ![h] = IF Stops(h, p, mask'[h]) THEN "ack" ELSE @]
  /\ UNCHANGED <<ready, hostId, mediumVars, time, clock, others, switches, since>>

\* ... that got none, or found no session.
KeepsWaiting(h) == UNCHANGED pc        \* the loop goes on after a timeout
AfterTimeout(h) == pc' = [pc EXCEPT ![h] = "ack"]
RepliesEnd(h) ==
  /\ pc[h] = "replies"
  /\ TimesOut(h) \/ NoSession(h)
  /\ AfterTimeout(h)
  /\ UNCHANGED <<ready, hostId, mediumVars, time, clock, mask, others, switches, since>>

\* MP_SendAck sends a packet of type Cmd.
MP_SendAck(h) ==
  /\ pc[h] = "ack"
  /\ SendPacket(h, Frame("Cmd", clock[h], 0, "ack"))
  /\ pc' = [pc EXCEPT ![h] = "idle"]
  /\ UNCHANGED <<ready, queue, timeoutCount, warnedHighLatency, time, clock, mask, others,
                 switches, taken>>

\* A core waits for a host frame and gets a packet: a command sets its clock and is
\* to be answered ...
MP_RecvHostPacket(c) ==
  /\ pc[c] = "idle" /\ Takes(c)
  /\ LET p == Head(queue[c]) IN
       IF p.type = "Cmd" /\ p.data = "command"
       THEN /\ clock' = [clock EXCEPT ![c] = p.ts]
            /\ pc' = [pc EXCEPT ![c] = "reply"]
       ELSE UNCHANGED <<clock, pc>>
  /\ UNCHANGED <<ready, hostId, mediumVars, time, mask, others, switches, since>>

\* ... or it gets none.
HostPacketEnd(c) ==
  /\ pc[c] = "idle"
  /\ TimesOut(c) \/ NoSession(c)
  /\ UNCHANGED <<ready, hostId, mediumVars, pc, time, clock, mask, others, switches, since>>

MP_SendReply(c) ==
  /\ pc[c] = "reply"
  /\ SendPacket(c, Frame("Reply", clock[c], Aid(c), "reply"))
  /\ pc' = [pc EXCEPT ![c] = "idle"]
  /\ UNCHANGED <<ready, queue, timeoutCount, warnedHighLatency, time, clock, mask, others,
                 switches, taken>>

------------------------------------------------------------------------------

HostStep(h) == MP_SendCmd(h) \/ RepliesRound(h) \/ RepliesEnd(h) \/ MP_SendAck(h)

ClientStep(c) ==
  MP_RecvHostPacket(c) \/ HostPacketEnd(c) \/ MP_SendReply(c)

Next ==
  \/ \E h \in Hosts : HostStep(h)
  \/ \E c \in Clients : ClientStep(c)
  \/ \E c \in Slot : MpStarted(c) \/ MpStopped(c) \/ MP_SendPacket(c) \/ MP_RecvPacket(c)
  \/ \E c, s \in Slot : \E i \in DOMAIN sent[s] : PacketReceived(c, s, i)

Spec == Init /\ [][Next]_vars

\* The emulator that called MP_RecvReplies runs on.
FairSpec == Spec /\ \A h \in Hosts : WF_vars(RepliesRound(h) \/ RepliesEnd(h))

------------------------------------------------------------------------------
(* Properties *)

PacketType == [type : Type, ts : Nat, aid : Nat, data : {"frame", "command", "ack", "reply"}]

TypeOK ==
  /\ ready \in [Slot -> BOOLEAN]
  /\ hostId \in [Slot -> Slot \cup {NoHost}]
  /\ queue \in [Slot -> Seq(PacketType)]
  /\ timeoutCount \in [Slot -> 0..SUCCESSIVE_TIMEOUTS_WARNING]
  /\ warnedHighLatency \in [Slot -> BOOLEAN]
  /\ pc \in [Slot -> {"idle", "replies", "ack", "reply"}]
  /\ time \in Nat /\ clock \in [Slot -> Nat]
  /\ mask \in [Slot -> SUBSET (1..Cardinality(Clients))]
  /\ others \in [Slot -> Nat] /\ switches \in [Slot -> Nat]
  /\ taken \in [Slot -> Seq(PacketType)]
  /\ since \in [Slot -> Nat]

\* What arrived at core c, in order.
Arrived(c) == [k \in DOMAIN got[c] |-> parsePk(wire[got[c][k].src][got[c][k].id])]

\* Between the frontend and the emulated wifi no packet is lost, doubled or
\* overtaken, whatever sessions come and go (receivedPackets).
QueueIsFifo ==
  \A c \in Slot : taken[c] \o queue[c] = Arrived(c)

\* Where core c sends the answer to the k-th packet that came to it: to the core that
\* packet is from; or to everybody, if c itself has sent a command or an
\* acknowledgement since it came; or to another core, if a command or an
\* acknowledgement of that core has come since.
FitAddress(c, k, d) ==
  \/ d = got[c][k].src
  \/ d = Broadcast /\ k <= since[c]
  \/ \E j \in k + 1..Len(got[c]) : d = got[c][j].src /\ Arrived(c)[j].type = "Cmd"

\* An answer goes to the host whose command it answers and to nobody else, however
\* long the command was queued, whatever sessions came and went and whichever core
\* hosted before: the only ones to divert it are a later host and the core's own game.
RepliesGoHome ==
  [][\A c \in Slot : (pc[c] = "reply" /\ pc'[c] = "idle" /\ ready[c]) =>
       FitAddress(c, Len(taken[c]), sent'[c][Len(sent'[c])])]_vars

\* A packet with which client c answers the command of time ts.
Answers(p, c, ts) == p.type = "Reply" /\ p.aid = Aid(c) /\ p.ts = ts

\* Every client MP_RecvReplies has counted sent an answer to this very command, or
\* to one another core gave later: with commands more than Window ticks apart no late
\* reply is taken for an answer.
CountedAnswerThisCommand ==
  \A h \in Hosts : pc[h] \in {"replies", "ack"} =>
    /\ mask[h] \subseteq AidMask(h)
    /\ \A c \in Client(h) : Aid(c) \in mask[h] =>
         \E i \in DOMAIN wire[c] :
           LET p == parsePk(wire[c][i]) IN Answers(p, c, p.ts) /\ p.ts >= clock[h]

\* When MP_RecvReplies returns, every answer that has arrived is counted, other
\* frames in between notwithstanding, or nobody is missing.
NoAnswerOverlooked ==
  [][\A h \in Hosts : (pc[h] = "replies" /\ pc'[h] = "ack") =>
       \/ AidMask(h) \subseteq mask'[h]
       \/ ~ready[h]
       \/ \A c \in Client(h), k \in DOMAIN got[h] :
            Answers(Arrived(h)[k], c, clock[h]) => Aid(c) \in mask'[h]]_vars

\* MP_RecvReplies returns, whoever answers or keeps silent.
ExchangeEnds == \A h \in Hosts : (pc[h] = "replies") ~> (pc[h] = "ack")
=============================================================================
