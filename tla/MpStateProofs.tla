---------------------------- MODULE MpStateProofs ----------------------------
(***************************************************************************)
(* Theorems about MpState, for every set of cores, hosts and clients,      *)
(* timestamps, numbers of exchanges, frames and sessions, and every        *)
(* behaviour of the medium between the cores.                              *)
(*                                                                         *)
(* What core s may have said is the set Said(s) of packets: commands with  *)
(* times that were given out, replies under the sender's own number and    *)
(* only to a command that was given.  Whatever is in a buffer, a queue or  *)
(* a history comes from these sets, which only ever grow.                  *)
(***************************************************************************)
EXTENDS MpState, TLAPS, SequenceTheorems, FiniteSetTheorems

\* The times of the commands, and those of the commands some core has given.
Grid == {ts \in Nat : ts >= FirstTime /\ \E k \in Nat : ts = FirstTime + k * Gap}
Asked(ts) == ts \in Grid /\ ts < time /\ ts < Word

Said(s) ==
  {p \in PacketType : /\ p.type = "Reply" => s \in Clients /\ p.aid = Aid(s)
                      /\ p.type = "Reply" \/ p.data = "command" => Asked(p.ts)}

Buffer == {ToBuf(p) : p \in PacketType}
Written(s) == {ToBuf(p) : p \in Said(s)}

\* What may come to core c, and what it then may find in its queue.
Carried(c) == {g \in [src : Slot \ {c}, id : Nat] : g.id \in DOMAIN wire[g.src]}
Heard(c) ==
  {p \in PacketType : \E s \in Slot \ {c} : \E i \in DOMAIN wire[s] : p = parsePk(wire[s][i])}

Pc == {"idle", "replies", "ack", "reply"}

CoreShape ==
  /\ ready \in [Slot -> BOOLEAN]
  /\ hostId \in [Slot -> Slot \cup {NoHost}]
  /\ timeoutCount \in [Slot -> 0..SUCCESSIVE_TIMEOUTS_WARNING]
  /\ warnedHighLatency \in [Slot -> BOOLEAN]
  /\ pc \in [Slot -> Pc]
  /\ time \in Nat /\ clock \in [Slot -> Nat]
  /\ mask \in [Slot -> SUBSET (1..Cardinality(Clients))]
  /\ others \in [Slot -> Nat] /\ switches \in [Slot -> Nat]
  /\ since \in [Slot -> Nat]

MediumShape ==
  /\ queue \in [Slot -> Seq(PacketType)] /\ taken \in [Slot -> Seq(PacketType)]
  /\ sent \in [Slot -> Seq(Slot \cup {Broadcast})]
  /\ wire \in [Slot -> Seq(Buffer)]
  /\ got \in [Slot -> Seq([src : Slot, id : Nat])]
  /\ \A s \in Slot : Len(sent[s]) = Len(wire[s])

Shape == CoreShape /\ MediumShape

\* A core exchanges or answers a command that was given, with a mask of its clients.
Timing ==
  /\ time \in Grid
  /\ \A c \in Slot : pc[c] # "idle" => Asked(clock[c])
  /\ \A h \in Slot : mask[h] \subseteq AidMask(h)

Traffic ==
  /\ \A s \in Slot : wire[s] \in Seq(Written(s))
  /\ \A c \in Slot : got[c] \in Seq(Carried(c)) /\ queue[c] \in Seq(Heard(c))
                     /\ taken[c] \in Seq(Heard(c))

\* The host a core knows is the sender of the last command or acknowledgement that
\* has come since the core last sent one itself.
IsCmd(c, k) == Arrived(c)[k].type = "Cmd"
LastCmd(c, j) == IsCmd(c, j) /\ \A k \in j + 1..Len(got[c]) : ~IsCmd(c, k)
HostKnown ==
  \A c \in Slot :
    /\ since[c] <= Len(got[c])
    /\ \/ hostId[c] = NoHost /\ \A k \in since[c] + 1..Len(got[c]) : ~IsCmd(c, k)
       \/ \E j \in since[c] + 1..Len(got[c]) : hostId[c] = got[c][j].src /\ LastCmd(c, j)

\* What a core is to answer is the last packet its calls took.
InHand ==
  \A c \in Slot : pc[c] = "reply" =>
    taken[c] # <<>> /\ taken[c][Len(taken[c])].type = "Cmd"

IInv == Shape /\ Timing /\ Traffic /\ QueueIsFifo /\ HostKnown /\ InHand

-----------------------------------------------------------------------------
(* Packets and sequences *)

\* parsePk reads what ToBuf wrote.
LEMMA ParseBack == \A p \in PacketType : parsePk(ToBuf(p)) = p
<1> SUFFICES ASSUME NEW p \in PacketType PROVE parsePk(ToBuf(p)) = p
  OBVIOUS
<1>1. /\ ToBuf(p)[1] = p.ts /\ ToBuf(p)[2] = p.aid
      /\ ToBuf(p)[3] = Number[p.type] /\ ToBuf(p)[4] = p.data
  BY DEF ToBuf
<1>2. p.type \in Type /\ \A t \in Type : Number[t] = Number[p.type] => t = p.type
  BY DEF PacketType, Type, Number
<1>3. (CHOOSE t \in Type : Number[t] = ToBuf(p)[3]) = p.type
  BY <1>1, <1>2
<1>4. parsePk(ToBuf(p)) = Frame(p.type, p.ts, p.aid, p.data)
  BY <1>1, <1>3 DEF parsePk
<1>5. QED
  BY <1>4 DEF PacketType, Frame

LEMMA Appended ==
  ASSUME NEW S, NEW q \in Seq(S), NEW e \in S
  PROVE  /\ Append(q, e) \in Seq(S) /\ Len(q) \in Nat
         /\ DOMAIN q = 1..Len(q) /\ DOMAIN Append(q, e) = 1..Len(q) + 1
         /\ Len(Append(q, e)) = Len(q) + 1
         /\ \A k \in 1..Len(q) : Append(q, e)[k] = q[k]
         /\ Append(q, e)[Len(q) + 1] = e
<1>1. /\ Append(q, e) \in Seq(S) /\ Len(Append(q, e)) = Len(q) + 1
      /\ \A k \in 1..Len(q) : Append(q, e)[k] = q[k]
      /\ Append(q, e)[Len(q) + 1] = e
  BY AppendProperties
<1>2. Len(q) \in Nat /\ DOMAIN q = 1..Len(q)
  BY LenProperties
<1>3. DOMAIN Append(q, e) = 1..Len(Append(q, e))
  BY <1>1, LenProperties
<1>4. QED
  BY <1>1, <1>2, <1>3

LEMMA SequenceIsFunction ==
  ASSUME NEW S, NEW q \in Seq(S)
  PROVE  q = [k \in DOMAIN q |-> q[k]]
<1>1. PICK n \in Nat : q \in [1..n -> S]
  BY SeqDef
<1>2. QED
  BY <1>1

LEMMA OneMore == \A n \in Nat : \A k \in 1..n + 1 : k \in 1..n \/ k = n + 1
OBVIOUS

\* A queue in front of which its history is written: one packet more at the end,
\* or the head moved over to the history.
LEMMA QueueGrows ==
  \A h, q \in Seq(PacketType) : \A e \in PacketType : h \o Append(q, e) = Append(h \o q, e)
<1> SUFFICES ASSUME NEW h \in Seq(PacketType), NEW q \in Seq(PacketType), NEW e \in PacketType
             PROVE  h \o Append(q, e) = Append(h \o q, e)
  OBVIOUS
<1>1. Append(q, e) = q \o <<e>> /\ <<e>> \in Seq(PacketType)
  BY AppendIsConcat
<1>2. h \o q \in Seq(PacketType)
  BY ConcatProperties
<1>3. Append(h \o q, e) = (h \o q) \o <<e>>
  BY <1>2, AppendIsConcat
<1>4. QED
  BY <1>1, <1>3, ConcatAssociative

LEMMA QueueShifts ==
  ASSUME NEW S, NEW h \in Seq(S), NEW q \in Seq(S), q # <<>>
  PROVE  Append(h, Head(q)) \o Tail(q) = h \o q
<1>1. Head(q) \in S /\ Tail(q) \in Seq(S) /\ <<Head(q)>> \in Seq(S)
  BY HeadTailProperties
<1>2. q = <<Head(q)>> \o Tail(q)
  <2>1. Len(q) \in Nat \ {0}
    BY EmptySeq
  <2>2. q = SubSeq(q, 1, Len(q)) /\ Tail(q) = SubSeq(q, 2, Len(q)) /\ Head(q) = q[1]
    BY SubSeqFull, TailIsSubSeq
  <2>3. SubSeq(q, 1, Len(q)) = <<q[1]>> \o SubSeq(q, 1 + 1, Len(q))
    BY <2>1, SubSeqRecursiveFirst
  <2>4. QED
    BY <2>2, <2>3
<1>3. Append(h, Head(q)) = h \o <<Head(q)>>
  BY <1>1, AppendIsConcat
<1>4. (h \o <<Head(q)>>) \o Tail(q) = h \o (<<Head(q)>> \o Tail(q))
  BY <1>1, ConcatAssociative
<1>5. QED
  BY <1>2, <1>3, <1>4

\* Each client has a number of its own.
LEMMA AidInjective ==
  /\ \A c \in Clients : Aid(c) \in 1..Cardinality(Clients)
  /\ \A c, d \in Clients : Aid(c) = Aid(d) => c = d
<1> DEFINE Upto(c) == {d \in Clients : d <= c}
<1>1. IsFiniteSet(Clients) /\ Clients \subseteq Nat
  BY MpAssumption, FS_Subset
<1>2. \A c \in Clients : /\ IsFiniteSet(Upto(c)) /\ Upto(c) \subseteq Clients
                         /\ c \in Upto(c) /\ Aid(c) = Cardinality(Upto(c))
  BY <1>1, FS_Subset DEF Aid
<1> HIDE DEF Upto
<1>3. ASSUME NEW c \in Clients PROVE Aid(c) \in 1..Cardinality(Clients)
  <2>1. Cardinality(Upto(c)) \in Nat /\ Cardinality(Clients) \in Nat
        /\ Cardinality(Upto(c)) <= Cardinality(Clients)
    BY <1>1, <1>2, FS_CardinalityType, FS_Subset
  <2>2. Cardinality(Upto(c)) # 0
    BY <1>2, FS_EmptySet
  <2>3. QED
    BY <1>2, <2>1, <2>2
<1>4. ASSUME NEW c \in Clients, NEW d \in Clients, Aid(c) = Aid(d), c <= d PROVE c = d
  <2>1. ASSUME NEW e \in Upto(c) PROVE e \in Upto(d)
    <3>1. e \in Clients /\ e <= c
      BY DEF Upto
    <3>2. e \in Nat /\ c \in Nat /\ d \in Nat
      BY <1>1, <3>1
    <3>3. e <= d
      BY <1>4, <3>1, <3>2
    <3>4. QED
      BY <3>1, <3>3 DEF Upto
  <2>2. Upto(c) = Upto(d)
    BY <1>2, <1>4, <2>1, FS_Subset
  <2>3. d <= c
    BY <1>2, <2>2 DEF Upto
  <2>4. QED
    BY <1>1, <1>4, <2>3
<1>5. QED
  <2>1. \A c, d \in Clients : c <= d \/ d <= c
    BY <1>1
  <2>2. QED
    BY <1>3, <1>4, <2>1

\* Two commands are given at the same time or Gap apart.
LEMMA GridApart ==
  \A t, u \in Grid : t < u => t + Gap <= u
<1> SUFFICES ASSUME NEW t \in Grid, NEW u \in Grid, t < u PROVE t + Gap <= u
  OBVIOUS
<1>1. FirstTime \in Nat /\ Gap \in Nat
  BY MpAssumption
<1>2. PICK k \in Nat : t = FirstTime + k * Gap
  BY DEF Grid
<1>3. PICK m \in Nat : u = FirstTime + m * Gap
  BY DEF Grid
<1>4. \A a, b \in Nat : a <= b => a * Gap <= b * Gap
  <2> SUFFICES ASSUME NEW a \in Nat, NEW b \in Nat, a <= b PROVE a * Gap <= b * Gap
    OBVIOUS
  <2>1. b * Gap = a * Gap + (b - a) * Gap /\ b - a \in Nat
    BY <1>1
  <2>2. (b - a) * Gap \in Nat /\ a * Gap \in Nat
    BY <1>1, <2>1
  <2>3. QED
    BY <2>1, <2>2
<1>5. k * Gap \in Nat /\ m * Gap \in Nat
  BY <1>1
<1>6. ~(m <= k)
  BY <1>1, <1>2, <1>3, <1>4, <1>5
<1>7. (k + 1) * Gap <= m * Gap
  BY <1>4, <1>6
<1>8. (k + 1) * Gap = k * Gap + Gap
  BY <1>1
<1>9. QED
  BY <1>1, <1>2, <1>3, <1>5, <1>7, <1>8

LEMMA GridNext ==
  /\ FirstTime \in Grid
  /\ \A t \in Grid : t + Gap \in Grid
<1>1. FirstTime \in Nat /\ Gap \in Nat
  BY MpAssumption
<1>2. FirstTime = FirstTime + 0 * Gap
  BY <1>1
<1>3. ASSUME NEW t \in Grid PROVE t + Gap \in Grid
  <2>1. PICK k \in Nat : t = FirstTime + k * Gap
    BY DEF Grid
  <2>2. (k + 1) * Gap = k * Gap + Gap /\ k * Gap \in Nat
    BY <1>1
  <2>3. t + Gap = FirstTime + (k + 1) * Gap /\ t + Gap >= FirstTime /\ t + Gap \in Nat
    BY <1>1, <2>1, <2>2
  <2>4. QED
    BY <2>3 DEF Grid
<1>4. QED
  BY <1>1, <1>2, <1>3 DEF Grid

-----------------------------------------------------------------------------
(* Kinds of steps *)

Silent == UNCHANGED <<sent, got, wire, queue, taken, hostId, since>>

\* A packet core c may say is sent; an answer is sent by a core that is to answer.
Sends(c, p) ==
  /\ SendPacket(c, p) /\ p \in Said(c)'
  /\ UNCHANGED <<queue, taken>>

TakesOne(c) ==
  /\ Takes(c) /\ UNCHANGED <<mediumVars, hostId, since>>

LEMMA Cores == Hosts \subseteq Slot /\ Clients \subseteq Slot /\ Slot \subseteq Nat /\ NoHost \notin Slot
<1>1. NoHost \notin Nat
  BY DEF NoHost
<1>2. QED
  BY <1>1, MpAssumption

\* The room's clock goes on from command to command.
LEMMA TimeStep ==
  ASSUME [Next]_vars
  PROVE  time' = time \/ \E h \in Hosts : MP_SendCmd(h) /\ time' = time + Gap
<1>1. ASSUME NEW h \in Hosts, HostStep(h)
      PROVE  time' = time \/ (MP_SendCmd(h) /\ time' = time + Gap)
  BY <1>1 DEF HostStep, MP_SendCmd, RepliesRound, RepliesEnd, MP_SendAck
<1>2. ASSUME NEW c \in Clients, ClientStep(c) PROVE time' = time
  BY <1>2 DEF ClientStep, MP_RecvHostPacket, HostPacketEnd, MP_SendReply
<1>3. ASSUME NEW c \in Slot,
             MpStarted(c) \/ MpStopped(c) \/ MP_SendPacket(c) \/ MP_RecvPacket(c)
      PROVE  time' = time
  BY <1>3 DEF MpStarted, MpStopped, MP_SendPacket, MP_RecvPacket
<1>4. ASSUME NEW c \in Slot, NEW s \in Slot, NEW i \in DOMAIN sent[s], PacketReceived(c, s, i)
      PROVE  time' = time
  BY <1>4 DEF PacketReceived, wifiVars
<1>5. CASE UNCHANGED vars
  BY <1>5 DEF vars, wifiVars
<1>6. QED
  BY <1>1, <1>2, <1>3, <1>4, <1>5 DEF Next

\* A command once given stays given.
LEMMA AskedStays ==
  ASSUME Shape, Timing, [Next]_vars
  PROVE  /\ time' \in Grid /\ time' >= time
         /\ \A ts : Asked(ts) => ts \in Grid /\ ts < time' /\ ts < Word
<1>1. time \in Grid /\ time \in Nat /\ Gap \in Nat \ {0} /\ Word \in Nat
  BY MpAssumption DEF Timing, Shape, CoreShape
<1>2. time' \in {time, time + Gap}
  BY TimeStep
<1>3. time' \in Grid
  BY <1>1, <1>2, GridNext
<1>4. \A ts \in Grid : ts < time => ts < time'
  BY <1>1, <1>2 DEF Grid
<1>5. time' >= time
  BY <1>1, <1>2
<1>6. QED
  BY <1>3, <1>4, <1>5 DEF Asked

\* The command a host gives is one that was given.
LEMMA CommandGiven ==
  ASSUME Shape, Timing, NEW h \in Hosts, MP_SendCmd(h)
  PROVE  time \in Grid /\ time < time' /\ time < Word /\ clock'[h] = time
<1>1. time' = time + Gap /\ time < FirstTime + Exchanges * Gap
  BY DEF MP_SendCmd
<1>2. time \in Nat /\ FirstTime + Exchanges * Gap < Word /\ time \in Grid
      /\ Gap \in Nat \ {0} /\ Word \in Nat /\ FirstTime + Exchanges * Gap \in Nat
  BY MpAssumption DEF Timing, Shape, CoreShape
<1>3. clock'[h] = time
  BY Cores DEF MP_SendCmd, Shape, CoreShape
<1>4. time < time' /\ time < Word
  BY <1>1, <1>2
<1>5. QED
  BY <1>2, <1>3, <1>4

LEMMA StepKinds ==
  ASSUME Shape, Timing, [Next]_vars
  PROVE  \/ Silent
         \/ \E c \in Slot : TakesOne(c) \/ \E p \in PacketType : Sends(c, p)
         \/ \E c, s \in Slot : \E i \in DOMAIN sent[s] : PacketReceived(c, s, i)
<1> USE Cores DEF Shape, CoreShape
<1>1. ASSUME NEW h \in Hosts, MP_SendCmd(h) PROVE \E p \in PacketType : Sends(h, p)
  <2> DEFINE p == Frame("Cmd", time, 0, "command")
  <2>1. p \in PacketType
    BY DEF PacketType, Frame, Type
  <2>2. time \in Grid /\ time < time' /\ time < Word
    BY <1>1, CommandGiven
  <2>3. p \in Said(h)'
    BY <2>1, <2>2 DEF Said, Frame, Asked
  <2>4. Sends(h, p)
    BY <1>1, <2>3 DEF MP_SendCmd, Sends
  <2>5. QED
    BY <2>1, <2>4
<1>2. ASSUME NEW h \in Hosts, MP_SendAck(h) PROVE \E p \in PacketType : Sends(h, p)
  <2> DEFINE p == Frame("Cmd", clock[h], 0, "ack")
  <2>1. p \in PacketType
    BY DEF PacketType, Frame, Type
  <2>2. p \in Said(h)'
    BY <2>1 DEF Said, Frame
  <2>3. Sends(h, p)
    BY <1>2, <2>2 DEF MP_SendAck, Sends
  <2>4. QED
    BY <2>1, <2>3
<1>3. ASSUME NEW h \in Hosts, RepliesRound(h) PROVE TakesOne(h)
  BY <1>3 DEF RepliesRound, TakesOne
<1>4. ASSUME NEW h \in Hosts, RepliesEnd(h) PROVE Silent
  BY <1>4 DEF RepliesEnd, TimesOut, NoSession, Silent, mediumVars
<1>5. ASSUME NEW c \in Slot, MP_RecvPacket(c) \/ MP_RecvHostPacket(c) PROVE TakesOne(c)
  BY <1>5 DEF MP_RecvPacket, MP_RecvHostPacket, TakesOne
<1>6. ASSUME NEW c \in Slot, HostPacketEnd(c) \/ MpStarted(c) \/ MpStopped(c)
      PROVE  Silent
  BY <1>6 DEF HostPacketEnd, TimesOut, NoSession, MpStarted, MpStopped, Silent, mediumVars
<1>7. ASSUME NEW c \in Clients, MP_SendReply(c) PROVE \E p \in PacketType : Sends(c, p)
  <2> DEFINE p == Frame("Reply", clock[c], Aid(c), "reply")
  <2>1. pc[c] = "reply"
    BY <1>7 DEF MP_SendReply
  <2>2. Aid(c) \in Nat
    BY AidInjective
  <2>3. p \in PacketType
    BY <2>2 DEF PacketType, Frame, Type
  <2>4. Asked(p.ts)
    BY <2>1 DEF Timing, Frame
  <2>5. p.ts \in Grid /\ p.ts < time' /\ p.ts < Word
    BY <2>4, AskedStays
  <2>6. p \in Said(c)'
    BY <2>3, <2>5 DEF Said, Frame, Asked
  <2>7. Sends(c, p)
    BY <1>7, <2>6 DEF MP_SendReply, Sends
  <2>8. QED
    BY <2>3, <2>7
<1>8. ASSUME NEW c \in Slot, MP_SendPacket(c) PROVE \E p \in PacketType : Sends(c, p)
  <2> DEFINE p == Frame("Other", clock[c], 0, "frame")
  <2>1. p \in PacketType
    BY DEF PacketType, Frame, Type
  <2>2. p \in Said(c)'
    BY <2>1 DEF Said, Frame
  <2>3. Sends(c, p)
    BY <1>8, <2>2 DEF MP_SendPacket, Sends
  <2>4. QED
    BY <2>1, <2>3
<1>9. CASE UNCHANGED vars
  BY <1>9 DEF vars, mpVars, mediumVars, wifiVars, Silent
<1>10. QED
  BY <1>1, <1>2, <1>3, <1>4, <1>5, <1>6, <1>7, <1>8, <1>9 DEF Next, HostStep, ClientStep

-----------------------------------------------------------------------------
(* Types *)

LEMMA SentPacket ==
  ASSUME Shape, NEW c \in Slot, NEW p \in PacketType, SendPacket(c, p)
  PROVE  /\ got' = got
         /\ \/ UNCHANGED <<sent, wire, hostId, since>>
            \/ /\ hostId' = [hostId EXCEPT ![c] = IF p.type = "Cmd" THEN NoHost ELSE hostId[c]]
               /\ since' = [since EXCEPT ![c] = IF p.type = "Cmd" THEN Len(got[c]) ELSE since[c]]
               /\ \E d \in Slot \cup {Broadcast} :
                    /\ sent' = [sent EXCEPT ![c] = Append(sent[c], d)]
                    /\ wire' = [wire EXCEPT ![c] = Append(wire[c], ToBuf(p))]
                    /\ d = IF p.type = "Reply" /\ hostId[c] # NoHost THEN hostId[c] ELSE Broadcast
<1> USE Cores DEF Shape, CoreShape
<1>1. CASE ready[c]
  <2>1. /\ hostId' = [hostId EXCEPT ![c] = IF p.type = "Cmd" THEN NoHost ELSE hostId[c]]
        /\ since' = [since EXCEPT ![c] = IF p.type = "Cmd" THEN Len(got[c]) ELSE since[c]]
        /\ wire' = [wire EXCEPT ![c] = Append(wire[c], ToBuf(p))] /\ got' = got
    BY <1>1 DEF SendPacket
  <2>2. hostId'[c] = IF p.type = "Cmd" THEN NoHost ELSE hostId[c]
    BY <2>1
  <2> DEFINE d == IF p.type = "Reply" /\ hostId'[c] # NoHost THEN hostId'[c] ELSE Broadcast
  <2>3. sent' = [sent EXCEPT ![c] = Append(sent[c], d)]
    BY <1>1 DEF SendPacket
  <2>4. d \in Slot \cup {Broadcast}
    BY <2>2
  <2>5. d = IF p.type = "Reply" /\ hostId[c] # NoHost THEN hostId[c] ELSE Broadcast
    BY <2>2
  <2> HIDE DEF d
  <2>6. QED
    BY <2>1, <2>3, <2>4, <2>5
<1>2. CASE ~ready[c]
  BY <1>2 DEF SendPacket, mediumVars
<1>3. QED
  BY <1>1, <1>2

\* The buffer of a packet that arrives holds something its sender said.
LEMMA ArrivedIsSaid ==
  ASSUME Shape, Traffic, NEW s \in Slot, NEW i \in DOMAIN wire[s]
  PROVE  parsePk(wire[s][i]) \in Said(s) /\ parsePk(wire[s][i]) \in PacketType
<1>1. wire[s][i] \in Written(s)
  BY ElementOfSeq, LenProperties DEF Traffic
<1>2. PICK p \in Said(s) : wire[s][i] = ToBuf(p)
  BY <1>1 DEF Written
<1>3. parsePk(wire[s][i]) = p
  BY <1>2, ParseBack DEF Said
<1>4. QED
  BY <1>2, <1>3 DEF Said

\* So does what core c finds in its queue, and the sender is another core.
LEMMA HeardIsSaid ==
  ASSUME Shape, Traffic, NEW c \in Slot, NEW p \in Heard(c)
  PROVE  \E s \in Slot \ {c} :
           p \in Said(s) /\ \E i \in DOMAIN wire[s] : p = parsePk(wire[s][i])
<1>1. PICK s \in Slot \ {c} : \E i \in DOMAIN wire[s] : p = parsePk(wire[s][i])
  BY DEF Heard
<1>2. QED
  BY <1>1, ArrivedIsSaid

LEMMA SameLength ==
  ASSUME Shape, NEW s \in Slot
  PROVE  /\ DOMAIN sent[s] = DOMAIN wire[s]
         /\ DOMAIN wire[s] = 1..Len(wire[s]) /\ Len(wire[s]) \in Nat
BY LenProperties DEF Shape, MediumShape

\* A packet that arrives comes from another core.
LEMMA Receives ==
  ASSUME Shape, NEW c \in Slot, NEW s \in Slot, NEW i \in DOMAIN sent[s], PacketReceived(c, s, i)
  PROVE  /\ s # c /\ i \in DOMAIN wire[s] /\ i \in Nat
         /\ UNCHANGED <<sent, wire, taken, since, pc, time, clock, mask>>
         /\ queue' = [queue EXCEPT ![c] = Append(queue[c], parsePk(wire[s][i]))]
         /\ got' = [got EXCEPT ![c] = Append(got[c], [src |-> s, id |-> i])]
         /\ hostId' = [hostId EXCEPT ![c] = IF parsePk(wire[s][i]).type = "Cmd" THEN s
                                            ELSE hostId[c]]
<1>1. i \in DOMAIN wire[s] /\ i \in Nat
  BY SameLength
<1>2. QED
  BY <1>1 DEF PacketReceived, Enqueue, HostAfter, Medium!Receive, wifiVars

LEMMA Takings ==
  ASSUME Shape, NEW c \in Slot, TakesOne(c)
  PROVE  /\ UNCHANGED <<sent, got, wire, hostId, since>> /\ queue[c] # <<>>
         /\ queue' = [queue EXCEPT ![c] = Tail(queue[c])]
         /\ taken' = [taken EXCEPT ![c] = Append(taken[c], Head(queue[c]))]
BY DEF TakesOne, Takes, mediumVars

LEMMA MediumShapeNext ==
  ASSUME Shape, Timing, Traffic, [Next]_vars
  PROVE  MediumShape'
<1>0. MediumShape
  BY DEF Shape
<1>1. CASE Silent
  BY <1>0, <1>1 DEF Silent, MediumShape
<1>2. ASSUME NEW c \in Slot, NEW p \in PacketType, Sends(c, p) PROVE MediumShape'
  <2>1. CASE UNCHANGED <<sent, wire, got, queue, taken>>
    BY <1>0, <2>1 DEF MediumShape
  <2>2. ASSUME NEW d \in Slot \cup {Broadcast},
               sent' = [sent EXCEPT ![c] = Append(sent[c], d)],
               wire' = [wire EXCEPT ![c] = Append(wire[c], ToBuf(p))],
               UNCHANGED <<got, queue, taken>>
        PROVE  MediumShape'
    <3>1. /\ Append(sent[c], d) \in Seq(Slot \cup {Broadcast})
          /\ Len(Append(sent[c], d)) = Len(sent[c]) + 1
      BY <1>0, Appended DEF MediumShape
    <3>2. /\ Append(wire[c], ToBuf(p)) \in Seq(Buffer)
          /\ Len(Append(wire[c], ToBuf(p))) = Len(wire[c]) + 1
      <4>1. ToBuf(p) \in Buffer /\ wire[c] \in Seq(Buffer)
        BY <1>0 DEF MediumShape, Buffer
      <4>2. QED
        BY <4>1, Appended
    <3>3. sent' \in [Slot -> Seq(Slot \cup {Broadcast})] /\ wire' \in [Slot -> Seq(Buffer)]
      BY <1>0, <2>2, <3>1, <3>2 DEF MediumShape
    <3>4. \A s \in Slot : Len(sent'[s]) = Len(wire'[s])
      BY <1>0, <2>2, <3>1, <3>2 DEF MediumShape
    <3>5. QED
      BY <1>0, <2>2, <3>3, <3>4 DEF MediumShape
  <2>3. QED
    BY <1>2, <2>1, <2>2, SentPacket DEF Sends
<1>3. ASSUME NEW c \in Slot, TakesOne(c) PROVE MediumShape'
  <2>1. /\ UNCHANGED <<sent, got, wire>> /\ queue[c] # <<>>
        /\ queue' = [queue EXCEPT ![c] = Tail(queue[c])]
        /\ taken' = [taken EXCEPT ![c] = Append(taken[c], Head(queue[c]))]
    BY <1>3, Takings
  <2>2. Tail(queue[c]) \in Seq(PacketType) /\ Append(taken[c], Head(queue[c])) \in Seq(PacketType)
    BY <1>0, <2>1, HeadTailProperties, AppendProperties DEF MediumShape
  <2>3. QED
    BY <1>0, <2>1, <2>2 DEF MediumShape
<1>4. ASSUME NEW c \in Slot, NEW s \in Slot, NEW i \in DOMAIN sent[s], PacketReceived(c, s, i)
      PROVE  MediumShape'
  <2> DEFINE p == parsePk(wire[s][i])
             g == [src |-> s, id |-> i]
  <2>1. /\ UNCHANGED <<sent, wire, taken>>
        /\ queue' = [queue EXCEPT ![c] = Append(queue[c], p)]
        /\ got' = [got EXCEPT ![c] = Append(got[c], g)]
    BY <1>4, Receives
  <2>2. i \in DOMAIN wire[s] /\ i \in Nat
    BY SameLength
  <2>3. p \in PacketType /\ g \in [src : Slot, id : Nat]
    BY <2>2, ArrivedIsSaid
  <2> HIDE DEF p, g
  <2>4. Append(queue[c], p) \in Seq(PacketType) /\ Append(got[c], g) \in Seq([src : Slot, id : Nat])
    BY <1>0, <2>3, AppendProperties DEF MediumShape
  <2>5. QED
    BY <1>0, <2>1, <2>4 DEF MediumShape
<1>5. QED
  BY <1>1, <1>2, <1>3, <1>4, StepKinds

\* What a call that sends a packet does to the host and the history.
LEMMA SendShape ==
  ASSUME Shape, NEW c \in Slot, NEW p \in PacketType, SendPacket(c, p)
  PROVE  hostId' \in [Slot -> Slot \cup {NoHost}] /\ since' \in [Slot -> Nat]
<1> USE DEF Shape, CoreShape
<1>1. Len(got[c]) \in Nat
  BY LenProperties DEF MediumShape
<1>2. CASE UNCHANGED <<hostId, since>>
  BY <1>2
<1>3. CASE /\ hostId' = [hostId EXCEPT ![c] = IF p.type = "Cmd" THEN NoHost ELSE hostId[c]]
           /\ since' = [since EXCEPT ![c] = IF p.type = "Cmd" THEN Len(got[c]) ELSE since[c]]
  BY <1>1, <1>3
<1>4. QED
  BY <1>2, <1>3, SentPacket

LEMMA CoreShapeNext ==
  ASSUME Shape, Timing, Traffic, [Next]_vars
  PROVE  CoreShape'
<1> USE MpAssumption, Cores DEF Shape, CoreShape
<1>p. \A c \in Slot, next \in Pc : [pc EXCEPT ![c] = next] \in [Slot -> Pc]
  OBVIOUS
<1>q. {"idle", "replies", "ack", "reply"} \subseteq Pc
  BY DEF Pc
<1>t. ASSUME NEW c \in Slot, TimesOut(c) \/ NoSession(c)
      PROVE  /\ timeoutCount' \in [Slot -> 0..SUCCESSIVE_TIMEOUTS_WARNING]
             /\ warnedHighLatency' \in [Slot -> BOOLEAN]
  <2>1. CASE TimesOut(c)
    <3>1. timeoutCount[c] \in 0..SUCCESSIVE_TIMEOUTS_WARNING
      OBVIOUS
    <3>2. (IF timeoutCount[c] < SUCCESSIVE_TIMEOUTS_WARNING THEN timeoutCount[c] + 1
           ELSE timeoutCount[c]) \in 0..SUCCESSIVE_TIMEOUTS_WARNING
      BY <3>1
    <3>3. timeoutCount' \in [Slot -> 0..SUCCESSIVE_TIMEOUTS_WARNING]
      BY <2>1, <3>2 DEF TimesOut
    <3>4. warnedHighLatency' \in [Slot -> BOOLEAN]
      BY <2>1 DEF TimesOut
    <3>5. QED
      BY <3>3, <3>4
  <2>2. CASE NoSession(c)
    BY <2>2 DEF NoSession
  <2>3. QED
    BY <1>t, <2>1, <2>2
<1>k. ASSUME NEW c \in Slot, Takes(c)
      PROVE  /\ timeoutCount' \in [Slot -> 0..SUCCESSIVE_TIMEOUTS_WARNING]
             /\ warnedHighLatency' = warnedHighLatency
             /\ Head(queue[c]) \in Heard(c)
  <2>1. queue[c] # <<>> /\ timeoutCount' = [timeoutCount EXCEPT ![c] = 0]
        /\ warnedHighLatency' = warnedHighLatency
    BY <1>k DEF Takes
  <2>2. 0 \in 0..SUCCESSIVE_TIMEOUTS_WARNING
    OBVIOUS
  <2>3. Head(queue[c]) \in Heard(c)
    BY <2>1, HeadTailProperties DEF Traffic
  <2>4. QED
    BY <2>1, <2>2, <2>3
<1>1. ASSUME NEW h \in Hosts, MP_SendCmd(h) PROVE CoreShape'
  <2>1. Frame("Cmd", time, 0, "command") \in PacketType
    BY DEF Frame, PacketType, Type
  <2>2. hostId' \in [Slot -> Slot \cup {NoHost}] /\ since' \in [Slot -> Nat]
    BY <1>1, <2>1, SendShape DEF MP_SendCmd
  <2>3. pc' \in [Slot -> Pc]
    BY <1>1, <1>p, <1>q DEF MP_SendCmd
  <2>4. time' \in Nat /\ clock' \in [Slot -> Nat]
    BY <1>1 DEF MP_SendCmd
  <2>5. mask' \in [Slot -> SUBSET (1..Cardinality(Clients))]
    BY <1>1 DEF MP_SendCmd
  <2>6. UNCHANGED <<ready, timeoutCount, warnedHighLatency, others, switches>>
    BY <1>1 DEF MP_SendCmd
  <2>7. QED
    BY <2>2, <2>3, <2>4, <2>5, <2>6
<1>2. ASSUME NEW h \in Hosts, MP_SendAck(h) PROVE CoreShape'
  <2>1. Frame("Cmd", clock[h], 0, "ack") \in PacketType
    BY DEF Frame, PacketType, Type
  <2>2. hostId' \in [Slot -> Slot \cup {NoHost}] /\ since' \in [Slot -> Nat]
    BY <1>2, <2>1, SendShape DEF MP_SendAck
  <2>3. pc' \in [Slot -> Pc]
    BY <1>2, <1>p, <1>q DEF MP_SendAck
  <2>4. UNCHANGED <<ready, timeoutCount, warnedHighLatency, time, clock, mask, others, switches>>
    BY <1>2 DEF MP_SendAck
  <2>5. QED
    BY <2>2, <2>3, <2>4
<1>3. ASSUME NEW h \in Hosts, RepliesRound(h) PROVE CoreShape'
  <2> DEFINE p == Head(queue[h])
  <2>1. p \in Heard(h)
    BY <1>3, <1>k DEF RepliesRound
  <2>2. PICK s \in Slot \ {h} : p \in Said(s)
    BY <2>1, HeardIsSaid
  <2>3. mask' = [mask EXCEPT ![h] = IF Counts(h, p) THEN mask[h] \cup {p.aid} ELSE mask[h]]
    BY <1>3 DEF RepliesRound
  <2>4. Counts(h, p) => p.aid \in 1..Cardinality(Clients)
    BY <2>2, AidInjective DEF Counts, Said
  <2>5. mask' \in [Slot -> SUBSET (1..Cardinality(Clients))]
    BY <2>3, <2>4
  <2>6. pc' \in [Slot -> Pc]
    <3>1. pc' = [pc EXCEPT ![h] = "ack"] \/ pc' = [pc EXCEPT ![h] = pc[h]]
      BY <1>3 DEF RepliesRound
    <3>2. QED
      BY <3>1, <1>p, <1>q
  <2>7. UNCHANGED <<ready, hostId, time, clock, others, switches, since>>
    BY <1>3 DEF RepliesRound
  <2>8. QED
    BY <1>3, <1>k, <2>5, <2>6, <2>7 DEF RepliesRound
<1>4. ASSUME NEW h \in Hosts, RepliesEnd(h) PROVE CoreShape'
  <2>1. /\ UNCHANGED <<ready, hostId, time, clock, mask, others, switches, since>>
        /\ pc' = [pc EXCEPT ![h] = "ack"]
    BY <1>4 DEF RepliesEnd, AfterTimeout
  <2>2. QED
    BY <1>4, <1>t, <1>p, <1>q, <2>1 DEF RepliesEnd
<1>5. ASSUME NEW c \in Slot, MpStarted(c) \/ MpStopped(c) PROVE CoreShape'
  <2>1. ready' = [ready EXCEPT ![c] = TRUE] \/ ready' = [ready EXCEPT ![c] = FALSE]
    BY <1>5 DEF MpStarted, MpStopped
  <2>a. switches' = [switches EXCEPT ![c] = switches[c] + 1]
    BY <1>5 DEF MpStarted, MpStopped
  <2>b. ready' \in [Slot -> BOOLEAN]
    BY <2>1
  <2>c. switches' \in [Slot -> Nat]
    BY <2>a
  <2>2. UNCHANGED <<hostId, timeoutCount, warnedHighLatency, pc, time, clock, mask, others, since>>
    BY <1>5 DEF MpStarted, MpStopped
  <2>3. QED
    BY <2>b, <2>c, <2>2
<1>6. ASSUME NEW c \in Slot, MP_SendPacket(c) PROVE CoreShape'
  <2>1. Frame("Other", clock[c], 0, "frame") \in PacketType
    BY DEF Frame, PacketType, Type
  <2>2. hostId' \in [Slot -> Slot \cup {NoHost}] /\ since' \in [Slot -> Nat]
    BY <1>6, <2>1, SendShape DEF MP_SendPacket
  <2>3. others' \in [Slot -> Nat]
    BY <1>6 DEF MP_SendPacket
  <2>4. UNCHANGED <<ready, timeoutCount, warnedHighLatency, pc, time, clock, mask, switches>>
    BY <1>6 DEF MP_SendPacket
  <2>5. QED
    BY <2>2, <2>3, <2>4
<1>7. ASSUME NEW c \in Slot, MP_RecvPacket(c) PROVE CoreShape'
  <2>1. UNCHANGED <<ready, hostId, pc, time, clock, mask, others, switches, since>>
    BY <1>7 DEF MP_RecvPacket
  <2>2. QED
    BY <1>7, <1>k, <2>1 DEF MP_RecvPacket
<1>8. ASSUME NEW c \in Clients, MP_RecvHostPacket(c) PROVE CoreShape'
  <2>1. Head(queue[c]) \in PacketType
    BY <1>8, <1>k DEF MP_RecvHostPacket, Heard
  <2>2. UNCHANGED <<ready, hostId, time, mask, others, switches, since>>
    BY <1>8 DEF MP_RecvHostPacket
  <2>3. clock' \in [Slot -> Nat]
    BY <1>8, <2>1 DEF MP_RecvHostPacket, PacketType
  <2>4. pc' = [pc EXCEPT ![c] = "reply"] \/ pc' = pc
    BY <1>8 DEF MP_RecvHostPacket
  <2>5. QED
    BY <1>8, <1>k, <1>p, <1>q, <2>2, <2>3, <2>4 DEF MP_RecvHostPacket
<1>9. ASSUME NEW c \in Clients, HostPacketEnd(c) PROVE CoreShape'
  <2>1. UNCHANGED <<ready, hostId, pc, time, clock, mask, others, switches, since>>
    BY <1>9 DEF HostPacketEnd
  <2>2. QED
    BY <1>9, <1>t, <2>1 DEF HostPacketEnd
<1>10. ASSUME NEW c \in Clients, MP_SendReply(c) PROVE CoreShape'
  <2>1. Frame("Reply", clock[c], Aid(c), "reply") \in PacketType
    <3>1. Aid(c) \in Nat
      BY AidInjective
    <3>2. QED
      BY <3>1 DEF Frame, PacketType, Type
  <2>2. hostId' \in [Slot -> Slot \cup {NoHost}] /\ since' \in [Slot -> Nat]
    BY <1>10, <2>1, SendShape DEF MP_SendReply
  <2>3. UNCHANGED <<ready, timeoutCount, warnedHighLatency, time, clock, mask, others, switches>>
        /\ pc' = [pc EXCEPT ![c] = "idle"]
    BY <1>10 DEF MP_SendReply
  <2>4. QED
    BY <1>p, <1>q, <2>2, <2>3
<1>11. ASSUME NEW c \in Slot, NEW s \in Slot, NEW i \in DOMAIN sent[s], PacketReceived(c, s, i)
       PROVE  CoreShape'
  <2> HIDE MpAssumption, Cores DEF Shape, CoreShape
  <2>0. hostId' = [hostId EXCEPT ![c] = IF parsePk(wire[s][i]).type = "Cmd" THEN s
                                        ELSE hostId[c]]
    BY <1>11 DEF PacketReceived, HostAfter
  <2>a. (IF parsePk(wire[s][i]).type = "Cmd" THEN s ELSE hostId[c]) \in Slot \cup {NoHost}
        /\ hostId \in [Slot -> Slot \cup {NoHost}]
    BY DEF Shape, CoreShape
  <2>1. hostId' \in [Slot -> Slot \cup {NoHost}]
    BY <2>0, <2>a
  <2> USE DEF Shape, CoreShape
  <2>2. UNCHANGED <<ready, timeoutCount, warnedHighLatency, pc, time, clock, mask, others, switches,
                    since>>
    BY <1>11 DEF PacketReceived, wifiVars
  <2>3. QED
    BY <2>1, <2>2
<1>12. CASE UNCHANGED vars
  BY <1>12 DEF vars, mpVars, wifiVars
<1>13. QED
  BY <1>1, <1>2, <1>3, <1>4, <1>5, <1>6, <1>7, <1>8, <1>9, <1>10, <1>11, <1>12
  DEF Next, HostStep, ClientStep

-----------------------------------------------------------------------------
(* Timing and traffic *)

\* What was written stays written.
LEMMA WireGrows ==
  ASSUME Shape, Timing, [Next]_vars
  PROVE  \A s \in Slot : \A i \in DOMAIN wire[s] :
           /\ i \in DOMAIN wire'[s] /\ wire'[s][i] = wire[s][i]
           /\ i \in DOMAIN sent'[s] /\ sent'[s][i] = sent[s][i]
<1>1. CASE UNCHANGED <<sent, wire>>
  BY <1>1, SameLength
<1>2. ASSUME NEW c \in Slot, NEW b \in Buffer, NEW d \in Slot \cup {Broadcast},
             sent' = [sent EXCEPT ![c] = Append(sent[c], d)],
             wire' = [wire EXCEPT ![c] = Append(wire[c], b)],
             NEW s \in Slot, NEW i \in DOMAIN wire[s]
      PROVE  /\ i \in DOMAIN wire'[s] /\ wire'[s][i] = wire[s][i]
             /\ i \in DOMAIN sent'[s] /\ sent'[s][i] = sent[s][i]
  <2>0. i \in DOMAIN sent[s]
    BY SameLength
  <2>1. CASE s # c
    BY <1>2, <2>0, <2>1 DEF Shape, MediumShape
  <2>2. CASE s = c
    <3>1. wire[c] \in Seq(Buffer) /\ sent[c] \in Seq(Slot \cup {Broadcast})
      BY DEF Shape, MediumShape
    <3>2. wire'[c] = Append(wire[c], b) /\ sent'[c] = Append(sent[c], d)
      BY <1>2 DEF Shape, MediumShape
    <3>3. /\ Len(wire[c]) \in Nat /\ DOMAIN wire[c] = 1..Len(wire[c])
          /\ DOMAIN wire'[c] = 1..Len(wire[c]) + 1
          /\ \A k \in 1..Len(wire[c]) : wire'[c][k] = wire[c][k]
      BY <3>1, <3>2, Appended
    <3>4. /\ Len(sent[c]) \in Nat /\ DOMAIN sent[c] = 1..Len(sent[c])
          /\ DOMAIN sent'[c] = 1..Len(sent[c]) + 1
          /\ \A k \in 1..Len(sent[c]) : sent'[c][k] = sent[c][k]
      BY <3>1, <3>2, Appended
    <3>5. i \in 1..Len(wire[c]) + 1 /\ i \in 1..Len(sent[c]) + 1
      BY <2>0, <2>2, <3>3, <3>4
    <3>6. QED
      BY <2>0, <2>2, <3>3, <3>4, <3>5
  <2>3. QED
    BY <2>1, <2>2
<1>3. ASSUME NEW c \in Slot, NEW p \in PacketType, Sends(c, p)
      PROVE  \A s \in Slot : \A i \in DOMAIN wire[s] :
           /\ i \in DOMAIN wire'[s] /\ wire'[s][i] = wire[s][i]
           /\ i \in DOMAIN sent'[s] /\ sent'[s][i] = sent[s][i]
  <2>1. ToBuf(p) \in Buffer
    BY DEF Buffer
  <2>2. QED
    BY <1>1, <1>2, <1>3, <2>1, SentPacket DEF Sends
<1>4. ASSUME NEW c \in Slot, TakesOne(c) PROVE UNCHANGED <<sent, wire>>
  BY <1>4, Takings
<1>5. ASSUME NEW c \in Slot, NEW s \in Slot, NEW i \in DOMAIN sent[s], PacketReceived(c, s, i)
      PROVE  UNCHANGED <<sent, wire>>
  BY <1>5, Receives
<1>6. QED
  BY <1>1, <1>3, <1>4, <1>5, StepKinds DEF Silent

\* So the sets only grow.
LEMMA SetsGrow ==
  ASSUME Shape, Timing, [Next]_vars
  PROVE  \A s \in Slot : /\ Said(s) \subseteq Said(s)' /\ Written(s) \subseteq Written(s)'
                         /\ Carried(s) \subseteq Carried(s)' /\ Heard(s) \subseteq Heard(s)'
<1>1. ASSUME NEW s \in Slot PROVE Said(s) \subseteq Said(s)'
  <2>1. ASSUME NEW p \in Said(s) PROVE p \in Said(s)'
    <3>1. p.type = "Reply" \/ p.data = "command" => Asked(p.ts)
      BY DEF Said
    <3>2. Asked(p.ts) => p.ts \in Grid /\ p.ts < time' /\ p.ts < Word
      BY AskedStays
    <3>3. QED
      BY <3>1, <3>2 DEF Said, Asked
  <2>2. QED
    BY <2>1
<1>2. \A s \in Slot : Written(s) \subseteq Written(s)'
  BY <1>1 DEF Written
<1>3. \A s \in Slot : Carried(s) \subseteq Carried(s)'
  BY WireGrows DEF Carried
<1>4. ASSUME NEW c \in Slot PROVE Heard(c) \subseteq Heard(c)'
  <2>1. ASSUME NEW p \in Heard(c) PROVE p \in Heard(c)'
    <3>a. PICK s \in Slot \ {c} : \E i \in DOMAIN wire[s] : p = parsePk(wire[s][i])
      BY DEF Heard
    <3>1. PICK i \in DOMAIN wire[s] : p = parsePk(wire[s][i])
      BY <3>a
    <3>2. i \in DOMAIN wire'[s] /\ wire'[s][i] = wire[s][i]
      BY WireGrows
    <3>3. p = parsePk(wire'[s][i]) /\ p \in PacketType
      BY <3>1, <3>2 DEF Heard
    <3>4. QED
      BY <3>2, <3>3 DEF Heard
  <2>2. QED
    BY <2>1
<1>5. QED
  BY <1>1, <1>2, <1>3, <1>4

LEMMA TimingNext ==
  ASSUME Shape, Timing, Traffic, [Next]_vars
  PROVE  Timing'
<1> USE Cores DEF Shape, CoreShape
<1>a. /\ time' \in Grid
      /\ \A c \in Slot : Asked(clock[c]) =>
           clock[c] \in Grid /\ clock[c] < time' /\ clock[c] < Word
  BY AskedStays
\* Core c alone acts, and ends with a command that was given and a mask of its clients.
<1>1. ASSUME NEW c \in Slot,
             \A d \in Slot \ {c} : pc'[d] = pc[d] /\ clock'[d] = clock[d] /\ mask'[d] = mask[d],
             pc'[c] # "idle" => Asked(clock[c]) /\ clock'[c] = clock[c],
             mask'[c] \subseteq AidMask(c)
      PROVE  Timing'
  <2>1. \A d \in Slot : pc'[d] # "idle" =>
           clock'[d] \in Grid /\ clock'[d] < time' /\ clock'[d] < Word
    BY <1>a, <1>1 DEF Timing
  <2>2. \A d \in Slot : mask'[d] \subseteq AidMask(d)
    BY <1>1 DEF Timing
  <2>3. QED
    BY <1>a, <2>1, <2>2 DEF Timing, Asked
\* A step that neither begins nor ends a call.
<1>2. ASSUME UNCHANGED <<pc, clock, mask>> PROVE Timing'
  <2>1. \A d \in Slot : pc'[d] # "idle" =>
           clock'[d] \in Grid /\ clock'[d] < time' /\ clock'[d] < Word
    BY <1>a, <1>2 DEF Timing
  <2>2. QED
    BY <1>a, <1>2, <2>1 DEF Timing, Asked
<1>3. ASSUME NEW c \in Slot, \/ MpStarted(c) \/ MpStopped(c) \/ MP_SendPacket(c)
                             \/ MP_RecvPacket(c) \/ HostPacketEnd(c)
      PROVE  UNCHANGED <<pc, clock, mask>>
  BY <1>3 DEF MpStarted, MpStopped, MP_SendPacket, MP_RecvPacket, HostPacketEnd
<1>4. ASSUME NEW c \in Slot, NEW s \in Slot, NEW i \in DOMAIN sent[s], PacketReceived(c, s, i)
      PROVE  UNCHANGED <<pc, clock, mask>>
  BY <1>4, Receives
<1>5. ASSUME NEW h \in Hosts, MP_SendCmd(h) PROVE Timing'
  <2>1. time \in Grid /\ time < time' /\ time < Word /\ clock'[h] = time
    BY <1>5, CommandGiven
  <2>2. \A d \in Slot \ {h} : pc'[d] = pc[d] /\ clock'[d] = clock[d] /\ mask'[d] = mask[d]
    BY <1>5 DEF MP_SendCmd
  <2>3. mask'[h] = {}
    BY <1>5 DEF MP_SendCmd
  <2>4. \A d \in Slot : pc'[d] # "idle" =>
           clock'[d] \in Grid /\ clock'[d] < time' /\ clock'[d] < Word
    BY <1>a, <2>1, <2>2 DEF Timing
  <2>5. \A d \in Slot : mask'[d] \subseteq AidMask(d)
    BY <2>2, <2>3 DEF Timing
  <2>6. QED
    BY <1>a, <2>4, <2>5 DEF Timing, Asked
<1>6. ASSUME NEW h \in Hosts, RepliesEnd(h) \/ MP_SendAck(h) PROVE Timing'
  <2>1. /\ \A d \in Slot \ {h} : pc'[d] = pc[d] /\ clock'[d] = clock[d] /\ mask'[d] = mask[d]
        /\ clock' = clock /\ mask' = mask /\ pc[h] # "idle"
    BY <1>6 DEF RepliesEnd, MP_SendAck, AfterTimeout
  <2>2. QED
    BY <1>1, <2>1 DEF Timing
<1>7. ASSUME NEW h \in Hosts, RepliesRound(h) PROVE Timing'
  <2> DEFINE p == Head(queue[h])
  <2>1. /\ \A d \in Slot \ {h} : pc'[d] = pc[d] /\ clock'[d] = clock[d] /\ mask'[d] = mask[d]
        /\ clock' = clock /\ pc[h] # "idle" /\ queue[h] # <<>>
        /\ mask'[h] = IF Counts(h, p) THEN mask[h] \cup {p.aid} ELSE mask[h]
    BY <1>7 DEF RepliesRound, Takes
  <2>2. p \in Heard(h)
    BY <2>1, HeadTailProperties DEF Traffic
  <2>3. PICK s \in Slot \ {h} : p \in Said(s)
    BY <2>2, HeardIsSaid
  <2>4. Counts(h, p) => p.aid \in AidMask(h)
    BY <2>3 DEF Counts, Said, AidMask, Client
  <2> HIDE DEF p
  <2>5. mask'[h] \subseteq AidMask(h)
    BY <2>1, <2>4 DEF Timing
  <2>6. QED
    BY <1>1, <2>1, <2>5 DEF Timing
<1>8. ASSUME NEW c \in Clients, MP_RecvHostPacket(c) PROVE Timing'
  <2> DEFINE p == Head(queue[c])
  <2>1. queue[c] # <<>> /\ mask' = mask
        /\ \A d \in Slot \ {c} : pc'[d] = pc[d] /\ clock'[d] = clock[d] /\ mask'[d] = mask[d]
    BY <1>8 DEF MP_RecvHostPacket, Takes
  <2>2. p \in Heard(c)
    BY <2>1, HeadTailProperties DEF Traffic
  <2>3. PICK s \in Slot \ {c} : p \in Said(s)
    BY <2>2, HeardIsSaid
  <2>4. p.data = "command" => p.ts \in Grid /\ p.ts < time' /\ p.ts < Word
    BY <2>3, AskedStays DEF Said
  <2>5. pc'[c] # "idle" => p.data = "command" /\ clock'[c] = p.ts
    BY <1>8 DEF MP_RecvHostPacket
  <2> HIDE DEF p
  <2>6. \A d \in Slot : pc'[d] # "idle" =>
           clock'[d] \in Grid /\ clock'[d] < time' /\ clock'[d] < Word
    BY <1>a, <2>1, <2>4, <2>5 DEF Timing
  <2>7. QED
    BY <1>a, <2>1, <2>6 DEF Timing, Asked
<1>9. ASSUME NEW c \in Clients, MP_SendReply(c) PROVE Timing'
  <2>1. /\ \A d \in Slot \ {c} : pc'[d] = pc[d] /\ clock'[d] = clock[d] /\ mask'[d] = mask[d]
        /\ clock' = clock /\ mask' = mask /\ pc'[c] = "idle"
    BY <1>9 DEF MP_SendReply
  <2>2. QED
    BY <1>1, <2>1 DEF Timing
<1>10. CASE UNCHANGED vars
  BY <1>2, <1>10 DEF vars, wifiVars
<1>11. QED
  BY <1>2, <1>3, <1>4, <1>5, <1>6, <1>7, <1>8, <1>9, <1>10 DEF Next, HostStep, ClientStep

LEMMA TrafficNext ==
  ASSUME Shape, Timing, Traffic, [Next]_vars
  PROVE  Traffic'
<1>a. /\ \A s \in Slot : wire[s] \in Seq(Written(s)')
      /\ \A c \in Slot : got[c] \in Seq(Carried(c)') /\ queue[c] \in Seq(Heard(c)')
                         /\ taken[c] \in Seq(Heard(c)')
  BY SetsGrow, SeqMonotonic DEF Traffic
<1>q. Shape
  OBVIOUS
<1>1. CASE UNCHANGED <<wire, got, queue, taken>>
  BY <1>a, <1>1 DEF Traffic
<1>2. ASSUME NEW c \in Slot, NEW p \in PacketType, Sends(c, p) PROVE Traffic'
  <2>1. p \in Said(c)' /\ UNCHANGED <<queue, taken>>
    BY <1>2 DEF Sends
  <2>2. got' = got /\ (wire' = wire \/ wire' = [wire EXCEPT ![c] = Append(wire[c], ToBuf(p))])
    BY <1>2, <2>1, SentPacket DEF Sends
  <2>3. ToBuf(p) \in Written(c)'
    BY <2>1 DEF Written
  <2>4. Append(wire[c], ToBuf(p)) \in Seq(Written(c)')
    BY <1>a, <2>3, AppendProperties
  <2>5. \A s \in Slot : wire'[s] \in Seq(Written(s)')
    BY <1>a, <2>2, <2>4 DEF Shape, MediumShape
  <2>6. QED
    BY <1>a, <2>1, <2>2, <2>5 DEF Traffic
<1>3. ASSUME NEW c \in Slot, TakesOne(c) PROVE Traffic'
  <2>1. /\ UNCHANGED <<got, wire>> /\ queue[c] # <<>>
        /\ queue' = [queue EXCEPT ![c] = Tail(queue[c])]
        /\ taken' = [taken EXCEPT ![c] = Append(taken[c], Head(queue[c]))]
    BY <1>3, Takings
  <2>2. Head(queue[c]) \in Heard(c)' /\ Tail(queue[c]) \in Seq(Heard(c)')
    BY <1>a, <2>1, HeadTailProperties
  <2>3. Append(taken[c], Head(queue[c])) \in Seq(Heard(c)')
    BY <1>a, <2>2, AppendProperties
  <2>4. \A d \in Slot : queue'[d] \in Seq(Heard(d)') /\ taken'[d] \in Seq(Heard(d)')
    BY <1>a, <2>1, <2>2, <2>3 DEF Shape, MediumShape
  <2>5. QED
    BY <1>a, <2>1, <2>4 DEF Traffic
<1>4. ASSUME NEW c \in Slot, NEW s \in Slot, NEW i \in DOMAIN sent[s], PacketReceived(c, s, i)
      PROVE  Traffic'
  <2> DEFINE p == parsePk(wire[s][i])
             g == [src |-> s, id |-> i]
  <2>1. /\ UNCHANGED <<wire, taken>> /\ s # c /\ i \in DOMAIN wire[s] /\ i \in Nat
        /\ queue' = [queue EXCEPT ![c] = Append(queue[c], p)]
        /\ got' = [got EXCEPT ![c] = Append(got[c], g)]
    BY <1>4, Receives
  <2>2. p \in Heard(c)' /\ g \in Carried(c)'
    <3>1. p \in Heard(c)
      BY <2>1, ArrivedIsSaid DEF Heard
    <3>2. g \in Carried(c)
      BY <2>1 DEF Carried
    <3>3. QED
      BY <3>1, <3>2, SetsGrow
  <2> HIDE DEF p, g
  <2>3. Append(queue[c], p) \in Seq(Heard(c)') /\ Append(got[c], g) \in Seq(Carried(c)')
    BY <1>a, <2>2, AppendProperties
  <2>4. \A d \in Slot : queue'[d] \in Seq(Heard(d)') /\ got'[d] \in Seq(Carried(d)')
    BY <1>a, <2>1, <2>3 DEF Shape, MediumShape
  <2>5. QED
    BY <1>a, <2>1, <2>4 DEF Traffic
<1>5. QED
  BY <1>1, <1>2, <1>3, <1>4, StepKinds DEF Silent

-----------------------------------------------------------------------------
(* The queue *)

\* One packet more has arrived: what was there stays, the new one is the last.
LEMMA ArrivedNext ==
  ASSUME Shape, Traffic, NEW c \in Slot, NEW s \in Slot, NEW i \in DOMAIN wire[s],
         wire' = wire, got' = [got EXCEPT ![c] = Append(got[c], [src |-> s, id |-> i])]
  PROVE  Arrived(c)' = Append(Arrived(c), parsePk(wire[s][i])) /\ Arrived(c) \in Seq(PacketType)
<1> DEFINE g == [src |-> s, id |-> i]
           n == Len(got[c])
           p == parsePk(wire[s][i])
           At(k) == parsePk(wire[got[c][k].src][got[c][k].id])
<1>1. i \in Nat
  BY SameLength
<1>2. g \in [src : Slot, id : Nat] /\ got[c] \in Seq([src : Slot, id : Nat])
      /\ got'[c] = Append(got[c], g)
  BY <1>1 DEF Shape, MediumShape
<1>3. /\ n \in Nat /\ DOMAIN got[c] = 1..n /\ DOMAIN got'[c] = 1..n + 1
      /\ \A k \in 1..n : got'[c][k] = got[c][k]
      /\ got'[c][n + 1] = g
  BY <1>2, Appended
<1>4. Arrived(c) = [k \in 1..n |-> At(k)]
  BY <1>3 DEF Arrived
<1>5. \A k \in 1..n : At(k) \in PacketType
  <2> SUFFICES ASSUME NEW k \in 1..n PROVE At(k) \in PacketType
    OBVIOUS
  <2>1. got[c][k] \in Carried(c)
    BY <1>3, ElementOfSeq DEF Traffic
  <2>2. got[c][k].src \in Slot /\ got[c][k].id \in DOMAIN wire[got[c][k].src]
    BY <2>1 DEF Carried
  <2>3. QED
    BY <2>2, ArrivedIsSaid
<1>6. p \in PacketType
  BY ArrivedIsSaid
<1>7. Arrived(c)' = [k \in 1..n + 1 |-> IF k = n + 1 THEN p ELSE At(k)]
  <2>1. Arrived(c)' = [k \in 1..n + 1 |-> parsePk(wire[got'[c][k].src][got'[c][k].id])]
    BY <1>3 DEF Arrived
  <2>2. ASSUME NEW k \in 1..n + 1
        PROVE  parsePk(wire[got'[c][k].src][got'[c][k].id]) = IF k = n + 1 THEN p ELSE At(k)
    <3>1. k \in 1..n \/ k = n + 1
      BY <1>3, OneMore, Zenon
    <3>2. CASE k = n + 1
      BY <1>3, <3>2
    <3>3. CASE k \in 1..n
      <4>1. k # n + 1
        BY <1>3, <3>3
      <4>2. QED
        BY <1>3, <3>3, <4>1
    <3>4. QED
      BY <3>1, <3>2, <3>3
  <2>3. QED
    BY <2>1, <2>2
<1> HIDE DEF g, p, n, At
<1>8. Arrived(c) \in Seq(PacketType)
  BY <1>3, <1>4, <1>5, SeqDef
<1>9. Len(Arrived(c)) = n /\ DOMAIN Arrived(c) = 1..n
  BY <1>3, <1>4, <1>8, LenProperties
<1>10. Append(Arrived(c), p) = [k \in 1..n + 1 |-> IF k = n + 1 THEN p ELSE At(k)]
  <2>1. /\ Append(Arrived(c), p) \in Seq(PacketType)
        /\ DOMAIN Append(Arrived(c), p) = 1..n + 1
        /\ \A k \in 1..n : Append(Arrived(c), p)[k] = At(k)
        /\ Append(Arrived(c), p)[n + 1] = p
    <3>1. \A k \in 1..n : Arrived(c)[k] = At(k)
      BY <1>4
    <3>2. /\ Append(Arrived(c), p) \in Seq(PacketType)
          /\ DOMAIN Append(Arrived(c), p) = 1..Len(Arrived(c)) + 1
          /\ \A k \in 1..Len(Arrived(c)) : Append(Arrived(c), p)[k] = Arrived(c)[k]
          /\ Append(Arrived(c), p)[Len(Arrived(c)) + 1] = p
      BY <1>6, <1>8, Appended
    <3>3. QED
      BY <1>9, <3>1, <3>2
  <2>2. ASSUME NEW k \in 1..n + 1
        PROVE  Append(Arrived(c), p)[k] = IF k = n + 1 THEN p ELSE At(k)
    <3>1. k \in 1..n \/ k = n + 1
      BY <1>3, OneMore, Zenon
    <3>2. k \in 1..n => k # n + 1
      BY <1>3
    <3>3. QED
      BY <2>1, <3>1, <3>2
  <2>3. Append(Arrived(c), p) = [k \in 1..n + 1 |-> Append(Arrived(c), p)[k]]
    BY <2>1, SequenceIsFunction
  <2>4. QED
    BY <2>2, <2>3
<1>11. QED
  BY <1>7, <1>8, <1>10 DEF p

\* What arrived is not written over.
LEMMA ArrivedStays ==
  ASSUME Shape, Timing, Traffic, [Next]_vars, NEW d \in Slot, got'[d] = got[d]
  PROVE  Arrived(d)' = Arrived(d)
<1>1. ASSUME NEW k \in DOMAIN got[d]
      PROVE  /\ got[d][k].src \in Slot
             /\ wire'[got[d][k].src][got[d][k].id] = wire[got[d][k].src][got[d][k].id]
  <2>1. got[d][k] \in Carried(d)
    BY LenProperties, ElementOfSeq DEF Traffic
  <2>2. QED
    BY <2>1, WireGrows DEF Carried
<1>2. QED
  BY <1>1 DEF Arrived

LEMMA QueueIsFifoNext ==
  ASSUME Shape, Timing, Traffic, QueueIsFifo, [Next]_vars
  PROVE  QueueIsFifo'
<1> SUFFICES ASSUME NEW d \in Slot
             PROVE  taken'[d] \o queue'[d] = Arrived(d)'
  BY DEF QueueIsFifo
<1>0. taken[d] \o queue[d] = Arrived(d)
  BY DEF QueueIsFifo
<1>1. got'[d] = got[d] => Arrived(d)' = Arrived(d)
  BY ArrivedStays
<1>2. CASE got'[d] = got[d] /\ taken'[d] = taken[d] /\ queue'[d] = queue[d]
  BY <1>0, <1>1, <1>2
<1>3. ASSUME NEW c \in Slot, NEW p \in PacketType, Sends(c, p)
      PROVE  got' = got /\ taken' = taken /\ queue' = queue
  BY <1>3, SentPacket DEF Sends
<1>4. ASSUME NEW c \in Slot, TakesOne(c) PROVE taken'[d] \o queue'[d] = Arrived(d)'
  <2>1. CASE c = d
    <3>1. /\ got' = got /\ queue[d] # <<>> /\ queue'[d] = Tail(queue[d])
          /\ taken'[d] = Append(taken[d], Head(queue[d]))
          /\ queue[d] \in Seq(PacketType) /\ taken[d] \in Seq(PacketType)
      BY <1>4, <2>1, Takings DEF Shape, MediumShape
    <3>2. taken'[d] \o queue'[d] = taken[d] \o queue[d]
      BY <3>1, QueueShifts
    <3>3. QED
      BY <1>0, <1>1, <3>1, <3>2
  <2>2. CASE c # d
    BY <1>2, <1>4, <2>2, Takings DEF Shape, MediumShape
  <2>3. QED
    BY <2>1, <2>2
<1>5. ASSUME NEW c \in Slot, NEW s \in Slot, NEW i \in DOMAIN sent[s], PacketReceived(c, s, i)
      PROVE  taken'[d] \o queue'[d] = Arrived(d)'
  <2>0. /\ wire' = wire /\ taken' = taken /\ i \in DOMAIN wire[s]
        /\ queue' = [queue EXCEPT ![c] = Append(queue[c], parsePk(wire[s][i]))]
        /\ got' = [got EXCEPT ![c] = Append(got[c], [src |-> s, id |-> i])]
    BY <1>5, Receives
  <2>1. CASE c = d
    <3>1. parsePk(wire[s][i]) \in PacketType
      BY <2>0, ArrivedIsSaid
    <3>2. queue'[d] = Append(queue[d], parsePk(wire[s][i]))
          /\ queue[d] \in Seq(PacketType) /\ taken[d] \in Seq(PacketType)
      BY <2>0, <2>1 DEF Shape, MediumShape
    <3>3. taken'[d] \o queue'[d] = Append(taken[d] \o queue[d], parsePk(wire[s][i]))
      <4>1. \A e \in PacketType : taken[d] \o Append(queue[d], e) = Append(taken[d] \o queue[d], e)
        BY <3>2, QueueGrows, Zenon
      <4>2. QED
        BY <2>0, <3>1, <3>2, <4>1
    <3>4. Arrived(d)' = Append(Arrived(d), parsePk(wire[s][i]))
      BY <2>0, <2>1, ArrivedNext
    <3>5. QED
      BY <1>0, <3>3, <3>4
  <2>2. CASE c # d
    BY <1>2, <2>0, <2>2 DEF Shape, MediumShape
  <2>3. QED
    BY <2>1, <2>2
<1>6. QED
  BY <1>2, <1>3, <1>4, <1>5, StepKinds DEF Silent

-----------------------------------------------------------------------------
(* The host that is known *)

\* What has come to core c, and from whom.
LEMMA ArrivedShape ==
  ASSUME Shape, Traffic, NEW c \in Slot
  PROVE  /\ Arrived(c) \in Seq(PacketType) /\ Len(got[c]) \in Nat
         /\ Len(Arrived(c)) = Len(got[c]) /\ DOMAIN got[c] = 1..Len(got[c])
         /\ \A k \in 1..Len(got[c]) : got[c][k].src \in Slot \ {c}
<1> DEFINE n == Len(got[c])
           At(k) == parsePk(wire[got[c][k].src][got[c][k].id])
<1>1. n \in Nat /\ DOMAIN got[c] = 1..n
  BY LenProperties DEF Shape, MediumShape
<1>2. \A k \in 1..n : got[c][k] \in Carried(c)
  BY <1>1, ElementOfSeq DEF Traffic
<1>3. \A k \in 1..n : At(k) \in PacketType
  BY <1>2, ArrivedIsSaid DEF Carried
<1>4. Arrived(c) = [k \in 1..n |-> At(k)]
  BY <1>1 DEF Arrived
<1> HIDE DEF n, At
<1>5. Arrived(c) \in Seq(PacketType)
  BY <1>1, <1>3, <1>4, SeqDef
<1>6. Len(Arrived(c)) = n
  BY <1>1, <1>4, <1>5, LenProperties
<1>7. QED
  BY <1>1, <1>2, <1>5, <1>6 DEF Carried, n

\* The host known follows what comes and what the core itself sends.
LEMMA HostKnownNext ==
  ASSUME Shape, Timing, Traffic, HostKnown, [Next]_vars
  PROVE  HostKnown'
<1> DEFINE Known(d) ==
             /\ since[d] <= Len(got[d])
             /\ \/ hostId[d] = NoHost /\ \A k \in since[d] + 1..Len(got[d]) : ~IsCmd(d, k)
                \/ \E j \in since[d] + 1..Len(got[d]) :
                     hostId[d] = got[d][j].src /\ LastCmd(d, j)
<1> SUFFICES ASSUME NEW d \in Slot PROVE Known(d)'
  BY DEF HostKnown
<1>0. Known(d)
  BY DEF HostKnown
<1>n. Len(got[d]) \in Nat /\ since[d] \in Nat
  BY ArrivedShape DEF Shape, CoreShape
<1>1. ASSUME got'[d] = got[d], hostId'[d] = hostId[d], since'[d] = since[d] PROVE Known(d)'
  <2>1. Arrived(d)' = Arrived(d)
    BY <1>1, ArrivedStays
  <2>2. QED
    BY <1>0, <1>1, <2>1 DEF IsCmd, LastCmd
\* The core itself sends.
<1>2. ASSUME NEW c \in Slot, NEW p \in PacketType, Sends(c, p) PROVE Known(d)'
  <2>1. got' = got
    BY <1>2, SentPacket DEF Sends
  <2>2. CASE hostId'[d] = hostId[d] /\ since'[d] = since[d]
    BY <1>1, <2>1, <2>2
  <2>3. CASE hostId'[d] = NoHost /\ since'[d] = Len(got[d])
    BY <1>n, <2>1, <2>3
  <2>4. \/ hostId'[d] = hostId[d] /\ since'[d] = since[d]
        \/ hostId'[d] = NoHost /\ since'[d] = Len(got[d])
    <3>1. SendPacket(c, p) /\ hostId \in [Slot -> Slot \cup {NoHost}] /\ since \in [Slot -> Nat]
      BY <1>2 DEF Sends, Shape, CoreShape
    <3>2. CASE UNCHANGED <<hostId, since>>
      BY <3>2
    <3>3. CASE /\ hostId' = [hostId EXCEPT ![c] = IF p.type = "Cmd" THEN NoHost ELSE hostId[c]]
               /\ since' = [since EXCEPT ![c] = IF p.type = "Cmd" THEN Len(got[c]) ELSE since[c]]
      BY <3>1, <3>3
    <3>4. QED
      BY <3>1, <3>2, <3>3, SentPacket
  <2>5. QED
    BY <2>2, <2>3, <2>4
<1>3. ASSUME NEW c \in Slot, TakesOne(c) PROVE Known(d)'
  BY <1>1, <1>3, Takings
\* A packet comes.
<1>4. ASSUME NEW c \in Slot, NEW s \in Slot, NEW i \in DOMAIN sent[s], PacketReceived(c, s, i)
      PROVE  Known(d)'
  <2>1. CASE c # d
    <3>1. /\ since' = since
          /\ got' = [got EXCEPT ![c] = Append(got[c], [src |-> s, id |-> i])]
          /\ hostId' = [hostId EXCEPT ![c] = IF parsePk(wire[s][i]).type = "Cmd" THEN s
                                             ELSE hostId[c]]
      BY <1>4, Receives
    <3>2. got'[d] = got[d] /\ hostId'[d] = hostId[d]
      BY <2>1, <3>1 DEF Shape, CoreShape, MediumShape
    <3>3. QED
      BY <1>1, <3>1, <3>2
  <2>2. CASE c = d
    <3> DEFINE p == parsePk(wire[s][i])
               g == [src |-> s, id |-> i]
    <3>n. PICK n \in Nat : n = Len(got[d])
      BY <1>n
    <3>0. /\ since' = since /\ wire' = wire /\ i \in DOMAIN wire[s] /\ i \in Nat
          /\ got' = [got EXCEPT ![d] = Append(got[d], g)]
          /\ hostId' = [hostId EXCEPT ![d] = IF p.type = "Cmd" THEN s ELSE hostId[d]]
      BY <1>4, <2>2, Receives
    <3> HIDE DEF p, g
    <3>1. /\ since' = since /\ wire' = wire /\ i \in DOMAIN wire[s] /\ i \in Nat
          /\ got' = [got EXCEPT ![d] = Append(got[d], g)]
          /\ hostId'[d] = IF p.type = "Cmd" THEN s ELSE hostId[d]
      BY <3>0 DEF Shape, CoreShape
    <3>2. /\ Arrived(d)' = Append(Arrived(d), p) /\ Arrived(d) \in Seq(PacketType)
          /\ Len(Arrived(d)) = n
      BY <3>n, <3>1, ArrivedNext, ArrivedShape DEF p, g
    <3>3. p \in PacketType /\ g \in [src : Slot, id : Nat] /\ g.src = s
      BY <3>1, ArrivedIsSaid DEF p, g
    <3>4. got'[d] = Append(got[d], g) /\ got[d] \in Seq([src : Slot, id : Nat])
      BY <3>1 DEF Shape, MediumShape
    <3>5. /\ Len(got'[d]) = n + 1 /\ n \in Nat
          /\ \A k \in 1..n : got'[d][k] = got[d][k]
          /\ got'[d][n + 1] = g
      BY <3>n, <3>3, <3>4, Appended
    <3>6. /\ \A k \in 1..n : Arrived(d)'[k] = Arrived(d)[k]
          /\ Arrived(d)'[n + 1] = p
      BY <3>2, <3>3, Appended
    <3>7. \A k \in 1..n : IsCmd(d, k)' <=> IsCmd(d, k)
      BY <3>6 DEF IsCmd
    <3>8. IsCmd(d, n + 1)' <=> p.type = "Cmd"
      BY <3>5, <3>6 DEF IsCmd
    <3>9. since'[d] = since[d] /\ since[d] \in Nat /\ since[d] <= n /\ n \in Nat
          /\ Len(got[d]) = n /\ Len(got'[d]) = n + 1
      BY <1>0, <1>n, <3>n, <3>1, <3>5
    <3>10. CASE p.type = "Cmd"
      <4>1. LastCmd(d, n + 1)'
        BY <3>8, <3>9, <3>10 DEF LastCmd
      <4>a. n + 1 \in since'[d] + 1..Len(got'[d])
        BY <3>9
      <4>b. hostId'[d] = got'[d][n + 1].src
        BY <3>1, <3>3, <3>5, <3>10
      <4>2. n + 1 \in since'[d] + 1..Len(got'[d]) /\ hostId'[d] = got'[d][n + 1].src
        BY <4>a, <4>b
      <4>3. since'[d] <= Len(got'[d])
        BY <3>9
      <4>4. QED
        BY <4>1, <4>2, <4>3
    <3>11. CASE p.type # "Cmd"
      <4>1. since'[d] <= Len(got'[d]) /\ hostId'[d] = hostId[d]
        BY <3>1, <3>9, <3>11
      <4>2. \A k \in since[d] + 1..n + 1 : k = n + 1 \/ (k \in since[d] + 1..n /\ k \in 1..n)
        BY <3>9
      <4>3. CASE hostId[d] = NoHost /\ \A k \in since[d] + 1..n : ~IsCmd(d, k)
        <5>1. \A k \in since[d] + 1..n + 1 : ~IsCmd(d, k)'
          BY <3>7, <3>8, <3>11, <4>2, <4>3
        <5>2. QED
          BY <3>9, <4>1, <4>3, <5>1
      <4>4. ASSUME NEW j \in since[d] + 1..n, hostId[d] = got[d][j].src, LastCmd(d, j)
            PROVE  Known(d)'
        <5>1. j \in 1..n /\ j \in since'[d] + 1..Len(got'[d])
          BY <3>9
        <5>2. \A k \in j + 1..n + 1 : k = n + 1 \/ (k \in j + 1..n /\ k \in 1..n)
          BY <3>9, <5>1
        <5>3. IsCmd(d, j) /\ \A k \in j + 1..n : ~IsCmd(d, k)
          BY <3>9, <4>4 DEF LastCmd
        <5>4. IsCmd(d, j)' /\ \A k \in j + 1..n + 1 : ~IsCmd(d, k)'
          BY <3>7, <3>8, <3>11, <5>1, <5>2, <5>3
        <5>5. LastCmd(d, j)'
          BY <3>9, <5>4 DEF LastCmd
        <5>6. hostId'[d] = got'[d][j].src
          BY <3>5, <4>1, <4>4, <5>1
        <5>7. QED
          BY <4>1, <5>1, <5>5, <5>6
      <4>5. QED
        BY <1>0, <3>9, <4>3, <4>4
    <3>12. QED
      BY <3>10, <3>11
  <2>3. QED
    BY <2>1, <2>2
<1>5. CASE Silent
  BY <1>1, <1>5 DEF Silent
<1>6. QED
  BY <1>2, <1>3, <1>4, <1>5, StepKinds

\* A core that is to answer takes nothing before it has.
LEMMA InHandNext ==
  ASSUME Shape, Timing, Traffic, InHand, [Next]_vars
  PROVE  InHand'
<1> USE Cores DEF Shape, CoreShape, MediumShape
<1> SUFFICES ASSUME NEW d \in Slot, pc'[d] = "reply"
             PROVE  taken'[d] # <<>> /\ taken'[d][Len(taken'[d])].type = "Cmd"
  BY DEF InHand
<1>1. CASE pc[d] = "reply" /\ taken'[d] = taken[d]
  BY <1>1 DEF InHand
<1>2. ASSUME NEW h \in Hosts, HostStep(h) PROVE pc[d] = "reply" /\ taken'[d] = taken[d]
  <2>1. CASE MP_SendCmd(h) \/ RepliesEnd(h) \/ MP_SendAck(h)
    BY <1>2, <2>1 DEF MP_SendCmd, RepliesEnd, MP_SendAck, AfterTimeout, TimesOut, NoSession
  <2>2. CASE RepliesRound(h)
    BY <1>2, <2>2 DEF RepliesRound, Takes
  <2>3. QED
    BY <1>2, <2>1, <2>2 DEF HostStep
<1>3. ASSUME NEW c \in Slot, \/ MpStarted(c) \/ MpStopped(c) \/ MP_SendPacket(c)
                             \/ HostPacketEnd(c) \/ MP_SendReply(c)
      PROVE  pc[d] = "reply" /\ taken'[d] = taken[d]
  BY <1>3 DEF MpStarted, MpStopped, MP_SendPacket, HostPacketEnd, MP_SendReply, TimesOut,
     NoSession
<1>4. ASSUME NEW c \in Slot, MP_RecvPacket(c) PROVE pc[d] = "reply" /\ taken'[d] = taken[d]
  BY <1>4 DEF MP_RecvPacket, Takes
<1>5. ASSUME NEW c \in Clients, MP_RecvHostPacket(c)
      PROVE  taken'[d] # <<>> /\ taken'[d][Len(taken'[d])].type = "Cmd"
  <2>1. CASE c # d
    BY <1>1, <1>5, <2>1 DEF MP_RecvHostPacket, Takes
  <2>2. CASE c = d
    <3>1. /\ queue[d] # <<>> /\ taken'[d] = Append(taken[d], Head(queue[d]))
          /\ Head(queue[d]).type = "Cmd"
      BY <1>5, <2>2 DEF MP_RecvHostPacket, Takes
    <3>2. Head(queue[d]) \in PacketType /\ taken[d] \in Seq(PacketType)
      BY <3>1, HeadTailProperties
    <3>3. /\ taken'[d] \in Seq(PacketType) /\ Len(taken'[d]) = Len(taken[d]) + 1
          /\ taken'[d][Len(taken[d]) + 1] = Head(queue[d]) /\ Len(taken[d]) \in Nat
      BY <3>1, <3>2, Appended
    <3>4. taken'[d] # <<>>
      <4>1. Len(taken'[d]) # 0
        BY <3>3
      <4>2. QED
        BY <4>1
    <3>5. QED
      BY <3>1, <3>3, <3>4
  <2>3. QED
    BY <2>1, <2>2
<1>6. ASSUME NEW c \in Slot, NEW s \in Slot, NEW i \in DOMAIN sent[s], PacketReceived(c, s, i)
      PROVE  pc[d] = "reply" /\ taken'[d] = taken[d]
  BY <1>6, Receives
<1>7. CASE UNCHANGED vars
  BY <1>1, <1>7 DEF vars, wifiVars
<1>8. QED
  BY <1>1, <1>2, <1>3, <1>4, <1>5, <1>6, <1>7 DEF Next, ClientStep

-----------------------------------------------------------------------------
(* The invariant *)

LEMMA Initially == Init => IInv
<1> SUFFICES ASSUME Init PROVE IInv
  OBVIOUS
<1> USE MpAssumption, Cores DEF Init
<1>e. \A S : <<>> \in Seq(S) /\ Len(<<>>) = 0 /\ DOMAIN <<>> = {}
  BY EmptySeq
<1>1. CoreShape
  <2>1. pc \in [Slot -> Pc] /\ hostId \in [Slot -> Slot \cup {NoHost}]
    BY DEF Pc
  <2>2. time \in Nat /\ clock \in [Slot -> Nat] /\ others \in [Slot -> Nat]
        /\ switches \in [Slot -> Nat] /\ since \in [Slot -> Nat]
    OBVIOUS
  <2>3. /\ mask \in [Slot -> SUBSET (1..Cardinality(Clients))] /\ ready \in [Slot -> BOOLEAN]
        /\ timeoutCount \in [Slot -> 0..SUCCESSIVE_TIMEOUTS_WARNING]
        /\ warnedHighLatency \in [Slot -> BOOLEAN]
    OBVIOUS
  <2>4. QED
    BY <2>1, <2>2, <2>3 DEF CoreShape
<1>2. MediumShape
  <2>1. sent = [s \in Slot |-> <<>>] /\ got = [s \in Slot |-> <<>>]
    BY DEF Medium!Init
  <2>2. QED
    BY <1>e, <2>1 DEF MediumShape
<1>3. Timing
  BY GridNext DEF Timing
<1>4. \A s \in Slot : wire[s] = <<>> /\ got[s] = <<>> /\ queue[s] = <<>> /\ taken[s] = <<>>
  BY DEF Medium!Init
<1>5. Traffic
  BY <1>e, <1>4, Zenon DEF Traffic
<1>6. QueueIsFifo
  <2> SUFFICES ASSUME NEW c \in Slot PROVE taken[c] \o queue[c] = Arrived(c)
    BY DEF QueueIsFifo
  <2>1. got[c] = <<>> /\ queue[c] = <<>> /\ taken[c] = <<>>
    BY <1>4
  <2>2. taken[c] \o queue[c] = <<>>
    BY <1>e, <2>1, ConcatEmptySeq
  <2>3. DOMAIN got[c] = {}
    BY <1>e, <2>1
  <2>4. DOMAIN Arrived(c) = {} /\ Arrived(c) = [k \in {} |-> parsePk(wire[got[c][k].src][got[c][k].id])]
    BY <2>3 DEF Arrived
  <2>5. Arrived(c) = <<>>
    BY <1>e, <2>4
  <2>6. QED
    BY <2>2, <2>5
<1>7. HostKnown
  <2>1. \A c \in Slot : since[c] = 0 /\ hostId[c] = NoHost /\ Len(got[c]) = 0
    BY <1>e, <1>4
  <2>2. QED
    BY <2>1 DEF HostKnown
<1>8. InHand
  BY DEF InHand
<1>9. QED
  BY <1>1, <1>2, <1>3, <1>5, <1>6, <1>7, <1>8 DEF IInv, Shape

LEMMA Invariance == Spec => []IInv
<1>1. IInv /\ [Next]_vars => IInv'
  BY MediumShapeNext, CoreShapeNext, TimingNext, TrafficNext, QueueIsFifoNext, HostKnownNext,
     InHandNext
  DEF IInv, Shape
<1>2. QED
  BY Initially, <1>1, PTL DEF Spec

\* Every variable has its type; the masks name clients only.
THEOREM TypeCorrect == Spec => []TypeOK
<1>1. IInv => TypeOK
  BY DEF IInv, Shape, CoreShape, MediumShape, TypeOK, Pc
<1>2. QED
  BY Invariance, <1>1, PTL

\* receivedPackets loses, doubles and reorders nothing, whatever the sessions.
THEOREM QueueCorrect == Spec => []QueueIsFifo
<1>1. IInv => QueueIsFifo
  BY DEF IInv
<1>2. QED
  BY Invariance, <1>1, PTL

-----------------------------------------------------------------------------
(* Where answers go *)

\* The packet a core is to answer is one that came to it: a command.
LEMMA AskedByACommand ==
  ASSUME IInv, NEW c \in Slot, pc[c] = "reply"
  PROVE  Len(taken[c]) \in 1..Len(got[c]) /\ IsCmd(c, Len(taken[c]))
<1> DEFINE k == Len(taken[c])
<1>1. taken[c] # <<>> /\ taken[c][k].type = "Cmd"
  BY DEF IInv, InHand
<1>2. taken[c] \in Seq(PacketType) /\ queue[c] \in Seq(PacketType)
      /\ taken[c] \o queue[c] = Arrived(c)
  BY DEF IInv, Shape, MediumShape, QueueIsFifo
<1>3. k \in Nat /\ Len(queue[c]) \in Nat /\ k # 0
  BY <1>1, <1>2, EmptySeq, LenProperties
<1>a. /\ Len(taken[c] \o queue[c]) = k + Len(queue[c])
      /\ \A i \in 1..k + Len(queue[c]) :
           (taken[c] \o queue[c])[i] = IF i <= k THEN taken[c][i] ELSE queue[c][i - k]
  BY <1>2, ConcatProperties
<1> HIDE DEF k
<1>4. Len(Arrived(c)) = k + Len(queue[c])
  BY <1>2, <1>a
<1>5. \A i \in 1..k + Len(queue[c]) :
        Arrived(c)[i] = IF i <= k THEN taken[c][i] ELSE queue[c][i - k]
  BY <1>2, <1>a
<1>6. Len(Arrived(c)) = Len(got[c])
  BY ArrivedShape DEF IInv
<1>7. k \in 1..k + Len(queue[c]) /\ k <= k
  BY <1>3
<1>8. Arrived(c)[k] = taken[c][k]
  BY <1>5, <1>7
<1>9. IsCmd(c, k)
  BY <1>1, <1>8 DEF IsCmd, k
<1>10. QED
  BY <1>4, <1>6, <1>7, <1>9 DEF k

\* Only MP_SendReply ends the wait of a core that is to answer.
LEMMA AnswerSent ==
  ASSUME IInv, [Next]_vars, NEW c \in Slot, pc[c] = "reply", pc'[c] = "idle"
  PROVE  c \in Clients /\ MP_SendReply(c)
<1> USE Cores DEF IInv, Shape, CoreShape
<1>1. ASSUME NEW h \in Hosts, HostStep(h) PROVE FALSE
  BY <1>1 DEF HostStep, MP_SendCmd, RepliesRound, RepliesEnd, MP_SendAck, AfterTimeout
<1>2. ASSUME NEW d \in Clients, ClientStep(d), d # c PROVE FALSE
  BY <1>2 DEF ClientStep, MP_RecvHostPacket, HostPacketEnd, MP_SendReply
<1>3. ASSUME c \in Clients, MP_RecvHostPacket(c) \/ HostPacketEnd(c) PROVE FALSE
  BY <1>3 DEF MP_RecvHostPacket, HostPacketEnd
<1>4. ASSUME NEW d \in Slot,
             MpStarted(d) \/ MpStopped(d) \/ MP_SendPacket(d) \/ MP_RecvPacket(d)
      PROVE  FALSE
  BY <1>4 DEF MpStarted, MpStopped, MP_SendPacket, MP_RecvPacket
<1>5. ASSUME NEW d \in Slot, NEW s \in Slot, NEW i \in DOMAIN sent[s], PacketReceived(d, s, i)
      PROVE  FALSE
  BY <1>5, Receives
<1>6. CASE UNCHANGED vars
  BY <1>6 DEF vars, wifiVars
<1>7. QED
  BY <1>1, <1>2, <1>3, <1>4, <1>5, <1>6 DEF Next, ClientStep

\* What a core knows of its host is a fit address for its answer.
LEMMA KnownIsFit ==
  ASSUME IInv, NEW c \in Slot, pc[c] = "reply"
  PROVE  FitAddress(c, Len(taken[c]), IF hostId[c] # NoHost THEN hostId[c] ELSE Broadcast)
<1> DEFINE k == Len(taken[c])
<1>1. k \in 1..Len(got[c]) /\ IsCmd(c, k) /\ Len(got[c]) \in Nat /\ since[c] \in Nat
  BY AskedByACommand, ArrivedShape DEF IInv, Shape, CoreShape
<1>2. \A j \in 1..Len(got[c]) : got[c][j].src # NoHost
  BY ArrivedShape, Cores DEF IInv
<1> HIDE DEF k
<1>3. CASE hostId[c] = NoHost /\ \A j \in since[c] + 1..Len(got[c]) : ~IsCmd(c, j)
  <2>1. k <= since[c]
    BY <1>1, <1>3
  <2>2. QED
    BY <1>3, <2>1 DEF FitAddress, k
<1>4. ASSUME NEW j \in since[c] + 1..Len(got[c]), hostId[c] = got[c][j].src, LastCmd(c, j)
      PROVE  FitAddress(c, Len(taken[c]), IF hostId[c] # NoHost THEN hostId[c] ELSE Broadcast)
  <2>1. j \in 1..Len(got[c]) /\ hostId[c] # NoHost
    BY <1>1, <1>2, <1>4
  <2>2. ~(k \in j + 1..Len(got[c]))
    BY <1>1, <1>4 DEF LastCmd
  <2>3. j = k \/ j \in k + 1..Len(got[c])
    BY <1>1, <2>1, <2>2
  <2>4. CASE j = k
    BY <1>4, <2>1, <2>4 DEF FitAddress, k
  <2>5. CASE j \in k + 1..Len(got[c])
    <3>1. Arrived(c)[j].type = "Cmd"
      BY <1>4 DEF LastCmd, IsCmd
    <3>2. QED
      BY <1>4, <2>1, <2>5, <3>1 DEF FitAddress, k
  <2>6. QED
    BY <2>3, <2>4, <2>5
<1>5. QED
  BY <1>3, <1>4 DEF IInv, HostKnown

\* An answer goes to the core whose command it answers, unless the answering core
\* has itself sent a command since that command came, or heard one of another core:
\* for any number of hosts at once, sessions and packets still queued.
THEOREM RepliesCorrect == Spec => RepliesGoHome
<1> DEFINE Answered(c) == pc[c] = "reply" /\ pc'[c] = "idle" /\ ready[c]
           Home == \A c \in Slot : Answered(c) =>
                     FitAddress(c, Len(taken[c]), sent'[c][Len(sent'[c])])
<1>1. IInv /\ [Next]_vars => Home
  <2> SUFFICES ASSUME IInv, [Next]_vars, NEW c \in Slot, Answered(c)
               PROVE  FitAddress(c, Len(taken[c]), sent'[c][Len(sent'[c])])
    OBVIOUS
  <2> DEFINE p == Frame("Reply", clock[c], Aid(c), "reply")
             d == IF hostId[c] # NoHost THEN hostId[c] ELSE Broadcast
  <2>1. c \in Clients /\ SendPacket(c, p) /\ ready[c]
    BY AnswerSent DEF MP_SendReply
  <2>2. p.type = "Reply"
    BY DEF Frame
  <2>3. hostId'[c] = hostId[c]
    BY <2>1, <2>2 DEF SendPacket, IInv, Shape, CoreShape
  <2>4. sent' = [sent EXCEPT ![c] = Append(sent[c], d)]
    BY <2>1, <2>2, <2>3 DEF SendPacket
  <2>5. d \in Slot \cup {Broadcast} /\ sent[c] \in Seq(Slot \cup {Broadcast})
    BY DEF IInv, Shape, CoreShape, MediumShape
  <2>6. sent'[c] = Append(sent[c], d)
    BY <2>4 DEF IInv, Shape, MediumShape
  <2>7. sent'[c][Len(sent'[c])] = d
    BY <2>5, <2>6, Appended
  <2>8. QED
    BY <2>7, KnownIsFit
<1>2. IInv /\ [Next]_vars => [Home]_vars
  BY <1>1
<1>3. Spec => [][Home]_vars
  <2> HIDE DEF Home
  <2>1. QED
    BY Invariance, <1>2, PTL DEF Spec
<1>4. QED
  BY <1>3 DEF RepliesGoHome

-----------------------------------------------------------------------------
(* What MP_RecvReplies counts *)

\* Unsigned subtraction of the window from a timestamp: it wraps below the window.
LEMMA WindowStart ==
  ASSUME Window < Word, NEW ts \in Nat, ts < Word
  PROVE  Minus(ts, Window) = IF ts >= Window THEN ts - Window ELSE ts - Window + Word
<1>1. \A w \in Nat \ {0} : \A a \in 0..w - 1 : a % w = a
  OBVIOUS
<1>2. \A w \in Nat \ {0} : \A a \in Int : -w <= a /\ a < 0 => a % w = a + w
  OBVIOUS
<1>3. Word \in Nat \ {0} /\ Window = 32
  BY MpAssumption DEF Window
<1>4. CASE ts >= Window
  <2>1. ts - Window \in 0..Word - 1
    BY <1>3, <1>4
  <2>2. QED
    BY <1>1, <1>3, <1>4, <2>1 DEF Minus
<1>5. CASE ts < Window
  <2>1. ts - Window \in Int /\ -Word <= ts - Window /\ ts - Window < 0
    BY <1>3, <1>5
  <2>2. ~(ts >= Window)
    BY <1>3, <1>5
  <2>3. QED
    BY <1>2, <1>3, <2>1, <2>2 DEF Minus
<1>6. QED
  BY <1>3, <1>4, <1>5

\* While it exchanges a command, a core that does not act itself is left alone.
Exchanging(h) == pc[h] \in {"replies", "ack"}

LEMMA ExchangeRests ==
  ASSUME Shape, [Next]_vars, NEW h \in Hosts, ~HostStep(h), Exchanging(h) \/ Exchanging(h)'
  PROVE  /\ pc'[h] = pc[h] /\ clock'[h] = clock[h] /\ mask'[h] = mask[h]
         /\ pc[h] = "replies" => taken'[h] = taken[h]
<1> USE Cores DEF Shape, CoreShape, MediumShape, Exchanging
<1>1. ASSUME NEW g \in Hosts, g # h, HostStep(g)
      PROVE  pc'[h] = pc[h] /\ clock'[h] = clock[h] /\ mask'[h] = mask[h] /\ taken'[h] = taken[h]
  <2>1. CASE MP_SendCmd(g)
    BY <1>1, <2>1 DEF MP_SendCmd
  <2>2. CASE RepliesRound(g)
    BY <1>1, <2>2 DEF RepliesRound, Takes
  <2>3. CASE RepliesEnd(g)
    BY <1>1, <2>3 DEF RepliesEnd, AfterTimeout, TimesOut, NoSession
  <2>4. CASE MP_SendAck(g)
    BY <1>1, <2>4 DEF MP_SendAck
  <2>5. QED
    BY <1>1, <2>1, <2>2, <2>3, <2>4 DEF HostStep
<1>2. ASSUME NEW c \in Clients, MP_RecvHostPacket(c)
      PROVE  c # h /\ pc'[h] = pc[h] /\ clock'[h] = clock[h] /\ mask'[h] = mask[h]
             /\ taken'[h] = taken[h]
  <2>1. c # h
    BY <1>2 DEF MP_RecvHostPacket
  <2>2. QED
    BY <1>2, <2>1 DEF MP_RecvHostPacket, Takes
<1>3. ASSUME NEW c \in Clients, HostPacketEnd(c)
      PROVE  UNCHANGED <<pc, clock, mask, taken>>
  BY <1>3 DEF HostPacketEnd, TimesOut, NoSession
<1>4. ASSUME NEW c \in Clients, MP_SendReply(c)
      PROVE  pc'[h] = pc[h] /\ clock'[h] = clock[h] /\ mask'[h] = mask[h] /\ taken'[h] = taken[h]
  BY <1>4 DEF MP_SendReply
<1>5. ASSUME NEW c \in Slot, MpStarted(c) \/ MpStopped(c) \/ MP_SendPacket(c)
      PROVE  UNCHANGED <<pc, clock, mask, taken>>
  BY <1>5 DEF MpStarted, MpStopped, MP_SendPacket
<1>6. ASSUME NEW c \in Slot, MP_RecvPacket(c)
      PROVE  UNCHANGED <<pc, clock, mask>> /\ (pc[h] = "replies" => taken'[h] = taken[h])
  BY <1>6 DEF MP_RecvPacket, Takes
<1>7. ASSUME NEW c \in Slot, NEW s \in Slot, NEW i \in DOMAIN sent[s], PacketReceived(c, s, i)
      PROVE  UNCHANGED <<pc, clock, mask, taken>>
  BY <1>7 DEF PacketReceived, wifiVars
<1>8. CASE UNCHANGED vars
  BY <1>8 DEF vars, wifiVars
<1>9. QED
  BY <1>1, <1>2, <1>3, <1>4, <1>5, <1>6, <1>7, <1>8 DEF Next, ClientStep

\* What a core that exchanges a command takes off its queue: a reply in it is a
\* client's, to a command that was given.
LEMMA TakenIsSaid ==
  ASSUME IInv, NEW h \in Hosts, queue[h] # <<>>
  PROVE  /\ Head(queue[h]) \in PacketType
         /\ \E s \in Slot \ {h} :
              /\ Head(queue[h]) \in Said(s)
              /\ \E i \in DOMAIN wire[s] : Head(queue[h]) = parsePk(wire[s][i])
<1>1. Head(queue[h]) \in Heard(h)
  BY HeadTailProperties, Cores DEF IInv, Traffic
<1>2. QED
  BY <1>1, HeardIsSaid, Cores DEF IInv, Heard

\* Whoever is in the mask has answered the command being exchanged, or a later one.
Replied(c, ts) ==
  \E i \in DOMAIN wire[c] :
    LET p == parsePk(wire[c][i]) IN Answers(p, c, p.ts) /\ p.ts >= ts
CountedNow ==
  \A h \in Hosts : Exchanging(h) =>
    \A a \in mask[h] : \E c \in Client(h) : a = Aid(c) /\ Replied(c, clock[h])

\* A reply that the window lets through is no older than the command.
LEMMA NewEnough ==
  ASSUME Gap > Window, Window < Word, NEW ts \in Grid, NEW u \in Grid, u < Word,
         ~(ts < Minus(u, Window))
  PROVE  ts >= u
<1>1. Window = 32 /\ Gap \in Nat /\ Word \in Nat /\ ts \in Nat /\ u \in Nat
  BY MpAssumption DEF Window, Grid
<1>2. Minus(u, Window) = IF u >= Window THEN u - Window ELSE u - Window + Word
  BY <1>1, WindowStart
<1>3. ts < u => ts + Gap <= u
  BY GridApart
<1>4. QED
  BY <1>1, <1>2, <1>3

LEMMA CountedNowNext ==
  ASSUME Gap > Window, Window < Word, IInv, CountedNow, [Next]_vars
  PROVE  CountedNow'
<1> USE Cores
<1>0. Shape /\ Timing /\ CoreShape /\ MediumShape
  BY DEF IInv, Shape
\* An answer that was written stays written.
<1>1. \A c \in Slot, ts \in Nat : Replied(c, ts) => Replied(c, ts)'
  <2> SUFFICES ASSUME NEW c \in Slot, NEW ts \in Nat, Replied(c, ts) PROVE Replied(c, ts)'
    OBVIOUS
  <2>1. PICK i \in DOMAIN wire[c] :
          /\ Answers(parsePk(wire[c][i]), c, parsePk(wire[c][i]).ts)
          /\ parsePk(wire[c][i]).ts >= ts
    BY DEF Replied
  <2>2. i \in DOMAIN wire'[c] /\ wire'[c][i] = wire[c][i]
    BY <1>0, WireGrows
  <2>3. QED
    BY <2>1, <2>2 DEF Replied, Answers
<1> DEFINE Counted(h) ==
             \A a \in mask'[h] : \E c \in Client(h) : a = Aid(c) /\ Replied(c, clock[h])'
<1>2. ASSUME NEW h \in Hosts, Exchanging(h), mask'[h] \subseteq mask[h], clock'[h] = clock[h]
      PROVE  Counted(h)
  <2> SUFFICES ASSUME NEW a \in mask'[h]
               PROVE  \E c \in Client(h) : a = Aid(c) /\ Replied(c, clock[h])'
    OBVIOUS
  <2>1. PICK c \in Client(h) : a = Aid(c) /\ Replied(c, clock[h])
    BY <1>2 DEF CountedNow
  <2>2. c \in Slot /\ clock[h] \in Nat
    BY <1>0 DEF Client, CoreShape
  <2>3. Replied(c, clock[h])'
    BY <1>1, <1>2, <2>1, <2>2 DEF Replied
  <2>4. QED
    BY <2>1, <2>3
<1>3. ASSUME NEW h \in Hosts, Exchanging(h)' PROVE Counted(h)
  <2>1. CASE MP_SendCmd(h)
    BY <1>0, <2>1 DEF MP_SendCmd, CoreShape
  <2>2. CASE MP_SendAck(h)
    BY <1>0, <1>3, <2>2 DEF MP_SendAck, Exchanging, CoreShape
  <2>3. CASE RepliesEnd(h)
    BY <1>2, <2>3 DEF RepliesEnd, Exchanging
  <2>4. CASE RepliesRound(h)
    <3> DEFINE p == Head(queue[h])
    <3>1. /\ queue[h] # <<>> /\ clock' = clock /\ pc[h] = "replies"
          /\ mask' = [mask EXCEPT ![h] = IF Counts(h, p) THEN mask[h] \cup {p.aid} ELSE mask[h]]
      BY <2>4 DEF RepliesRound, Takes
    <3>2. mask'[h] = IF Counts(h, p) THEN mask[h] \cup {p.aid} ELSE mask[h]
      BY <1>0, <3>1 DEF CoreShape
    <3>3. PICK s \in Slot \ {h} :
            p \in Said(s) /\ \E i \in DOMAIN wire[s] : p = parsePk(wire[s][i])
      BY <3>1, TakenIsSaid
    <3> HIDE DEF p
    <3>4. ASSUME Counts(h, p) PROVE s \in Client(h) /\ p.aid = Aid(s) /\ Replied(s, clock[h])
      <4>1. s \in Clients /\ p.aid = Aid(s) /\ p.type = "Reply" /\ Asked(p.ts)
        BY <3>3, <3>4 DEF Said, Counts
      <4>2. Asked(clock[h])
        BY <1>0, <3>1 DEF Timing
      <4>3. p.ts >= clock[h]
        BY <3>4, <4>1, <4>2, NewEnough DEF Counts, Asked
      <4>4. Answers(p, s, p.ts)
        BY <4>1 DEF Answers
      <4>5. QED
        BY <3>3, <4>1, <4>3, <4>4 DEF Client, Replied
    <3>5. ASSUME Counts(h, p) PROVE Replied(s, clock[h])'
      <4>1. s \in Slot /\ clock[h] \in Nat /\ clock'[h] = clock[h]
        BY <1>0, <3>1 DEF CoreShape
      <4>2. QED
        BY <1>1, <3>4, <3>5, <4>1 DEF Replied
    <3>6. ASSUME NEW a \in mask[h]
          PROVE  \E c \in Client(h) : a = Aid(c) /\ Replied(c, clock[h])'
      <4>1. Exchanging(h)
        BY <3>1 DEF Exchanging
      <4>2. PICK c \in Client(h) : a = Aid(c) /\ Replied(c, clock[h])
        BY <4>1 DEF CountedNow
      <4>3. c \in Slot /\ clock[h] \in Nat /\ clock'[h] = clock[h]
        BY <1>0, <3>1 DEF Client, CoreShape
      <4>4. Replied(c, clock[h])'
        BY <1>1, <4>2, <4>3 DEF Replied
      <4>5. QED
        BY <4>2, <4>4
    <3>7. QED
      BY <3>2, <3>4, <3>5, <3>6
  <2>5. CASE ~HostStep(h)
    <3>1. pc'[h] = pc[h] /\ clock'[h] = clock[h] /\ mask'[h] = mask[h]
      BY <1>0, <1>3, <2>5, ExchangeRests
    <3>2. Exchanging(h)
      BY <1>3, <3>1 DEF Exchanging
    <3>3. QED
      BY <1>2, <3>1, <3>2
  <2>6. QED
    BY <2>1, <2>2, <2>3, <2>4, <2>5 DEF HostStep
<1>4. QED
  BY <1>3 DEF CountedNow, Client

\* MP_RecvReplies takes no late reply for an answer: when commands are more than
\* the window apart, every client it counts answered the command being exchanged or
\* one that another core gave after it, however many cores host.
THEOREM CountedCorrect ==
  ASSUME Gap > Window, Window < Word
  PROVE  Spec => []CountedAnswerThisCommand
<1>1. Init => CountedNow
  BY Cores DEF Init, CountedNow, Exchanging
<1>2. IInv /\ CountedNow /\ [Next]_vars => CountedNow'
  BY CountedNowNext
<1>3. IInv /\ CountedNow => CountedAnswerThisCommand
  <2> SUFFICES ASSUME IInv, CountedNow, NEW h \in Hosts, pc[h] \in {"replies", "ack"}
               PROVE  /\ mask[h] \subseteq AidMask(h)
                      /\ \A c \in Client(h) : Aid(c) \in mask[h] => Replied(c, clock[h])
    BY DEF CountedAnswerThisCommand, Replied
  <2>1. mask[h] \subseteq AidMask(h)
    BY Cores DEF IInv, Timing
  <2>2. ASSUME NEW c \in Client(h), Aid(c) \in mask[h] PROVE Replied(c, clock[h])
    <3>1. PICK d \in Client(h) : Aid(c) = Aid(d) /\ Replied(d, clock[h])
      BY <2>2 DEF CountedNow, Exchanging
    <3>2. c = d
      BY <3>1, AidInjective DEF Client
    <3>3. QED
      BY <3>1, <3>2
  <2>3. QED
    BY <2>1, <2>2
<1>4. QED
  BY Invariance, <1>1, <1>2, <1>3, PTL DEF Spec

\* The packets that core h has counted, or that answer something else.
DealtWith(h) ==
  {p \in PacketType : \A c \in Client(h) : Answers(p, c, clock[h]) => Aid(c) \in mask[h]}
TakenCounted == \A h \in Hosts : pc[h] = "replies" => taken[h] \in Seq(DealtWith(h))

LEMMA TakenCountedNext ==
  ASSUME FirstTime >= Window, Window < Word, IInv, TakenCounted, [Next]_vars
  PROVE  TakenCounted'
<1> USE Cores
<1>0. Shape /\ Timing /\ Traffic /\ CoreShape /\ MediumShape
  BY DEF IInv, Shape
<1> DEFINE Counted(h) == taken'[h] \in Seq(DealtWith(h)')
<1>1. ASSUME NEW h \in Hosts, pc'[h] = "replies" PROVE Counted(h)
  <2>1. CASE MP_SendCmd(h)
    <3>1. taken' = taken /\ clock'[h] = time /\ time \in Nat
      BY <1>0, <2>1 DEF MP_SendCmd, CoreShape
    <3>2. ASSUME NEW p \in Heard(h) PROVE p \in DealtWith(h)'
      <4>1. PICK s \in Slot : p \in Said(s)
        BY <1>0, HeardIsSaid
      <4>2. p.type = "Reply" => p.ts \in Nat /\ p.ts < time
        BY <4>1 DEF Said, Asked, Grid
      <4>3. p.type = "Reply" => p.ts # clock'[h]
        BY <3>1, <4>2
      <4>4. QED
        BY <4>1, <4>3 DEF Said, DealtWith, Answers
    <3>3. taken[h] \in Seq(Heard(h))
      BY <1>0 DEF Traffic
    <3>4. taken[h] \in Seq(DealtWith(h)')
      BY <3>2, <3>3, SeqMonotonic
    <3>5. QED
      BY <3>1, <3>4
  <2>2. CASE MP_SendAck(h) \/ RepliesEnd(h)
    BY <1>0, <1>1, <2>2 DEF MP_SendAck, RepliesEnd, AfterTimeout, CoreShape
  <2>3. CASE RepliesRound(h)
    <3> DEFINE p == Head(queue[h])
    <3>1. /\ queue[h] # <<>> /\ clock' = clock /\ pc[h] = "replies"
          /\ mask' = [mask EXCEPT ![h] = IF Counts(h, p) THEN mask[h] \cup {p.aid} ELSE mask[h]]
          /\ taken' = [taken EXCEPT ![h] = Append(taken[h], p)]
      BY <2>3 DEF RepliesRound, Takes
    <3>2. /\ mask'[h] = IF Counts(h, p) THEN mask[h] \cup {p.aid} ELSE mask[h]
          /\ taken'[h] = Append(taken[h], p)
      BY <1>0, <3>1 DEF CoreShape, MediumShape
    <3>3. p \in PacketType
      BY <3>1, TakenIsSaid
    <3> HIDE DEF p
    <3>4. DealtWith(h) \subseteq DealtWith(h)'
      BY <3>1, <3>2 DEF DealtWith
    <3>5. ASSUME NEW c \in Client(h), Answers(p, c, clock[h]) PROVE Aid(c) \in mask'[h]
      <4>1. p.type = "Reply" /\ p.aid = Aid(c) /\ p.ts = clock[h]
        BY <3>5 DEF Answers
      <4>2. clock[h] \in Nat /\ clock[h] < Word /\ clock[h] >= FirstTime
        BY <1>0, <3>1 DEF Timing, Asked, Grid
      <4>3. Window = 32 /\ FirstTime \in Nat
        BY MpAssumption DEF Window
      <4>4. clock[h] >= Window
        BY <4>2, <4>3
      <4>5. Minus(clock[h], Window) = clock[h] - Window
        BY <4>2, <4>4, WindowStart
      <4>6. Counts(h, p)
        BY <4>1, <4>2, <4>3, <4>5 DEF Counts
      <4>7. QED
        BY <3>2, <4>1, <4>6
    <3>6. p \in DealtWith(h)'
      BY <3>1, <3>3, <3>5 DEF DealtWith
    <3>7. taken[h] \in Seq(DealtWith(h)')
      BY <3>1, <3>4, SeqMonotonic DEF TakenCounted
    <3>8. Append(taken[h], p) \in Seq(DealtWith(h)')
      BY <3>6, <3>7, AppendProperties
    <3>9. QED
      BY <3>2, <3>8
  <2>4. CASE ~HostStep(h)
    <3>1. pc'[h] = pc[h] /\ clock'[h] = clock[h] /\ mask'[h] = mask[h]
          /\ (pc[h] = "replies" => taken'[h] = taken[h])
      BY <1>0, <1>1, <2>4, ExchangeRests DEF Exchanging
    <3>2. taken[h] \in Seq(DealtWith(h)) /\ taken'[h] = taken[h]
      BY <1>1, <3>1 DEF TakenCounted
    <3>3. DealtWith(h)' = DealtWith(h)
      BY <3>1 DEF DealtWith
    <3>4. QED
      BY <3>2, <3>3
  <2>5. QED
    BY <2>1, <2>2, <2>3, <2>4 DEF HostStep
<1>2. QED
  BY <1>1 DEF TakenCounted

\* MP_RecvReplies, a session being on, returns with every answer counted that has
\* reached the core, or with nobody missing: provided the first timestamp is past
\* the window, below which the subtraction wraps and no reply is new enough.
THEOREM AnswersCorrect ==
  ASSUME FirstTime >= Window, Window < Word
  PROVE  Spec => NoAnswerOverlooked
<1> USE Cores
<1> DEFINE Returns(h) == pc[h] = "replies" /\ pc'[h] = "ack"
           Complete(h) == \/ AidMask(h) \subseteq mask'[h]
                          \/ ~ready[h]
                          \/ \A c \in Client(h), k \in DOMAIN got[h] :
                               Answers(Arrived(h)[k], c, clock[h]) => Aid(c) \in mask'[h]
           AllComplete == \A h \in Hosts : Returns(h) => Complete(h)
<1>1. Init => TakenCounted
  BY DEF Init, TakenCounted
<1>2. IInv /\ TakenCounted /\ [Next]_vars => TakenCounted'
  BY TakenCountedNext
<1>3. IInv /\ TakenCounted /\ [Next]_vars => [AllComplete]_vars
  <2> SUFFICES ASSUME IInv, TakenCounted, [Next]_vars, NEW h \in Hosts, Returns(h)
               PROVE  Complete(h)
    OBVIOUS
  <2>1. CASE RepliesRound(h)
    <3>1. pc' = [pc EXCEPT ![h] = IF Stops(h, Head(queue[h]), mask'[h]) THEN "ack" ELSE pc[h]]
      BY <2>1 DEF RepliesRound
    <3>2. Stops(h, Head(queue[h]), mask'[h])
      BY <3>1 DEF IInv, Shape, CoreShape
    <3>3. QED
      BY <3>2 DEF Stops
  <2>2. CASE RepliesEnd(h) /\ ready[h]
    <3>1. queue[h] = <<>> /\ mask' = mask /\ pc[h] = "replies"
      BY <2>2 DEF RepliesEnd, TimesOut, NoSession
    <3>2. taken[h] \o <<>> = Arrived(h) /\ taken[h] \in Seq(DealtWith(h))
      BY <3>1 DEF IInv, QueueIsFifo, TakenCounted
    <3>3. Arrived(h) \in Seq(DealtWith(h))
      BY <3>2, ConcatEmptySeq
    <3>4. \A k \in DOMAIN got[h] : Arrived(h)[k] \in DealtWith(h)
      <4>1. DOMAIN Arrived(h) = DOMAIN got[h]
        BY DEF Arrived
      <4>2. QED
        BY <3>3, <4>1, ElementOfSeq, LenProperties
    <3>5. QED
      BY <3>1, <3>4 DEF DealtWith
  <2>3. CASE RepliesEnd(h) /\ ~ready[h]
    BY <2>3
  <2>4. CASE MP_SendCmd(h) \/ MP_SendAck(h)
    BY <2>4 DEF MP_SendCmd, MP_SendAck
  <2>5. CASE ~HostStep(h)
    BY <2>5, ExchangeRests DEF IInv, Exchanging
  <2>6. QED
    BY <2>1, <2>2, <2>3, <2>4, <2>5 DEF HostStep
<1>4. Spec => [][AllComplete]_vars
  <2> HIDE DEF AllComplete
  <2>1. QED
    BY Invariance, <1>1, <1>2, <1>3, PTL DEF Spec
<1>5. QED
  BY <1>4 DEF NoAnswerOverlooked

-----------------------------------------------------------------------------
(* The medium *)

\* A core never knows itself as its host.
LEMMA HostIsAnother ==
  ASSUME IInv, NEW c \in Slot
  PROVE  hostId[c] \in (Slot \ {c}) \cup {NoHost}
<1>1. Len(got[c]) \in Nat /\ since[c] \in Nat
      /\ \A j \in 1..Len(got[c]) : got[c][j].src \in Slot \ {c}
  BY ArrivedShape DEF IInv, Shape, CoreShape
<1>2. \A j \in since[c] + 1..Len(got[c]) : j \in 1..Len(got[c])
  BY <1>1
<1>3. QED
  BY <1>1, <1>2 DEF IInv, HostKnown

\* Every step uses the medium as the room provides it, or leaves it alone.
LEMMA MediumStep == IInv /\ [Next]_vars => [Medium!Next]_(Medium!switchVars)
<1> SUFFICES ASSUME IInv, [Next]_vars
             PROVE  Medium!Next \/ UNCHANGED <<sent, got>>
  BY DEF Medium!switchVars
<1>0. Shape /\ Timing
  BY DEF IInv
<1>1. ASSUME NEW c \in Slot, NEW p \in PacketType, Sends(c, p)
      PROVE  Medium!Next \/ UNCHANGED <<sent, got>>
  <2>1. CASE UNCHANGED <<sent, got>>
    BY <2>1
  <2>2. ASSUME NEW d \in Slot \cup {Broadcast}, got' = got,
               sent' = [sent EXCEPT ![c] = Append(sent[c], d)],
               d = IF p.type = "Reply" /\ hostId[c] # NoHost THEN hostId[c] ELSE Broadcast
        PROVE  Medium!Next
    <3>1. d \in (Slot \ {c}) \cup {Broadcast}
      BY <2>2, HostIsAnother
    <3>2. Medium!Send(c)
      BY <2>2, <3>1 DEF Medium!Send
    <3>3. QED
      BY <3>2 DEF Medium!Next
  <2>3. QED
    BY <1>0, <1>1, <2>1, <2>2, SentPacket DEF Sends
<1>2. ASSUME NEW c \in Slot, TakesOne(c) PROVE UNCHANGED <<sent, got>>
  BY <1>2 DEF TakesOne, mediumVars
<1>3. ASSUME NEW c \in Slot, NEW s \in Slot, NEW i \in DOMAIN sent[s], PacketReceived(c, s, i)
      PROVE  Medium!Next
  BY <1>3 DEF PacketReceived, Medium!Next
<1>4. QED
  BY <1>0, <1>1, <1>2, <1>3, StepKinds DEF Silent

\* The cores only ask of the medium what the room's switch gives: no core sends to
\* itself, and what one receives another sent to it, in order and at most once.
THEOREM MediumCorrect == Spec => Medium!Spec
<1>1. Init => Medium!Init
  BY DEF Init
<1>2. QED
  BY Invariance, <1>1, MediumStep, PTL DEF Spec, Medium!Spec
=============================================================================
