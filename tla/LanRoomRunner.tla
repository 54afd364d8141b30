---------------------------- MODULE LanRoomRunner ----------------------------
(***************************************************************************)
(* The native room runner, container/runner/lan_room_runner.c: a parent    *)
(* process forks one child per player, each child runs one libretro core,  *)
(* and the parent switches netpackets between the children over blocking   *)
(* socket pairs until every child has gone.                                *)
(*                                                                         *)
(* up[s] is the stream from child s to the parent, down[s] the stream from *)
(* the parent to child s, in whole messages: write_all and recv_exact      *)
(* finish a message or fail.  A write to a full stream blocks, that is, it *)
(* stays disabled.  A write to a stream nobody can read raises SIGPIPE,    *)
(* which the program neither ignores nor handles.                          *)
(***************************************************************************)
EXTENDS Integers, Sequences, FiniteSets

CONSTANTS
  Players,     \* cfg.players
  Frames,      \* cfg.frames, 0 for no limit
  GamePackets, \* bound: core s starts no packet once GamePackets[s] were sent
  SocketCap,   \* bound: messages one direction of a socket pair holds
  Probe,       \* FALSE when MELONDS_RUNNER_NO_PROBE is set
  Faults       \* the failures of the environment this instance allows

ASSUME RoomAssumption ==
  /\ Players \in Nat \ {0}
  /\ Frames \in Nat
  /\ GamePackets \in [1..Players -> Nat]
  /\ SocketCap \in Nat \ {0}
  /\ Probe \in BOOLEAN
  /\ Faults \subseteq {"boot_fails", "crash", "fork_fails", "parent_dies", "sigterm"}

Slot == 1..Players
Broadcast == 65535          \* RETRO_NETPACKET_BROADCAST
NoSlot == 0
Signalled == 2              \* ~WIFEXITED(status)
Dest == Slot \cup {Broadcast}

ASSUME BroadcastAssumption == Broadcast \notin Slot

VARIABLES
  \* the parent
  phase,        \* its place in run_parent
  forked,       \* children forked so far
  alive,        \* players[i].alive, which is also players[i].fd >= 0
  ready,        \* players[i].ready
  child_stats,  \* players[i].child_stats, NoStats until a STATS arrives
  routed,       \* players[i].routed_packets
  reaped,       \* children whose status the WNOHANG branch consumed
  alive_count, probe_sent,
  readable,     \* slots whose revents of the last poll are still to be handled
  hup,          \* slots whose revents hold POLLHUP
  cur,          \* the player whose event is being handled
  out_msg, out_to, \* the message being written and the slots still to get it
  exit_code,
  \* the sockets
  up, down,
  \* the children
  cpc,          \* place in run_child
  rc,           \* run_child's rc, Signalled when a signal ended the process
  frame, shutdown_requested,
  sending,      \* destination of the packet child_send_cb is writing
  sent,         \* history: destinations of the packets written (stats.sent_packets)
  got           \* history: the packets given to the core (stats.received_packets)

parentVars == <<phase, forked, alive, ready, child_stats, routed, reaped,
                alive_count, probe_sent, readable, hup, cur, out_msg, out_to,
                exit_code>>
childVars == <<cpc, rc, frame, shutdown_requested, sending, sent, got>>
vars == <<parentVars, up, down, childVars>>

------------------------------------------------------------------------------
(* Messages *)

StatsType == [sent : Nat, received : Nat]
NoStats == [sent |-> 0, received |-> 0]
Message == [type : {"PACKET", "STATS", "READY", "PROBE_SEND"}, src : Slot \cup {NoSlot},
            dst : Dest \cup {NoSlot}, id : Nat, stats : StatsType]

\* A packet's payload is its number in its sender's history.
Packet(s, d, n) ==
  [type |-> "PACKET", src |-> s, dst |-> d, id |-> n, stats |-> NoStats]
ReadyMsg(s) ==
  [type |-> "READY", src |-> s, dst |-> NoSlot, id |-> 0, stats |-> NoStats]
ProbeMsg ==
  [type |-> "PROBE_SEND", src |-> NoSlot, dst |-> Broadcast, id |-> 0, stats |-> NoStats]
StatsMsg(s, st) ==
  [type |-> "STATS", src |-> s, dst |-> NoSlot, id |-> 0, stats |-> st]

------------------------------------------------------------------------------
(* Processes and sockets *)

ParentGone == phase \in {"done", "failed", "killed"}

Running(s) == cpc[s] \notin {"unborn", "exited"}

\* Somebody holds the parent's end of socket pair s: the parent until it
\* closes it or ends, and every child forked later, which inherited it.
Held(s) ==
  \/ alive[s] /\ ~ParentGone
  \/ \E j \in Slot : j > s /\ Running(j)

\* Child s ends with status r; its own end closes and unread data is gone.
Ends(s, r) ==
  /\ cpc' = [cpc EXCEPT ![s] = "exited"]
  /\ rc' = [rc EXCEPT ![s] = r]
  /\ down' = [down EXCEPT ![s] = <<>>]
  /\ sending' = [sending EXCEPT ![s] = NoSlot]

\* send_message on a child's socket.
ChildWrites(s, m) ==
  /\ Held(s)
  /\ Len(up[s]) < SocketCap
  /\ up' = [up EXCEPT ![s] = Append(@, m)]

------------------------------------------------------------------------------
(* The parent: run_parent *)

Init ==
  /\ phase = "fork" /\ forked = 0
  /\ alive = [s \in Slot |-> FALSE]
  /\ ready = [s \in Slot |-> FALSE]
  /\ child_stats = [s \in Slot |-> NoStats]
  /\ routed = [s \in Slot |-> 0]
  /\ reaped = {}
  /\ alive_count = 0 /\ probe_sent = FALSE
  /\ readable = {} /\ hup = {} /\ cur = NoSlot
  /\ out_msg = ProbeMsg /\ out_to = {}
  /\ exit_code = 0
  /\ up = [s \in Slot |-> <<>>]
  /\ down = [s \in Slot |-> <<>>]
  /\ cpc = [s \in Slot |-> "unborn"]
  /\ rc = [s \in Slot |-> 1]
  /\ frame = [s \in Slot |-> 0]
  /\ shutdown_requested = [s \in Slot |-> FALSE]
  /\ sending = [s \in Slot |-> NoSlot]
  /\ sent = [s \in Slot |-> <<>>]
  /\ got = [s \in Slot |-> <<>>]

\* One round of the fork loop.  The parent keeps its ends of all earlier
\* pairs, so the new child inherits them; alive_count is set after the last.
ForkPlayer ==
  /\ phase = "fork" /\ forked < Players
  /\ LET s == forked + 1 IN
       /\ forked' = s
       /\ alive' = [alive EXCEPT ![s] = TRUE]
       /\ cpc' = [cpc EXCEPT ![s] = "boot"]
       /\ phase' = IF s = Players THEN "poll" ELSE "fork"
       /\ alive_count' = IF s = Players THEN Players ELSE 0
  /\ UNCHANGED <<ready, child_stats, routed, reaped, probe_sent, readable, hup, cur,
                 out_msg, out_to, exit_code, up, down, rc, frame,
                 shutdown_requested, sending, sent, got>>

\* socketpair or fork fails: main returns 1 and the children so far remain.
ForkFails ==
  /\ "fork_fails" \in Faults
  /\ phase = "fork"
  /\ phase' = "failed" /\ exit_code' = 1
  /\ UNCHANGED <<forked, alive, ready, child_stats, routed, reaped, alive_count,
                 probe_sent, readable, hup, cur, out_msg, out_to, up, down, childVars>>

\* poll returns: some stream is readable or hung up, or 500 ms went by.  What
\* it reports is a snapshot; an ended child is both readable and hung up.
PollReturns ==
  /\ phase = "poll" /\ alive_count > 0
  /\ hup' = {s \in Slot : alive[s] /\ cpc[s] = "exited"}
  /\ readable' = hup' \cup {s \in Slot : alive[s] /\ up[s] # <<>>}
  /\ phase' = "scan"
  /\ UNCHANGED <<forked, alive, ready, child_stats, routed, reaped, alive_count,
                 probe_sent, cur, out_msg, out_to, exit_code, up, down, childVars>>

\* route_packet and deliver_packet: the slots a packet of s to d is written to.
TargetsUpward(s, d) ==                 \* the broadcast loop starts at the source
  {t \in Slot : t > s /\ alive[t] /\ (d = Broadcast \/ d = t)}
Targets(s, d) ==
  {t \in Slot : t # s /\ alive[t] /\ (d = Broadcast \/ d = t)}

\* maybe_send_probe's early returns.
ProbeDue(nowReady) ==
  Probe /\ ~probe_sent /\ \A s \in Slot : nowReady[s]

\* recv_message takes one message off player s's stream.
TakeMessage(s) == up' = [up EXCEPT ![s] = Tail(@)]

\* A STATS message replaces what is known of player s.
StoreStatsMutant(s, m) ==              \* map[n] forgotten: n counts open players
  LET n == Cardinality({r \in 1..s : alive[r]}) IN
    child_stats' = [child_stats EXCEPT ![n] = IF m.type = "STATS" THEN m.stats ELSE @]
StoreStats(s, m) ==
  child_stats' = [child_stats EXCEPT ![s] = IF m.type = "STATS" THEN m.stats ELSE @]

\* The event loop reaches player s, lowest slot first: exactly one message is
\* read, and what has to be written for it is left in out_msg and out_to.  End
\* of file counts as a hang-up.
HandleEvent(s) ==
  /\ phase = "scan" /\ s \in readable
  /\ \A r \in readable : s <= r
  /\ cur' = s /\ phase' = "write"
  /\ IF up[s] = <<>>
     THEN /\ hup' = hup \cup {s}
          /\ UNCHANGED <<up, ready, child_stats, probe_sent, out_msg, out_to>>
     ELSE LET m == Head(up[s]) IN
          /\ TakeMessage(s)
          /\ ready' = [ready EXCEPT ![s] = @ \/ m.type = "READY"]
          /\ StoreStats(s, m)
          /\ CASE m.type = "READY" /\ ProbeDue(ready') ->
                    out_msg' = ProbeMsg /\ out_to' = Slot /\ probe_sent' = TRUE
               [] m.type = "PACKET" ->
                    /\ out_msg' = [m EXCEPT !.src = s]
                    /\ out_to' = Targets(s, m.dst)
                    /\ UNCHANGED probe_sent
               [] OTHER -> UNCHANGED <<out_msg, out_to, probe_sent>>
          /\ UNCHANGED hup
  /\ UNCHANGED <<forked, alive, routed, reaped, alive_count, readable, exit_code,
                 down, childVars>>

\* The loops over the players go on behind slot t.
RemainingMutant(t) == out_to           \* the loop index is not advanced
Remaining(t) == out_to \ {t}

\* One send_message of route_packet or maybe_send_probe, to the lowest slot
\* left.  A closed player's fd is -1 and the write just fails; a player that
\* ended since poll returned raises SIGPIPE and takes the parent with it.
ParentWrites(t) ==
  /\ phase = "write" /\ t \in out_to
  /\ \A u \in out_to : t <= u
  /\ out_to' = Remaining(t)
  /\ IF ~alive[t]
     THEN UNCHANGED <<phase, down, routed>>
     ELSE IF cpc[t] = "exited"
     THEN phase' = "killed" /\ UNCHANGED <<down, routed>>
     ELSE /\ Len(down[t]) < SocketCap
          /\ down' = [down EXCEPT ![t] = Append(@, out_msg)]
          /\ routed' = [routed EXCEPT ![t] = IF out_msg.type = "PACKET" THEN @ + 1 ELSE @]
          /\ UNCHANGED phase
  /\ UNCHANGED <<forked, alive, ready, child_stats, reaped, alive_count, probe_sent,
                 readable, hup, cur, out_msg, exit_code, up, childVars>>

\* close(fd), fd = -1, alive = false, alive_count--; unread messages are lost.
CloseMutant(S) ==                      \* alive is left set
  /\ UNCHANGED alive
  /\ alive_count' = alive_count - Cardinality(S)
  /\ up' = [s \in Slot |-> IF s \in S THEN <<>> ELSE up[s]]
CloseUncounted(S) ==                   \* alive_count is not decremented
  /\ alive' = [s \in Slot |-> alive[s] /\ s \notin S]
  /\ UNCHANGED alive_count
  /\ up' = [s \in Slot |-> IF s \in S THEN <<>> ELSE up[s]]
Close(S) ==
  /\ alive' = [s \in Slot |-> alive[s] /\ s \notin S]
  /\ alive_count' = alive_count - Cardinality(S)
  /\ up' = [s \in Slot |-> IF s \in S THEN <<>> ELSE up[s]]

\* The player's event is done; a hang-up closes it, whatever is still unread.
FinishEvent ==
  /\ phase = "write" /\ out_to = {}
  /\ phase' = "scan"
  /\ readable' = readable \ {cur}
  /\ Close(hup \cap {cur})
  /\ UNCHANGED <<forked, ready, child_stats, routed, reaped, probe_sent, hup, cur, out_msg,
                 out_to, exit_code, down, childVars>>

\* The waitpid(WNOHANG) pass.  It visits the players one by one, but children
\* end independently of each other, so one instant sees what the pass sees.
Reap ==
  /\ phase = "scan" /\ readable = {}
  /\ LET dead == {s \in Slot : alive[s] /\ cpc[s] = "exited"} IN
       /\ Close(dead)
       /\ reaped' = reaped \cup dead
  /\ phase' = "poll"
  /\ UNCHANGED <<forked, ready, child_stats, routed, probe_sent, readable, hup, cur, out_msg,
                 out_to, exit_code, down, childVars>>

\* The final waitpid pass and the exit code.  waitpid on a child reaped before
\* answers ECHILD, which is not counted as a failure.
Finish ==
  /\ phase = "poll" /\ alive_count = 0
  /\ \A s \in Slot : cpc[s] = "exited"
  /\ phase' = "done"
  /\ exit_code' = IF \E s \in Slot \ reaped : rc[s] # 0 THEN 1 ELSE 0
  /\ UNCHANGED <<forked, alive, ready, child_stats, routed, reaped, alive_count, probe_sent,
                 readable, hup, cur, out_msg, out_to, up, down, childVars>>

------------------------------------------------------------------------------
(* The children: run_child *)

\* Core loaded and netpacket started; READY is written.
BootOk(s) ==
  /\ cpc[s] = "boot"
  /\ ChildWrites(s, ReadyMsg(s))
  /\ cpc' = [cpc EXCEPT ![s] = "poll1"]
  /\ UNCHANGED <<parentVars, down, rc, frame, shutdown_requested, sending, sent, got>>

\* A directory, the ROM, the core or the game cannot be loaded, or the core
\* has no netpacket interface: goto done with rc = 1.
BootFails(s) ==
  /\ "boot_fails" \in Faults
  /\ cpc[s] = "boot"
  /\ cpc' = [cpc EXCEPT ![s] = "fail"]
  /\ UNCHANGED <<parentVars, up, down, rc, frame, shutdown_requested, sending, sent, got>>

Polling(s) == cpc[s] \in {"poll1", "runpoll", "poll2"} /\ sending[s] = NoSlot

\* One message of child_poll_receive_cb's loop.
ChildReceives(s) ==
  /\ Polling(s) /\ down[s] # <<>>
  /\ LET m == Head(down[s]) IN
       /\ down' = [down EXCEPT ![s] = Tail(@)]
       /\ sending' = [sending EXCEPT ![s] = IF m.type = "PROBE_SEND" THEN m.dst ELSE @]
       /\ got' = [got EXCEPT ![s] = IF m.type = "PACKET" THEN Append(@, m) ELSE @]
  /\ UNCHANGED <<parentVars, up, cpc, rc, frame, shutdown_requested, sent>>

\* The frame loop's condition after frame f.
MoreFrames(f, shutdown) == (Frames = 0 \/ f < Frames) /\ ~shutdown

\* recv_message finds the end of file once nobody holds the other end.
EndOfFileMutant(s) == FALSE            \* a failed recv_message just returns
EndOfFile(s) == ~Held(s)

\* poll finds nothing, or the end of file asks for a shutdown.  The second poll
\* of a frame ends the frame.
PollEnds(s) ==
  /\ Polling(s) /\ down[s] = <<>>
  /\ shutdown_requested' = [shutdown_requested EXCEPT ![s] = @ \/ EndOfFile(s)]
  /\ LET f == IF Frames = 0 THEN 0 ELSE frame[s] + 1 IN
       IF cpc[s] = "poll2"
       THEN /\ frame' = [frame EXCEPT ![s] = f]
            /\ cpc' = [cpc EXCEPT ![s] =
                         IF MoreFrames(f, shutdown_requested'[s]) THEN "poll1" ELSE "stop"]
       ELSE cpc' = [cpc EXCEPT ![s] = "run"] /\ UNCHANGED frame
  /\ UNCHANGED <<parentVars, up, down, rc, sending, sent, got>>

Executing(s) == cpc[s] = "run" /\ sending[s] = NoSlot

\* Inside retro_run the core hands a packet to child_send_cb.
CoreSends(s) ==
  /\ Executing(s) /\ Len(sent[s]) < GamePackets[s]
  /\ \E d \in Dest \ {s} : sending' = [sending EXCEPT ![s] = d]
  /\ UNCHANGED <<parentVars, up, down, cpc, rc, frame, shutdown_requested, sent, got>>

\* Inside retro_run the core waits for packets and calls the poll function.
CorePolls(s) ==
  /\ Executing(s)
  /\ cpc' = [cpc EXCEPT ![s] = "runpoll"]
  /\ UNCHANGED <<parentVars, up, down, rc, frame, shutdown_requested, sending, sent, got>>

CoreReturns(s) ==
  /\ Executing(s)
  /\ cpc' = [cpc EXCEPT ![s] = "poll2"]
  /\ UNCHANGED <<parentVars, up, down, rc, frame, shutdown_requested, sending, sent, got>>

\* child_send_cb: a packet counts as sent once it is written.
ChildSends(s) ==
  /\ sending[s] # NoSlot
  /\ ChildWrites(s, Packet(s, sending[s], Len(sent[s]) + 1))
  /\ sent' = [sent EXCEPT ![s] = Append(@, sending[s])]
  /\ sending' = [sending EXCEPT ![s] = NoSlot]
  /\ UNCHANGED <<parentVars, down, cpc, rc, frame, shutdown_requested, got>>

\* netpacket.stop and send_child_stats; rc becomes 0 unless boot failed.
WriteStats(s) ==
  /\ cpc[s] \in {"stop", "fail"}
  /\ ChildWrites(s, StatsMsg(s, [sent |-> Len(sent[s]), received |-> Len(got[s])]))
  /\ rc' = [rc EXCEPT ![s] = IF cpc[s] = "stop" THEN 0 ELSE 1]
  /\ cpc' = [cpc EXCEPT ![s] = "unload"]
  /\ UNCHANGED <<parentVars, down, frame, shutdown_requested, sending, sent, got>>

\* A write after the last holder of the other end has gone.
ChildSigpipe(s) ==
  /\ cpc[s] \in {"boot", "stop", "fail"} \/ sending[s] # NoSlot
  /\ Running(s) /\ ~Held(s)
  /\ Ends(s, Signalled)
  /\ UNCHANGED <<parentVars, up, frame, shutdown_requested, sent, got>>

\* retro_unload_game, retro_deinit, close, _exit.
ChildExits(s) ==
  /\ cpc[s] = "unload"
  /\ Ends(s, rc[s])
  /\ UNCHANGED <<parentVars, up, frame, shutdown_requested, sent, got>>

------------------------------------------------------------------------------
(* The environment *)

\* A child dies in the core: an assertion, a fault, the OOM killer.
Crash(s) ==
  /\ "crash" \in Faults
  /\ Running(s)
  /\ Ends(s, Signalled)
  /\ UNCHANGED <<parentVars, up, frame, shutdown_requested, sent, got>>

\* Something kills the parent alone.
ParentDies ==
  /\ "parent_dies" \in Faults
  /\ ~ParentGone
  /\ phase' = "killed"
  /\ UNCHANGED <<forked, alive, ready, child_stats, routed, reaped, alive_count, probe_sent,
                 readable, hup, cur, out_msg, out_to, exit_code, up, down, childVars>>

\* The room server signals the whole process group; no process handles it.
Sigterm ==
  /\ "sigterm" \in Faults
  /\ ~ParentGone
  /\ phase' = "killed"
  /\ cpc' = [s \in Slot |-> IF Running(s) THEN "exited" ELSE cpc[s]]
  /\ rc' = [s \in Slot |-> IF Running(s) THEN Signalled ELSE rc[s]]
  /\ down' = [s \in Slot |-> <<>>]
  /\ sending' = [s \in Slot |-> NoSlot]
  /\ UNCHANGED <<forked, alive, ready, child_stats, routed, reaped, alive_count, probe_sent,
                 readable, hup, cur, out_msg, out_to, exit_code, up, frame,
                 shutdown_requested, sent, got>>

RoomOver == ParentGone /\ \A s \in Slot : ~Running(s)

\* Nothing is left to run.  Any other state without a successor is a standoff.
Over == RoomOver /\ UNCHANGED vars

------------------------------------------------------------------------------

ParentStep ==
  \/ ForkPlayer \/ PollReturns \/ FinishEvent \/ Reap \/ Finish
  \/ \E s \in Slot : HandleEvent(s) \/ ParentWrites(s)

ChildStep(s) ==
  \/ BootOk(s) \/ BootFails(s) \/ ChildReceives(s) \/ PollEnds(s)
  \/ CoreSends(s) \/ CorePolls(s) \/ CoreReturns(s) \/ ChildSends(s)
  \/ WriteStats(s) \/ ChildSigpipe(s) \/ ChildExits(s)

Fault == ForkFails \/ ParentDies \/ Sigterm \/ \E s \in Slot : Crash(s)

Next == ParentStep \/ Fault \/ Over \/ \E s \in Slot : ChildStep(s)

Spec == Init /\ [][Next]_vars

\* Every process that can run does, and retro_run returns although it may poll
\* again and again: each blocking receive gives up after 25 ms (net/mp.cpp).
FairSpec ==
  /\ Spec
  /\ WF_vars(ParentStep)
  /\ \A s \in Slot : WF_vars(ChildStep(s)) /\ SF_vars(CoreReturns(s))

------------------------------------------------------------------------------
(* Properties *)

TypeOK ==
  /\ phase \in {"fork", "poll", "scan", "write", "done", "failed", "killed"}
  /\ forked \in 0..Players
  /\ alive \in [Slot -> BOOLEAN] /\ ready \in [Slot -> BOOLEAN]
  /\ child_stats \in [Slot -> StatsType] /\ routed \in [Slot -> Nat]
  /\ reaped \subseteq Slot
  /\ alive_count \in Nat /\ probe_sent \in BOOLEAN
  /\ readable \subseteq Slot /\ hup \subseteq Slot /\ cur \in Slot \cup {NoSlot}
  /\ out_msg \in Message /\ out_to \subseteq Slot
  /\ exit_code \in {0, 1}
  /\ up \in [Slot -> Seq(Message)] /\ down \in [Slot -> Seq(Message)]
  /\ cpc \in [Slot -> {"unborn", "boot", "poll1", "run", "runpoll", "poll2", "stop",
                       "fail", "unload", "exited"}]
  /\ rc \in [Slot -> {0, 1, Signalled}]
  /\ frame \in [Slot -> Nat] /\ shutdown_requested \in [Slot -> BOOLEAN]
  /\ sending \in [Slot -> Dest \cup {NoSlot}]
  /\ sent \in [Slot -> Seq(Dest)] /\ got \in [Slot -> Seq(Message)]

\* A message in a stream or a history that is not a game packet has no number.
Older(p, q) ==
  (p.type = "PACKET" /\ q.type = "PACKET" /\ p.src = q.src) => p.id < q.id
Sorted(q) == \A i, j \in DOMAIN q : i < j => Older(q[i], q[j])
Before(p, q) == \A i \in DOMAIN p, j \in DOMAIN q : Older(p[i], q[j])

\* Between a sender and a receiver packets keep their order and are never
\* doubled, wherever they are: received by the core, in the receiver's stream,
\* in the parent's hands (route_packet) or still in the sender's stream.
InOrderOnce ==
  \A t \in Slot :
    /\ Sorted(got[t]) /\ Sorted(down[t]) /\ Sorted(up[t]) /\ Before(got[t], down[t])
    /\ \A s \in Slot : Before(got[t], up[s]) /\ Before(down[t], up[s])
    /\ t \in out_to =>
         /\ Before(got[t], <<out_msg>>) /\ Before(down[t], <<out_msg>>)
         /\ \A s \in Slot : Before(<<out_msg>>, up[s])

Holds(q, s, i) == \E k \in DOMAIN q : q[k].type = "PACKET" /\ q[k].src = s /\ q[k].id = i

\* No packet is lost while its sender is connected and its receiver runs: it
\* is received, in one of the two streams, or being written by the parent.
NothingLostWhileConnected ==
  \A s, t \in Slot : \A i \in DOMAIN sent[s] :
    (s # t /\ sent[s][i] \in {t, Broadcast} /\ alive[s] /\ cpc[t] # "exited" /\ ~ParentGone)
      => \/ Holds(got[t], s, i) \/ Holds(down[t], s, i) \/ Holds(up[s], s, i)
         \/ t \in out_to /\ Holds(<<out_msg>>, s, i)

\* The loop counter of run_parent is the number of players it still serves, and
\* it gives up a player only after that child ended: the final waitpid pass
\* cannot hang on a child nobody reads from.
AliveCountAgrees ==
  forked = Players =>
    /\ alive_count = Cardinality({s \in Slot : alive[s]})
    /\ \A s \in Slot : alive[s] \/ cpc[s] = "exited"

\* The totals of the summary are each child's last word: after its STATS
\* arrived a child neither sends nor receives (send_child_stats comes after
\* netpacket.stop), and it received no more than was routed to it.
StatsAreFinal ==
  \A s \in Slot : child_stats[s] # NoStats =>
    /\ child_stats[s] = [sent |-> Len(sent[s]), received |-> Len(got[s])]
    /\ Len(got[s]) <= routed[s]

\* Ordered, lossy broadcast is what the cores are promised.
Switch == INSTANCE PacketSwitch WITH
  got <- [t \in Slot |-> [k \in DOMAIN got[t] |->
            [src |-> got[t][k].src, id |-> got[t][k].id]]]
SwitchSpec == Switch!Spec

\* With a frame limit the room ends by itself, whichever children crash or fail
\* to boot: no process waits for another for ever.
RoomEnds == <>RoomOver

\* However the parent ends, no child outlives it for ever.  The end of file
\* reaches the last child first, since later children hold the earlier ones'
\* sockets (the descriptors inherited over fork).
OrphansEnd == ParentGone ~> RoomOver

\* Once the probes are injected, each core receives every other core's probe,
\* unless a process ends first.
ProbeRoundTrip ==
  probe_sent ~> \/ \A t \in Slot : Len(got[t]) >= Players - 1
                \/ ParentGone \/ \E s \in Slot : cpc[s] = "exited"
=============================================================================
