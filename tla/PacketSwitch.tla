---------------------------- MODULE PacketSwitch ----------------------------
(***************************************************************************)
(* What the room's netpacket switch promises the cores it connects: an     *)
(* unreliable but ordered broadcast medium.  A packet reaches only slots   *)
(* it was addressed to, never its own sender, at most once, and packets of *)
(* one sender reach one receiver in the order they were sent.  Any packet  *)
(* may be lost.  LanRoomRunner implements this with processes and sockets. *)
(***************************************************************************)
EXTENDS Integers, Sequences

CONSTANTS
  Slot,       \* the players of the room
  Broadcast   \* the destination that names every other slot

VARIABLES
  sent,       \* sent[s]: destinations of the packets s sent, in order
  got         \* got[t]: the packets t received, [src, id], in order

switchVars == <<sent, got>>

\* A packet sent to d is meant for slot t.
Reaches(d, t) == d \in {t, Broadcast}

Init ==
  /\ sent = [s \in Slot |-> <<>>]
  /\ got = [s \in Slot |-> <<>>]

Send(s) ==
  /\ \E d \in (Slot \ {s}) \cup {Broadcast} :
        sent' = [sent EXCEPT ![s] = Append(@, d)]
  /\ UNCHANGED got

\* The i-th packet of s arrives at t: it was meant for t, and nothing that s
\* sent later, nor the packet itself, has arrived there already.
Receive(s, t, i) ==
  /\ s # t
  /\ Reaches(sent[s][i], t)
  /\ \A k \in DOMAIN got[t] : got[t][k].src = s => got[t][k].id < i
  /\ got' = [got EXCEPT ![t] = Append(@, [src |-> s, id |-> i])]
  /\ UNCHANGED sent

Next ==
  \/ \E s \in Slot : Send(s)
  \/ \E s, t \in Slot : \E i \in DOMAIN sent[s] : Receive(s, t, i)

Spec == Init /\ [][Next]_switchVars
=============================================================================
