----------------------------- MODULE MCMpState -----------------------------
(***************************************************************************)
(* Instances of MpState for TLC: hosts and clients on a lossy medium.      *)
(***************************************************************************)
EXTENDS MpState

\* Timestamps in the instances stay far below this; a subtraction that wraps
\* lands above all of them, as it does with 2^64.
SmallWord == 65536

NoOthers == [c \in Slot |-> 0]
OneFromClient == [c \in Slot |-> IF c = 2 THEN 1 ELSE 0]

\* Switches: one session stops and starts again, the others go on.
LastRestarts == [c \in Slot |-> IF c = 3 THEN 3 ELSE 1]
FirstRestarts == [c \in Slot |-> IF c = 1 THEN 3 ELSE 1]

\* Arrivals: where the packets of interest go.
ToClients == <<0, 2, 4>>
ToHost == <<3, 1, 1>>
=============================================================================
