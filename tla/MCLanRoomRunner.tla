-------------------------- MODULE MCLanRoomRunner --------------------------
(***************************************************************************)
(* Instances of LanRoomRunner for TLC: how many packets each core may      *)
(* send, and what the repository's documents say of a run.                 *)
(***************************************************************************)
EXTENDS LanRoomRunner

NoPackets == [s \in 1..Players |-> 0]
OneFromFirst == [s \in 1..Players |-> IF s = 1 THEN 1 ELSE 0]

------------------------------------------------------------------------------
(* What the documents and the program's own report say *)

\* lan_room_runner.c reports failure exactly when a child exited with an error
\* or was killed.
FailuresReported ==
  phase = "done" => (exit_code = 1 <=> \E s \in Slot : rc[s] # 0)
=============================================================================
