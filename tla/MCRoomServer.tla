---------------------------- MODULE MCRoomServer ----------------------------
(***************************************************************************)
(* Instance of RoomServer for TLC: players and inputs are interchangeable. *)
(***************************************************************************)
EXTENDS RoomServer
=============================================================================
