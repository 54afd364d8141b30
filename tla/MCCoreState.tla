---------------------------- MODULE MCCoreState ----------------------------
(* Instance of CoreState for TLC. *)
EXTENDS CoreState
=============================================================================
