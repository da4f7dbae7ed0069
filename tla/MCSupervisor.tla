---------------------------- MODULE MCSupervisor ----------------------------
(* Supervisor.tla for TLC. *)
EXTENDS Supervisor
=============================================================================
