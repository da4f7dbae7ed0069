---------------------------- MODULE MCLaunchdDev ----------------------------
(***************************************************************************)
(* LaunchdDev.tla with a terminal and the supervisor.                      *)
(***************************************************************************)
EXTENDS LaunchdDev, TLC

Symmetry == Permutations(Handlers)
=============================================================================
