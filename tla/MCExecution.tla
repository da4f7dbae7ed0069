---------------------------- MODULE MCExecution ----------------------------
(* Execution.tla with the exit codes that matter: success, failure and the code of timeouts. *)
EXTENDS Execution

MCExitCodes == {0, 3, 124}
=============================================================================
