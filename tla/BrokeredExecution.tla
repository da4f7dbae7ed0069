------------------------- MODULE BrokeredExecution -------------------------
(***************************************************************************)
(* What a broker promises of each request, whatever brokers serve it and   *)
(* however they fail: a command is started at most once and only before    *)
(* the client has been answered; what was refused, or found no broker, has *)
(* not run and never will; success is reported only when a record of it is *)
(* in the ledger, the part of the audit log that survives everything; and  *)
(* the ledger only grows, by records that are true.  Broker.tla is shown   *)
(* to implement it.                                                        *)
(***************************************************************************)
CONSTANTS
  Callers,   \* the requests, by the connection that carries them
  Events,    \* the records the ledger may hold: [id, decision, exit]
  Refusals,  \* the answers that say the request was refused
  None       \* no answer yet

VARIABLES
  command,  \* what has become of the command of each request
  ledger,   \* the records on stable storage
  told      \* the answer each client is given

avars == <<command, ledger, told>>

Init ==
  /\ command = [c \in Callers |-> "none"]
  /\ ledger = {}
  /\ told = [c \in Callers |-> None]

\* A true record claims success only of a command that has ended or was never started, and
\* a refusal only where nothing was started.
True(e) ==
  /\ e.decision = "APPROVED" => command[e.id] \in {"none", "ended"}
  /\ e.decision # "APPROVED" => command[e.id] = "none"

Begin(c) ==
  /\ command[c] = "none" /\ told[c] = None
  /\ \A e \in ledger : e.id # c
  /\ command' = [command EXCEPT ![c] = "running"]
  /\ UNCHANGED <<ledger, told>>

End(c) ==
  /\ command[c] = "running"
  /\ command' = [command EXCEPT ![c] = "ended"]
  /\ UNCHANGED <<ledger, told>>

Grow ==
  /\ ledger' \in SUBSET (ledger \cup Events) /\ ledger \subseteq ledger'
  /\ \A e \in ledger' \ ledger : True(e)

Persist == Grow /\ UNCHANGED <<command, told>>

\* The machine stops: running commands with it.
Crash ==
  /\ Grow
  /\ command' = [c \in Callers |-> IF command[c] = "running" THEN "cut" ELSE command[c]]
  /\ UNCHANGED told

Tell(c, answer) ==
  /\ told[c] = None
  /\ answer = "APPROVED" => \E e \in ledger : e.id = c /\ e.decision = "APPROVED"
  /\ answer \in Refusals \cup {"BROKER_UNAVAILABLE"} => command[c] = "none"
  /\ told' = [told EXCEPT ![c] = answer]
  /\ UNCHANGED <<command, ledger>>

Next ==
  \/ \E c \in Callers : Begin(c) \/ End(c)
  \/ \E c \in Callers, answer \in Refusals \cup {"APPROVED", "AUDIT_FAILED", "BROKER_UNAVAILABLE"} :
       Tell(c, answer)
  \/ Persist \/ Crash

Spec == Init /\ [][Next]_avars
=============================================================================
