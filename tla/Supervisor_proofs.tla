------------------------- MODULE Supervisor_proofs -------------------------
(***************************************************************************)
(* What Supervisor.tla promises for any number of control connections.     *)
(*                                                                         *)
(* NoStrayBroker is not inductive: SocketAppears overwrites tracked, and   *)
(* only the mutex, which an actor holds from the check of cancel to the    *)
(* assignment, says that nothing is lost by it.                            *)
(*                                                                         *)
(* What clients reach, whether a restart succeeds and what is left in the  *)
(* end depend on the socket path, which belongs to nobody.  As long as     *)
(* commands do not overlap and no deadline passes it is the path of the    *)
(* one broker that lives (Orderly, calls may fail), and that broker serves *)
(* until a stop cancels it (Smooth, no call fails).                        *)
(***************************************************************************)
EXTENDS Supervisor, TLAPS

USE DEF Troubles

\* Whoever checks, starts and waits for a broker holds the mutex.
StarterHoldsMutex == \A a \in Actors : call[a].pc \in {"creating", "waiting"} => mu = a

\* While somebody waits for a new broker, none is tracked.
WaiterIsAlone == \A a \in Actors : call[a].pc = "waiting" => tracked = None

SupervisorInv == TypeOK /\ StarterHoldsMutex /\ WaiterIsAlone /\ NoStrayBroker

\* A supervisor that starts satisfies the invariant.
LEMMA Init_Inv == Init => SupervisorInv
<1> SUFFICES ASSUME Init PROVE SupervisorInv
  OBVIOUS
<1>1. TypeOK
  BY DEF Init, TypeOK, Phases
<1>2. StarterHoldsMutex /\ WaiterIsAlone
  BY DEF Init, StarterHoldsMutex, WaiterIsAlone
<1>3. NoStrayBroker
  BY DEF Init, NoStrayBroker, Alive
<1> QED
  BY <1>1, <1>2, <1>3 DEF SupervisorInv

-----------------------------------------------------------------------------
CallsOK ==
  /\ call \in [Actors -> [pc : Phases, number : Numbers \cup {None}, reply : {"none", "OK", "FAIL"}]]
  /\ \A a \in Actors : call[a].pc \in {"waiting", "cancelling", "awaiting"} => call[a].number \in Numbers

\* An actor's call is in phase pc now; the other calls are as they were.
Changed(a, pc) ==
  /\ CallsOK'
  /\ call'[a].pc = pc /\ call'[a].number = call[a].number
  /\ \A b \in Actors \ {a} : call'[b] = call[b]

\* Phases in which an actor neither holds the mutex nor has to do with a broker.
Quiet == Phases \ {"creating", "waiting", "cancelling", "awaiting"}

\* What Goes makes of a call.
LEMMA GoesTo ==
  ASSUME TypeOK, NEW a \in Actors, NEW pc \in Phases, Goes(a, pc),
         pc \in {"waiting", "cancelling", "awaiting"} => call[a].number \in Numbers
  PROVE  Changed(a, pc)
BY DEF TypeOK, Goes, Changed, CallsOK

\* What taking up a broker's number makes of a call.
LEMMA Numbered ==
  ASSUME TypeOK, NEW a \in Actors, NEW pc \in Phases, NEW number \in Numbers,
         call' = [call EXCEPT ![a].pc = pc, ![a].number = number]
  PROVE  /\ CallsOK' /\ \A b \in Actors \ {a} : call'[b] = call[b]
         /\ call'[a].pc = pc /\ call'[a].number = number
<1>1. call \in [Actors -> [pc : Phases, number : Numbers \cup {None}, reply : {"none", "OK", "FAIL"}]]
  BY DEF TypeOK
<1>2. /\ call' \in [Actors -> [pc : Phases, number : Numbers \cup {None}, reply : {"none", "OK", "FAIL"}]]
      /\ \A b \in Actors \ {a} : call'[b] = call[b]
      /\ call'[a].pc = pc /\ call'[a].number = number
  BY <1>1
<1>3. \A b \in Actors : call'[b].pc \in {"waiting", "cancelling", "awaiting"} => call'[b].number \in Numbers
  BY <1>2 DEF TypeOK
<1> QED
  BY <1>2, <1>3 DEF CallsOK

\* What setting the reply makes of a call.
LEMMA Answered ==
  ASSUME TypeOK, NEW a \in Actors, NEW pc \in Phases \ {"waiting", "cancelling", "awaiting"},
         NEW reply \in {"none", "OK", "FAIL"},
         call' = [call EXCEPT ![a].pc = pc, ![a].reply = reply]
  PROVE  Changed(a, pc)
<1>1. call \in [Actors -> [pc : Phases, number : Numbers \cup {None}, reply : {"none", "OK", "FAIL"}]]
  BY DEF TypeOK
<1>2. /\ call' \in [Actors -> [pc : Phases, number : Numbers \cup {None}, reply : {"none", "OK", "FAIL"}]]
      /\ \A b \in Actors \ {a} : call'[b] = call[b]
      /\ call'[a].pc = pc /\ call'[a].number = call[a].number
  BY <1>1
<1>3. \A b \in Actors : call'[b].pc \in {"waiting", "cancelling", "awaiting"} => call'[b].number \in Numbers
  BY <1>2 DEF TypeOK
<1> QED
  BY <1>2, <1>3 DEF CallsOK, Changed

\* In particular what Replies makes of it.
LEMMA RepliesTo ==
  ASSUME TypeOK, NEW a \in Actors, NEW word \in {"OK", "FAIL"}, Replies(a, word)
  PROVE  Changed(a, "answered")
BY Answered DEF Replies, Phases

\* How start and stop return.
LEMMA Returns ==
  ASSUME TypeOK, NEW a \in Actors,
         AfterStop(a) \/ AfterStart(a) \/ AfterFailedStart(a) \/ AfterFailedStop(a)
  PROVE  \E pc \in Quiet : Changed(a, pc)
<1> USE DEF Quiet, Phases
<1>1. CASE AfterStop(a)
  <2>1. PICK pc \in {"configuring", "leaving", "removing"} : Goes(a, pc)
    BY <1>1, Zenon DEF AfterStop
  <2> QED
    BY <2>1, GoesTo
<1>2. CASE AfterStart(a)
  <2>1. PICK pc \in {"listening", "reporting"} : Goes(a, pc)
    BY <1>2, Zenon DEF AfterStart
  <2> QED
    BY <2>1, GoesTo
<1>3. CASE AfterFailedStart(a)
  <2>1. PICK pc \in {"leaving", "answered"} : call' = [call EXCEPT ![a].pc = pc, ![a].reply = "FAIL"]
    BY <1>3, Zenon DEF AfterFailedStart
  <2> QED
    BY <2>1, Answered
<1>4. CASE AfterFailedStop(a)
  BY <1>1, <1>4, RepliesTo DEF AfterFailedStop
<1> QED
  BY <1>1, <1>2, <1>3, <1>4

\* Cancelling a broker changes nothing else about it.
LEMMA Cancels ==
  ASSUME TypeOK, NEW n \in Numbers, brokers' = [brokers EXCEPT ![n].cancelled = TRUE]
  PROVE  /\ brokers' \in [Numbers ->
              [pc : {"unborn", "new", "removing", "binding", "opening", "accepting", "closing",
                     "failing", "ended"},
               cancelled : BOOLEAN, done : {"none", "nil", "error"}]]
         /\ brokers'[n].cancelled
         /\ \A k \in Numbers : Alive(k)' = Alive(k) /\ (k # n => brokers'[k] = brokers[k])
<1> DEFINE Brokers == [pc : {"unborn", "new", "removing", "binding", "opening", "accepting",
                             "closing", "failing", "ended"},
                       cancelled : BOOLEAN, done : {"none", "nil", "error"}]
           new == [brokers[n] EXCEPT !.cancelled = TRUE]
<1>1. brokers \in [Numbers -> Brokers]
  BY DEF TypeOK
<1>2. new \in Brokers /\ new.cancelled /\ new.pc = brokers[n].pc
  BY <1>1
<1>3. brokers' = [brokers EXCEPT ![n] = new]
  BY <1>1
<1> HIDE DEF new, Brokers
<1>4. /\ brokers' \in [Numbers -> Brokers] /\ brokers'[n] = new
      /\ \A k \in Numbers \ {n} : brokers'[k] = brokers[k]
  BY <1>1, <1>2, <1>3
<1> QED
  BY <1>2, <1>4 DEF Alive, Brokers

\* An actor that neither waits nor cancels a broker any more has had it cancelled or tracked.
LEMMA Quiet_Inv ==
  ASSUME SupervisorInv, TypeOK', NEW a \in Actors, \E pc \in Quiet : Changed(a, pc),
         \A b \in Actors \ {a} : mu = b => mu' = b /\ tracked' \in {tracked, None},
         \A n \in Numbers :
           Alive(n)' /\ ~brokers'[n].cancelled =>
             /\ Alive(n) /\ ~brokers[n].cancelled
             /\ tracked = n => tracked' = n
             /\ call[a].number = n /\ call[a].pc \in {"waiting", "cancelling"} => tracked' = n
  PROVE  SupervisorInv'
<1>1. StarterHoldsMutex'
  BY DEF SupervisorInv, StarterHoldsMutex, Changed, Quiet
<1>2. WaiterIsAlone'
  BY DEF SupervisorInv, WaiterIsAlone, StarterHoldsMutex, Changed, Quiet
<1>3. NoStrayBroker'
  BY DEF SupervisorInv, NoStrayBroker, Changed, Quiet
<1> QED
  BY <1>1, <1>2, <1>3 DEF SupervisorInv

-----------------------------------------------------------------------------
\* A broker's own steps: the actors do not notice, and a broker only ends.
LEMMA BrokerMoves ==
  ASSUME SupervisorInv, TypeOK', UNCHANGED <<mu, tracked, call>>,
         \A n \in Numbers : /\ brokers'[n].cancelled = brokers[n].cancelled
                            /\ Alive(n)' => Alive(n)
  PROVE  SupervisorInv'
<1>1. StarterHoldsMutex' /\ WaiterIsAlone'
  BY DEF SupervisorInv, StarterHoldsMutex, WaiterIsAlone
<1>2. NoStrayBroker'
  BY DEF SupervisorInv, NoStrayBroker
<1> QED
  BY <1>1, <1>2 DEF SupervisorInv

\* Every step of a broker's goroutine keeps the invariant.
LEMMA BrokerStep_Inv ==
  ASSUME SupervisorInv, NEW n \in Numbers, BrokerSteps(n) \/ Fails(n)
  PROVE  SupervisorInv'
<1> USE DEF TypeOK, Becomes, Broker, Alive
<1>1. TypeOK
  BY DEF SupervisorInv
<1>2. CASE MakeDirs(n)
  BY <1>1, <1>2, BrokerMoves DEF MakeDirs
<1>3. CASE RemoveOld(n)
  BY <1>1, <1>3, BrokerMoves DEF RemoveOld
<1>4. CASE Listen(n)
  BY <1>1, <1>4, BrokerMoves DEF Listen
<1>5. CASE Open(n)
  BY <1>1, <1>5, BrokerMoves DEF Open
<1>6. CASE Collides(n)
  BY <1>1, <1>6, BrokerMoves DEF Collides
<1>7. CASE CloseOnCancel(n)
  BY <1>1, <1>7, BrokerMoves DEF CloseOnCancel
<1>8. CASE Return(n)
  <2>1. PICK done \in {"nil", "error"} :
          brokers' = [brokers EXCEPT ![n].pc = "ended", ![n].done = done]
    BY <1>8, Zenon DEF Return
  <2>2. UNCHANGED <<mu, tracked, call, socket, tree, stopped, trouble>>
    BY <1>8 DEF Return
  <2> DEFINE new == [brokers[n] EXCEPT !.pc = "ended", !.done = done]
             Brokers == [pc : {"unborn", "new", "removing", "binding", "opening", "accepting",
                               "closing", "failing", "ended"},
                         cancelled : BOOLEAN, done : {"none", "nil", "error"}]
  <2>5. brokers \in [Numbers -> Brokers]
    BY <1>1
  <2>6. new \in Brokers /\ new.cancelled = brokers[n].cancelled /\ new.pc = "ended"
    BY <2>5
  <2>7. brokers' = [brokers EXCEPT ![n] = new]
    BY <2>1, <2>5
  <2>8. brokers' \in [Numbers -> Brokers] /\ brokers'[n] = new
        /\ \A k \in Numbers \ {n} : brokers'[k] = brokers[k]
    <3> HIDE DEF new, Brokers
    <3> QED
      BY <2>5, <2>6, <2>7
  <2>3. TypeOK'
    BY <1>1, <2>2, <2>8
  <2>4. \A k \in Numbers : brokers'[k].cancelled = brokers[k].cancelled /\ (Alive(k)' => Alive(k))
    BY <2>6, <2>8
  <2> QED
    BY <2>2, <2>3, <2>4, BrokerMoves
<1>9. CASE Fails(n)
  <2>1. PICK pc \in {"closing", "failing"} : brokers' = [brokers EXCEPT ![n].pc = pc]
    BY <1>9, Zenon DEF Fails
  <2>2. socket' \in Numbers \cup {None} /\ trouble' \subseteq Troubles
    BY <1>1, <1>9 DEF Fails, Fault
  <2>3. brokers[n].pc \in {"new", "removing", "binding", "opening", "accepting"}
        /\ UNCHANGED <<mu, tracked, call, tree, stopped>>
    BY <1>9 DEF Fails
  <2>4. TypeOK'
    BY <1>1, <2>1, <2>2, <2>3
  <2>5. \A k \in Numbers : brokers'[k].cancelled = brokers[k].cancelled /\ (Alive(k)' => Alive(k))
    BY <1>1, <2>1, <2>3
  <2> QED
    BY <2>3, <2>4, <2>5, BrokerMoves
<1> QED
  BY <1>2, <1>3, <1>4, <1>5, <1>6, <1>7, <1>8, <1>9 DEF BrokerSteps

-----------------------------------------------------------------------------
\* The steps of start keep the invariant.
LEMMA Start_Inv ==
  ASSUME SupervisorInv, NEW a \in Actors,
         \/ Lock(a) \/ AlreadyRunning(a) \/ NewFails(a)
         \/ SocketAppears(a) \/ BrokerFailed(a) \/ SocketIsLate(a)
  PROVE  SupervisorInv'
<1> USE SupervisorConstants DEF At
<1>1. TypeOK /\ StarterHoldsMutex /\ WaiterIsAlone /\ NoStrayBroker
  BY DEF SupervisorInv
<1>2. CASE Lock(a)
  <2>1. Changed(a, "creating")
    BY <1>1, <1>2, GoesTo DEF Lock, Phases
  <2>2. mu = None /\ mu' = a /\ UNCHANGED <<tracked, brokers, socket, tree, stopped, trouble>>
        /\ call[a].pc = "starting"
    BY <1>2 DEF Lock
  <2>3. TypeOK'
    BY <1>1, <2>1, <2>2 DEF TypeOK, Changed, CallsOK
  <2>4. StarterHoldsMutex' /\ WaiterIsAlone'
    BY <1>1, <2>1, <2>2 DEF StarterHoldsMutex, WaiterIsAlone, Changed, Actors
  <2>5. NoStrayBroker'
    BY <1>1, <2>1, <2>2 DEF NoStrayBroker, Alive, Changed
  <2> QED
    BY <2>3, <2>4, <2>5 DEF SupervisorInv
<1>3. CASE AlreadyRunning(a) \/ NewFails(a)
  <2>1. \E pc \in Quiet : Changed(a, pc)
    BY <1>1, <1>3, Returns DEF AlreadyRunning, NewFails
  <2>2. /\ mu' = None /\ UNCHANGED <<tracked, brokers, socket, tree, stopped>>
        /\ trouble' \in {trouble, trouble \cup {"failure"}} /\ call[a].pc = "creating"
    BY <1>3 DEF AlreadyRunning, NewFails, Fault
  <2>3. TypeOK'
    BY <1>1, <2>1, <2>2 DEF TypeOK, Changed, CallsOK
  <2>4. mu = a
    BY <1>1, <2>2 DEF StarterHoldsMutex
  <2> QED
    BY <2>1, <2>2, <2>3, <2>4, Quiet_Inv DEF Alive
<1>4. CASE SocketAppears(a)
  <2>1. \E pc \in Quiet : Changed(a, pc)
    BY <1>1, <1>4, Returns DEF SocketAppears
  <2>2. /\ mu' = None /\ tracked' = call[a].number /\ call[a].pc = "waiting"
        /\ UNCHANGED <<brokers, socket, tree, stopped, trouble>>
    BY <1>4 DEF SocketAppears
  <2>3. mu = a /\ tracked = None /\ call[a].number \in Numbers
    BY <1>1, <2>2 DEF StarterHoldsMutex, WaiterIsAlone, TypeOK
  <2>4. TypeOK'
    BY <1>1, <2>1, <2>2, <2>3 DEF TypeOK, Changed, CallsOK
  <2>5. \A n \in Numbers : tracked # n
    BY <2>3 DEF Numbers
  <2> QED
    BY <2>1, <2>2, <2>3, <2>4, <2>5, Quiet_Inv DEF Alive
<1>5. CASE BrokerFailed(a) \/ SocketIsLate(a)
  <2>1. \E pc \in Quiet : Changed(a, pc)
    BY <1>1, <1>5, Returns DEF BrokerFailed, SocketIsLate
  <2>2. /\ mu' = None /\ UNCHANGED <<tracked, socket, tree, stopped>> /\ call[a].pc = "waiting"
        /\ brokers' = [brokers EXCEPT ![call[a].number].cancelled = TRUE]
        /\ trouble' \in {trouble, trouble \cup {"late"}}
    BY <1>5 DEF BrokerFailed, SocketIsLate, Fault
  <2>3. mu = a /\ call[a].number \in Numbers
    BY <1>1, <2>2 DEF StarterHoldsMutex, TypeOK
  <2>4. TypeOK'
    BY <1>1, <2>1, <2>2, <2>3, Cancels DEF TypeOK, Changed, CallsOK
  <2>5. /\ brokers'[call[a].number].cancelled
        /\ \A k \in Numbers : Alive(k)' = Alive(k) /\ (k # call[a].number => brokers'[k] = brokers[k])
    BY <1>1, <2>2, <2>3, Cancels
  <2> QED
    BY <2>1, <2>2, <2>3, <2>4, <2>5, Quiet_Inv
<1> QED
  BY <1>2, <1>3, <1>4, <1>5

\* A new broker is the one its starter waits for.
LEMMA Spawn_Inv ==
  ASSUME SupervisorInv, NEW a \in Actors, Spawn(a)
  PROVE  SupervisorInv'
<1> USE DEF At, Alive
<1>1. TypeOK /\ StarterHoldsMutex /\ WaiterIsAlone /\ NoStrayBroker
  BY DEF SupervisorInv
<1>2. PICK n \in Numbers : /\ brokers' = [brokers EXCEPT ![n].pc = "new"]
                           /\ call' = [call EXCEPT ![a].pc = "waiting", ![a].number = n]
  BY DEF Spawn
<1>3. call[a].pc = "creating" /\ tracked = None /\ UNCHANGED <<mu, tracked, socket, tree, stopped, trouble>>
  BY DEF Spawn
<1>t. /\ CallsOK' /\ \A b \in Actors \ {a} : call'[b] = call[b]
      /\ call'[a].pc = "waiting" /\ call'[a].number = n
  BY <1>1, <1>2, Numbered DEF Phases
<1>4. TypeOK'
  BY <1>1, <1>2, <1>3, <1>t DEF TypeOK, CallsOK
<1>5. StarterHoldsMutex' /\ WaiterIsAlone'
  BY <1>1, <1>2, <1>3 DEF StarterHoldsMutex, WaiterIsAlone, TypeOK
<1>6. NoStrayBroker'
  BY <1>1, <1>2, <1>3 DEF NoStrayBroker, TypeOK
<1> QED
  BY <1>4, <1>5, <1>6 DEF SupervisorInv

\* The steps of stop keep the invariant.
LEMMA Stop_Inv ==
  ASSUME SupervisorInv, NEW a \in Actors,
         Take(a) \/ Cancel(a) \/ BrokerStopped(a) \/ BrokerDidNotStop(a)
  PROVE  SupervisorInv'
<1> USE DEF At
<1>1. TypeOK /\ StarterHoldsMutex /\ WaiterIsAlone /\ NoStrayBroker
  BY DEF SupervisorInv
<1>2. CASE Take(a) /\ tracked = None
  <2>1. \E pc \in Quiet : Changed(a, pc)
    BY <1>1, <1>2, Returns DEF Take
  <2>2. UNCHANGED <<mu, tracked, brokers, socket, tree, stopped, trouble>> /\ call[a].pc = "stopping"
    BY <1>2 DEF Take
  <2>3. TypeOK'
    BY <1>1, <2>1, <2>2 DEF TypeOK, Changed, CallsOK
  <2> QED
    BY <2>1, <2>2, <2>3, Quiet_Inv DEF Alive
<1>3. CASE Take(a) /\ tracked # None
  <2>1. /\ call' = [call EXCEPT ![a].pc = "cancelling", ![a].number = tracked] /\ tracked' = None
        /\ UNCHANGED <<mu, brokers, socket, tree, stopped, trouble>> /\ call[a].pc = "stopping"
        /\ tracked \in Numbers
    BY <1>1, <1>3 DEF Take, TypeOK
  <2>t. /\ CallsOK' /\ \A b \in Actors \ {a} : call'[b] = call[b]
        /\ call'[a].pc = "cancelling" /\ call'[a].number = tracked
    BY <1>1, <2>1, Numbered DEF Phases
  <2>2. TypeOK'
    BY <1>1, <2>1, <2>t DEF TypeOK, CallsOK
  <2>3. StarterHoldsMutex' /\ WaiterIsAlone'
    BY <1>1, <2>1 DEF StarterHoldsMutex, WaiterIsAlone, TypeOK
  <2>4. NoStrayBroker'
    BY <1>1, <2>1 DEF NoStrayBroker, Alive, TypeOK
  <2> QED
    BY <2>2, <2>3, <2>4 DEF SupervisorInv
<1>4. CASE Cancel(a)
  <2>1. /\ UNCHANGED <<mu, tracked, socket, tree, stopped, trouble>> /\ call[a].pc = "cancelling"
        /\ brokers' = [brokers EXCEPT ![call[a].number].cancelled = TRUE]
        /\ call[a].number \in Numbers
    BY <1>1, <1>4 DEF Cancel, TypeOK
  <2>2. Changed(a, "awaiting")
    BY <1>1, <1>4, <2>1, GoesTo DEF Cancel, Phases
  <2>3. TypeOK'
    BY <1>1, <2>1, <2>2, Cancels DEF TypeOK, Changed, CallsOK
  <2>4. StarterHoldsMutex' /\ WaiterIsAlone'
    BY <1>1, <2>1, <2>2 DEF StarterHoldsMutex, WaiterIsAlone, Changed
  <2>5. NoStrayBroker'
    <3>1. /\ brokers'[call[a].number].cancelled
          /\ \A k \in Numbers :
               Alive(k)' = Alive(k) /\ (k # call[a].number => brokers'[k] = brokers[k])
      BY <1>1, <2>1, Cancels
    <3> QED
      BY <1>1, <2>1, <2>2, <3>1 DEF NoStrayBroker, Changed
  <2> QED
    BY <2>3, <2>4, <2>5 DEF SupervisorInv
<1>5. CASE BrokerStopped(a) \/ BrokerDidNotStop(a)
  <2>1. \E pc \in Quiet : Changed(a, pc)
    BY <1>1, <1>5, Returns DEF BrokerStopped, BrokerDidNotStop
  <2>2. /\ UNCHANGED <<mu, tracked, brokers, tree, stopped>> /\ call[a].pc = "awaiting"
        /\ socket' \in {socket, None} /\ trouble' \in {trouble, trouble \cup {"late"}}
    BY <1>5 DEF BrokerStopped, BrokerDidNotStop, Fault
  <2>3. TypeOK'
    BY <1>1, <2>1, <2>2 DEF TypeOK, Changed, CallsOK
  <2> QED
    BY <2>1, <2>2, <2>3, Quiet_Inv DEF Alive
<1> QED
  BY <1>2, <1>3, <1>4, <1>5

\* A step from one quiet phase to another keeps the invariant.
LEMMA QuietStep ==
  ASSUME SupervisorInv, NEW a \in Actors, call[a].pc \in Quiet, \E pc \in Quiet : Changed(a, pc),
         UNCHANGED <<mu, tracked, brokers>>, socket' \in {socket, None}, tree' \in BOOLEAN,
         stopped' \in BOOLEAN, \E word \in Troubles : trouble' \in {trouble, trouble \cup {word}}
  PROVE  SupervisorInv'
<1>1. TypeOK'
  BY DEF SupervisorInv, TypeOK, Changed, CallsOK
<1> QED
  BY <1>1, Quiet_Inv DEF Alive, Quiet

\* Commands that come in, and what main does, keep the invariant.
LEMMA Other_Inv ==
  ASSUME SupervisorInv,
         \/ \E h \in Handlers : HandlerSteps(h) \/ Asks(h)
         \/ MainSteps \/ MainStops
  PROVE  SupervisorInv'
<1> USE DEF Phases, At, Actors, Quiet
<1>1. TypeOK
  BY DEF SupervisorInv
<1>t. tree \in BOOLEAN /\ stopped \in BOOLEAN
  BY <1>1 DEF TypeOK
<1>2. ASSUME NEW h \in Handlers, HandlerSteps(h)
      PROVE  SupervisorInv'
  <2>1. CASE Configure(h)
    BY <1>1, <1>t, <2>1, GoesTo, QuietStep DEF Configure
  <2>2. CASE ConfigureFails(h)
    BY <1>1, <1>t, <2>2, RepliesTo, QuietStep DEF ConfigureFails, Fault
  <2>3. CASE Status(h)
    <3>1. PICK word \in {"OK", "FAIL"} : Replies(h, word)
      BY <2>3, Zenon DEF Status
    <3> QED
      BY <1>1, <1>t, <2>3, <3>1, RepliesTo, QuietStep DEF Status
  <2>4. CASE Write(h)
    BY <1>1, <1>t, <2>4, RepliesTo, QuietStep DEF Write
  <2>5. CASE WriteFails(h)
    BY <1>1, <1>t, <2>5, RepliesTo, QuietStep DEF WriteFails, Fault
  <2> QED
    BY <1>2, <2>1, <2>2, <2>3, <2>4, <2>5 DEF HandlerSteps
<1>3. ASSUME NEW h \in Handlers, Asks(h)
      PROVE  SupervisorInv'
  <2>1. CASE AskRestart(h)
    BY <1>1, <1>t, <2>1, GoesTo, QuietStep DEF AskRestart, Fault
  <2>2. CASE AskStatus(h)
    BY <1>1, <1>t, <2>2, GoesTo, QuietStep DEF AskStatus
  <2>3. CASE AskStop(h)
    BY <1>1, <1>t, <2>3, RepliesTo, QuietStep DEF AskStop
  <2>4. CASE AskTamper(h) \/ Request(h)
    BY <1>1, <1>t, <2>4, GoesTo, QuietStep DEF AskTamper, Request, Fault
  <2> QED
    BY <1>3, <2>1, <2>2, <2>3, <2>4 DEF Asks
<1>4. CASE OpenControl
  BY <1>1, <1>t, <1>4, GoesTo, QuietStep DEF OpenControl
<1>5. CASE ControlFails
  <2>1. Changed(Main, "stopping")
    BY <1>1, <1>5, Answered DEF ControlFails
  <2> QED
    BY <1>t, <1>5, <2>1, QuietStep DEF ControlFails, Fault
<1>6. CASE RemoveTree \/ RemoveFails
  BY <1>1, <1>t, <1>6, GoesTo, QuietStep DEF RemoveTree, RemoveFails, Fault
<1>7. CASE ExitMain
  BY <1>1, <1>t, <1>7, GoesTo, QuietStep DEF ExitMain
<1>8. CASE MainStops
  BY <1>1, <1>t, <1>8, GoesTo, QuietStep DEF MainStops, Fault
<1> QED
  BY <1>2, <1>3, <1>4, <1>5, <1>6, <1>7, <1>8 DEF MainSteps

\* Every step keeps the invariant.
LEMMA Next_Inv == SupervisorInv /\ [Next]_vars => SupervisorInv'
<1> SUFFICES ASSUME SupervisorInv, [Next]_vars PROVE SupervisorInv'
  OBVIOUS
<1>1. CASE UNCHANGED vars
  BY <1>1 DEF vars, SupervisorInv, TypeOK, StarterHoldsMutex, WaiterIsAlone, NoStrayBroker, Alive
<1>2. ASSUME NEW a \in Actors, ActorSteps(a) PROVE SupervisorInv'
  BY <1>2, Start_Inv, Spawn_Inv, Stop_Inv DEF ActorSteps
<1>3. ASSUME NEW n \in Numbers, BrokerSteps(n) \/ Fails(n) PROVE SupervisorInv'
  BY <1>3, BrokerStep_Inv
<1>4. CASE \/ \E h \in Handlers : HandlerSteps(h) \/ Asks(h)
           \/ MainSteps \/ MainStops
  BY <1>4, Other_Inv
<1> QED
  BY <1>1, <1>2, <1>3, <1>4 DEF Next, GoesOn

-----------------------------------------------------------------------------
\* The strengthened invariant, for every reachable state of the supervisor.
THEOREM SupervisorInvariant == Spec => []SupervisorInv
<1> QED
  BY Init_Inv, Next_Inv, PTL DEF Spec

\* Type correctness of the supervisor, and that whoever waits for a broker has one.
THEOREM SupervisorTypeCorrect == Spec => []TypeOK
<1>1. SupervisorInv => TypeOK
  BY DEF SupervisorInv
<1> QED
  BY <1>1, SupervisorInvariant, PTL

\* No broker gets out of reach of a stop, however many commands overlap, fail or are late.
THEOREM NoBrokerStrays == Spec => []NoStrayBroker
<1>1. SupervisorInv => NoStrayBroker
  BY DEF SupervisorInv
<1> QED
  BY <1>1, SupervisorInvariant, PTL

-----------------------------------------------------------------------------
(***************************************************************************)
(* Commands one after the other.                                           *)
(***************************************************************************)
\* Phases in which no broker is tracked, if there is no overlap.
Empty == {"configuring", "starting", "creating", "waiting", "cancelling", "awaiting", "removing",
          "leaving", "exited"}

Holding(a) == call[a].pc \in {"waiting", "cancelling", "awaiting"}

\* Without overlaps and late answers at most one broker lives, the one that is tracked or that
\* the one command that is under way has to do with, and the socket path is its own.
Orderly ==
  /\ \A a, b \in Actors : Changing(a) /\ Changing(b) => a = b
  /\ \A h \in Handlers : call[h].pc \in {"idle", "writing"} => call[h].number = None
  /\ \A a \in Actors : call[a].pc \in Empty => tracked = None
  /\ \A n \in Numbers : Alive(n) => tracked = n \/ \E a \in Actors : Holding(a) /\ call[a].number = n
  /\ tracked # None => brokers[tracked].pc # "unborn"
  /\ \A a \in Actors : Holding(a) => brokers[call[a].number].pc # "unborn"
  /\ \A n \in Numbers :
       /\ brokers[n].pc # "removing"
       /\ brokers[n].pc = "unborn" => ~brokers[n].cancelled
       /\ brokers[n].pc \in {"new", "binding"} => socket = None
       /\ brokers[n].pc \in {"opening", "accepting"} <=> socket = n
       /\ brokers[n].done # "none" <=> brokers[n].pc = "ended"
  /\ ~tree => call[Main].pc \in {"leaving", "exited"}
  /\ call[Main].pc \in {"leaving", "exited"} /\ call[Main].reply # "FAIL" =>
       ~tree /\ \A h \in Handlers : call[h].pc # "writing"

\* If nothing fails either, the tracked broker serves, and so do those that commands start and
\* stop, until they are cancelled.
Smooth ==
  /\ \A n \in Numbers : brokers[n].pc # "failing" /\ brokers[n].done # "error"
  /\ tracked # None => brokers[tracked].pc \in {"opening", "accepting"} /\ ~brokers[tracked].cancelled
  /\ \A a \in Actors :
       LET broker == brokers[call[a].number]
       IN  /\ call[a].pc = "waiting" =>
                broker.pc \in {"new", "binding", "opening", "accepting"} /\ ~broker.cancelled
           /\ call[a].pc = "cancelling" => broker.pc \in {"opening", "accepting"} /\ ~broker.cancelled
           /\ call[a].pc = "awaiting" => broker.pc \in {"opening", "accepting", "closing", "ended"}
           /\ Changing(a) /\ call[a].pc \in {"listening", "reporting", "stopping"} => tracked # None
           /\ a # Main /\ call[a].pc = "answered" /\ call[a].number # None => call[a].reply = "OK"
  /\ (\A a \in Actors : ~Changing(a)) => tracked # None
  /\ call[Main].reply # "FAIL"

SerialInv ==
  /\ SupervisorInv
  /\ trouble \subseteq {"failure"} => Orderly
  /\ trouble = {} => Smooth

\* What a step makes of an actor's call; the others are as they were.
Became(a, pc, number, reply) ==
  /\ call'[a].pc = pc /\ call'[a].number = number /\ call'[a].reply = reply
  /\ \A b \in Actors \ {a} : call'[b] = call[b]

LEMMA Becoming ==
  ASSUME TypeOK, NEW a \in Actors, NEW pc, NEW reply, NEW number
  PROVE  /\ Goes(a, pc) => Became(a, pc, call[a].number, call[a].reply)
         /\ call' = [call EXCEPT ![a].pc = pc, ![a].reply = reply] => Became(a, pc, call[a].number, reply)
         /\ call' = [call EXCEPT ![a].pc = pc, ![a].number = number] => Became(a, pc, number, call[a].reply)
<1>1. call \in [Actors -> [pc : Phases, number : Numbers \cup {None}, reply : {"none", "OK", "FAIL"}]]
  BY DEF TypeOK
<1>2. Goes(a, pc) => Became(a, pc, call[a].number, call[a].reply)
  BY <1>1 DEF Goes, Became
<1>3. call' = [call EXCEPT ![a].pc = pc, ![a].reply = reply] => Became(a, pc, call[a].number, reply)
  BY <1>1 DEF Became
<1>4. call' = [call EXCEPT ![a].pc = pc, ![a].number = number] => Became(a, pc, number, call[a].reply)
  BY <1>1 DEF Became
<1> QED
  BY <1>2, <1>3, <1>4

\* An actor in an empty phase that has no broker is alone: no broker lives, and there is no socket.
LEMMA NobodyLives ==
  ASSUME TypeOK, Orderly, NEW a \in Actors, call[a].pc \in Empty, ~Holding(a)
  PROVE  tracked = None /\ socket = None /\ \A n \in Numbers : ~Alive(n)
<1>1. tracked = None
  BY DEF Orderly
<1>2. Changing(a) /\ \A b \in Actors : Holding(b) => Changing(b)
  BY DEF Changing, Holding, Empty
<1>3. \A b \in Actors : ~Holding(b)
  BY <1>2 DEF Orderly
<1>4. \A n \in Numbers : ~Alive(n)
  BY <1>1, <1>3, SupervisorConstants DEF Orderly, Numbers
<1>5. socket = None
  BY <1>4 DEF Orderly, TypeOK, Alive
<1> QED
  BY <1>1, <1>4, <1>5

\* If it has one, that is the only one that may live.
LEMMA OneLives ==
  ASSUME TypeOK, Orderly, NEW a \in Actors, Holding(a)
  PROVE  /\ tracked = None /\ socket \in {None, call[a].number} /\ call[a].number \in Numbers
         /\ \A n \in Numbers : Alive(n) => n = call[a].number
<1>1. tracked = None
  BY DEF Orderly, Holding, Empty
<1>2. \A b \in Actors : Holding(b) => b = a
  BY DEF Orderly, Changing, Holding
<1>3. \A n \in Numbers : Alive(n) => n = call[a].number
  BY <1>1, <1>2, SupervisorConstants DEF Orderly, Numbers
<1>4. socket \in {None, call[a].number}
  BY <1>3 DEF Orderly, TypeOK, Alive
<1>5. call[a].number \in Numbers
  BY DEF TypeOK, Holding
<1> QED
  BY <1>1, <1>3, <1>4, <1>5

\* Trouble does not go away.
LEMMA TroubleStays ==
  ASSUME Next
  PROVE  trouble \subseteq trouble'
<1> USE DEF Fault
<1>1. ASSUME NEW a \in Actors, ActorSteps(a) PROVE trouble \subseteq trouble'
  BY <1>1 DEF ActorSteps, Lock, AlreadyRunning, NewFails, Spawn, SocketAppears, BrokerFailed, SocketIsLate,
     Take, Cancel, BrokerStopped, BrokerDidNotStop
<1>2. ASSUME NEW h \in Handlers, HandlerSteps(h) \/ Asks(h)
      PROVE  trouble \subseteq trouble'
  BY <1>2 DEF HandlerSteps, Configure, ConfigureFails, Status, Write, WriteFails, Asks, AskRestart,
     AskStatus, AskStop, AskTamper, Request
<1>3. ASSUME NEW n \in Numbers, BrokerSteps(n) \/ Fails(n) PROVE trouble \subseteq trouble'
  BY <1>3 DEF BrokerSteps, MakeDirs, RemoveOld, Listen, Open, Collides, CloseOnCancel, Return, Fails
<1>4. CASE MainSteps \/ MainStops
  BY <1>4 DEF MainSteps, OpenControl, ControlFails, RemoveTree, RemoveFails, ExitMain, MainStops
<1> QED
  BY <1>1, <1>2, <1>3, <1>4 DEF Next, GoesOn

-----------------------------------------------------------------------------
\* The steps of start.
LEMMA Start_Serial ==
  ASSUME TypeOK, Orderly, trouble = {} => Smooth, NEW a \in Actors,
         \/ Lock(a) \/ AlreadyRunning(a) \/ NewFails(a) \/ Spawn(a)
         \/ SocketAppears(a) \/ BrokerFailed(a) \/ SocketIsLate(a),
         trouble' \subseteq {"failure"}
  PROVE  Orderly' /\ (trouble' = {} => Smooth')
<1> USE SupervisorConstants DEF At
<1>0. call \in [Actors -> [pc : Phases, number : Numbers \cup {None}, reply : {"none", "OK", "FAIL"}]]
  BY DEF TypeOK
<1>1. CASE Lock(a)
  <2>1. Became(a, "creating", call[a].number, call[a].reply) /\ call[a].pc = "starting"
        /\ UNCHANGED <<tracked, brokers, socket, tree, trouble>>
    BY <1>1, Becoming DEF Lock
  <2>2. Orderly'
    BY <2>1 DEF Orderly, Became, Changing, Holding, Empty, Alive, Actors
  <2>3. trouble = {} => Smooth'
    BY <2>1 DEF Smooth, Became, Changing, Actors
  <2> QED
    BY <2>1, <2>2, <2>3
<1>2. CASE AlreadyRunning(a)
  BY <1>2 DEF AlreadyRunning, Orderly, Empty
<1>3. CASE NewFails(a)
  <2>1. PICK pc \in {"leaving", "answered"} :
          /\ Became(a, pc, call[a].number, "FAIL") /\ (pc = "leaving" <=> a = Main)
    BY <1>3, Becoming, Zenon DEF NewFails, AfterFailedStart
  <2>2. call[a].pc = "creating" /\ UNCHANGED <<tracked, brokers, socket, tree>> /\ trouble' # {}
    BY <1>3 DEF NewFails, Fault
  <2>3. Orderly'
    BY <2>1, <2>2 DEF Orderly, Became, Changing, Holding, Empty, Alive, Actors
  <2> QED
    BY <2>2, <2>3
<1>4. CASE Spawn(a)
  <2>1. PICK n \in Numbers : /\ brokers[n].pc = "unborn" /\ brokers' = [brokers EXCEPT ![n].pc = "new"]
                             /\ Became(a, "waiting", n, call[a].reply)
    BY <1>4, Becoming DEF Spawn
  <2>2. call[a].pc = "creating" /\ UNCHANGED <<tracked, socket, tree, trouble>>
    BY <1>4 DEF Spawn
  <2>3. /\ tracked = None /\ socket = None /\ \A k \in Numbers : ~Alive(k)
    BY <2>2, NobodyLives DEF Empty, Holding
  <2>4. /\ brokers'[n].pc = "new" /\ brokers'[n].done = brokers[n].done /\ brokers'[n].cancelled = brokers[n].cancelled
        /\ \A k \in Numbers \ {n} : brokers'[k] = brokers[k]
    BY <2>1 DEF TypeOK
  <2>5. Orderly'
    BY <2>1, <2>2, <2>3, <2>4 DEF Orderly, Became, Changing, Holding, Empty, Alive, Actors, Numbers
  <2>6. trouble = {} => Smooth'
    BY <2>1, <2>2, <2>3, <2>4 DEF Orderly, Smooth, Became, Changing, Holding, Empty, Alive, Actors, Numbers
  <2> QED
    BY <2>2, <2>5, <2>6
<1>5. CASE SocketAppears(a)
  <2>1. PICK pc \in {"listening", "reporting"} : Became(a, pc, call[a].number, call[a].reply)
    BY <1>5, Becoming, Zenon DEF SocketAppears, AfterStart
  <2>2. /\ call[a].pc = "waiting" /\ socket # None /\ tracked' = call[a].number
        /\ UNCHANGED <<brokers, socket, tree, trouble>>
    BY <1>5 DEF SocketAppears
  <2>3. /\ call[a].number \in Numbers /\ socket = call[a].number
        /\ \A n \in Numbers : Alive(n) => n = call[a].number
    BY <2>2, OneLives DEF Holding
  <2>4. /\ \A b \in Actors : call[b].pc \in Empty => b = a
        /\ Changing(a)
    BY <2>2 DEF Orderly, Changing, Empty
  <2>5. Orderly'
    BY <2>1, <2>2, <2>3, <2>4 DEF Orderly, Became, Changing, Holding, Empty, Alive, Actors, Numbers
  <2>6. trouble = {} => Smooth'
    BY <2>1, <2>2, <2>3, <2>4 DEF Orderly, Smooth, Became, Changing, Holding, Empty, Alive, Actors, Numbers
  <2> QED
    BY <2>2, <2>5, <2>6
<1>6. CASE BrokerFailed(a)
  <2>1. PICK pc \in {"leaving", "answered"} :
          /\ Became(a, pc, call[a].number, "FAIL") /\ (pc = "leaving" <=> a = Main)
    BY <1>6, Becoming, Zenon DEF BrokerFailed, AfterFailedStart
  <2>2. /\ call[a].pc = "waiting" /\ UNCHANGED <<tracked, socket, tree, trouble>>
        /\ brokers[call[a].number].done = "error" /\ brokers' = [brokers EXCEPT ![call[a].number].cancelled = TRUE]
    BY <1>6 DEF BrokerFailed
  <2>3. /\ call[a].number \in Numbers /\ tracked = None
        /\ \A n \in Numbers : Alive(n) => n = call[a].number
    BY <2>2, OneLives DEF Holding
  <2>4. /\ \A n \in Numbers : brokers'[n].pc = brokers[n].pc /\ brokers'[n].done = brokers[n].done
        /\ \A n \in Numbers \ {call[a].number} : brokers'[n] = brokers[n]
    BY <2>2, <2>3 DEF TypeOK
  <2>5. Orderly'
    BY <2>1, <2>2, <2>3, <2>4 DEF Orderly, Became, Changing, Holding, Empty, Alive, Actors, Numbers
  <2>6. trouble # {}
    BY <2>2, <2>3 DEF Smooth
  <2> QED
    BY <2>2, <2>5, <2>6
<1>7. CASE SocketIsLate(a)
  BY <1>7 DEF SocketIsLate, Fault
<1> QED
  BY <1>1, <1>2, <1>3, <1>4, <1>5, <1>6, <1>7

\* The steps of stop.
LEMMA Stop_Serial ==
  ASSUME TypeOK, Orderly, trouble = {} => Smooth, NEW a \in Actors,
         Take(a) \/ Cancel(a) \/ BrokerStopped(a) \/ BrokerDidNotStop(a),
         trouble' \subseteq {"failure"}
  PROVE  Orderly' /\ (trouble' = {} => Smooth')
<1> USE SupervisorConstants DEF At
<1> DEFINE after == IF a # Main THEN "configuring" ELSE IF call[a].reply = "FAIL" THEN "leaving" ELSE "removing"
<1>1. CASE Take(a)
  <2>1. /\ call[a].pc = "stopping" /\ tracked' = None /\ UNCHANGED <<brokers, socket, tree, trouble>>
        /\ Changing(a)
    BY <1>1 DEF Take, Changing
  <2>2. CASE tracked = None
    <3>1. Became(a, after, call[a].number, call[a].reply) /\ after \in {"configuring", "leaving", "removing"}
      BY <1>1, <2>2, Becoming DEF Take, AfterStop
    <3>2. a = Main /\ after = "leaving" => call[Main].reply = "FAIL"
      OBVIOUS
    <3> HIDE DEF after
    <3>3. Orderly'
      BY <2>1, <2>2, <3>1, <3>2 DEF Orderly, Became, Changing, Holding, Empty, Alive, Actors, Numbers
    <3>4. trouble # {}
      BY <2>1, <2>2 DEF Smooth
    <3> QED
      BY <2>1, <3>3, <3>4
  <2>3. CASE tracked # None
    <3>1. Became(a, "cancelling", tracked, call[a].reply) /\ tracked \in Numbers
      BY <1>1, <2>3, Becoming DEF Take, TypeOK
    <3>2. Orderly'
      BY <2>1, <2>3, <3>1 DEF Orderly, Became, Changing, Holding, Empty, Alive, Actors, Numbers
    <3>3. trouble = {} => Smooth'
      BY <2>1, <2>3, <3>1 DEF Orderly, Smooth, Became, Changing, Holding, Empty, Alive, Actors, Numbers
    <3> QED
      BY <2>1, <3>2, <3>3
  <2> QED
    BY <2>2, <2>3
<1>2. CASE Cancel(a)
  <2>1. /\ call[a].pc = "cancelling" /\ UNCHANGED <<tracked, socket, tree, trouble>>
        /\ brokers' = [brokers EXCEPT ![call[a].number].cancelled = TRUE]
        /\ Became(a, "awaiting", call[a].number, call[a].reply)
    BY <1>2, Becoming DEF Cancel
  <2>2. /\ call[a].number \in Numbers /\ tracked = None
        /\ \A n \in Numbers : Alive(n) => n = call[a].number
    BY <2>1, OneLives DEF Holding
  <2>3. /\ \A n \in Numbers : brokers'[n].pc = brokers[n].pc /\ brokers'[n].done = brokers[n].done
        /\ \A n \in Numbers \ {call[a].number} : brokers'[n] = brokers[n]
    BY <2>1, <2>2 DEF TypeOK
  <2>4. Orderly'
    BY <2>1, <2>2, <2>3 DEF Orderly, Became, Changing, Holding, Empty, Alive, Actors, Numbers
  <2>5. \A b \in Actors : Holding(b) => b = a
    BY <2>1 DEF Orderly, Holding, Changing
  <2>6. trouble = {} => Smooth'
    BY <2>1, <2>2, <2>3, <2>5 DEF Smooth, Became, Changing, Holding, Actors
  <2> QED
    BY <2>1, <2>4, <2>6
<1>3. CASE BrokerStopped(a)
  <2>1. /\ call[a].pc = "awaiting" /\ socket' = None /\ UNCHANGED <<tracked, brokers, tree, trouble>>
        /\ brokers[call[a].number].done # "none"
        /\ IF brokers[call[a].number].done = "nil" THEN AfterStop(a) ELSE AfterFailedStop(a)
    BY <1>3 DEF BrokerStopped
  <2>2. /\ call[a].number \in Numbers /\ tracked = None
        /\ \A n \in Numbers : Alive(n) => n = call[a].number
    BY <2>1, OneLives DEF Holding
  <2>3. \A n \in Numbers : ~Alive(n)
    BY <2>1, <2>2 DEF Orderly, Alive
  <2>4. PICK pc \in {"configuring", "leaving", "removing", "answered"}, reply \in {call[a].reply, "FAIL"} :
          /\ Became(a, pc, call[a].number, reply)
          /\ a = Main /\ pc = "leaving" => reply = "FAIL"
          /\ a # Main => pc \notin {"leaving", "removing"}
          /\ a = Main => pc # "answered"
    <3>1. CASE AfterStop(a)
      <4>1. Became(a, after, call[a].number, call[a].reply)
        BY <3>1, Becoming DEF AfterStop
      <4> QED
        BY <4>1
    <3>2. CASE a # Main /\ Replies(a, "FAIL")
      <4>1. Became(a, "answered", call[a].number, "FAIL")
        BY <3>2, Becoming DEF Replies
      <4> QED
        BY <3>2, <4>1
    <3> QED
      BY <2>1, <3>1, <3>2 DEF AfterFailedStop
  <2>5. Orderly'
    BY <2>1, <2>2, <2>3, <2>4 DEF Orderly, Became, Changing, Holding, Empty, Alive, Actors, Numbers
  <2>6. ASSUME trouble = {}
        PROVE  Smooth'
    <3>1. brokers[call[a].number].done = "nil" /\ call[Main].reply # "FAIL"
      BY <2>1, <2>2, <2>6 DEF Smooth, TypeOK
    <3>2. AfterStop(a) /\ Became(a, after, call[a].number, call[a].reply) /\ after \in {"configuring", "removing"}
      BY <2>1, <3>1, Becoming DEF AfterStop
    <3> HIDE DEF after
    <3> QED
      BY <2>1, <2>2, <2>6, <3>1, <3>2 DEF Smooth, Became, Changing, Actors
  <2> QED
    BY <2>1, <2>5, <2>6
<1>4. CASE BrokerDidNotStop(a)
  BY <1>4 DEF BrokerDidNotStop, Fault
<1> QED
  BY <1>1, <1>2, <1>3, <1>4

\* A broker that lives is tracked or held, and nobody has left the tree behind.
LEMMA LivesInTree ==
  ASSUME TypeOK, Orderly, NEW n \in Numbers, Alive(n)
  PROVE  tree /\ call[Main].pc \notin {"leaving", "exited"}
<1>1. call[Main].pc \notin {"leaving", "exited"}
  BY NobodyLives DEF Holding, Empty, Actors
<1> QED
  BY <1>1 DEF Orderly

\* At most one broker lives, and if there is a socket it is its own.
LEMMA OnlyOne ==
  ASSUME TypeOK, Orderly, NEW n \in Numbers, Alive(n)
  PROVE  socket \in {None, n} /\ \A k \in Numbers : Alive(k) => k = n
<1>1. \A k \in Numbers : Alive(k) => k = n
  <2>1. CASE tracked = n
    BY <2>1, SupervisorConstants DEF Orderly, Holding, Empty, Numbers
  <2>2. CASE tracked # n
    BY <2>2, OneLives DEF Orderly
  <2> QED
    BY <2>1, <2>2
<1>2. socket # None => socket \in Numbers /\ brokers[socket].pc \in {"opening", "accepting"}
  BY DEF Orderly, TypeOK
<1> QED
  BY <1>1, <1>2 DEF Alive

\* A broker that moves on keeps the order if its phase, its result and the socket fit.
LEMMA OrderKept ==
  ASSUME TypeOK, Orderly, NEW n \in Numbers, Alive(n), UNCHANGED <<tracked, call>>,
         \A k \in Numbers \ {n} : brokers'[k] = brokers[k],
         brokers'[n].pc \notin {"unborn", "removing"},
         brokers'[n].pc \in {"new", "binding"} => socket' = None,
         brokers'[n].pc \in {"opening", "accepting"} <=> socket' = n,
         brokers'[n].done # "none" <=> brokers'[n].pc = "ended",
         socket' \in {None, n}, tree' \in {tree, TRUE}
  PROVE  Orderly'
<1>1. \A k \in Numbers : Alive(k) => k = n
  BY OnlyOne
<1>2. \A k \in Numbers \ {n} : brokers'[k].pc \in {"unborn", "ended"}
  BY <1>1 DEF Alive
<1>3. \A a \in Actors : Holding(a) => call[a].number \in Numbers
  BY DEF TypeOK, Holding
<1>4. tree' = TRUE \/ tree' = tree
  OBVIOUS
<1>5. call[Main].pc \notin {"leaving", "exited"} /\ tree
  BY LivesInTree
<1>6. /\ \A a, b \in Actors : Changing(a)' /\ Changing(b)' => a = b
      /\ \A h \in Handlers : call'[h].pc \in {"idle", "writing"} => call'[h].number = None
      /\ \A a \in Actors : call'[a].pc \in Empty => tracked' = None
  BY DEF Orderly, Changing
<1>7. \A k \in Numbers : Alive(k)' => tracked' = k \/ \E a \in Actors : Holding(a)' /\ call'[a].number = k
  BY <1>2 DEF Orderly, Alive, Holding
<1>8. /\ tracked' # None => brokers'[tracked'].pc # "unborn"
      /\ \A a \in Actors : Holding(a)' => brokers'[call'[a].number].pc # "unborn"
  <2>1. \A k \in Numbers : brokers[k].pc # "unborn" => brokers'[k].pc # "unborn"
    OBVIOUS
  <2>2. tracked # None => tracked \in Numbers /\ brokers[tracked].pc # "unborn"
    BY DEF Orderly, TypeOK
  <2>3. \A a \in Actors : Holding(a) => brokers[call[a].number].pc # "unborn"
    BY DEF Orderly
  <2> QED
    BY <1>3, <2>1, <2>2, <2>3 DEF Holding
<1>9. \A k \in Numbers :
       /\ brokers'[k].pc # "removing"
       /\ brokers'[k].pc = "unborn" => ~brokers'[k].cancelled
       /\ brokers'[k].pc \in {"new", "binding"} => socket' = None
       /\ brokers'[k].pc \in {"opening", "accepting"} <=> socket' = k
       /\ brokers'[k].done # "none" <=> brokers'[k].pc = "ended"
  BY <1>2, SupervisorConstants DEF Orderly, Numbers
<1> QED
  BY <1>4, <1>5, <1>6, <1>7, <1>8, <1>9 DEF Orderly

\* The goroutine of a broker.
LEMMA Broker_Serial ==
  ASSUME TypeOK, Orderly, trouble = {} => Smooth, NEW n \in Numbers, BrokerSteps(n) \/ Fails(n),
         trouble' \subseteq {"failure"}
  PROVE  Orderly' /\ (trouble' = {} => Smooth')
<1> USE SupervisorConstants DEF Broker, Becomes
<1> DEFINE Kinds == {"unborn", "new", "removing", "binding", "opening", "accepting", "closing", "failing", "ended"}
<1>0. /\ n # None /\ tree \in BOOLEAN /\ (brokers[n].done # "none" <=> brokers[n].pc = "ended")
      /\ brokers[n].pc \in {"opening", "accepting"} <=> socket = n
      /\ Alive(n) => socket \in {None, n}
  <2>1. n # None /\ tree \in BOOLEAN
    BY DEF TypeOK, Numbers
  <2>2. /\ brokers[n].done # "none" <=> brokers[n].pc = "ended"
        /\ brokers[n].pc \in {"opening", "accepting"} <=> socket = n
    BY DEF Orderly
  <2> QED
    BY <2>1, <2>2, OnlyOne
\* What a step that moves the broker from one phase to another makes of the others.
<1>1. ASSUME NEW pc, brokers' = [brokers EXCEPT ![n].pc = pc]
      PROVE  /\ brokers'[n].pc = pc /\ brokers'[n].done = brokers[n].done
             /\ brokers'[n].cancelled = brokers[n].cancelled
             /\ \A k \in Numbers \ {n} : brokers'[k] = brokers[k]
  BY <1>1 DEF TypeOK
<1>2. CASE MakeDirs(n)
  <2>1. /\ brokers[n].pc = "new" /\ tree' = TRUE /\ socket = None /\ UNCHANGED <<tracked, call, socket, trouble>>
        /\ brokers' = [brokers EXCEPT ![n].pc = "binding"]
    BY <1>2 DEF MakeDirs, Orderly
  <2>2. call[Main].pc \notin {"leaving", "exited"}
    BY <2>1, LivesInTree DEF Alive
  <2>3. Orderly'
    BY <1>1, <2>1, <2>2 DEF Orderly, Changing, Holding, Alive
  <2>4. trouble = {} => Smooth'
    BY <1>1, <2>1 DEF Smooth, Changing
  <2> QED
    BY <2>1, <2>3, <2>4
<1>3. CASE RemoveOld(n)
  BY <1>3 DEF RemoveOld, Orderly
<1>4. CASE Listen(n)
  <2>1. /\ brokers[n].pc = "binding" /\ socket = None /\ socket' = n /\ UNCHANGED <<tracked, call, tree, trouble>>
        /\ brokers' = [brokers EXCEPT ![n].pc = "opening"]
    BY <1>4 DEF Listen
  <2>2. brokers'[n].pc = "opening" /\ brokers'[n].done = "none" /\ Alive(n) /\ \A k \in Numbers \ {n} : brokers'[k] = brokers[k]
    BY <1>0, <1>1, <2>1 DEF Alive
  <2>3. Orderly'
    BY <2>1, <2>2, OrderKept
  <2>4. trouble = {} => Smooth'
    BY <1>1, <2>1 DEF Smooth, Changing
  <2> QED
    BY <2>1, <2>3, <2>4
<1>5. CASE Open(n)
  <2>1. /\ brokers[n].pc = "opening" /\ UNCHANGED <<tracked, call, socket, tree, trouble>>
        /\ brokers' = [brokers EXCEPT ![n].pc = "accepting"]
    BY <1>5 DEF Open
  <2>2. Orderly'
    BY <1>1, <2>1 DEF Orderly, Changing, Holding, Alive
  <2>3. trouble = {} => Smooth'
    BY <1>1, <2>1 DEF Smooth, Changing
  <2> QED
    BY <2>1, <2>2, <2>3
<1>6. CASE Collides(n)
  BY <1>6, LivesInTree DEF Collides, Orderly, Alive, Numbers
<1>7. CASE CloseOnCancel(n)
  <2>1. /\ brokers[n].pc = "accepting" /\ brokers[n].cancelled /\ socket' = None
        /\ UNCHANGED <<tracked, call, tree, trouble>>
        /\ brokers' = [brokers EXCEPT ![n].pc = "closing"]
    BY <1>7 DEF CloseOnCancel
  <2>t. brokers'[n].pc = "closing" /\ brokers'[n].done = "none" /\ Alive(n) /\ \A k \in Numbers \ {n} : brokers'[k] = brokers[k]
    BY <1>0, <1>1, <2>1 DEF Alive
  <2>2. Orderly'
    BY <1>0, <2>1, <2>t, OrderKept
  <2>3. trouble = {} => Smooth'
    BY <1>1, <2>1 DEF Smooth, Changing
  <2> QED
    BY <2>1, <2>2, <2>3
<1>8. CASE Return(n)
  <2>1. /\ brokers[n].pc \in {"closing", "failing"} /\ UNCHANGED <<tracked, call, socket, tree, trouble>>
        /\ brokers'[n].pc = "ended" /\ brokers'[n].done = (IF brokers[n].pc = "closing" THEN "nil" ELSE "error")
        /\ brokers'[n].cancelled = brokers[n].cancelled
        /\ \A k \in Numbers \ {n} : brokers'[k] = brokers[k]
    BY <1>8 DEF Return, TypeOK
  <2>2. Orderly'
    BY <1>0, <2>1, OrderKept DEF Alive
  <2>3. \A a \in Actors : Holding(a) => call[a].number \in Numbers
    BY DEF TypeOK, Holding
  <2>4. trouble = {} => Smooth'
    BY <2>1, <2>3 DEF TypeOK, Smooth, Changing, Holding
  <2> QED
    BY <2>1, <2>2, <2>4
<1>9. CASE Fails(n)
  <2>1. PICK pc \in {"closing", "failing"} : brokers' = [brokers EXCEPT ![n].pc = pc]
    BY <1>9, Zenon DEF Fails
  <2>2. /\ brokers[n].pc \in {"new", "removing", "binding", "opening", "accepting"}
        /\ socket' = (IF brokers[n].pc \in {"opening", "accepting"} THEN None ELSE socket)
        /\ UNCHANGED <<tracked, call, tree>> /\ trouble' # {}
    BY <1>9 DEF Fails, Fault
  <2>3. Orderly'
    BY <1>0, <1>1, <2>1, <2>2, OrderKept DEF Alive
  <2> QED
    BY <2>2, <2>3
<1> QED
  BY <1>2, <1>3, <1>4, <1>5, <1>6, <1>7, <1>8, <1>9 DEF BrokerSteps

\* What comes in over the control socket, and what main does.
LEMMA Other_Serial ==
  ASSUME TypeOK, Orderly, trouble = {} => Smooth,
         \/ \E h \in Handlers : HandlerSteps(h) \/ Asks(h)
         \/ MainSteps \/ MainStops,
         trouble' \subseteq {"failure"}
  PROVE  Orderly' /\ (trouble' = {} => Smooth')
<1> USE SupervisorConstants DEF At
<1>1. ASSUME NEW h \in Handlers, HandlerSteps(h) \/ Asks(h)
      PROVE  Orderly' /\ (trouble' = {} => Smooth')
  <2>0. h \in Actors /\ h # Main
    BY DEF Actors
  <2>1. CASE Configure(h)
    <3>1. /\ call[h].pc = "configuring" /\ Became(h, "starting", call[h].number, call[h].reply)
          /\ UNCHANGED <<tracked, brokers, socket, tree, trouble>>
      BY <2>0, <2>1, Becoming DEF Configure
    <3>2. Orderly'
      BY <2>0, <3>1 DEF Orderly, Became, Changing, Holding, Empty, Alive, Actors
    <3>3. trouble = {} => Smooth'
      BY <2>0, <3>1 DEF Smooth, Became, Changing, Actors
    <3> QED
      BY <3>1, <3>2, <3>3
  <2>2. CASE ConfigureFails(h)
    <3>1. /\ call[h].pc = "configuring" /\ Became(h, "answered", call[h].number, "FAIL")
          /\ UNCHANGED <<tracked, brokers, socket, tree>> /\ trouble' # {}
      BY <2>0, <2>2, Becoming DEF ConfigureFails, Replies, Fault
    <3>2. Orderly'
      BY <2>0, <3>1 DEF Orderly, Became, Changing, Holding, Empty, Alive, Actors
    <3> QED
      BY <3>1, <3>2
  <2>3. CASE Status(h)
    <3>1. PICK word \in {"OK", "FAIL"} : Replies(h, word) /\ (tracked # None => word = "OK")
      BY <2>3, Zenon DEF Status
    <3>2. /\ call[h].pc = "reporting" /\ Became(h, "answered", call[h].number, word)
          /\ UNCHANGED <<tracked, brokers, socket, tree, trouble>>
      BY <2>0, <2>3, <3>1, Becoming DEF Status, Replies
    <3>3. Orderly'
      BY <2>0, <3>2 DEF Orderly, Became, Changing, Holding, Empty, Alive, Actors
    <3>4. trouble = {} => Smooth'
      BY <2>0, <3>1, <3>2 DEF Smooth, Became, Changing, Actors
    <3> QED
      BY <3>2, <3>3, <3>4
  <2>4. CASE AskRestart(h)
    <3>1. /\ call[h].pc = "idle" /\ Became(h, "stopping", call[h].number, call[h].reply)
          /\ UNCHANGED <<tracked, brokers, socket, tree>>
      BY <2>0, <2>4, Becoming DEF AskRestart
    <3>2. (\A a \in Actors \ {h} : ~Changing(a)) /\ trouble' = trouble
      BY <2>4 DEF AskRestart, Fault
    <3>3. Orderly'
      BY <2>0, <3>1, <3>2 DEF Orderly, Became, Changing, Holding, Empty, Alive, Actors
    <3>4. trouble = {} => Smooth'
      BY <2>0, <3>1, <3>2 DEF Smooth, Became, Changing, Actors
    <3> QED
      BY <3>2, <3>3, <3>4
  <2>5. CASE AskStatus(h)
    <3>1. /\ call[h].pc = "idle" /\ Became(h, "reporting", call[h].number, call[h].reply)
          /\ UNCHANGED <<tracked, brokers, socket, tree, trouble>> /\ call[h].number = None
      BY <2>0, <2>5, Becoming DEF AskStatus, Orderly
    <3>2. Orderly'
      BY <2>0, <3>1 DEF Orderly, Became, Changing, Holding, Empty, Alive, Actors
    <3>3. trouble = {} => Smooth'
      BY <2>0, <3>1 DEF Smooth, Became, Changing, Actors
    <3> QED
      BY <3>1, <3>2, <3>3
  <2>6. CASE AskStop(h)
    <3>1. /\ call[h].pc = "idle" /\ Became(h, "answered", call[h].number, "OK")
          /\ UNCHANGED <<tracked, brokers, socket, tree, trouble>>
      BY <2>0, <2>6, Becoming DEF AskStop, Replies
    <3>2. Orderly'
      BY <2>0, <3>1 DEF Orderly, Became, Changing, Holding, Empty, Alive, Actors
    <3>3. trouble = {} => Smooth'
      BY <2>0, <3>1 DEF Smooth, Became, Changing, Actors
    <3> QED
      BY <3>1, <3>2, <3>3
  <2>7. CASE AskTamper(h) \/ Request(h)
    <3>1. /\ call[h].pc = "idle" /\ Became(h, "writing", call[h].number, call[h].reply)
          /\ UNCHANGED <<tracked, brokers, socket, tree>>
      BY <2>0, <2>7, Becoming DEF AskTamper, Request
    <3>2. call[Main].pc # "leaving" /\ call[Main].pc # "exited" /\ trouble' = trouble
      BY <2>7 DEF AskTamper, Request, Fault, Running
    <3>3. Orderly'
      BY <2>0, <3>1, <3>2 DEF Orderly, Became, Changing, Holding, Empty, Alive, Actors
    <3>4. trouble = {} => Smooth'
      BY <2>0, <3>1, <3>2 DEF Smooth, Became, Changing, Actors
    <3> QED
      BY <3>2, <3>3, <3>4
  <2>8. CASE Write(h) \/ WriteFails(h)
    <3>1. PICK word \in {"OK", "FAIL"} :
            /\ call[h].pc = "writing" /\ Became(h, "answered", call[h].number, word)
            /\ UNCHANGED <<tracked, brokers, socket>> /\ (tree => tree') /\ tree' \in BOOLEAN
            /\ word = "OK" => trouble' = trouble
            /\ word = "FAIL" => trouble' # {}
      <4>1. CASE Write(h)
        <5>1. Became(h, "answered", call[h].number, "OK")
          BY <2>0, <4>1, Becoming DEF Write, Replies
        <5> QED
          BY <4>1, <5>1 DEF Write, TypeOK
      <4>2. CASE WriteFails(h)
        <5>1. Became(h, "answered", call[h].number, "FAIL")
          BY <2>0, <4>2, Becoming DEF WriteFails, Replies
        <5> QED
          <6>1. tree \in BOOLEAN /\ tree' \in {tree, TRUE}
            BY <4>2 DEF WriteFails, TypeOK
          <6>2. (tree => tree') /\ tree' \in BOOLEAN
            BY <6>1, Zenon
          <6> QED
            BY <4>2, <5>1, <6>2 DEF WriteFails, Fault
      <4> QED
        BY <2>8, <4>1, <4>2
    <3>2. Orderly'
      <4>1. ~(call[Main].pc \in {"leaving", "exited"} /\ call[Main].reply # "FAIL")
        BY <3>1 DEF Orderly
      <4>2. call'[Main] = call[Main]
        BY <2>0, <3>1 DEF Became, Actors
      <4> QED
        BY <2>0, <3>1, <4>1, <4>2 DEF Orderly, Became, Changing, Holding, Empty, Alive, Actors
    <3>3. call[h].number = None
      BY <2>0, <3>1 DEF Orderly
    <3>4. trouble' = {} => Smooth'
      BY <2>0, <3>1, <3>3 DEF Smooth, Became, Changing, Actors
    <3> QED
      BY <3>2, <3>4
  <2> QED
    BY <1>1, <2>1, <2>2, <2>3, <2>4, <2>5, <2>6, <2>7, <2>8 DEF HandlerSteps, Asks
<1>2. Main \in Actors
  BY DEF Actors
<1>3. CASE OpenControl
  <2>1. /\ call[Main].pc = "listening" /\ Became(Main, "serving", call[Main].number, call[Main].reply)
        /\ UNCHANGED <<tracked, brokers, socket, tree, trouble>>
    BY <1>2, <1>3, Becoming DEF OpenControl
  <2>2. Orderly'
    BY <1>2, <2>1 DEF Orderly, Became, Changing, Holding, Empty, Alive, Actors
  <2>3. trouble = {} => Smooth'
    BY <1>2, <2>1 DEF Smooth, Became, Changing, Actors
  <2> QED
    BY <2>1, <2>2, <2>3
<1>4. CASE ControlFails
  <2>1. /\ call[Main].pc = "listening" /\ Became(Main, "stopping", call[Main].number, "FAIL")
        /\ UNCHANGED <<tracked, brokers, socket, tree>> /\ trouble' # {}
    BY <1>2, <1>4, Becoming DEF ControlFails, Fault
  <2>2. Orderly'
    BY <1>2, <2>1 DEF Orderly, Became, Changing, Holding, Empty, Alive, Actors
  <2> QED
    BY <2>1, <2>2
<1>5. CASE RemoveTree
  <2>1. /\ call[Main].pc = "removing" /\ Became(Main, "leaving", call[Main].number, call[Main].reply)
        /\ UNCHANGED <<tracked, brokers, trouble>> /\ tree' = FALSE /\ socket' = None
        /\ \A h \in Handlers : call[h].pc # "writing"
    BY <1>2, <1>5, Becoming DEF RemoveTree, Fault
  <2>2. socket = None
    BY <1>2, <2>1, NobodyLives DEF Empty, Holding
  <2>3. Orderly'
    BY <1>2, <2>1, <2>2 DEF Orderly, Became, Changing, Holding, Empty, Alive, Actors
  <2>4. trouble = {} => Smooth'
    BY <1>2, <2>1 DEF Smooth, Became, Changing, Actors
  <2> QED
    BY <2>1, <2>3, <2>4
<1>8. CASE RemoveFails
  BY <1>8 DEF RemoveFails, Fault
<1>6. CASE ExitMain
  <2>1. /\ call[Main].pc = "leaving" /\ Became(Main, "exited", call[Main].number, call[Main].reply)
        /\ UNCHANGED <<tracked, brokers, socket, tree, trouble>>
    BY <1>2, <1>6, Becoming DEF ExitMain
  <2>2. Orderly'
    BY <1>2, <2>1 DEF Orderly, Became, Changing, Holding, Empty, Alive, Actors
  <2>3. trouble = {} => Smooth'
    BY <1>2, <2>1 DEF Smooth, Became, Changing, Actors
  <2> QED
    BY <2>1, <2>2, <2>3
<1>7. CASE MainStops
  <2>1. /\ call[Main].pc = "serving" /\ Became(Main, "stopping", call[Main].number, call[Main].reply)
        /\ UNCHANGED <<tracked, brokers, socket, tree>>
    BY <1>2, <1>7, Becoming DEF MainStops
  <2>2. (\A h \in Handlers : ~Changing(h)) /\ trouble' = trouble
    BY <1>7 DEF MainStops, Fault
  <2>3. \A a \in Actors : ~Changing(a)
    BY <2>1, <2>2 DEF Changing, Actors
  <2>4. Orderly'
    BY <1>2, <2>1, <2>3 DEF Orderly, Became, Changing, Holding, Empty, Alive, Actors
  <2>5. trouble = {} => Smooth'
    BY <1>2, <2>1, <2>3 DEF Smooth, Became, Changing, Actors
  <2> QED
    BY <2>2, <2>4, <2>5
<1> QED
  BY <1>1, <1>3, <1>4, <1>5, <1>6, <1>7, <1>8 DEF MainSteps

\* At the beginning main is about to start its broker.
LEMMA Init_Serial == Init => SerialInv
<1> SUFFICES ASSUME Init PROVE SerialInv
  OBVIOUS
<1>1. \A a \in Actors : /\ call[a].pc = (IF a = Main THEN "starting" ELSE "idle")
                        /\ call[a].number = None /\ call[a].reply = "none"
  BY DEF Init
<1>2. \A n \in Numbers : brokers[n].pc = "unborn" /\ brokers[n].done = "none" /\ ~brokers[n].cancelled /\ n # None
  BY SupervisorConstants DEF Init, Numbers
<1>3. Orderly
  BY <1>1, <1>2, SupervisorConstants DEF Init, Orderly, Changing, Holding, Alive, Actors
<1>4. Smooth
  BY <1>1, <1>2 DEF Init, Smooth, Changing, Actors
<1> QED
  BY <1>3, <1>4, Init_Inv DEF SerialInv

\* Every step keeps the order.
LEMMA Next_Serial == SerialInv /\ [Next]_vars => SerialInv'
<1> SUFFICES ASSUME SerialInv, [Next]_vars PROVE SerialInv'
  OBVIOUS
<1>1. SupervisorInv' /\ TypeOK
  BY Next_Inv DEF SerialInv, SupervisorInv
<1>2. CASE UNCHANGED vars
  BY <1>1, <1>2 DEF vars, SerialInv, Orderly, Smooth, Changing, Holding, Alive
<1>3. CASE Next /\ trouble' \subseteq {"failure"}
  <2>1. Orderly /\ (trouble = {} => Smooth)
    BY <1>3, TroubleStays DEF SerialInv
  <2>2. Orderly' /\ (trouble' = {} => Smooth')
    BY <1>1, <1>3, <2>1, Start_Serial, Stop_Serial, Broker_Serial, Other_Serial DEF Next, GoesOn, ActorSteps
  <2> QED
    BY <1>1, <2>2 DEF SerialInv
<1>4. CASE Next /\ ~(trouble' \subseteq {"failure"})
  BY <1>1, <1>4 DEF SerialInv
<1> QED
  BY <1>2, <1>3, <1>4

\* As long as commands come one after the other and none is late, what lives is in order.
THEOREM SerialInvariant == Spec => []SerialInv
<1> QED
  BY Init_Serial, Next_Serial, PTL DEF Spec

\* Clients reach the tracked broker: the end of the one before never removes its socket.
THEOREM TrackedIsReached == Spec => []TrackedIsReachable
<1>1. SerialInv => TrackedIsReachable
  BY SupervisorConstants DEF SerialInv, SupervisorInv, TypeOK, Orderly, Smooth, TrackedIsReachable
<1> QED
  BY <1>1, SerialInvariant, PTL

\* Restarts that come one after the other succeed if nothing fails.
THEOREM RestartsSucceed == Spec => []SerialRestartSucceeds
<1>1. SerialInv => SerialRestartSucceeds
  BY SupervisorConstants DEF SerialInv, Smooth, SerialRestartSucceeds, Actors
<1> QED
  BY <1>1, SerialInvariant, PTL

\* A supervisor that has served and ends leaves nothing, even if its broker or a restart has
\* failed, unless the removal fails or a handler writes to the tree while it is removed.
THEOREM NothingIsLeft == Spec => []LeavesNothing
<1>1. SerialInv => LeavesNothing
  <2> SUFFICES ASSUME SerialInv, ~Running, call[Main].reply # "FAIL", trouble \subseteq {"failure"}
               PROVE  ~tree /\ socket = None
    BY DEF LeavesNothing
  <2>1. TypeOK /\ Orderly /\ call[Main].pc = "exited" /\ Main \in Actors
    BY DEF SerialInv, SupervisorInv, Running, Actors
  <2>2. socket = None
    BY <2>1, NobodyLives DEF Empty, Holding
  <2> QED
    BY <2>1, <2>2 DEF Orderly
<1> QED
  BY <1>1, SerialInvariant, PTL

-----------------------------------------------------------------------------
(***************************************************************************)
(* What CommandAnswered and SupervisorStops rest on.  Every step takes a   *)
(* goroutine on and none back, so that there are finitely many; and as     *)
(* long as a command or a stop is under way, somebody does not wait.       *)
(***************************************************************************)
\* The phases of main, of a handler and of a broker in the order in which they are passed.
MainRank ==
  [starting |-> 0, creating |-> 1, waiting |-> 2, listening |-> 3, serving |-> 4, stopping |-> 5,
   cancelling |-> 6, awaiting |-> 7, removing |-> 8, leaving |-> 9, exited |-> 10]
HandlerRank ==
  [idle |-> 0, stopping |-> 1, cancelling |-> 2, awaiting |-> 3, configuring |-> 4, starting |-> 5,
   creating |-> 6, waiting |-> 7, reporting |-> 8, writing |-> 8, answered |-> 9]
BrokerRank ==
  [unborn |-> 0, new |-> 1, removing |-> 2, binding |-> 3, opening |-> 4, accepting |-> 5,
   closing |-> 6, failing |-> 6, ended |-> 7]

RankIn(a, pc) == IF a = Main THEN MainRank[pc] ELSE HandlerRank[pc]
PhasesOf(a) == IF a = Main THEN DOMAIN MainRank ELSE DOMAIN HandlerRank

\* Main and the handlers keep to their phases, and who has the mutex is starting a broker.
MutexInv ==
  /\ \A a \in Actors : call[a].pc \in PhasesOf(a)
  /\ mu # None => call[mu].pc \in {"creating", "waiting"}

\* What an actor does next needs nobody else.
Free(a) ==
  \/ call[a].pc \in {"creating", "waiting", "cancelling", "awaiting", "configuring", "writing",
                     "listening", "removing", "leaving"}
  \/ call[a].pc \in {"starting", "stopping", "reporting"} /\ mu = None
  \/ call[a].pc = "serving" /\ stopped

\* The mutex never keeps everybody waiting: while a command is under way or the supervisor has
\* been told to stop, some actor can go on.
SomebodyIsFree ==
  Running /\ (stopped \/ \E h \in Handlers : Changing(h)) => \E a \in Actors : Free(a)

\* Every step takes an actor or a broker on, and none back.
StepsLeadOn ==
  /\ \A a \in Actors : RankIn(a, call[a].pc) <= RankIn(a, call'[a].pc)
  /\ \A n \in Numbers : BrokerRank[brokers[n].pc] <= BrokerRank[brokers'[n].pc]
  /\ \/ \E a \in Actors : RankIn(a, call[a].pc) < RankIn(a, call'[a].pc)
     \/ \E n \in Numbers : BrokerRank[brokers[n].pc] < BrokerRank[brokers'[n].pc]

LEMMA Ranks ==
  /\ \A pc \in DOMAIN MainRank : MainRank[pc] \in Nat
  /\ \A pc \in DOMAIN HandlerRank : HandlerRank[pc] \in Nat
  /\ \A pc \in DOMAIN BrokerRank : BrokerRank[pc] \in Nat
  /\ DOMAIN MainRank = {"starting", "creating", "waiting", "listening", "serving", "stopping",
                        "cancelling", "awaiting", "removing", "leaving", "exited"}
  /\ DOMAIN HandlerRank = {"idle", "stopping", "cancelling", "awaiting", "configuring", "starting",
                           "creating", "waiting", "reporting", "writing", "answered"}
  /\ DOMAIN BrokerRank = {"unborn", "new", "removing", "binding", "opening", "accepting",
                          "closing", "failing", "ended"}
<1>1. DOMAIN MainRank = {"starting", "creating", "waiting", "listening", "serving", "stopping",
                         "cancelling", "awaiting", "removing", "leaving", "exited"}
  BY DEF MainRank
<1>2. DOMAIN HandlerRank = {"idle", "stopping", "cancelling", "awaiting", "configuring", "starting",
                            "creating", "waiting", "reporting", "writing", "answered"}
  BY DEF HandlerRank
<1>3. DOMAIN BrokerRank = {"unborn", "new", "removing", "binding", "opening", "accepting",
                           "closing", "failing", "ended"}
  BY DEF BrokerRank
<1>4. \A pc \in DOMAIN MainRank : MainRank[pc] \in Nat
  BY <1>1 DEF MainRank
<1>5. \A pc \in DOMAIN HandlerRank : HandlerRank[pc] \in Nat
  BY <1>2 DEF HandlerRank
<1>6. \A pc \in DOMAIN BrokerRank : BrokerRank[pc] \in Nat
  BY <1>3 DEF BrokerRank
<1> QED
  BY <1>1, <1>2, <1>3, <1>4, <1>5, <1>6

\* One actor's call is further than it was, the others are where they were, and so are the brokers.
Advances(a) ==
  /\ call'[a].pc \in PhasesOf(a) /\ RankIn(a, call[a].pc) < RankIn(a, call'[a].pc)
  /\ \A b \in Actors \ {a} : call'[b].pc = call[b].pc

\* How the mutex passes on: it is taken by one who starts and given back by one who has started.
MutexMoves(a) ==
  \/ mu' = mu /\ ~(call[a].pc \in {"creating", "waiting"} /\ call'[a].pc \notin {"creating", "waiting"})
  \/ mu' = a /\ call'[a].pc \in {"creating", "waiting"}
  \/ mu' = None

BrokersStay == \A n \in Numbers : brokers'[n].pc = brokers[n].pc

LEMMA AdvanceByOne ==
  ASSUME TypeOK, MutexInv, NEW a \in Actors, Advances(a),
         \A n \in Numbers : BrokerRank[brokers[n].pc] <= BrokerRank[brokers'[n].pc]
  PROVE  StepsLeadOn
<1>1. \A b \in Actors : RankIn(b, call[b].pc) \in Nat
  BY Ranks DEF MutexInv, PhasesOf, RankIn
<1>2. \A b \in Actors : RankIn(b, call[b].pc) <= RankIn(b, call'[b].pc)
  <2> SUFFICES ASSUME NEW b \in Actors PROVE RankIn(b, call[b].pc) <= RankIn(b, call'[b].pc)
    OBVIOUS
  <2>1. CASE b = a
    <3>1. RankIn(a, call[a].pc) \in Nat /\ RankIn(a, call'[a].pc) \in Nat
      BY <1>1, Ranks DEF Advances, PhasesOf, RankIn
    <3> QED
      BY <2>1, <3>1 DEF Advances
  <2>2. CASE b # a
    <3>1. call'[b].pc = call[b].pc
      BY <2>2 DEF Advances
    <3> QED
      BY <1>1, <3>1
  <2> QED
    BY <2>1, <2>2
<1> QED
  BY <1>2 DEF StepsLeadOn, Advances

LEMMA AdvanceKeeps ==
  ASSUME TypeOK, MutexInv, NEW a \in Actors, Advances(a), MutexMoves(a)
  PROVE  MutexInv'
<1>1. \A b \in Actors : call'[b].pc \in PhasesOf(b)
  BY DEF Advances, MutexInv
<1>2. \A b \in Actors : PhasesOf(b)' = PhasesOf(b)
  BY DEF PhasesOf
<1>3. mu' # None => call'[mu'].pc \in {"creating", "waiting"}
  BY SupervisorConstants DEF MutexInv, Advances, MutexMoves, TypeOK, Actors
<1> QED
  BY <1>1, <1>2, <1>3 DEF MutexInv

\* A step up of one broker.
LEMMA BrokerAdvances ==
  ASSUME TypeOK, MutexInv, NEW n \in Numbers, NEW pc \in DOMAIN BrokerRank, brokers'[n].pc = pc,
         BrokerRank[brokers[n].pc] < BrokerRank[pc],
         \A k \in Numbers \ {n} : brokers'[k] = brokers[k], UNCHANGED call
  PROVE  StepsLeadOn
<1>1. \A k \in Numbers : BrokerRank[brokers[k].pc] \in Nat
  BY Ranks DEF TypeOK
<1>2. \A a \in Actors : RankIn(a, call[a].pc) \in Nat
  BY Ranks DEF MutexInv, PhasesOf, RankIn
<1>3. BrokerRank[pc] \in Nat
  BY Ranks
<1> QED
  BY <1>1, <1>2, <1>3 DEF StepsLeadOn

\* The moves of an actor from one phase to another.
Moves(a) ==
  IF a = Main
  THEN {<<"starting", "creating">>, <<"creating", "waiting">>, <<"creating", "leaving">>,
        <<"waiting", "listening">>, <<"waiting", "leaving">>, <<"listening", "serving">>,
        <<"listening", "stopping">>, <<"serving", "stopping">>, <<"stopping", "cancelling">>,
        <<"stopping", "removing">>, <<"stopping", "leaving">>, <<"cancelling", "awaiting">>,
        <<"awaiting", "removing">>, <<"awaiting", "leaving">>, <<"removing", "leaving">>,
        <<"leaving", "exited">>}
  ELSE {<<"idle", "stopping">>, <<"idle", "reporting">>, <<"idle", "answered">>,
        <<"stopping", "cancelling">>, <<"stopping", "configuring">>, <<"cancelling", "awaiting">>,
        <<"awaiting", "configuring">>, <<"awaiting", "answered">>, <<"configuring", "starting">>,
        <<"configuring", "answered">>, <<"starting", "creating">>, <<"creating", "waiting">>,
        <<"creating", "answered">>, <<"waiting", "reporting">>, <<"waiting", "answered">>,
        <<"reporting", "answered">>, <<"idle", "writing">>, <<"writing", "answered">>}

LEMMA MovesLeadOn ==
  ASSUME NEW a \in Actors, NEW p, NEW q, <<p, q>> \in Moves(a)
  PROVE  q \in PhasesOf(a) /\ RankIn(a, p) < RankIn(a, q)
<1>1. CASE a = Main
  <2>1. q \in DOMAIN MainRank
    BY <1>1, Ranks DEF Moves
  <2>2. MainRank[p] < MainRank[q]
    BY <1>1 DEF Moves, MainRank
  <2> QED
    BY <1>1, <2>1, <2>2 DEF PhasesOf, RankIn
<1>2. CASE a # Main
  <2>1. q \in DOMAIN HandlerRank
    BY <1>2, Ranks DEF Moves
  <2>2. HandlerRank[p] < HandlerRank[q]
    BY <1>2 DEF Moves, HandlerRank
  <2> QED
    BY <1>2, <2>1, <2>2 DEF PhasesOf, RankIn
<1> QED
  BY <1>1, <1>2

\* The moves that start, stop and their ends make.
Moved(a, p) == <<p, call'[a].pc>> \in Moves(a) /\ \A b \in Actors \ {a} : call'[b].pc = call[b].pc

LEMMA EndsMove ==
  ASSUME TypeOK, NEW a \in Actors
  PROVE  /\ AfterStop(a) => Moved(a, "stopping") /\ Moved(a, "awaiting")
         /\ AfterFailedStop(a) => Moved(a, "awaiting")
         /\ AfterStart(a) => Moved(a, "waiting") /\ call'[a].pc \notin {"creating", "waiting"}
         /\ AfterFailedStart(a) => /\ Moved(a, "creating") /\ Moved(a, "waiting")
                                   /\ call'[a].pc \notin {"creating", "waiting"}
<1>0. \A pc, n, r : Became(a, pc, n, r) => /\ call'[a].pc = pc
                                           /\ \A b \in Actors \ {a} : call'[b].pc = call[b].pc
  BY DEF Became
<1>1. ASSUME AfterStop(a) PROVE Moved(a, "stopping") /\ Moved(a, "awaiting")
  <2>1. PICK pc : /\ Goes(a, pc)
                  /\ pc \in IF a = Main THEN {"leaving", "removing"} ELSE {"configuring"}
    BY <1>1, Zenon DEF AfterStop
  <2>2. Became(a, pc, call[a].number, call[a].reply)
    BY <2>1, Becoming
  <2>3. <<"stopping", pc>> \in Moves(a) /\ <<"awaiting", pc>> \in Moves(a)
    BY <2>1 DEF Moves
  <2> QED
    BY <1>0, <2>2, <2>3 DEF Moved
<1>2. ASSUME AfterFailedStop(a) PROVE Moved(a, "awaiting")
  <2>1. CASE a = Main
    BY <1>1, <1>2, <2>1 DEF AfterFailedStop
  <2>2. CASE a # Main
    <3>1. Became(a, "answered", call[a].number, "FAIL")
      BY <1>2, <2>2, Becoming DEF AfterFailedStop, Replies
    <3> QED
      BY <1>0, <2>2, <3>1 DEF Moved, Moves
  <2> QED
    BY <2>1, <2>2
<1>3. ASSUME AfterStart(a)
      PROVE  Moved(a, "waiting") /\ call'[a].pc \notin {"creating", "waiting"}
  <2>1. PICK pc : Goes(a, pc) /\ pc = IF a = Main THEN "listening" ELSE "reporting"
    BY <1>3, Zenon DEF AfterStart
  <2>2. Became(a, pc, call[a].number, call[a].reply)
    BY <2>1, Becoming
  <2> QED
    BY <1>0, <2>1, <2>2 DEF Moved, Moves
<1>4. ASSUME AfterFailedStart(a)
      PROVE  /\ Moved(a, "creating") /\ Moved(a, "waiting")
             /\ call'[a].pc \notin {"creating", "waiting"}
  <2>1. PICK pc : /\ call' = [call EXCEPT ![a].pc = pc, ![a].reply = "FAIL"]
                  /\ pc = IF a = Main THEN "leaving" ELSE "answered"
    BY <1>4, Zenon DEF AfterFailedStart
  <2>2. Became(a, pc, call[a].number, "FAIL")
    BY <2>1, Becoming
  <2>3. <<"creating", pc>> \in Moves(a) /\ <<"waiting", pc>> \in Moves(a)
    BY <2>1 DEF Moves
  <2>4. call'[a].pc = pc /\ \A b \in Actors \ {a} : call'[b].pc = call[b].pc
    BY <1>0, <2>2
  <2>5. pc \notin {"creating", "waiting"}
    BY <2>1
  <2> QED
    BY <2>3, <2>4, <2>5 DEF Moved
<1> QED
  BY <1>1, <1>2, <1>3, <1>4

\* Cancelling a broker leaves it where it is.
BrokersLeadOn == \A n \in Numbers : BrokerRank[brokers[n].pc] <= BrokerRank[brokers'[n].pc]

LEMMA BrokersStaying ==
  ASSUME TypeOK, \A n \in Numbers : brokers'[n].pc = brokers[n].pc
  PROVE  BrokersLeadOn
BY Ranks DEF TypeOK, BrokersLeadOn

LEMMA ActorsAdvance ==
  ASSUME TypeOK, MutexInv, NEW a \in Actors, ActorSteps(a)
  PROVE  Advances(a) /\ MutexMoves(a) /\ BrokersLeadOn
<1> USE DEF At
<1>0. ASSUME Moved(a, call[a].pc) PROVE Advances(a)
  BY <1>0, MovesLeadOn DEF Moved, Advances
<1>1. ASSUME NEW pc, NEW n, NEW r, Became(a, pc, n, r), <<call[a].pc, pc>> \in Moves(a)
      PROVE  Moved(a, call[a].pc) /\ call'[a].pc = pc
  BY <1>1 DEF Became, Moved
<1>2. UNCHANGED brokers => BrokersLeadOn
  BY BrokersStaying
<1>3. ASSUME brokers' = [brokers EXCEPT ![call[a].number].cancelled = TRUE] PROVE BrokersLeadOn
  <2>1. \A n \in Numbers : brokers'[n].pc = brokers[n].pc
    BY <1>3 DEF TypeOK
  <2> QED
    BY <2>1, BrokersStaying
<1>4. CASE Lock(a)
  <2>1. call[a].pc = "starting" /\ Became(a, "creating", call[a].number, call[a].reply) /\ mu' = a
    BY <1>4, Becoming DEF Lock
  <2>2. <<"starting", "creating">> \in Moves(a)
    BY DEF Moves
  <2> QED
    BY <1>0, <1>1, <1>2, <1>4, <2>1, <2>2 DEF Lock, MutexMoves
<1>5. CASE AlreadyRunning(a) \/ NewFails(a)
  <2>1. call[a].pc = "creating" /\ AfterFailedStart(a) /\ mu' = None /\ UNCHANGED brokers
    BY <1>5 DEF AlreadyRunning, NewFails
  <2> QED
    BY <1>0, <1>2, <2>1, EndsMove DEF MutexMoves
<1>6. CASE Spawn(a)
  <2>1. PICK n \in Numbers : /\ brokers[n].pc = "unborn" /\ brokers' = [brokers EXCEPT ![n].pc = "new"]
                             /\ call' = [call EXCEPT ![a].pc = "waiting", ![a].number = n]
    BY <1>6 DEF Spawn
  <2>2. call[a].pc = "creating" /\ Became(a, "waiting", n, call[a].reply) /\ mu' = mu
    BY <1>6, <2>1, Becoming DEF Spawn
  <2>3. <<"creating", "waiting">> \in Moves(a)
    BY DEF Moves
  <2>4. BrokersLeadOn
    <3>1. \A k \in Numbers : brokers'[k].pc = IF k = n THEN "new" ELSE brokers[k].pc
      BY <2>1 DEF TypeOK
    <3>2. BrokerRank["unborn"] <= BrokerRank["new"]
      BY DEF BrokerRank
    <3>3. \A k \in Numbers : BrokerRank[brokers[k].pc] \in Nat
      BY Ranks DEF TypeOK
    <3> QED
      BY <2>1, <3>1, <3>2, <3>3 DEF BrokersLeadOn
  <2> QED
    BY <1>0, <1>1, <2>2, <2>3, <2>4 DEF MutexMoves
<1>7. CASE SocketAppears(a)
  <2>1. call[a].pc = "waiting" /\ AfterStart(a) /\ mu' = None /\ UNCHANGED brokers
    BY <1>7 DEF SocketAppears
  <2> QED
    BY <1>0, <1>2, <2>1, EndsMove DEF MutexMoves
<1>8. CASE BrokerFailed(a) \/ SocketIsLate(a)
  <2>1. /\ call[a].pc = "waiting" /\ AfterFailedStart(a) /\ mu' = None
        /\ brokers' = [brokers EXCEPT ![call[a].number].cancelled = TRUE]
    BY <1>8 DEF BrokerFailed, SocketIsLate
  <2> QED
    BY <1>0, <1>3, <2>1, EndsMove DEF MutexMoves
<1>9. CASE Take(a)
  <2>1. call[a].pc = "stopping" /\ mu' = mu /\ UNCHANGED brokers
    BY <1>9 DEF Take
  <2>2. CASE AfterStop(a)
    BY <1>0, <1>2, <2>1, <2>2, EndsMove DEF MutexMoves
  <2>3. CASE call' = [call EXCEPT ![a].pc = "cancelling", ![a].number = tracked]
    <3>1. Became(a, "cancelling", tracked, call[a].reply)
      BY <2>3, Becoming
    <3>2. <<"stopping", "cancelling">> \in Moves(a)
      BY DEF Moves
    <3> QED
      BY <1>0, <1>1, <1>2, <2>1, <3>1, <3>2 DEF MutexMoves
  <2> QED
    BY <1>9, <2>2, <2>3 DEF Take
<1>10. CASE Cancel(a)
  <2>1. /\ call[a].pc = "cancelling" /\ Became(a, "awaiting", call[a].number, call[a].reply)
        /\ mu' = mu
    BY <1>10, Becoming DEF Cancel
  <2>2. <<"cancelling", "awaiting">> \in Moves(a)
    BY DEF Moves
  <2>3. BrokersLeadOn
    BY <1>3, <1>10 DEF Cancel
  <2> QED
    BY <1>0, <1>1, <2>1, <2>2, <2>3 DEF MutexMoves
<1>11. CASE BrokerStopped(a) \/ BrokerDidNotStop(a)
  <2>1. /\ call[a].pc = "awaiting" /\ (AfterStop(a) \/ AfterFailedStop(a))
        /\ mu' = mu /\ UNCHANGED brokers
    BY <1>11 DEF BrokerStopped, BrokerDidNotStop
  <2> QED
    BY <1>0, <1>2, <2>1, EndsMove DEF MutexMoves
<1> QED
  BY <1>4, <1>5, <1>6, <1>7, <1>8, <1>9, <1>10, <1>11 DEF ActorSteps

LEMMA OthersAdvance ==
  ASSUME TypeOK, MutexInv,
         \/ \E h \in Handlers : HandlerSteps(h) \/ Asks(h)
         \/ MainSteps \/ MainStops
  PROVE  \E a \in Actors : Advances(a) /\ MutexMoves(a) /\ BrokersLeadOn
<1> USE DEF At
<1>0. BrokersLeadOn /\ mu' = mu
  <2>1. UNCHANGED <<brokers, mu>>
    BY DEF HandlerSteps, Configure, ConfigureFails, Status, Write, WriteFails, Asks, AskRestart,
       AskStatus, AskStop, AskTamper, Request, MainSteps, OpenControl, ControlFails, RemoveTree,
       RemoveFails, ExitMain, MainStops
  <2> QED
    BY <2>1, BrokersStaying
<1>1. ASSUME NEW a \in Actors, NEW pc, NEW n, NEW r, Became(a, pc, n, r), <<call[a].pc, pc>> \in Moves(a),
             call[a].pc \notin {"creating", "waiting"}
      PROVE  Advances(a) /\ MutexMoves(a) /\ BrokersLeadOn
  <2>1. call'[a].pc = pc /\ \A b \in Actors \ {a} : call'[b].pc = call[b].pc
    BY <1>1 DEF Became
  <2> QED
    BY <1>0, <1>1, <2>1, MovesLeadOn DEF Advances, MutexMoves
<1>2. ASSUME NEW h \in Handlers, HandlerSteps(h) \/ Asks(h)
      PROVE  \E a \in Actors : Advances(a) /\ MutexMoves(a) /\ BrokersLeadOn
  <2>0. h \in Actors /\ h # Main
    BY SupervisorConstants DEF Actors
  <2>1. ASSUME NEW pc, Goes(h, pc) \/ (pc = "answered" /\ \E word : Replies(h, word)),
               <<call[h].pc, pc>> \in {<<"configuring", "starting">>, <<"idle", "stopping">>,
                                       <<"idle", "reporting">>, <<"configuring", "answered">>,
                                       <<"idle", "answered">>, <<"reporting", "answered">>,
                                       <<"idle", "writing">>, <<"writing", "answered">>}
        PROVE  Advances(h) /\ MutexMoves(h) /\ BrokersLeadOn
    <3>1. \E n, r : Became(h, pc, n, r)
      BY <2>0, <2>1, Becoming DEF Replies
    <3>2. <<call[h].pc, pc>> \in Moves(h) /\ call[h].pc \notin {"creating", "waiting"}
      BY <2>0, <2>1 DEF Moves
    <3> QED
      BY <1>1, <2>0, <3>1, <3>2
  <2>2. CASE Configure(h)
    BY <2>0, <2>1, <2>2 DEF Configure
  <2>3. CASE AskRestart(h)
    BY <2>0, <2>1, <2>3 DEF AskRestart
  <2>4. CASE AskStatus(h)
    BY <2>0, <2>1, <2>4 DEF AskStatus
  <2>5. CASE ConfigureFails(h)
    BY <2>0, <2>1, <2>5 DEF ConfigureFails
  <2>6. CASE AskStop(h)
    BY <2>0, <2>1, <2>6 DEF AskStop
  <2>7. CASE Status(h)
    <3>1. call[h].pc = "reporting" /\ \E word : Replies(h, word)
      BY <2>7, Zenon DEF Status
    <3> QED
      BY <2>0, <2>1, <3>1
  <2>8. CASE AskTamper(h) \/ Request(h)
    BY <2>0, <2>1, <2>8 DEF AskTamper, Request
  <2>9. CASE Write(h) \/ WriteFails(h)
    <3>1. call[h].pc = "writing" /\ \E word : Replies(h, word)
      BY <2>9, Zenon DEF Write, WriteFails
    <3> QED
      BY <2>0, <2>1, <3>1
  <2> QED
    BY <1>2, <2>2, <2>3, <2>4, <2>5, <2>6, <2>7, <2>8, <2>9 DEF HandlerSteps, Asks
<1>3. ASSUME MainSteps \/ MainStops
      PROVE  \E a \in Actors : Advances(a) /\ MutexMoves(a) /\ BrokersLeadOn
  <2>0. Main \in Actors
    BY DEF Actors
  <2>1. /\ OpenControl => call[Main].pc = "listening" /\ Goes(Main, "serving")
        /\ MainStops => call[Main].pc = "serving" /\ Goes(Main, "stopping")
        /\ RemoveTree \/ RemoveFails => call[Main].pc = "removing" /\ Goes(Main, "leaving")
        /\ ExitMain => call[Main].pc = "leaving" /\ Goes(Main, "exited")
        /\ ControlFails => /\ call[Main].pc = "listening"
                           /\ call' = [call EXCEPT ![Main].pc = "stopping", ![Main].reply = "FAIL"]
    BY DEF OpenControl, MainStops, RemoveTree, RemoveFails, ExitMain, ControlFails
  <2>2. PICK p, pc : /\ call[Main].pc = p
                     /\ Goes(Main, pc) \/ call' = [call EXCEPT ![Main].pc = pc, ![Main].reply = "FAIL"]
                     /\ <<p, pc>> \in {<<"listening", "serving">>, <<"serving", "stopping">>,
                                       <<"removing", "leaving">>, <<"leaving", "exited">>,
                                       <<"listening", "stopping">>}
    BY <1>3, <2>1 DEF MainSteps
  <2>3. \E n, r : Became(Main, pc, n, r)
    BY <2>0, <2>2, Becoming
  <2>4. <<call[Main].pc, pc>> \in Moves(Main) /\ call[Main].pc \notin {"creating", "waiting"}
    BY <2>2 DEF Moves
  <2> QED
    BY <1>1, <2>0, <2>3, <2>4
<1> QED
  BY <1>2, <1>3

LEMMA BrokersAdvance ==
  ASSUME TypeOK, MutexInv, NEW n \in Numbers, BrokerSteps(n) \/ Fails(n)
  PROVE  StepsLeadOn /\ UNCHANGED <<call, mu>>
<1>1. UNCHANGED <<call, mu>>
  BY DEF BrokerSteps, MakeDirs, RemoveOld, Listen, Open, Collides, CloseOnCancel, Return, Fails
<1>2. PICK pc \in DOMAIN BrokerRank :
        /\ \/ Becomes(n, pc)
           \/ \E done : pc = "ended" /\ brokers' = [brokers EXCEPT ![n].pc = pc, ![n].done = done]
        /\ <<brokers[n].pc, pc>> \in ({"new", "removing", "binding", "opening", "accepting"} \X {"closing", "failing"})
             \cup ({"closing", "failing"} \X {"ended"})
             \cup {<<"new", "binding">>, <<"new", "removing">>, <<"removing", "binding">>,
                   <<"binding", "opening">>, <<"opening", "accepting">>}
  <2>1. CASE MakeDirs(n)
    BY <2>1, Ranks DEF MakeDirs, Broker
  <2>2. CASE RemoveOld(n) \/ Listen(n) \/ Open(n) \/ Collides(n) \/ CloseOnCancel(n)
    BY <2>2, Ranks DEF RemoveOld, Listen, Open, Collides, CloseOnCancel, Broker
  <2>3. CASE Fails(n)
    BY <2>3, Ranks DEF Fails
  <2>4. CASE Return(n)
    BY <2>4, Ranks DEF Return
  <2> QED
    BY <2>1, <2>2, <2>3, <2>4 DEF BrokerSteps
<1>3. brokers'[n].pc = pc /\ \A k \in Numbers \ {n} : brokers'[k] = brokers[k]
  BY <1>2 DEF Becomes, TypeOK
<1>4. BrokerRank[brokers[n].pc] < BrokerRank[pc]
  BY <1>2 DEF BrokerRank
<1> QED
  BY <1>1, <1>3, <1>4, BrokerAdvances

LEMMA Next_Advances ==
  ASSUME TypeOK, MutexInv, Next
  PROVE  StepsLeadOn /\ MutexInv'
<1>1. ASSUME NEW a \in Actors, Advances(a) /\ MutexMoves(a) /\ BrokersLeadOn
      PROVE  StepsLeadOn /\ MutexInv'
  BY <1>1, AdvanceByOne, AdvanceKeeps DEF BrokersLeadOn
<1>2. ASSUME NEW a \in Actors, ActorSteps(a) PROVE StepsLeadOn /\ MutexInv'
  BY <1>1, <1>2, ActorsAdvance
<1>3. CASE \/ \E h \in Handlers : HandlerSteps(h) \/ Asks(h)
           \/ MainSteps \/ MainStops
  BY <1>1, <1>3, OthersAdvance
<1>4. ASSUME NEW n \in Numbers, BrokerSteps(n) \/ Fails(n) PROVE StepsLeadOn /\ MutexInv'
  BY <1>4, BrokersAdvance DEF MutexInv, PhasesOf
<1> QED
  BY <1>2, <1>3, <1>4 DEF Next, GoesOn

LEMMA Init_Mutex == Init => MutexInv
BY Ranks DEF Init, MutexInv, PhasesOf, Actors

\* The supervisor takes finitely many steps: each takes a goroutine on, and none goes back.
THEOREM EveryStepLeadsOn == Spec => [][StepsLeadOn]_vars
<1>1. TypeOK /\ MutexInv /\ [Next]_vars => MutexInv'
  BY Next_Advances DEF vars, MutexInv, PhasesOf
<1>2. TypeOK /\ MutexInv /\ [Next]_vars => [StepsLeadOn]_vars
  BY Next_Advances
<1> QED
  BY <1>1, <1>2, Init_Mutex, SupervisorTypeCorrect, PTL DEF Spec

\* Nobody waits for ever: whatever commands overlap, fail or are late, some actor can go on as
\* long as a command or a stop is under way.
THEOREM NobodyIsHeldUp == Spec => []SomebodyIsFree
<1>1. TypeOK /\ MutexInv /\ [Next]_vars => MutexInv'
  BY Next_Advances DEF vars, MutexInv, PhasesOf
<1>2. TypeOK /\ MutexInv => SomebodyIsFree
  <2> SUFFICES ASSUME TypeOK, MutexInv, Running, stopped \/ \E h \in Handlers : Changing(h)
               PROVE  \E a \in Actors : Free(a)
    BY DEF SomebodyIsFree
  <2>1. CASE mu # None
    BY <2>1 DEF MutexInv, TypeOK, Free
  <2>2. CASE mu = None /\ stopped
    <3>1. Main \in Actors /\ call[Main].pc \in DOMAIN MainRank \ {"exited"}
      BY DEF Actors, MutexInv, PhasesOf, Running
    <3> QED
      BY <2>2, <3>1, Ranks DEF Free
  <2>3. ASSUME mu = None, NEW h \in Handlers, Changing(h) PROVE Free(h)
    <3>1. h \in Actors /\ call[h].pc \in DOMAIN HandlerRank
      BY SupervisorConstants DEF Actors, MutexInv, PhasesOf
    <3> QED
      BY <2>3, <3>1, Ranks DEF Free, Changing
  <2> QED
    BY <2>1, <2>2, <2>3 DEF Actors
<1> QED
  BY <1>1, <1>2, Init_Mutex, SupervisorTypeCorrect, PTL DEF Spec
=============================================================================
