------------------------------- MODULE Broker -------------------------------
(***************************************************************************)
(* RabbitTaskBroker: the one connection that a Nuvrion process publishes   *)
(* and consumes tasks through, how it is opened again when it is lost, and *)
(* how it is given up at the end.  The messages are TaskEngine's.          *)
(*                                                                         *)
(* A connection has one channel.  Its events are external: amqplib emits   *)
(* "error" and at once "close" for a connection that breaks, and "close"   *)
(* for one whose closing handshake ends.  A step ends where open or close  *)
(* awaits.                                                                 *)
(***************************************************************************)
EXTENDS Common, Integers

CONSTANTS
  Sockets,          \* connections to RabbitMQ; a closed one may stand for a new one
  ClosingMayBreak,  \* a connection may break during its closing handshake
  MaxBrokerFaults   \* bound of the model: failed attempts, lost connections and channels

ASSUME BrokerAssumption ==
  /\ ClosingMayBreak \in BOOLEAN
  /\ MaxBrokerFaults \in Nat
  /\ None \notin Sockets

VARIABLES
  brokerStatus, \* status
  closing,      \* closing, and whether close has ended
  reconnects,   \* reconnectTimer is set
  subscribed,   \* handler is set
  attempt,      \* connecting: the attempt that open waits for
  current,      \* connection, and with it channel
  sockets,      \* every connection: what became of it, and whether it has a consumer
  brokerFaults  \* how much of the bound is used

brokerVars == <<brokerStatus, closing, reconnects, subscribed, attempt, current, sockets,
                brokerFaults>>

-----------------------------------------------------------------------------
\* "opening" is waited for, "late" has been given up.
Phases == {"free", "opening", "late", "open", "closing"}
Socket == [phase: Phases, consumer: BOOLEAN]
Free   == [phase |-> "free", consumer |-> FALSE]

\* connect: the process does not start without a first connection.
BrokerInit ==
  /\ \E c \in Sockets :
       /\ current = c
       /\ sockets = [s \in Sockets |-> IF s = c THEN [Free EXCEPT !.phase = "open"] ELSE Free]
  /\ brokerStatus = "healthy"
  /\ closing = "no" /\ reconnects = FALSE /\ subscribed = FALSE
  /\ attempt = [at |-> "none", socket |-> None]
  /\ brokerFaults = 0

Closing == closing # "no"

NoAttempt == attempt' = [at |-> "none", socket |-> None]
Turns(s, phase) == sockets' = [sockets EXCEPT ![s].phase = phase]
Frees(s) == sockets' = [sockets EXCEPT ![s] = Free]
BrokerFault == brokerFaults < MaxBrokerFaults /\ brokerFaults' = brokerFaults + 1

\* scheduleReconnect.
ScheduleReconnect == reconnects' = (reconnects \/ ~Closing)

-----------------------------------------------------------------------------
\* subscribe: where there is a connection, the consumer is registered at once.
Subscribe ==
  /\ ~subscribed /\ ~Closing
  /\ attempt.at # "consuming"
  /\ subscribed' = TRUE
  /\ IF brokerStatus = "healthy" /\ current # None
     THEN sockets' = [sockets EXCEPT ![current].consumer = TRUE]
     ELSE UNCHANGED sockets
  /\ UNCHANGED <<brokerStatus, closing, reconnects, attempt, current, brokerFaults>>

\* The timer fires and open begins, unless an attempt is still under way.
Reconnect ==
  /\ reconnects
  /\ reconnects' = FALSE
  /\ IF Closing \/ attempt.at # "none"
     THEN UNCHANGED <<attempt, sockets>>
     ELSE \E s \in {s \in Sockets : sockets[s].phase = "free"} :
            /\ attempt' = [at |-> "establishing", socket |-> s]
            /\ Turns(s, "opening")
  /\ UNCHANGED <<brokerStatus, closing, subscribed, current, brokerFaults>>

\* Mutant of Established: the consumer is not registered afresh.
EstablishedOnly ==
  /\ attempt.at = "establishing"
  /\ LET s == attempt.socket IN
     IF Closing
     THEN /\ Turns(s, "closing") /\ NoAttempt
          /\ UNCHANGED <<current, brokerStatus>>
     ELSE /\ Turns(s, "open")
          /\ current' = s
          /\ brokerStatus' = "healthy"
          /\ NoAttempt
  /\ UNCHANGED <<closing, reconnects, subscribed, brokerFaults>>

\* RabbitMQ answers.  What close overtook is closed again; else it is the connection now,
\* and the consumer is registered afresh.
Established ==
  /\ attempt.at = "establishing"
  /\ LET s == attempt.socket IN
     IF Closing
     THEN /\ Turns(s, "closing") /\ NoAttempt
          /\ UNCHANGED <<current, brokerStatus>>
     ELSE /\ Turns(s, "open")
          /\ current' = s
          /\ brokerStatus' = "healthy"
          /\ IF subscribed THEN attempt' = [attempt EXCEPT !.at = "consuming"] ELSE NoAttempt
  /\ UNCHANGED <<closing, reconnects, subscribed, brokerFaults>>

\* What open does with an error: it does not ask whether close has been called meanwhile.
AttemptFailed ==
  /\ NoAttempt
  /\ brokerStatus' = "unhealthy"
  /\ ScheduleReconnect

\* RabbitMQ refuses, or the attempt breaks.
NotEstablished ==
  /\ BrokerFault
  /\ attempt.at = "establishing"
  /\ Frees(attempt.socket)
  /\ AttemptFailed
  /\ UNCHANGED <<closing, subscribed, current>>

\* connectTimeoutMs: the attempt is given up, and may still succeed.
TimedOut ==
  /\ BrokerFault
  /\ attempt.at = "establishing"
  /\ Turns(attempt.socket, "late")
  /\ AttemptFailed
  /\ UNCHANGED <<closing, subscribed, current>>

\* Mutant of LateAnswer: the late connection is kept.
LateAnswerKept(s) ==
  /\ sockets[s].phase = "late"
  /\ Turns(s, "open") \/ Frees(s)
  /\ UNCHANGED <<brokerStatus, closing, reconnects, subscribed, attempt, current, brokerFaults>>

LateAnswer(s) ==
  /\ sockets[s].phase = "late"
  /\ Turns(s, "closing") \/ Frees(s)
  /\ UNCHANGED <<brokerStatus, closing, reconnects, subscribed, attempt, current, brokerFaults>>

Consuming ==
  /\ attempt.at = "consuming"
  /\ sockets[attempt.socket].phase = "open"
  /\ NoAttempt
  /\ sockets' = [sockets EXCEPT ![attempt.socket].consumer = TRUE]
  /\ UNCHANGED <<brokerStatus, closing, reconnects, subscribed, current, brokerFaults>>

\* Its channel has gone meanwhile.
NotConsuming ==
  /\ attempt.at = "consuming"
  /\ sockets[attempt.socket].phase # "open"
  /\ AttemptFailed
  /\ UNCHANGED <<closing, subscribed, current, sockets, brokerFaults>>

-----------------------------------------------------------------------------
(***************************************************************************)
(* Events of the connections                                               *)
(***************************************************************************)
\* Where it is the current connection that has gone; else what to do has been done.
Drops(s) ==
  IF current = s /\ ~Closing
  THEN /\ current' = None
       /\ brokerStatus' = "unhealthy"
       /\ ScheduleReconnect
  ELSE UNCHANGED <<current, brokerStatus, reconnects>>

\* connection.on('error') and on('close') of the current connection, ...
Breaks(s) ==
  /\ BrokerFault
  /\ sockets[s].phase = "open"
  /\ Drops(s)
  /\ Frees(s)
  /\ UNCHANGED <<closing, subscribed, attempt>>

\* ... and of one that is being closed: on('error') does not ask which it is.
BreaksClosing(s) ==
  /\ BrokerFault /\ ClosingMayBreak
  /\ sockets[s].phase = "closing"
  /\ brokerStatus' = IF Closing THEN brokerStatus ELSE "unhealthy"
  /\ Frees(s)
  /\ UNCHANGED <<closing, reconnects, subscribed, attempt, current>>

\* on('close') at the end of the handshake.
Closed(s) ==
  /\ sockets[s].phase = "closing"
  /\ Frees(s)
  /\ UNCHANGED <<brokerStatus, closing, reconnects, subscribed, attempt, current, brokerFaults>>

\* channel.on('close'): the connection goes with it.
ChannelCloses(s) ==
  /\ BrokerFault
  /\ sockets[s].phase = "open"
  /\ Drops(s)
  /\ Turns(s, "closing")
  /\ UNCHANGED <<closing, subscribed, attempt>>

-----------------------------------------------------------------------------
Close ==
  /\ ~Closing
  /\ closing' = "begun"
  /\ brokerStatus' = "stopping"
  /\ reconnects' = FALSE
  /\ current' = None
  /\ IF current # None THEN Turns(current, "closing") ELSE UNCHANGED sockets
  /\ UNCHANGED <<subscribed, attempt, brokerFaults>>

\* Its own connection is closed; a failed attempt may have changed the status meanwhile.
CloseEnds ==
  /\ closing = "begun"
  /\ closing' = "done"
  /\ brokerStatus' = "stopped"
  /\ UNCHANGED <<reconnects, subscribed, attempt, current, sockets, brokerFaults>>

-----------------------------------------------------------------------------
SocketEvent(s) == LateAnswer(s) \/ Closed(s)
AttemptStep == Established \/ Consuming \/ NotConsuming

BrokerNext ==
  \/ Subscribe \/ Reconnect \/ AttemptStep \/ NotEstablished \/ TimedOut
  \/ Close \/ CloseEnds
  \/ \E s \in Sockets : SocketEvent(s) \/ Breaks(s) \/ BreaksClosing(s) \/ ChannelCloses(s)

\* The process subscribes at its start; timers fire; RabbitMQ answers in the end.
BrokerFairness ==
  /\ WF_brokerVars(Subscribe)
  /\ WF_brokerVars(Reconnect)
  /\ WF_brokerVars(AttemptStep)
  /\ \A s \in Sockets : WF_brokerVars(SocketEvent(s))

BrokerSpec     == BrokerInit /\ [][BrokerNext]_brokerVars
FairBrokerSpec == BrokerSpec /\ BrokerFairness

-----------------------------------------------------------------------------
(***************************************************************************)
(* What is to be true                                                      *)
(***************************************************************************)
\* Every variable has its type, and the attempt is at a connection of its own.
BrokerTypeOK ==
  /\ brokerStatus \in {"healthy", "unhealthy", "stopping", "stopped"}
  /\ closing \in {"no", "begun", "done"} /\ reconnects \in BOOLEAN /\ subscribed \in BOOLEAN
  /\ attempt \in [at: {"none", "establishing", "consuming"}, socket: Sockets \union {None}]
  /\ (attempt.at = "none") = (attempt.socket = None)
  /\ attempt.at = "establishing" => sockets[attempt.socket].phase = "opening"
  /\ current \in Sockets \union {None}
  /\ sockets \in [Sockets -> Socket]
  /\ brokerFaults \in 0..MaxBrokerFaults

\* Only the current connection is open, so no other takes messages off the queue: what was
\* lost, replaced, given up as late or overtaken by close has been closed.
OnlyTheCurrentIsOpen == \A s \in Sockets : sockets[s].phase = "open" => current = s

\* A process that is stopping opens nothing and keeps nothing open.
NothingOpenAfterClose ==
  Closing => current = None /\ ~reconnects /\ \A s \in Sockets : sockets[s].phase # "open"

\* No connection outlives its use: timeouts, late answers, lost channels and a close in the
\* middle of an attempt leave none open beside the current one, nor any once the process stops.
NoStrayConnection == OnlyTheCurrentIsOpen /\ NothingOpenAfterClose

\* "The broker reconnects and consumes again" (modules/messaging/test/task-broker.test.js): a
\* broker that is not healthy is being repaired, by an attempt or by the timer of the next.
UnhealthyIsRepaired ==
  brokerStatus = "unhealthy" /\ ~Closing => reconnects \/ attempt.at # "none"

\* However often the connection is lost, and whatever attempts time out, the process comes
\* to publish and to consume through one connection, unless it stops.
BrokerComesBack ==
  <>[](\/ Closing
       \/ brokerStatus = "healthy" /\ current # None /\ sockets[current].consumer)
=============================================================================
