-------------------------- MODULE ConnectionProofs --------------------------
(***************************************************************************)
(* The connection to the broker, and the connections to providers, for any *)
(* sockets, connections, actors and bounds.                                *)
(*                                                                         *)
(* Broker: whoever waits to open, with the timer or in an attempt, does so *)
(* because there is no connection (OpensBecauseThereIsNone), and what is   *)
(* kept as the connection is open (TheCurrentIsOpen).                      *)
(*                                                                         *)
(* Discovery: a connection whose row is removed is not enabled and never   *)
(* is again (RemovedIsDeleted), so no list and no request comes to it.     *)
(***************************************************************************)
EXTENDS Broker, Discovery, TLAPS

-----------------------------------------------------------------------------
(***************************************************************************)
(* Broker                                                                  *)
(***************************************************************************)
TheCurrentIsOpen == current # None => sockets[current].phase = "open"

OpensBecauseThereIsNone ==
  /\ reconnects \/ attempt.at = "establishing" => current = None
  /\ attempt.at = "establishing" => ~reconnects
  /\ attempt.at = "consuming" => current \in {None, attempt.socket}

BrokerInv == BrokerTypeOK /\ NoStrayConnection /\ TheCurrentIsOpen /\ OpensBecauseThereIsNone

LEMMA BrokerInitInv == BrokerInit => BrokerInv
<1> SUFFICES ASSUME BrokerInit PROVE BrokerInv
  OBVIOUS
<1> USE BrokerAssumption DEF BrokerAssumption
<1>1. PICK c \in Sockets : /\ current = c
                          /\ sockets = [s \in Sockets |-> IF s = c THEN [Free EXCEPT !.phase = "open"] ELSE Free]
  BY DEF BrokerInit
<1> DEFINE open == [Free EXCEPT !.phase = "open"]
<1>2. /\ open \in Socket /\ open.phase = "open"
      /\ Free \in Socket /\ Free.phase = "free"
  BY DEF Free, Socket, Phases
<1> HIDE DEF open
<1>3. sockets \in [Sockets -> Socket] /\ \A s \in Sockets : sockets[s].phase = IF s = c THEN "open" ELSE "free"
  BY <1>1, <1>2 DEF open
<1>4. BrokerTypeOK
  <2>1. attempt = [at |-> "none", socket |-> None]
    BY DEF BrokerInit
  <2>2. attempt \in [at: {"none", "establishing", "consuming"}, socket: Sockets \union {None}]
    BY <2>1
  <2>3. brokerFaults \in 0..MaxBrokerFaults
    BY DEF BrokerInit
  <2>4. /\ brokerStatus \in {"healthy", "unhealthy", "stopping", "stopped"}
        /\ closing \in {"no", "begun", "done"} /\ reconnects \in BOOLEAN /\ subscribed \in BOOLEAN
    BY DEF BrokerInit
  <2>5. (attempt.at = "none") = (attempt.socket = None) /\ attempt.at # "establishing"
    BY <2>1
  <2>6. QED
    BY <1>1, <1>3, <2>2, <2>3, <2>4, <2>5 DEF BrokerTypeOK
<1>5. NoStrayConnection /\ TheCurrentIsOpen /\ OpensBecauseThereIsNone
  BY <1>1, <1>3 DEF BrokerInit, NoStrayConnection, OnlyTheCurrentIsOpen, NothingOpenAfterClose, Closing,
                    TheCurrentIsOpen, OpensBecauseThereIsNone
<1>6. QED
  BY <1>4, <1>5 DEF BrokerInv

LEMMA SubscribeInv == ASSUME BrokerInv, Subscribe PROVE BrokerInv'
<1> USE BrokerAssumption DEF BrokerAssumption, BrokerInv, BrokerTypeOK
<1>1. /\ sockets' \in [Sockets -> Socket]
      /\ \A s \in Sockets : sockets'[s].phase = sockets[s].phase
  <2>1. sockets \in [Sockets -> Socket]
    BY DEF BrokerTypeOK
  <2>2. CASE UNCHANGED sockets
    BY <2>1, <2>2
  <2>3. CASE current # None /\ sockets' = [sockets EXCEPT ![current].consumer = TRUE]
    <3> DEFINE x == [sockets[current] EXCEPT !.consumer = TRUE]
    <3>1. current \in Sockets
      BY <2>3 DEF BrokerTypeOK
    <3>2. x \in Socket /\ x.phase = sockets[current].phase
      BY <2>1, <3>1 DEF Socket
    <3>3. sockets' = [sockets EXCEPT ![current] = x]
      BY <2>1, <2>3, <3>1
    <3> HIDE DEF x
    <3>4. QED
      BY <2>1, <3>1, <3>2, <3>3
  <2>4. QED
    BY <2>2, <2>3 DEF Subscribe
<1>2. BrokerTypeOK'
  BY <1>1 DEF Subscribe
<1>3. NoStrayConnection' /\ TheCurrentIsOpen' /\ OpensBecauseThereIsNone'
  BY <1>1 DEF Subscribe, NoStrayConnection, OnlyTheCurrentIsOpen, NothingOpenAfterClose, TheCurrentIsOpen,
              OpensBecauseThereIsNone, Closing
<1>4. QED
  BY <1>2, <1>3

\* One socket gets another phase.
LEMMA TurnsTyped ==
  ASSUME BrokerInv, NEW s \in Sockets, NEW phase \in Phases, Turns(s, phase)
  PROVE  /\ sockets' \in [Sockets -> Socket]
         /\ \A t \in Sockets : sockets'[t].phase = IF t = s THEN phase ELSE sockets[t].phase
<1>1. sockets \in [Sockets -> Socket] /\ sockets[s] \in Socket
  BY DEF BrokerInv, BrokerTypeOK
<1> DEFINE x == [sockets[s] EXCEPT !.phase = phase]
<1>2. x \in Socket /\ x.phase = phase
  BY <1>1 DEF Socket
<1>3. sockets' = [sockets EXCEPT ![s] = x]
  BY <1>1 DEF Turns
<1> HIDE DEF x
<1>4. QED
  BY <1>1, <1>2, <1>3

LEMMA FreesTyped ==
  ASSUME BrokerInv, NEW s \in Sockets, Frees(s)
  PROVE  /\ sockets' \in [Sockets -> Socket]
         /\ \A t \in Sockets : sockets'[t].phase = IF t = s THEN "free" ELSE sockets[t].phase
<1>1. sockets \in [Sockets -> Socket]
  BY DEF BrokerInv, BrokerTypeOK
<1>2. Free \in Socket /\ Free.phase = "free"
  BY DEF Free, Socket, Phases
<1>3. QED
  BY <1>1, <1>2 DEF Frees

LEMMA ReconnectInv == ASSUME BrokerInv, Reconnect PROVE BrokerInv'
<1> USE BrokerAssumption DEF BrokerAssumption, BrokerInv
<1>1. CASE UNCHANGED <<attempt, sockets>>
  BY <1>1 DEF Reconnect, BrokerTypeOK, NoStrayConnection, OnlyTheCurrentIsOpen, NothingOpenAfterClose,
              TheCurrentIsOpen, OpensBecauseThereIsNone, Closing
<1>2. CASE ~Closing /\ attempt.at = "none"
  <2>1. PICK s \in Sockets : /\ sockets[s].phase = "free" /\ Turns(s, "opening")
                             /\ attempt' = [at |-> "establishing", socket |-> s]
    BY <1>2 DEF Reconnect
  <2>2. /\ sockets' \in [Sockets -> Socket]
        /\ \A t \in Sockets : sockets'[t].phase = IF t = s THEN "opening" ELSE sockets[t].phase
    <3>1. "opening" \in Phases /\ Turns(s, "opening")
      BY <2>1 DEF Phases
    <3>2. QED
      BY <3>1, TurnsTyped
  <2>3. current = None /\ reconnects' = FALSE /\ UNCHANGED <<brokerStatus, closing, subscribed, current, brokerFaults>>
    BY DEF Reconnect, OpensBecauseThereIsNone
  <2>4. BrokerTypeOK'
    BY <2>1, <2>2, <2>3 DEF BrokerTypeOK
  <2>5. NoStrayConnection'
    BY <1>2, <2>2, <2>3 DEF NoStrayConnection, OnlyTheCurrentIsOpen, NothingOpenAfterClose, Closing
  <2>6. TheCurrentIsOpen' /\ OpensBecauseThereIsNone'
    BY <2>1, <2>3 DEF TheCurrentIsOpen, OpensBecauseThereIsNone
  <2>7. QED
    BY <2>4, <2>5, <2>6
<1>3. QED
  BY <1>1, <1>2 DEF Reconnect

LEMMA EstablishedInv == ASSUME BrokerInv, Established PROVE BrokerInv'
<1> USE BrokerAssumption DEF BrokerAssumption, BrokerInv
<1> DEFINE s == attempt.socket
<1>1. /\ attempt.at = "establishing" /\ s \in Sockets /\ sockets[s].phase = "opening" /\ current = None
      /\ UNCHANGED <<closing, reconnects, subscribed, brokerFaults>>
  BY DEF Established, BrokerTypeOK, OpensBecauseThereIsNone
<1>2. \A t \in Sockets : sockets[t].phase # "open"
  BY <1>1 DEF NoStrayConnection, OnlyTheCurrentIsOpen
<1>3. CASE Closing
  <2>1. Turns(s, "closing") /\ NoAttempt /\ UNCHANGED <<current, brokerStatus>>
    BY <1>3 DEF Established
  <2>2. /\ sockets' \in [Sockets -> Socket]
        /\ \A t \in Sockets : sockets'[t].phase = IF t = s THEN "closing" ELSE sockets[t].phase
    <3>1. "closing" \in Phases /\ Turns(s, "closing")
      BY <2>1 DEF Phases
    <3>2. QED
      BY <1>1, <3>1, TurnsTyped
  <2>3. BrokerTypeOK'
    BY <1>1, <2>1, <2>2 DEF BrokerTypeOK, NoAttempt
  <2>4. NoStrayConnection' /\ TheCurrentIsOpen' /\ OpensBecauseThereIsNone'
    BY <1>1, <1>2, <2>1, <2>2 DEF NoStrayConnection, OnlyTheCurrentIsOpen, NothingOpenAfterClose, TheCurrentIsOpen,
                               OpensBecauseThereIsNone, NoAttempt, Closing
  <2>5. QED
    BY <2>3, <2>4
<1>4. CASE ~Closing
  <2>1. /\ Turns(s, "open") /\ current' = s /\ brokerStatus' = "healthy"
        /\ attempt' = (IF subscribed THEN [attempt EXCEPT !.at = "consuming"] ELSE [at |-> "none", socket |-> None])
    BY <1>4 DEF Established, NoAttempt
  <2>2. /\ sockets' \in [Sockets -> Socket]
        /\ \A t \in Sockets : sockets'[t].phase = IF t = s THEN "open" ELSE sockets[t].phase
    <3>1. "open" \in Phases /\ Turns(s, "open")
      BY <2>1 DEF Phases
    <3>2. QED
      BY <1>1, <3>1, TurnsTyped
  <2>3. /\ attempt' \in [at: {"none", "establishing", "consuming"}, socket: Sockets \union {None}]
        /\ \/ attempt'.at = "none" /\ attempt'.socket = None
           \/ attempt'.at = "consuming" /\ attempt'.socket = s
    BY <1>1, <2>1 DEF BrokerTypeOK
  <2>4. BrokerTypeOK'
    BY <1>1, <2>1, <2>2, <2>3 DEF BrokerTypeOK
  <2>5. NoStrayConnection'
    BY <1>1, <1>2, <1>4, <2>1, <2>2 DEF NoStrayConnection, OnlyTheCurrentIsOpen, NothingOpenAfterClose, Closing
  <2>6. TheCurrentIsOpen' /\ OpensBecauseThereIsNone'
    BY <1>1, <2>1, <2>2, <2>3 DEF TheCurrentIsOpen, OpensBecauseThereIsNone
  <2>7. QED
    BY <2>4, <2>5, <2>6
<1>5. QED
  BY <1>3, <1>4

\* An attempt that ends without a connection.
LEMMA AttemptEndsInv ==
  ASSUME BrokerInv, AttemptFailed, UNCHANGED <<closing, subscribed, current>>, brokerFaults' \in 0..MaxBrokerFaults,
         current = None,
         sockets' \in [Sockets -> Socket],
         \A t \in Sockets : sockets'[t].phase = "open" => sockets[t].phase = "open"
  PROVE  BrokerInv'
<1> USE BrokerAssumption DEF BrokerAssumption, BrokerInv, AttemptFailed, NoAttempt, ScheduleReconnect
<1>1. \A t \in Sockets : sockets'[t].phase # "open"
  BY DEF NoStrayConnection, OnlyTheCurrentIsOpen
<1>2. BrokerTypeOK'
  BY DEF BrokerTypeOK
<1>3. NoStrayConnection'
  BY <1>1 DEF NoStrayConnection, OnlyTheCurrentIsOpen, NothingOpenAfterClose, Closing
<1>4. TheCurrentIsOpen' /\ OpensBecauseThereIsNone'
  BY DEF TheCurrentIsOpen, OpensBecauseThereIsNone
<1>5. QED
  BY <1>2, <1>3, <1>4

LEMMA GivesUpInv == ASSUME BrokerInv, NotEstablished \/ TimedOut PROVE BrokerInv'
<1>1. /\ attempt.at = "establishing" /\ attempt.socket \in Sockets /\ current = None /\ brokerFaults' \in 0..MaxBrokerFaults
      /\ AttemptFailed /\ UNCHANGED <<closing, subscribed, current>>
  BY BrokerAssumption DEF BrokerAssumption, NotEstablished, TimedOut, BrokerFault, BrokerInv, BrokerTypeOK, OpensBecauseThereIsNone
<1>2. /\ sockets' \in [Sockets -> Socket]
      /\ \A t \in Sockets : sockets'[t].phase = "open" => sockets[t].phase = "open"
  <2>1. CASE NotEstablished
    BY <1>1, <2>1, FreesTyped DEF NotEstablished
  <2>2. CASE TimedOut
    <3>1. Turns(attempt.socket, "late") /\ "late" \in Phases
      BY <2>2 DEF TimedOut, Phases
    <3>2. QED
      BY <1>1, <3>1, TurnsTyped
  <2>3. QED
    BY <2>1, <2>2
<1>3. QED
  BY <1>1, <1>2, AttemptEndsInv

LEMMA ConsumingInv == ASSUME BrokerInv, Consuming PROVE BrokerInv'
<1> USE BrokerAssumption DEF BrokerAssumption, BrokerInv, NoAttempt
<1>1. /\ attempt.at = "consuming" /\ attempt.socket \in Sockets
      /\ sockets' = [sockets EXCEPT ![attempt.socket].consumer = TRUE]
      /\ attempt' = [at |-> "none", socket |-> None]
      /\ UNCHANGED <<brokerStatus, closing, reconnects, subscribed, current, brokerFaults>>
  BY DEF Consuming, BrokerTypeOK
<1>2. /\ sockets' \in [Sockets -> Socket]
      /\ \A t \in Sockets : sockets'[t].phase = sockets[t].phase
  BY <1>1 DEF BrokerTypeOK, Socket
<1>3. BrokerTypeOK'
  BY <1>1, <1>2 DEF BrokerTypeOK
<1>4. NoStrayConnection' /\ TheCurrentIsOpen' /\ OpensBecauseThereIsNone'
  BY <1>1, <1>2 DEF NoStrayConnection, OnlyTheCurrentIsOpen, NothingOpenAfterClose, TheCurrentIsOpen,
                    OpensBecauseThereIsNone, Closing
<1>5. QED
  BY <1>3, <1>4

LEMMA NotConsumingInv == ASSUME BrokerInv, NotConsuming PROVE BrokerInv'
<1>1. /\ current = None /\ AttemptFailed /\ UNCHANGED <<closing, subscribed, current, sockets, brokerFaults>>
      /\ brokerFaults \in 0..MaxBrokerFaults /\ sockets \in [Sockets -> Socket]
  BY BrokerAssumption
  DEF BrokerAssumption, NotConsuming, BrokerInv, BrokerTypeOK, TheCurrentIsOpen, OpensBecauseThereIsNone
<1>2. QED
  BY <1>1, AttemptEndsInv

\* A socket that is not the current one, or no longer, goes on to its end.
LEMMA EventInv ==
  ASSUME BrokerInv, NEW s \in Sockets, Turns(s, "closing") \/ Frees(s),
         sockets[s].phase # "opening",
         UNCHANGED <<closing, subscribed, attempt>>, brokerFaults' \in 0..MaxBrokerFaults,
         \/ /\ Drops(s)
         \/ /\ sockets[s].phase # "open" /\ UNCHANGED <<current, reconnects>>
            /\ brokerStatus' \in {"healthy", "unhealthy", "stopping", "stopped"}
  PROVE  BrokerInv'
<1> USE BrokerAssumption DEF BrokerAssumption, BrokerInv
<1>1. PICK phase \in {"free", "closing"} :
        /\ sockets' \in [Sockets -> Socket]
        /\ \A t \in Sockets : sockets'[t].phase = IF t = s THEN phase ELSE sockets[t].phase
  <2>1. "closing" \in Phases
    BY DEF Phases
  <2>2. CASE Turns(s, "closing")
    BY <2>1, <2>2, TurnsTyped
  <2>3. CASE Frees(s)
    BY <2>3, FreesTyped
  <2>4. QED
    BY <2>2, <2>3
<1>2. \/ /\ current = s /\ ~Closing /\ current' = None /\ brokerStatus' = "unhealthy" /\ reconnects' = TRUE
      \/ /\ current # s \/ Closing
         /\ UNCHANGED <<current, reconnects>>
         /\ brokerStatus' \in {"healthy", "unhealthy", "stopping", "stopped"}
    BY DEF Drops, ScheduleReconnect, BrokerTypeOK, TheCurrentIsOpen
<1>3. Closing => current = None
  BY DEF NoStrayConnection, NothingOpenAfterClose
<1>4. BrokerTypeOK'
  <2>1. attempt.at = "establishing" => attempt.socket # s
    BY DEF BrokerTypeOK
  <2>2. attempt.at = "establishing" => attempt.socket \in Sockets
    BY DEF BrokerTypeOK
  <2>3. QED
    BY <1>1, <1>2, <2>1, <2>2 DEF BrokerTypeOK
<1>5. NoStrayConnection'
  BY <1>1, <1>2, <1>3 DEF NoStrayConnection, OnlyTheCurrentIsOpen, NothingOpenAfterClose, Closing
<1>6. TheCurrentIsOpen' /\ OpensBecauseThereIsNone'
  <2>1. current = s /\ ~Closing => attempt.at # "establishing"
    BY DEF OpensBecauseThereIsNone
  <2>2. current' \in {current, None} /\ current' # s
    BY <1>2, <1>3
  <2>3. current \in Sockets \cup {None}
    BY DEF BrokerTypeOK
  <2>4. QED
    BY <1>1, <1>2, <1>3, <2>1, <2>2, <2>3 DEF TheCurrentIsOpen, OpensBecauseThereIsNone
<1>7. QED
  BY <1>4, <1>5, <1>6

LEMMA SocketEventsInv ==
  ASSUME BrokerInv, NEW s \in Sockets, LateAnswer(s) \/ Closed(s) \/ Breaks(s) \/ BreaksClosing(s) \/ ChannelCloses(s)
  PROVE  BrokerInv'
<1> USE BrokerAssumption DEF BrokerAssumption
<1>1. CASE LateAnswer(s)
  <2>1. /\ sockets[s].phase = "late" /\ UNCHANGED <<brokerStatus, closing, reconnects, subscribed, attempt, current>>
        /\ brokerFaults' \in 0..MaxBrokerFaults /\ brokerStatus' \in {"healthy", "unhealthy", "stopping", "stopped"}
    BY <1>1 DEF LateAnswer, BrokerInv, BrokerTypeOK
  <2>2. QED
    BY <1>1, <2>1, EventInv DEF LateAnswer
<1>2. CASE Closed(s)
  BY <1>2, EventInv DEF Closed, BrokerInv, BrokerTypeOK
<1>3. CASE Breaks(s)
  <2>1. brokerFaults' \in 0..MaxBrokerFaults
    BY <1>3 DEF Breaks, BrokerFault, BrokerInv, BrokerTypeOK
  <2>2. QED
    BY <1>3, <2>1, EventInv DEF Breaks
<1>4. CASE BreaksClosing(s)
  <2>1. brokerFaults' \in 0..MaxBrokerFaults
    BY <1>4 DEF BreaksClosing, BrokerFault, BrokerInv, BrokerTypeOK
  <2>2. QED
    BY <1>4, <2>1, EventInv DEF BreaksClosing, BrokerInv, BrokerTypeOK
<1>5. CASE ChannelCloses(s)
  <2>1. brokerFaults' \in 0..MaxBrokerFaults
    BY <1>5 DEF ChannelCloses, BrokerFault, BrokerInv, BrokerTypeOK
  <2>2. QED
    <3>1. /\ Turns(s, "closing") /\ sockets[s].phase # "opening"
          /\ UNCHANGED <<closing, subscribed, attempt>> /\ Drops(s)
      BY <1>5 DEF ChannelCloses
    <3>2. QED
      BY <2>1, <3>1, EventInv
<1>6. QED
  BY <1>1, <1>2, <1>3, <1>4, <1>5

LEMMA CloseInv == ASSUME BrokerInv, Close PROVE BrokerInv'
<1> USE BrokerAssumption DEF BrokerAssumption, BrokerInv
<1>1. /\ sockets' \in [Sockets -> Socket]
      /\ \A t \in Sockets : sockets'[t].phase = IF t = current THEN "closing" ELSE sockets[t].phase
  <2>1. CASE current = None
    BY <2>1 DEF Close, BrokerTypeOK
  <2>2. CASE current # None
    <3>1. current \in Sockets /\ Turns(current, "closing") /\ "closing" \in Phases
      BY <2>2 DEF Close, BrokerTypeOK, Phases
    <3>2. QED
      BY <3>1, TurnsTyped
  <2>3. QED
    BY <2>1, <2>2
<1>2. attempt.at = "establishing" => current = None /\ attempt.socket \in Sockets
  BY DEF BrokerTypeOK, OpensBecauseThereIsNone
<1>3. BrokerTypeOK'
  BY <1>1, <1>2 DEF Close, BrokerTypeOK
<1>4. NoStrayConnection' /\ TheCurrentIsOpen' /\ OpensBecauseThereIsNone'
  BY <1>1 DEF Close, NoStrayConnection, OnlyTheCurrentIsOpen, NothingOpenAfterClose, TheCurrentIsOpen,
              OpensBecauseThereIsNone, Closing
<1>5. QED
  BY <1>3, <1>4

LEMMA CloseEndsInv == ASSUME BrokerInv, CloseEnds PROVE BrokerInv'
  BY DEF CloseEnds, BrokerInv, BrokerTypeOK, NoStrayConnection, OnlyTheCurrentIsOpen, NothingOpenAfterClose,
         TheCurrentIsOpen, OpensBecauseThereIsNone, Closing

LEMMA BrokerStepInv == BrokerInv /\ [BrokerNext]_brokerVars => BrokerInv'
<1> SUFFICES ASSUME BrokerInv, [BrokerNext]_brokerVars PROVE BrokerInv'
  OBVIOUS
<1>1. CASE UNCHANGED brokerVars
  BY <1>1 DEF BrokerInv, BrokerTypeOK, NoStrayConnection, OnlyTheCurrentIsOpen, NothingOpenAfterClose,
              TheCurrentIsOpen, OpensBecauseThereIsNone, Closing, brokerVars
<1>2. QED
  BY <1>1, SubscribeInv, ReconnectInv, EstablishedInv, GivesUpInv, ConsumingInv, NotConsumingInv, SocketEventsInv,
     CloseInv, CloseEndsInv DEF BrokerNext, AttemptStep, SocketEvent

\* Every variable of the broker's connection has its type (task-broker.js).
THEOREM BrokerTyped == BrokerSpec => []BrokerTypeOK
<1>1. BrokerInv => BrokerTypeOK
  BY DEF BrokerInv
<1>2. QED
  BY <1>1, BrokerInitInv, BrokerStepInv, PTL DEF BrokerSpec

\* Timeouts, late answers, lost channels and a close in the middle of an attempt leave no
\* connection open beside the current one, and none once the process stops (task-broker.js).
THEOREM NoConnectionStrays == BrokerSpec => []NoStrayConnection
<1>1. BrokerInv => NoStrayConnection
  BY DEF BrokerInv
<1>2. QED
  BY <1>1, BrokerInitInv, BrokerStepInv, PTL DEF BrokerSpec

-----------------------------------------------------------------------------
(***************************************************************************)
(* Discovery                                                               *)
(***************************************************************************)
\* A connection whose row is removed is deleted, and a visit that sleeps has attempts left.
RemovedIsDeleted == \A c \in Connections : deletions[c] \in {"row", "done"} => links[c].status = "deleted"
SleepersHaveAttempts ==
  \A a \in Actors, c \in Connections : visits[a][c].at = "sleeping" => visits[a][c].attempt < RetryAttempts

DiscoveryInv == DiscoveryTypeOK /\ RemovedIsDeleted /\ SleepersHaveAttempts

\* What a row's health says of its failures.
LinkIsWhole(l) ==
  /\ l.health = "healthy" => l.failures = 0 /\ ~l.waits
  /\ l.health = "critical" => l.failures = 3
  /\ l.waits => l.health \in {"unhealthy", "critical"}

LEMMA DiscoveryInitInv == DiscoveryInit => DiscoveryInv
<1> SUFFICES ASSUME DiscoveryInit PROVE DiscoveryInv
  OBVIOUS
<1> USE DiscoveryAssumption DEF DiscoveryAssumption
<1>1. NoVisit \in Visit /\ NoVisit.at = "none"
  BY DEF NoVisit, Visit
<1>2. visits \in [Actors -> [Connections -> Visit]]
  BY <1>1 DEF DiscoveryInit
<1>3. links \in [Connections -> Link]
  BY DEF DiscoveryInit, Link
<1>4. DiscoveryTypeOK
  BY <1>2, <1>3 DEF DiscoveryInit, DiscoveryTypeOK, Stored, Powers
<1>5. RemovedIsDeleted /\ SleepersHaveAttempts
  BY <1>1 DEF DiscoveryInit, RemovedIsDeleted, SleepersHaveAttempts
<1>6. QED
  BY <1>4, <1>5 DEF DiscoveryInv

\* A step on one connection's row, its alert, its inventory or its provider.
LEMMA LinkStepInv ==
  ASSUME DiscoveryInv, NEW c \in Connections, NEW l \in Link, links' = [links EXCEPT ![c] = l], LinkIsWhole(l),
         UNCHANGED <<providers, objects, resources, operations, providerChanges>>,
         visits' \in [Actors -> [Connections -> Visit]], SleepersHaveAttempts',
         linkAlerts' \in [Connections -> {"none", "active", "acknowledged"}],
         deletions' \in [Connections -> {"none", "resources", "objects", "row", "done"}],
         \A d \in Connections : deletions'[d] = deletions[d] \/ d = c,
         deletions'[c] \in {"row", "done"} => l.status = "deleted",
         peopleSteps' \in 0..MaxPeopleSteps
  PROVE  DiscoveryInv'
<1> USE DEF DiscoveryInv, LinkIsWhole
<1>1. links' \in [Connections -> Link] /\ \A d \in Connections : links'[d] = IF d = c THEN l ELSE links[d]
  BY DEF DiscoveryTypeOK
<1>2. DiscoveryTypeOK'
  BY <1>1 DEF DiscoveryTypeOK
<1>3. RemovedIsDeleted'
  BY <1>1 DEF RemovedIsDeleted
<1>4. QED
  BY <1>2, <1>3

\* A step that leaves the rows and how far their deletions are alone.
LEMMA OtherStepInv ==
  ASSUME DiscoveryInv, UNCHANGED <<links, deletions>>,
         providers' \in [Connections -> Provider],
         linkAlerts' \in [Connections -> {"none", "active", "acknowledged"}],
         resources' \in [Connections -> [state: Stored, power: Powers]],
         objects' \in [Connections -> Stored],
         operations' \in [Connections -> {None} \union [to: Powers, executed: BOOLEAN]],
         providerChanges' \in 0..MaxProviderChanges, peopleSteps' \in 0..MaxPeopleSteps,
         visits' \in [Actors -> [Connections -> Visit]], SleepersHaveAttempts'
  PROVE  DiscoveryInv'
  BY DEF DiscoveryInv, DiscoveryTypeOK, RemovedIsDeleted

\* One visit goes on.
LEMMA VisitGoesOn ==
  ASSUME DiscoveryInv, NEW a \in Actors, NEW c \in Connections, NEW x \in Visit,
         visits' = [visits EXCEPT ![a] = [visits[a] EXCEPT ![c] = x]],
         x.at = "sleeping" => x.attempt < RetryAttempts
  PROVE  /\ visits' \in [Actors -> [Connections -> Visit]] /\ SleepersHaveAttempts'
         /\ \A b \in Actors, d \in Connections : visits'[b][d] = IF b = a /\ d = c THEN x ELSE visits[b][d]
<1>1. visits \in [Actors -> [Connections -> Visit]]
  BY DEF DiscoveryInv, DiscoveryTypeOK
<1>2. /\ visits' \in [Actors -> [Connections -> Visit]]
      /\ \A b \in Actors, d \in Connections : visits'[b][d] = IF b = a /\ d = c THEN x ELSE visits[b][d]
  BY <1>1
<1>3. SleepersHaveAttempts'
  BY <1>2 DEF DiscoveryInv, SleepersHaveAttempts
<1>4. QED
  BY <1>2, <1>3

\* Moves and Leaves are such.
LEMMA MovesOrLeaves ==
  ASSUME DiscoveryInv, NEW a \in Actors, NEW c \in Connections, visits[a][c].at # "sleeping",
         \/ Leaves(a, c)
         \/ \E at \in {"synced", "recovering", "asking", "reported", "alerting"} : Moves(a, c, at)
         \/ Moves(a, c, "sleeping") /\ visits[a][c].attempt < RetryAttempts
  PROVE  visits' \in [Actors -> [Connections -> Visit]] /\ SleepersHaveAttempts'
<1> USE DiscoveryAssumption DEF DiscoveryAssumption
<1>1. visits \in [Actors -> [Connections -> Visit]] /\ visits[a][c] \in Visit
  BY DEF DiscoveryInv, DiscoveryTypeOK
<1>2. CASE Leaves(a, c)
  <2>1. NoVisit \in Visit /\ NoVisit.at = "none"
    BY DEF NoVisit, Visit
  <2>2. visits' = [visits EXCEPT ![a] = [visits[a] EXCEPT ![c] = NoVisit]]
    BY <1>1, <1>2 DEF Leaves
  <2>3. QED
    BY <2>1, <2>2, VisitGoesOn
<1>3. ASSUME NEW at \in {"synced", "recovering", "asking", "reported", "alerting", "sleeping"}, Moves(a, c, at),
             at = "sleeping" => visits[a][c].attempt < RetryAttempts
      PROVE  visits' \in [Actors -> [Connections -> Visit]] /\ SleepersHaveAttempts'
  <2> DEFINE x == [visits[a][c] EXCEPT !.at = at]
  <2>1. x \in Visit /\ x.at = at /\ x.attempt = visits[a][c].attempt
    BY <1>1 DEF Visit
  <2>2. visits' = [visits EXCEPT ![a] = [visits[a] EXCEPT ![c] = x]]
    BY <1>1, <1>3 DEF Moves
  <2> HIDE DEF x
  <2>3. QED
    BY <1>3, <2>1, <2>2, VisitGoesOn
<1>4. QED
  BY <1>2, <1>3

LEMMA SameVisits ==
  ASSUME DiscoveryInv, UNCHANGED visits
  PROVE  visits' \in [Actors -> [Connections -> Visit]] /\ SleepersHaveAttempts'
  BY DEF DiscoveryInv, DiscoveryTypeOK, SleepersHaveAttempts

LEMMA RowStepsInv ==
  ASSUME DiscoveryInv, NEW c \in Connections, CreateConnection(c) \/ RetryTimeComes(c) \/ EditConnection(c) \/ RemoveRow(c)
  PROVE  DiscoveryInv'
<1> USE DiscoveryAssumption DEF DiscoveryAssumption
<1>1. /\ links \in [Connections -> Link] /\ links[c] \in Link /\ LinkIsWhole(links[c]) /\ peopleSteps \in 0..MaxPeopleSteps
      /\ linkAlerts \in [Connections -> {"none", "active", "acknowledged"}]
      /\ deletions \in [Connections -> {"none", "resources", "objects", "row", "done"}]
      /\ deletions[c] \in {"row", "done"} => links[c].status = "deleted"
  BY DEF DiscoveryInv, DiscoveryTypeOK, RemovedIsDeleted, LinkIsWhole
<1>v. visits' \in [Actors -> [Connections -> Visit]] /\ SleepersHaveAttempts'
  BY SameVisits DEF CreateConnection, RetryTimeComes, EditConnection, RemoveRow
<1>2. CASE CreateConnection(c)
  <2> DEFINE l == [links[c] EXCEPT !.status = "enabled"]
  <2>1. l \in Link /\ LinkIsWhole(l)
    BY <1>1 DEF Link, LinkIsWhole
  <2>2. links' = [links EXCEPT ![c] = l] /\ deletions[c] \notin {"row", "done"}
    BY <1>1, <1>2 DEF CreateConnection
  <2> HIDE DEF l
  <2>3. QED
    BY <1>1, <1>2, <2>1, <2>2, <1>v, LinkStepInv DEF CreateConnection
<1>3. CASE RetryTimeComes(c) \/ EditConnection(c)
  <2> DEFINE l == [links[c] EXCEPT !.waits = FALSE]
  <2>1. l \in Link /\ LinkIsWhole(l) /\ l.status = links[c].status
    BY <1>1 DEF Link, LinkIsWhole
  <2>2. links' = [links EXCEPT ![c] = l] /\ UNCHANGED <<deletions, linkAlerts, visits, providers, objects, resources, operations, providerChanges>>
    BY <1>1, <1>3 DEF RetryTimeComes, EditConnection
  <2>3. peopleSteps' \in 0..MaxPeopleSteps
    BY <1>1, <1>3 DEF RetryTimeComes, EditConnection, PeopleStep
  <2> HIDE DEF l
  <2>4. QED
    BY <1>1, <2>1, <2>2, <2>3, <1>v, LinkStepInv
<1>4. CASE RemoveRow(c)
  <2> DEFINE l == [links[c] EXCEPT !.status = "deleted", !.health = "unknown", !.waits = FALSE]
  <2>1. l \in Link /\ LinkIsWhole(l) /\ l.status = "deleted"
    BY <1>1 DEF Link, LinkIsWhole
  <2>2. links' = [links EXCEPT ![c] = l]
    BY <1>1, <1>4 DEF RemoveRow
  <2>3. /\ deletions' \in [Connections -> {"none", "resources", "objects", "row", "done"}]
        /\ \A d \in Connections : deletions'[d] = deletions[d] \/ d = c
    BY <1>1, <1>4 DEF RemoveRow
  <2> HIDE DEF l
  <2>4. QED
    BY <1>1, <1>4, <2>1, <2>2, <2>3, <1>v, LinkStepInv DEF RemoveRow
<1>5. QED
  BY <1>2, <1>3, <1>4

LEMMA RecordsInv ==
  ASSUME DiscoveryInv, NEW a \in Actors, NEW c \in Connections, RecordsHealthy(a, c) \/ RecordsFailure(a, c)
  PROVE  DiscoveryInv'
<1> USE DiscoveryAssumption DEF DiscoveryAssumption
<1>1. /\ links \in [Connections -> Link] /\ links[c] \in Link /\ peopleSteps \in 0..MaxPeopleSteps
      /\ linkAlerts \in [Connections -> {"none", "active", "acknowledged"}]
      /\ deletions \in [Connections -> {"none", "resources", "objects", "row", "done"}]
      /\ deletions[c] \in {"row", "done"} => links[c].status = "deleted"
  BY DEF DiscoveryInv, DiscoveryTypeOK, RemovedIsDeleted
<1>2. visits' \in [Actors -> [Connections -> Visit]] /\ SleepersHaveAttempts'
  BY MovesOrLeaves DEF RecordsHealthy, RecordsFailure
<1>3. UNCHANGED <<providers, linkAlerts, resources, objects, deletions, operations, providerChanges, peopleSteps>>
  BY DEF RecordsHealthy, RecordsFailure
<1>4. CASE RecordsHealthy(a, c)
  <2> DEFINE l == [links[c] EXCEPT !.health = "healthy", !.failures = 0, !.waits = FALSE]
  <2>1. l \in Link /\ LinkIsWhole(l) /\ l.status = links[c].status
    <3>1. l \in Link
      <4>1. 0 \in 0..3 /\ FALSE \in BOOLEAN
        OBVIOUS
      <4>2. QED
        BY <1>1, <4>1 DEF Link
    <3>2. l.health = "healthy" /\ l.failures = 0 /\ l.waits = FALSE /\ l.status = links[c].status
      BY <1>1 DEF Link
    <3>3. QED
      BY <3>1, <3>2 DEF LinkIsWhole
  <2>2. links' = [links EXCEPT ![c] = l]
    BY <1>1, <1>4 DEF RecordsHealthy
  <2> HIDE DEF l
  <2>3. QED
    BY <1>1, <1>2, <1>3, <2>1, <2>2, LinkStepInv
<1>5. CASE RecordsFailure(a, c)
  <2> DEFINE failures == IF links[c].failures = 3 THEN 3 ELSE links[c].failures + 1
             waits == a \in Schedulers
             health == IF failures = 3 THEN "critical" ELSE "unhealthy"
             l == [links[c] EXCEPT !.failures = failures, !.waits = waits, !.health = health]
  <2>1. failures \in 0..3
    BY <1>1 DEF Link
  <2>2. links' = [links EXCEPT ![c] = l]
    BY <1>1, <1>5 DEF RecordsFailure
  <2>h. waits \in BOOLEAN /\ health \in {"critical", "unhealthy"}
    OBVIOUS
  <2> HIDE DEF failures, waits
  <2>3. l \in Link /\ LinkIsWhole(l) /\ l.status = links[c].status
    <3>1. l \in Link
      <4> HIDE DEF health
      <4>1. QED
        BY <1>1, <2>1, <2>h DEF Link
    <3>2. /\ l.failures = failures /\ l.health = (IF failures = 3 THEN "critical" ELSE "unhealthy")
          /\ l.status = links[c].status
      BY <1>1 DEF Link
    <3>3. QED
      BY <3>1, <3>2 DEF LinkIsWhole
  <2> HIDE DEF l
  <2>4. QED
    BY <1>1, <1>2, <1>3, <2>2, <2>3, LinkStepInv
<1>6. QED
  BY <1>4, <1>5

\* A visit begins.
LEMMA NoVisitTyped == NoVisit \in Visit /\ NoVisit.at = "none"
  BY DiscoveryAssumption DEF DiscoveryAssumption, NoVisit, Visit

LEMMA BegunTyped ==
  ASSUME NEW tests \in BOOLEAN
  PROVE  Begun(tests) \in Visit /\ Begun(tests).at = "starting"
<1>1. ASSUME NEW v \in Visit
      PROVE  LET x == [v EXCEPT !.at = "starting", !.tests = tests, !.attempt = 1]
             IN  x \in Visit /\ x.at = "starting"
  <2>1. 1 \in 0..RetryAttempts
    BY DiscoveryAssumption DEF DiscoveryAssumption
  <2>2. QED
    BY <2>1 DEF Visit
<1>2. QED
  BY <1>1, NoVisitTyped DEF Begun

LEMMA RoundInv == ASSUME DiscoveryInv, NEW s \in Schedulers, Round(s) PROVE DiscoveryInv'
<1> DEFINE x == [c \in Connections |-> IF c \in Due THEN Begun(FALSE) ELSE NoVisit]
<1>1. x \in [Connections -> Visit] /\ \A c \in Connections : x[c].at # "sleeping"
  BY BegunTyped, NoVisitTyped
<1>2. visits' = [visits EXCEPT ![s] = x] /\ visits \in [Actors -> [Connections -> Visit]] /\ s \in Actors
  BY DEF Round, DiscoveryInv, DiscoveryTypeOK, Actors
<1> HIDE DEF x
<1>3. /\ visits' \in [Actors -> [Connections -> Visit]]
      /\ \A a \in Actors : visits'[a] = IF a = s THEN x ELSE visits[a]
  BY <1>1, <1>2
<1>4. SleepersHaveAttempts'
  BY <1>1, <1>3 DEF DiscoveryInv, SleepersHaveAttempts
<1>5. QED
  BY <1>3, <1>4, OtherStepInv DEF Round, DiscoveryInv, DiscoveryTypeOK

LEMMA DiscoverOrTestInv ==
  ASSUME DiscoveryInv, NEW d \in Discoverers, NEW c \in Connections, DiscoverOrTest(d, c)
  PROVE  DiscoveryInv'
<1>1. PICK tests \in BOOLEAN : visits' = [visits EXCEPT ![d][c] = Begun(tests)]
  BY DEF DiscoverOrTest
<1>2. d \in Actors /\ visits \in [Actors -> [Connections -> Visit]]
  BY DEF Actors, DiscoveryInv, DiscoveryTypeOK
<1>3. visits' = [visits EXCEPT ![d] = [visits[d] EXCEPT ![c] = Begun(tests)]]
  BY <1>1, <1>2
<1>4. visits' \in [Actors -> [Connections -> Visit]] /\ SleepersHaveAttempts'
  BY <1>2, <1>3, BegunTyped, VisitGoesOn
<1>5. peopleSteps' \in 0..MaxPeopleSteps
  BY DiscoveryAssumption DEF DiscoveryAssumption, DiscoverOrTest, PeopleStep, DiscoveryInv, DiscoveryTypeOK
<1>6. QED
  BY <1>4, <1>5, OtherStepInv DEF DiscoverOrTest, DiscoveryInv, DiscoveryTypeOK

\* The steps of a visit that write its own record alone.
LEMMA CallsInv ==
  ASSUME DiscoveryInv, NEW a \in Actors, NEW c \in Connections, Calls(a, c) \/ TriesAgain(a, c)
  PROVE  DiscoveryInv'
<1> USE DiscoveryAssumption DEF DiscoveryAssumption
<1>1. /\ visits \in [Actors -> [Connections -> Visit]] /\ visits[a][c] \in Visit
      /\ providers[c] \in Provider
      /\ visits[a][c].at = "sleeping" => visits[a][c].attempt < RetryAttempts
  BY DEF DiscoveryInv, DiscoveryTypeOK, SleepersHaveAttempts
<1>2. CASE Calls(a, c) /\ visits' = [visits EXCEPT ![a][c].at = IF visits[a][c].tests THEN "synced" ELSE "observed",
                                                 ![a][c].seen = providers[c].machine]
  <2> DEFINE x == [visits[a][c] EXCEPT !.at = IF visits[a][c].tests THEN "synced" ELSE "observed",
                                       !.seen = providers[c].machine]
  <2>1. x \in Visit /\ x.at # "sleeping"
    BY <1>1 DEF Visit, Provider
  <2>2. visits' = [visits EXCEPT ![a] = [visits[a] EXCEPT ![c] = x]]
    BY <1>1, <1>2
  <2> HIDE DEF x
  <2>3. visits' \in [Actors -> [Connections -> Visit]] /\ SleepersHaveAttempts'
    BY <2>1, <2>2, VisitGoesOn
  <2>4. QED
    BY <1>2, <2>3, OtherStepInv DEF Calls, DiscoveryInv, DiscoveryTypeOK
<1>3. CASE Calls(a, c) /\ visits' = [visits EXCEPT ![a][c].at = "failed", ![a][c].retry = (providers[c].answers = "busy")]
  <2> DEFINE x == [visits[a][c] EXCEPT !.at = "failed", !.retry = (providers[c].answers = "busy")]
  <2>1. x \in Visit /\ x.at # "sleeping"
    BY <1>1 DEF Visit
  <2>2. visits' = [visits EXCEPT ![a] = [visits[a] EXCEPT ![c] = x]]
    BY <1>1, <1>3
  <2> HIDE DEF x
  <2>3. visits' \in [Actors -> [Connections -> Visit]] /\ SleepersHaveAttempts'
    BY <2>1, <2>2, VisitGoesOn
  <2>4. QED
    BY <1>3, <2>3, OtherStepInv DEF Calls, DiscoveryInv, DiscoveryTypeOK
<1>4. CASE TriesAgain(a, c)
  <2> DEFINE x == [visits[a][c] EXCEPT !.at = "starting", !.attempt = visits[a][c].attempt + 1, !.retry = FALSE]
  <2>1. visits[a][c].attempt + 1 \in 0..RetryAttempts
    BY <1>1, <1>4 DEF TriesAgain, Visit
  <2>2. x \in Visit /\ x.at # "sleeping"
    BY <1>1, <2>1 DEF Visit
  <2>3. visits' = [visits EXCEPT ![a] = [visits[a] EXCEPT ![c] = x]]
    BY <1>1, <1>4 DEF TriesAgain
  <2> HIDE DEF x
  <2>4. visits' \in [Actors -> [Connections -> Visit]] /\ SleepersHaveAttempts'
    BY <2>2, <2>3, VisitGoesOn
  <2>5. QED
    BY <1>4, <2>4, OtherStepInv DEF TriesAgain, DiscoveryInv, DiscoveryTypeOK
<1>5. QED
  BY <1>2, <1>3, <1>4 DEF Calls

LEMMA VisitWritesInv ==
  ASSUME DiscoveryInv, NEW a \in Actors, NEW c \in Connections,
         \/ Synchronizes(a, c) \/ RecoversAlert(a, c) \/ AsksInfrastructure(a, c)
         \/ SynchronizesObjects(a, c) \/ RaisesAlert(a, c)
  PROVE  DiscoveryInv'
<1>1. visits' \in [Actors -> [Connections -> Visit]] /\ SleepersHaveAttempts'
  <2>1. CASE Synchronizes(a, c)
    BY <2>1, MovesOrLeaves DEF Synchronizes
  <2>2. CASE RecoversAlert(a, c)
    BY <2>2, MovesOrLeaves DEF RecoversAlert
  <2>3. CASE AsksInfrastructure(a, c)
    BY <2>3, MovesOrLeaves DEF AsksInfrastructure
  <2>4. CASE SynchronizesObjects(a, c)
    BY <2>4, MovesOrLeaves DEF SynchronizesObjects
  <2>5. CASE RaisesAlert(a, c)
    BY <2>5, MovesOrLeaves DEF RaisesAlert
  <2>6. QED
    BY <2>1, <2>2, <2>3, <2>4, <2>5
<1>2. DiscoveryTypeOK
  BY DEF DiscoveryInv
<1>3. CASE Synchronizes(a, c)
  <2> DEFINE row == IF visits[a][c].seen = "absent" THEN [resources[c] EXCEPT !.state = Missing(resources[c].state)]
                    ELSE [state |-> "active", power |-> visits[a][c].seen]
  <2>1. resources[c] \in [state: Stored, power: Powers] /\ visits[a][c] \in Visit
    BY <1>2 DEF DiscoveryTypeOK
  <2>2. row \in [state: Stored, power: Powers]
    BY <2>1 DEF Stored, Missing, Visit
  <2>3. resources' = [resources EXCEPT ![c] = row]
    BY <1>2, <1>3 DEF Synchronizes, DiscoveryTypeOK
  <2> HIDE DEF row
  <2>4. resources' \in [Connections -> [state: Stored, power: Powers]]
    BY <1>2, <2>2, <2>3 DEF DiscoveryTypeOK
  <2>5. QED
    BY <1>1, <1>2, <1>3, <2>4, OtherStepInv DEF Synchronizes, DiscoveryTypeOK
<1>4. CASE RecoversAlert(a, c) \/ RaisesAlert(a, c)
  <2>1. linkAlerts' \in [Connections -> {"none", "active", "acknowledged"}]
    BY <1>2, <1>4 DEF RecoversAlert, RaisesAlert, DiscoveryTypeOK
  <2>2. QED
    BY <1>1, <1>2, <1>4, <2>1, OtherStepInv DEF RecoversAlert, RaisesAlert, DiscoveryTypeOK
<1>5. CASE AsksInfrastructure(a, c)
  BY <1>1, <1>2, <1>5, OtherStepInv DEF AsksInfrastructure, DiscoveryTypeOK
<1>6. CASE SynchronizesObjects(a, c)
  <2>1. objects' \in [Connections -> Stored]
    BY <1>2, <1>6 DEF SynchronizesObjects, DiscoveryTypeOK, Stored
  <2>2. QED
    BY <1>1, <1>2, <1>6, <2>1, OtherStepInv DEF SynchronizesObjects, DiscoveryTypeOK
<1>7. QED
  BY <1>3, <1>4, <1>5, <1>6

LEMMA ProviderStepsInv ==
  ASSUME DiscoveryInv, NEW c \in Connections, ProviderChanges(c) \/ AcknowledgeAlert(c)
  PROVE  DiscoveryInv'
<1> USE DiscoveryAssumption DEF DiscoveryAssumption
<1>1. DiscoveryTypeOK
  BY DEF DiscoveryInv
<1>2. visits' \in [Actors -> [Connections -> Visit]] /\ SleepersHaveAttempts'
  BY SameVisits DEF ProviderChanges, AcknowledgeAlert
<1>3. CASE ProviderChanges(c)
  <2>1. PICK p \in Provider : providers' = [providers EXCEPT ![c] = p]
    BY <1>3 DEF ProviderChanges
  <2>2. providers' \in [Connections -> Provider] /\ providerChanges' \in 0..MaxProviderChanges
    BY <1>1, <1>3, <2>1 DEF ProviderChanges, DiscoveryTypeOK
  <2>3. QED
    BY <1>1, <1>2, <1>3, <2>2, OtherStepInv DEF ProviderChanges, DiscoveryTypeOK
<1>4. CASE AcknowledgeAlert(c)
  <2>1. linkAlerts' \in [Connections -> {"none", "active", "acknowledged"}] /\ peopleSteps' \in 0..MaxPeopleSteps
    BY <1>1, <1>4 DEF AcknowledgeAlert, PeopleStep, DiscoveryTypeOK
  <2>2. QED
    BY <1>1, <1>2, <1>4, <2>1, OtherStepInv DEF AcknowledgeAlert, DiscoveryTypeOK
<1>5. QED
  BY <1>3, <1>4

LEMMA DeletionStepsInv ==
  ASSUME DiscoveryInv, NEW c \in Connections, RetireResources(c) \/ RetireObjects(c) \/ RecoverRemoved(c)
  PROVE  DiscoveryInv'
<1> USE DiscoveryAssumption DEF DiscoveryAssumption
<1>1. DiscoveryTypeOK /\ RemovedIsDeleted
  BY DEF DiscoveryInv
<1>2. visits' \in [Actors -> [Connections -> Visit]] /\ SleepersHaveAttempts'
  BY SameVisits DEF RetireResources, RetireObjects, RecoverRemoved
<1>3. /\ deletions' \in [Connections -> {"none", "resources", "objects", "row", "done"}]
      /\ RemovedIsDeleted'
  BY <1>1 DEF RetireResources, RetireObjects, RecoverRemoved, DiscoveryTypeOK, RemovedIsDeleted
<1>4. peopleSteps' \in 0..MaxPeopleSteps
  BY <1>1 DEF RetireResources, RetireObjects, RecoverRemoved, PeopleStep, DiscoveryTypeOK
<1>5. resources' \in [Connections -> [state: Stored, power: Powers]]
  <2>1. CASE RetireResources(c)
    <3> DEFINE row == [resources[c] EXCEPT !.state = Retired(resources[c].state)]
    <3>1. row \in [state: Stored, power: Powers]
      BY <1>1 DEF DiscoveryTypeOK, Stored, Retired
    <3>2. resources' = [resources EXCEPT ![c] = row]
      BY <1>1, <2>1 DEF RetireResources, DiscoveryTypeOK
    <3> HIDE DEF row
    <3>3. QED
      BY <1>1, <3>1, <3>2 DEF DiscoveryTypeOK
  <2>2. CASE UNCHANGED resources
    BY <1>1, <2>2 DEF DiscoveryTypeOK
  <2>3. QED
    BY <2>1, <2>2 DEF RetireObjects, RecoverRemoved
<1>6. objects' \in [Connections -> Stored]
  BY <1>1 DEF RetireResources, RetireObjects, RecoverRemoved, DiscoveryTypeOK, Stored, Retired
<1>7. linkAlerts' \in [Connections -> {"none", "active", "acknowledged"}]
  BY <1>1 DEF RetireResources, RetireObjects, RecoverRemoved, DiscoveryTypeOK
<1>8. UNCHANGED <<links, providers, operations, providerChanges>>
  BY DEF RetireResources, RetireObjects, RecoverRemoved
<1>9. QED
  BY <1>1, <1>2, <1>3, <1>4, <1>5, <1>6, <1>7, <1>8 DEF DiscoveryInv, DiscoveryTypeOK

LEMMA OperationStepsInv ==
  ASSUME DiscoveryInv, NEW c \in Connections, RequestsOperation(c) \/ ExecutesOperation(c) \/ AppliesOperation(c)
  PROVE  DiscoveryInv'
<1> USE DiscoveryAssumption DEF DiscoveryAssumption
<1>1. DiscoveryTypeOK
  BY DEF DiscoveryInv
<1>2. visits' \in [Actors -> [Connections -> Visit]] /\ SleepersHaveAttempts'
  BY SameVisits DEF RequestsOperation, ExecutesOperation, AppliesOperation
<1>3. CASE RequestsOperation(c)
  <2>1. PICK p \in Powers : operations' = [operations EXCEPT ![c] = [to |-> p, executed |-> FALSE]]
    BY <1>3 DEF RequestsOperation
  <2>2. operations' \in [Connections -> {None} \union [to: Powers, executed: BOOLEAN]] /\ peopleSteps' \in 0..MaxPeopleSteps
    BY <1>1, <1>3, <2>1 DEF RequestsOperation, PeopleStep, DiscoveryTypeOK
  <2>3. QED
    BY <1>1, <1>2, <1>3, <2>2, OtherStepInv DEF RequestsOperation, DiscoveryTypeOK
<1>4. CASE ExecutesOperation(c)
  <2>1. operations[c] \in [to: Powers, executed: BOOLEAN]
    BY <1>1, <1>4 DEF ExecutesOperation, DiscoveryTypeOK
  <2>2. operations' \in [Connections -> {None} \union [to: Powers, executed: BOOLEAN]]
    <3>1. CASE operations' = [operations EXCEPT ![c].executed = TRUE]
      <4> DEFINE x == [operations[c] EXCEPT !.executed = TRUE]
      <4>1. x \in [to: Powers, executed: BOOLEAN]
        BY <2>1
      <4>2. operations' = [operations EXCEPT ![c] = x]
        BY <1>1, <3>1 DEF DiscoveryTypeOK
      <4> HIDE DEF x
      <4>3. QED
        BY <1>1, <4>1, <4>2 DEF DiscoveryTypeOK
    <3>2. CASE operations' = [operations EXCEPT ![c] = None]
      BY <1>1, <3>2 DEF DiscoveryTypeOK
    <3>3. QED
      BY <1>4, <3>1, <3>2 DEF ExecutesOperation
  <2>3. providers' \in [Connections -> Provider]
    <3>1. CASE UNCHANGED providers
      BY <1>1, <3>1 DEF DiscoveryTypeOK
    <3>2. CASE providers' = [providers EXCEPT ![c].machine =
                               IF Enabled(c) /\ @ # "absent" THEN operations[c].to ELSE @]
      <4> DEFINE machine == IF Enabled(c) /\ providers[c].machine # "absent" THEN operations[c].to
                            ELSE providers[c].machine
                 x == [providers[c] EXCEPT !.machine = machine]
      <4>m. providers[c] \in Provider /\ machine \in Powers \union {"absent"}
        BY <1>1, <2>1 DEF Provider, DiscoveryTypeOK
      <4>1. x \in Provider
        <5> HIDE DEF machine
        <5>1. QED
          BY <4>m DEF Provider
      <4>2. providers' = [providers EXCEPT ![c] = x]
        BY <1>1, <3>2 DEF DiscoveryTypeOK
      <4> HIDE DEF x
      <4>3. QED
        BY <1>1, <4>1, <4>2 DEF DiscoveryTypeOK
    <3>3. QED
      BY <1>4, <3>1, <3>2 DEF ExecutesOperation
  <2>4. QED
    BY <1>1, <1>2, <1>4, <2>2, <2>3, OtherStepInv DEF ExecutesOperation, DiscoveryTypeOK
<1>5. CASE AppliesOperation(c)
  <2> DEFINE row == [resources[c] EXCEPT !.power = operations[c].to]
  <2>1. row \in [state: Stored, power: Powers]
    BY <1>1, <1>5 DEF AppliesOperation, DiscoveryTypeOK
  <2>2. resources' = [resources EXCEPT ![c] = row]
    BY <1>1, <1>5 DEF AppliesOperation, DiscoveryTypeOK
  <2> HIDE DEF row
  <2>3. /\ resources' \in [Connections -> [state: Stored, power: Powers]]
        /\ operations' \in [Connections -> {None} \union [to: Powers, executed: BOOLEAN]]
    BY <1>1, <1>5, <2>1, <2>2 DEF AppliesOperation, DiscoveryTypeOK
  <2>4. QED
    BY <1>1, <1>2, <1>5, <2>3, OtherStepInv DEF AppliesOperation, DiscoveryTypeOK
<1>6. QED
  BY <1>3, <1>4, <1>5

LEMMA DiscoveryStepInv == DiscoveryInv /\ [DiscoveryNext]_discoveryVars => DiscoveryInv'
<1> SUFFICES ASSUME DiscoveryInv, [DiscoveryNext]_discoveryVars PROVE DiscoveryInv'
  OBVIOUS
<1>1. CASE UNCHANGED discoveryVars
  BY <1>1 DEF DiscoveryInv, DiscoveryTypeOK, RemovedIsDeleted, SleepersHaveAttempts, discoveryVars
<1>2. ASSUME NEW c \in Connections, NEW a \in Actors, VisitStep(a, c) PROVE DiscoveryInv'
  BY <1>2, RecordsInv, CallsInv, VisitWritesInv DEF VisitStep
<1>3. ASSUME NEW c \in Connections, DeletionStep(c) \/ RetireResources(c) PROVE DiscoveryInv'
  BY <1>3, DeletionStepsInv, RowStepsInv DEF DeletionStep
<1>4. ASSUME NEW c \in Connections, OperationStep(c) \/ RequestsOperation(c) PROVE DiscoveryInv'
  BY <1>4, OperationStepsInv DEF OperationStep
<1>5. QED
  BY <1>1, <1>2, <1>3, <1>4, RoundInv, DiscoverOrTestInv, ProviderStepsInv, RowStepsInv DEF DiscoveryNext

\* Every variable has its type, and a row's health is what its failures make it.
THEOREM DiscoveryTyped == DiscoverySpec => []DiscoveryTypeOK
<1>1. DiscoveryInv => DiscoveryTypeOK
  BY DEF DiscoveryInv
<1>2. QED
  BY <1>1, DiscoveryInitInv, DiscoveryStepInv, PTL DEF DiscoverySpec

-----------------------------------------------------------------------------
\* What a step may do to a connection that is removed and at rest.
StaysAtRest(c) ==
  /\ AtRestRemoved(c)'
  /\ UNCHANGED <<links[c].status, links[c].health, resources[c], objects[c]>>
  /\ linkAlerts[c]' # "active" \/ linkAlerts[c] = "active"

LEMMA UntouchedStays ==
  ASSUME NEW c \in Connections, AtRestRemoved(c),
         \A a \in Actors : visits'[a][c].at = "none",
         deletions'[c] = deletions[c], operations'[c] = operations[c], resources'[c] = resources[c],
         objects'[c] = objects[c], links'[c].status = links[c].status, links'[c].health = links[c].health,
         linkAlerts'[c] = linkAlerts[c] \/ linkAlerts'[c] # "active"
  PROVE  StaysAtRest(c)
  BY DEF AtRestRemoved, StaysAtRest

\* What is at rest is deleted and in no list.
LEMMA AtRestIsDeleted ==
  ASSUME DiscoveryInv, NEW c \in Connections, AtRestRemoved(c)
  PROVE  /\ links[c].status = "deleted" /\ ~Enabled(c) /\ c \notin Due
         /\ \A a \in Actors : visits[a][c].at = "none"
  BY DEF DiscoveryInv, RemovedIsDeleted, AtRestRemoved, Enabled, Due

LEMMA VisitStays ==
  ASSUME DiscoveryInv, NEW c \in Connections, AtRestRemoved(c), NEW a \in Actors, NEW d \in Connections, VisitStep(a, d)
  PROVE  StaysAtRest(c)
<1>1. /\ visits[a][c].at = "none" /\ \A b \in Actors : visits[b][c].at = "none"
      /\ DiscoveryTypeOK
  BY DEF AtRestRemoved, DiscoveryInv
<1>2. d # c
  BY <1>1 DEF VisitStep, Calls, Synchronizes, RecordsHealthy, RecoversAlert, AsksInfrastructure, SynchronizesObjects,
              RecordsFailure, RaisesAlert, TriesAgain
<1>3. UNCHANGED <<deletions, operations>>
  BY DEF VisitStep, Calls, Synchronizes, RecordsHealthy, RecoversAlert, AsksInfrastructure, SynchronizesObjects,
         RecordsFailure, RaisesAlert, TriesAgain
<1>4. \A b \in Actors : visits'[b][c] = visits[b][c]
  <2>1. visits \in [Actors -> [Connections -> Visit]]
    BY <1>1 DEF DiscoveryTypeOK
  <2>2. CASE Calls(a, d)
    BY <1>2, <2>1, <2>2 DEF Calls
  <2>3. CASE TriesAgain(a, d)
    BY <1>2, <2>1, <2>3 DEF TriesAgain
  <2>4. ASSUME Leaves(a, d) \/ \E at : Moves(a, d, at) PROVE \A b \in Actors : visits'[b][c] = visits[b][c]
    BY <1>2, <2>1, <2>4 DEF Leaves, Moves
  <2>5. QED
    BY <2>2, <2>3, <2>4 DEF VisitStep, Synchronizes, RecordsHealthy, RecoversAlert, AsksInfrastructure,
                            SynchronizesObjects, RecordsFailure, RaisesAlert
<1>5. resources'[c] = resources[c] /\ objects'[c] = objects[c]
  BY <1>1, <1>2 DEF DiscoveryTypeOK, VisitStep, Calls, Synchronizes, RecordsHealthy, RecoversAlert, AsksInfrastructure,
                    SynchronizesObjects, RecordsFailure, RaisesAlert, TriesAgain
<1>6. links'[c] = links[c] /\ linkAlerts'[c] = linkAlerts[c]
  BY <1>1, <1>2 DEF DiscoveryTypeOK, VisitStep, Calls, Synchronizes, RecordsHealthy, RecoversAlert, AsksInfrastructure,
                    SynchronizesObjects, RecordsFailure, RaisesAlert, TriesAgain
<1>7. QED
  BY <1>1, <1>3, <1>4, <1>5, <1>6, UntouchedStays

\* People and their requests, the timer and the provider, of this connection or another.
LEMMA RequestsStay ==
  ASSUME DiscoveryInv, NEW c \in Connections, AtRestRemoved(c), NEW d \in Connections,
         \/ ProviderChanges(d) \/ CreateConnection(d) \/ RetryTimeComes(d) \/ EditConnection(d)
         \/ AcknowledgeAlert(d) \/ RequestsOperation(d) \/ ExecutesOperation(d) \/ AppliesOperation(d)
  PROVE  StaysAtRest(c)
<1>1. DiscoveryTypeOK /\ UNCHANGED <<visits, objects, deletions>> /\ \A a \in Actors : visits[a][c].at = "none"
  BY DEF DiscoveryInv, AtRestRemoved, ProviderChanges, CreateConnection, RetryTimeComes, EditConnection, AcknowledgeAlert,
         RequestsOperation, ExecutesOperation, AppliesOperation
<1>2. operations'[c] = operations[c] /\ resources'[c] = resources[c]
  BY <1>1 DEF DiscoveryTypeOK, AtRestRemoved, ProviderChanges, CreateConnection, RetryTimeComes, EditConnection,
              AcknowledgeAlert, RequestsOperation, ExecutesOperation, AppliesOperation
<1>3. links'[c].status = links[c].status /\ links'[c].health = links[c].health
  <2>1. links \in [Connections -> Link] /\ links[c].status = "deleted" /\ links[c] \in Link
    BY <1>1, AtRestIsDeleted DEF DiscoveryTypeOK
  <2>2. CASE CreateConnection(d)
    BY <2>1, <2>2 DEF CreateConnection, Link
  <2>3. CASE RetryTimeComes(d) \/ EditConnection(d)
    BY <2>1, <2>3 DEF RetryTimeComes, EditConnection, Link
  <2>4. CASE UNCHANGED links
    BY <2>4
  <2>5. QED
    BY <2>2, <2>3, <2>4 DEF ProviderChanges, AcknowledgeAlert, RequestsOperation, ExecutesOperation, AppliesOperation
<1>4. linkAlerts'[c] = linkAlerts[c] \/ linkAlerts'[c] # "active"
  BY <1>1 DEF DiscoveryTypeOK, ProviderChanges, CreateConnection, RetryTimeComes, EditConnection, AcknowledgeAlert,
              RequestsOperation, ExecutesOperation, AppliesOperation
<1>5. QED
  BY <1>1, <1>2, <1>3, <1>4, UntouchedStays

LEMMA DeletionStays ==
  ASSUME DiscoveryInv, NEW c \in Connections, AtRestRemoved(c), NEW d \in Connections,
         RetireResources(d) \/ DeletionStep(d)
  PROVE  StaysAtRest(c)
<1>1. DiscoveryTypeOK /\ UNCHANGED <<visits, operations>> /\ \A a \in Actors : visits[a][c].at = "none"
  BY DEF DiscoveryInv, AtRestRemoved, RetireResources, DeletionStep, RetireObjects, RemoveRow, RecoverRemoved
<1>2. d # c
  BY DEF AtRestRemoved, RetireResources, DeletionStep, RetireObjects, RemoveRow, RecoverRemoved
<1>3. /\ deletions'[c] = deletions[c] /\ resources'[c] = resources[c] /\ objects'[c] = objects[c]
      /\ links'[c] = links[c] /\ linkAlerts'[c] = linkAlerts[c]
  BY <1>1, <1>2 DEF DiscoveryTypeOK, RetireResources, DeletionStep, RetireObjects, RemoveRow, RecoverRemoved
<1>4. QED
  BY <1>1, <1>3, UntouchedStays

\* No round and no request begins a visit of it.
LEMMA BeginningsStay ==
  ASSUME DiscoveryInv, NEW c \in Connections, AtRestRemoved(c),
         \/ \E s \in Schedulers : Round(s)
         \/ \E d \in Discoverers, e \in Connections : DiscoverOrTest(d, e)
  PROVE  StaysAtRest(c)
<1>1. DiscoveryTypeOK /\ ~Enabled(c) /\ c \notin Due /\ \A a \in Actors : visits[a][c].at = "none"
  BY AtRestIsDeleted DEF DiscoveryInv
<1>2. UNCHANGED <<links, linkAlerts, resources, objects, deletions, operations>>
  BY DEF Round, DiscoverOrTest
<1>3. \A a \in Actors : visits'[a][c].at = "none"
  <2>1. visits \in [Actors -> [Connections -> Visit]] /\ NoVisit.at = "none"
    BY <1>1, NoVisitTyped DEF DiscoveryTypeOK
  <2>2. ASSUME NEW s \in Schedulers, Round(s) PROVE \A a \in Actors : visits'[a][c].at = "none"
    <3> DEFINE x == [e \in Connections |-> IF e \in Due THEN Begun(FALSE) ELSE NoVisit]
    <3>1. x[c] = NoVisit /\ s \in Actors
      BY <1>1 DEF Actors
    <3>2. visits' = [visits EXCEPT ![s] = x]
      BY <2>2 DEF Round
    <3> HIDE DEF x
    <3>3. QED
      BY <1>1, <2>1, <3>1, <3>2
  <2>3. ASSUME NEW d \in Discoverers, NEW e \in Connections, DiscoverOrTest(d, e)
        PROVE  \A a \in Actors : visits'[a][c].at = "none"
    <3>1. e # c /\ d \in Actors
      BY <1>1, <2>3 DEF DiscoverOrTest, Actors
    <3>2. QED
      BY <1>1, <2>1, <2>3, <3>1 DEF DiscoverOrTest
  <2>4. QED
    BY <2>2, <2>3
<1>4. QED
  BY <1>1, <1>2, <1>3, UntouchedStays

\* Once what was in hand when a connection was deleted is over, no round, request or operation
\* begins on it, and nothing that is kept of it changes (connection-service.js, discovery-scheduler.js).
THEOREM RemovedStays == DiscoverySpec => RemovedStaysAtRest
<1>1. ASSUME DiscoveryInv, DiscoveryNext, NEW c \in Connections, AtRestRemoved(c) PROVE StaysAtRest(c)
  BY <1>1, VisitStays, RequestsStay, DeletionStays, BeginningsStay DEF DiscoveryNext, OperationStep
<1>2. DiscoveryInv /\ [DiscoveryNext]_discoveryVars
      => [\A c \in Connections : AtRestRemoved(c) =>
            /\ AtRestRemoved(c)'
            /\ UNCHANGED <<links[c].status, links[c].health, resources[c], objects[c]>>
            /\ linkAlerts[c]' # "active" \/ linkAlerts[c] = "active"]_discoveryVars
  BY <1>1 DEF StaysAtRest
<1>3. QED
  BY <1>2, DiscoveryInitInv, DiscoveryStepInv, PTL DEF DiscoverySpec, RemovedStaysAtRest
=============================================================================
