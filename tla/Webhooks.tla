------------------------------ MODULE Webhooks ------------------------------
(***************************************************************************)
(* The delivery queue of webhooks: destinations and deliveries in          *)
(* PostgreSQL, and the dispatchers of one or more Nuvrion processes, each  *)
(* of which every few seconds queues the recent events its destinations    *)
(* want, claims what is due, posts it and records the results.             *)
(*                                                                         *)
(* An event is a model value with a moment at which it happens; it stays   *)
(* among the collected events for a day.  Time appears as what a           *)
(* comparison with the clock can tell: an event lies before a              *)
(* destination's active_since or not, a delivery is due or not, a claim is *)
(* running or over.  A delivery row is named by its destination, its event *)
(* and the number of times that pair has been queued (its delivery id).    *)
(*                                                                         *)
(* Names, addresses, signatures and the counters shown to people are left  *)
(* out, and so are the refusals of requests that change nothing.           *)
(***************************************************************************)
EXTENDS Integers, FiniteSets

CONSTANTS
  Destinations,    \* webhooks that may be created
  Events,          \* events that may happen
  Processes,       \* Nuvrion processes, each with one dispatcher
  Choices,         \* sets of events a webhook's kinds and severity can choose
  MaxAttempts,     \* LIMITS.maxAttempts
  Kept,            \* LIMITS.deliveriesKept
  PerTick,         \* LIMITS.perTick
  Parallel,        \* PARALLEL
  ClaimsMayLapse,  \* a claim may run out while its process is still sending
  MaxFaults,       \* bound of the model: crashes, failed calls, lost answers
  MaxChanges       \* bound of the model: updates, tests and prunings

ASSUME WebhooksAssumption ==
  /\ Choices \subseteq SUBSET Events
  /\ MaxAttempts \in Nat \ {0}
  /\ Kept \in Nat
  /\ PerTick \in Nat \ {0}
  /\ Parallel \in Nat \ {0}
  /\ ClaimsMayLapse \in BOOLEAN
  /\ MaxFaults \in Nat
  /\ MaxChanges \in Nat

VARIABLES
  moment,   \* "future", "recent" (in the dispatchers' window) or "old"
  hook,     \* each destination: "absent", "on", "off" or "deleted"
  choice,   \* the events it listens to, by kind and severity
  before,   \* the events that happened before its active_since
  row,      \* the delivery of each pair of destination and event
  queued,   \* how often that pair has been queued
  tests,    \* recorded test posts of each destination
  at,       \* where each dispatcher is in tick
  accepts,  \* the events it found each destination to want, listed in Begin
  todo,     \* the pairs it has still to queue
  waiting,  \* the deliveries it has claimed and not begun
  flight,   \* the deliveries it is sending
  found,    \* history: what an event found each destination to be ("listed":
            \* off, but in a list that a round made while it was on)
  taken,    \* history: how often a receiver took a message
  faults, changes  \* how much of the bounds is used

hookVars     == <<hook, choice, before>>
queueVars    == <<row, queued, tests>>
dispatchVars == <<at, accepts, todo, waiting, flight>>
boundVars    == <<faults, changes>>
vars == <<moment, hookVars, queueVars, dispatchVars, found, taken, boundVars>>

Pairs == Destinations \X Events
Items == [pair : Pairs, turn : Nat]

Answers == {"ok", "retry", "final"}

\* A delivery being sent.  "starting" waits for the destination and its
\* secrets, "posting" for the answer, "answered" for recordResult.  The round
\* that began it awaits it until one of its deliveries throws.
Flights == [item : Items, step : {"starting", "posting", "answered"},
            answer : Answers \cup {"none"}, awaited : BOOLEAN]

Rows == [status : {"none", "pending", "sent", "failed"}, attempts : Nat,
         due : BOOLEAN, claim : {"free", "held", "over"}]

NoRow == [status |-> "none", attempts |-> 0, due |-> FALSE, claim |-> "free"]

TypeOK ==
  /\ moment \in [Events -> {"future", "recent", "old"}]
  /\ hook   \in [Destinations -> {"absent", "on", "off", "deleted"}]
  /\ choice \in [Destinations -> SUBSET Events]
  /\ before \in [Destinations -> SUBSET Events]
  /\ row    \in [Pairs -> Rows]
  /\ queued \in [Pairs -> Nat]
  /\ tests  \in [Destinations -> Nat]
  /\ at      \in [Processes -> {"idle", "collect", "enqueue", "deliver"}]
  /\ accepts \in [Processes -> [Destinations -> SUBSET Events]]
  /\ todo    \in [Processes -> SUBSET Pairs]
  /\ waiting \in [Processes -> SUBSET Items]
  /\ flight  \in [Processes -> SUBSET Flights]
  /\ found  \in [Pairs -> {"unseen", "absent", "on", "off", "listed", "deleted"}]
  /\ taken  \in [Pairs -> Nat]
  /\ faults \in 0 .. MaxFaults
  /\ changes \in 0 .. MaxChanges

Init ==
  /\ moment = [e \in Events |-> "future"]
  /\ hook   = [d \in Destinations |-> "absent"]
  /\ choice = [d \in Destinations |-> {}]
  /\ before = [d \in Destinations |-> {}]
  /\ row    = [k \in Pairs |-> NoRow]
  /\ queued = [k \in Pairs |-> 0]
  /\ tests  = [d \in Destinations |-> 0]
  /\ at      = [p \in Processes |-> "idle"]
  /\ accepts = [p \in Processes |-> [d \in Destinations |-> {}]]
  /\ todo    = [p \in Processes |-> {}]
  /\ waiting = [p \in Processes |-> {}]
  /\ flight  = [p \in Processes |-> {}]
  /\ found  = [k \in Pairs |-> "unseen"]
  /\ taken  = [k \in Pairs |-> 0]
  /\ faults = 0
  /\ changes = 0

Fault  == faults < MaxFaults /\ faults' = faults + 1 /\ UNCHANGED changes
Change == changes < MaxChanges /\ changes' = changes + 1 /\ UNCHANGED faults

Exists(d) == hook[d] \in {"on", "off"}
Happened == {e \in Events : moment[e] # "future"}

\* The row a claimed delivery stands for is still there.
IsCurrent(i) == row[i.pair].status # "none" /\ queued[i.pair] = i.turn

\* Process p has claimed i and not let go of it.
Holds(p, i) == i \in waiting[p] \/ \E f \in flight[p] : f.item = i

Smaller(m, n) == IF m < n THEN m ELSE n

-----------------------------------------------------------------------------
\* Destinations.

CreateDestination(d, on, chosen) ==
  /\ hook[d] = "absent"
  /\ hook'   = [hook EXCEPT ![d] = IF on THEN "on" ELSE "off"]
  /\ choice' = [choice EXCEPT ![d] = chosen]
  /\ before' = [before EXCEPT ![d] = Happened]
  /\ UNCHANGED <<moment, queueVars, dispatchVars, found, taken, boundVars>>

\* Mutated form: active_since stays when a destination is turned on.
UpdateKeepingSince(d, on, chosen) ==
  /\ Exists(d) /\ Change
  /\ hook'   = [hook EXCEPT ![d] = IF on THEN "on" ELSE "off"]
  /\ choice' = [choice EXCEPT ![d] = chosen]
  /\ UNCHANGED <<before, moment, queueVars, dispatchVars, found, taken>>

\* The row version makes the read and the conditional UPDATE one step.
\* active_since moves only when a destination that was off is turned on.
UpdateDestination(d, on, chosen) ==
  /\ Exists(d) /\ Change
  /\ hook'   = [hook EXCEPT ![d] = IF on THEN "on" ELSE "off"]
  /\ choice' = [choice EXCEPT ![d] = chosen]
  /\ before' = [before EXCEPT ![d] = IF on /\ hook[d] = "off" THEN Happened ELSE @]
  /\ UNCHANGED <<moment, queueVars, dispatchVars, found, taken>>

\* The deliveries go with the destination (ON DELETE CASCADE).
DeleteDestination(d) ==
  /\ Exists(d)
  /\ hook'   = [hook EXCEPT ![d] = "deleted"]
  /\ row'    = [k \in Pairs |-> IF k[1] = d THEN NoRow ELSE row[k]]
  /\ tests'  = [tests EXCEPT ![d] = 0]
  /\ UNCHANGED <<choice, before, moment, queued, dispatchVars, found, taken, boundVars>>

\* A test post is recorded as a delivery of its own that is over at once.
Test(d) ==
  /\ Exists(d) /\ Change
  /\ tests' = [tests EXCEPT ![d] = @ + 1]
  /\ UNCHANGED <<moment, hookVars, row, queued, dispatchVars, found, taken>>

Settled(k) == row[k].status \in {"sent", "failed"}

\* The rows of d outside the newest Kept ones.  Rows queued in one round have
\* the same created_at, so which are the oldest is left open.
Beyond(d, rows, beyond, beyondTests) ==
  /\ beyond \subseteq rows
  /\ LET all == Cardinality(rows) + tests[d]
     IN Cardinality(beyond) + beyondTests = all - Smaller(Kept, all)

\* Thirty days after its event a settled delivery can go; no round lasts so
\* long that it still means to queue it.
Outdated(d) == {e \in Events : /\ moment[e] = "old" /\ Settled(<<d, e>>)
                               /\ \A p \in Processes : <<d, e>> \notin todo[p]}

\* Settled deliveries go after 30 days (their events are long out of the
\* dispatchers' window) or when they lie beyond the newest Kept.  The two
\* DELETEs of prune treat the destinations alike and apart.
Prune(d) ==
  /\ Exists(d) /\ Change
  /\ \E aged \in SUBSET Outdated(d) :
       LET rows == {<<d, e>> : e \in {x \in Events \ aged : row[<<d, x>>].status # "none"}}
       IN \E beyond \in SUBSET rows, beyondTests \in 0 .. tests[d] :
            /\ Beyond(d, rows, beyond, beyondTests)
            /\ row' = [k \in Pairs |->
                 IF k[1] = d /\ Settled(k) /\ (k[2] \in aged \/ k \in beyond)
                   THEN NoRow ELSE row[k]]
            /\ tests' = [tests EXCEPT ![d] = @ - beyondTests]
  /\ UNCHANGED <<moment, hookVars, queued, dispatchVars, found, taken>>

-----------------------------------------------------------------------------
\* A round of the dispatcher.

\* listDestinations: what each of them wants, judged on what was read here.
Begin(p) ==
  /\ at[p] = "idle"
  /\ at' = [at EXCEPT ![p] =
       IF \E d \in Destinations : hook[d] = "on" THEN "collect" ELSE "enqueue"]
  /\ accepts' = [accepts EXCEPT ![p] = [d \in Destinations |->
       IF hook[d] = "on" THEN choice[d] \ before[d] ELSE {}]]
  /\ UNCHANGED <<moment, hookVars, queueVars, todo, waiting, flight, found, taken, boundVars>>

\* collectEvents, and the events each listed destination wants.
Collect(p) ==
  /\ at[p] = "collect"
  /\ at' = [at EXCEPT ![p] = "enqueue"]
  /\ todo' = [todo EXCEPT ![p] =
       {k \in Pairs : moment[k[2]] = "recent" /\ k[2] \in accepts[p][k[1]]}]
  /\ accepts' = [accepts EXCEPT ![p] = [d \in Destinations |-> {}]]
  /\ UNCHANGED <<moment, hookVars, queueVars, waiting, flight, found, taken, boundVars>>

Queueable(k) == Exists(k[1]) /\ row[k].status = "none"

\* INSERT ... SELECT FROM webhook_destinations ... ON CONFLICT DO NOTHING.
Enqueue(p, k) ==
  /\ at[p] = "enqueue" /\ k \in todo[p]
  /\ todo' = [todo EXCEPT ![p] = @ \ {k}]
  /\ IF Queueable(k)
       THEN /\ row' = [row EXCEPT ![k] = [NoRow EXCEPT !.status = "pending", !.due = TRUE]]
            /\ queued' = [queued EXCEPT ![k] = @ + 1]
       ELSE UNCHANGED <<row, queued>>
  /\ UNCHANGED <<moment, hookVars, tests, at, accepts, waiting, flight, found, taken, boundVars>>

\* Mutated forms: the claim, its end or the status is not looked at.
ClaimableThoughClaimed(k) == row[k].status = "pending" /\ row[k].due /\ hook[k[1]] = "on"
ClaimableIfNeverClaimed(k) ==
  /\ row[k].status = "pending" /\ row[k].due
  /\ row[k].claim = "free"
  /\ hook[k[1]] = "on"
Claimable(k) ==
  /\ row[k].status = "pending" /\ row[k].due
  /\ row[k].claim # "held"
  /\ hook[k[1]] = "on"

\* At most PerTick deliveries.  Oldest first is left open, as are rows that
\* SKIP LOCKED leaves to a claim that is being made.
ClaimDue(p, S) ==
  /\ at[p] = "enqueue" /\ todo[p] = {}
  /\ \A k \in S : Claimable(k)
  /\ Cardinality(S) = Smaller(PerTick, Cardinality({k \in Pairs : Claimable(k)}))
  /\ at' = [at EXCEPT ![p] = "deliver"]
  /\ accepts' = [accepts EXCEPT ![p] = [d \in Destinations |-> {}]]
  /\ waiting' = [waiting EXCEPT ![p] = {[pair |-> k, turn |-> queued[k]] : k \in S}]
  /\ row' = [k \in Pairs |-> IF k \in S THEN [row[k] EXCEPT !.claim = "held"] ELSE row[k]]
  /\ UNCHANGED <<moment, hookVars, queued, tests, todo, flight, found, taken, boundVars>>

Awaited(p) == {f \in flight[p] : f.awaited}

Starting(i) == [item |-> i, step |-> "starting", answer |-> "none", awaited |-> TRUE]

\* Promise.all over the next Parallel deliveries.
StartBatch(p, B) ==
  /\ at[p] = "deliver" /\ Awaited(p) = {}
  /\ B # {} /\ B \subseteq waiting[p]
  /\ Cardinality(B) = Smaller(Parallel, Cardinality(waiting[p]))
  /\ waiting' = [waiting EXCEPT ![p] = @ \ B]
  /\ flight' = [flight EXCEPT ![p] = @ \cup {Starting(i) : i \in B}]
  /\ UNCHANGED <<moment, hookVars, queueVars, at, accepts, todo, found, taken, boundVars>>

EndRound(p) ==
  /\ at[p] = "deliver" /\ Awaited(p) = {} /\ waiting[p] = {}
  /\ at' = [at EXCEPT ![p] = "idle"]
  /\ UNCHANGED <<moment, hookVars, queueVars, accepts, todo, waiting, flight, found, taken, boundVars>>

-----------------------------------------------------------------------------
\* The sending of one delivery (deliver).

\* The row's destination and secrets are read; a deleted one ends the matter.
Fetch(p, f) ==
  /\ f \in flight[p] /\ f.step = "starting"
  /\ flight' = [flight EXCEPT ![p] =
       (@ \ {f}) \cup IF Exists(f.item.pair[1]) THEN {[f EXCEPT !.step = "posting"]} ELSE {}]
  /\ UNCHANGED <<moment, hookVars, queueVars, at, accepts, todo, waiting, found, taken, boundVars>>

\* The read throws, which is recorded like a failed post.
FetchFails(p, f) ==
  /\ f \in flight[p] /\ f.step = "starting" /\ Fault
  /\ flight' = [flight EXCEPT ![p] =
       (@ \ {f}) \cup {[f EXCEPT !.step = "answered", !.answer = "retry"]}]
  /\ UNCHANGED <<moment, hookVars, queueVars, at, accepts, todo, waiting, found, taken>>

Answered(p, f, answer) ==
  /\ f \in flight[p] /\ f.step = "posting"
  /\ flight' = [flight EXCEPT ![p] =
       (@ \ {f}) \cup {[f EXCEPT !.step = "answered", !.answer = answer]}]
  /\ UNCHANGED <<moment, hookVars, queueVars, at, accepts, todo, waiting, found>>

ReceiverTakes(p, f) ==
  /\ Answered(p, f, "ok")
  /\ taken' = [taken EXCEPT ![f.item.pair] = @ + 1]
  /\ UNCHANGED boundVars

\* "retry" is a rate limit, a server error or no answer; "final" any other.
ReceiverRefuses(p, f) ==
  /\ \E answer \in {"retry", "final"} : Answered(p, f, answer)
  /\ UNCHANGED <<taken, boundVars>>

\* The receiver took the message and its answer did not arrive.
AnswerLost(p, f) ==
  /\ Answered(p, f, "retry") /\ Fault
  /\ taken' = [taken EXCEPT ![f.item.pair] = @ + 1]

judge(answer, attempts) ==
  IF answer = "ok" THEN "sent"
  ELSE IF answer = "final" \/ attempts >= MaxAttempts THEN "failed"
  ELSE "pending"

\* recordResult looks up the delivery by its id and asks nothing else of it.
Record(p, f) ==
  /\ f \in flight[p] /\ f.step = "answered"
  /\ flight' = [flight EXCEPT ![p] = @ \ {f}]
  /\ LET k == f.item.pair
         attempts == row[k].attempts + 1
         status == judge(f.answer, attempts)
     IN row' = IF IsCurrent(f.item)
                 THEN [row EXCEPT ![k] = [status |-> status, attempts |-> attempts,
                         due |-> row[k].due /\ status # "pending", claim |-> "free"]]
                 ELSE row
  /\ UNCHANGED <<moment, hookVars, queued, tests, at, accepts, todo, waiting, found, taken, boundVars>>

\* recordResult throws: Promise.all rejects and the round ends, its next
\* batches with it; the other deliveries under way go on unawaited.
RecordFails(p, f) ==
  /\ f \in flight[p] /\ f.step = "answered" /\ Fault
  /\ flight' = [flight EXCEPT ![p] =
       IF f.awaited THEN {[g EXCEPT !.awaited = FALSE] : g \in @ \ {f}} ELSE @ \ {f}]
  /\ IF f.awaited
       THEN /\ at' = [at EXCEPT ![p] = "idle"]
            /\ waiting' = [waiting EXCEPT ![p] = {}]
       ELSE UNCHANGED <<at, waiting>>
  /\ UNCHANGED <<moment, hookVars, queueVars, accepts, todo, found, taken>>

\* A call of the store throws before the claim is made.
TickFails(p) ==
  /\ at[p] \in {"collect", "enqueue"} /\ Fault
  /\ at' = [at EXCEPT ![p] = "idle"]
  /\ accepts' = [accepts EXCEPT ![p] = [d \in Destinations |-> {}]]
  /\ todo' = [todo EXCEPT ![p] = {}]
  /\ UNCHANGED <<moment, hookVars, queueVars, waiting, flight, found, taken>>

\* The process stops and another is started in its place.
Crash(p) ==
  /\ at[p] # "idle" \/ flight[p] # {}
  /\ Fault
  /\ at' = [at EXCEPT ![p] = "idle"]
  /\ accepts' = [accepts EXCEPT ![p] = [d \in Destinations |-> {}]]
  /\ todo' = [todo EXCEPT ![p] = {}]
  /\ waiting' = [waiting EXCEPT ![p] = {}]
  /\ flight' = [flight EXCEPT ![p] = {}]
  /\ UNCHANGED <<moment, hookVars, queueVars, found, taken>>

-----------------------------------------------------------------------------
\* Time passes.

Finds(d, e) ==
  IF hook[d] = "off" /\ \E p \in Processes : e \in accepts[p][d] THEN "listed" ELSE hook[d]

EventHappens(e) ==
  /\ moment[e] = "future"
  /\ moment' = [moment EXCEPT ![e] = "recent"]
  /\ found' = [k \in Pairs |-> IF k[2] = e THEN Finds(k[1], e) ELSE found[k]]
  /\ UNCHANGED <<hookVars, queueVars, dispatchVars, taken, boundVars>>

EventAges(e) ==
  /\ moment[e] = "recent"
  /\ moment' = [moment EXCEPT ![e] = "old"]
  /\ UNCHANGED <<hookVars, queueVars, dispatchVars, found, taken, boundVars>>

ComesDue(k) ==
  /\ row[k].status = "pending" /\ ~row[k].due
  /\ row' = [row EXCEPT ![k].due = TRUE]
  /\ UNCHANGED <<moment, hookVars, queued, tests, dispatchVars, found, taken, boundVars>>

\* Two minutes pass after a claim: longer than a process that lives takes to
\* send it, unless ClaimsMayLapse.
ClaimEnds(k) ==
  /\ row[k].claim = "held"
  /\ \/ ClaimsMayLapse
     \/ \A p \in Processes : ~Holds(p, [pair |-> k, turn |-> queued[k]])
  /\ row' = [row EXCEPT ![k].claim = "over"]
  /\ UNCHANGED <<moment, hookVars, queued, tests, dispatchVars, found, taken, boundVars>>

-----------------------------------------------------------------------------
Claims(p) == \E S \in SUBSET Pairs : ClaimDue(p, S)
Starts(p) == \E B \in SUBSET waiting[p] : StartBatch(p, B)
Queues(p) == \E k \in Pairs : Enqueue(p, k)
Sends(p)  == \E f \in flight[p] : ReceiverTakes(p, f) \/ ReceiverRefuses(p, f)
Fetches(p) == \E f \in flight[p] : Fetch(p, f)
Records(p) == \E f \in flight[p] : Record(p, f)

RoundStep(p) ==
  Begin(p) \/ Collect(p) \/ Queues(p) \/ Claims(p) \/ Starts(p) \/ EndRound(p)

SendStep(p) == Fetches(p) \/ Sends(p) \/ Records(p)

Next ==
  \/ \E d \in Destinations, on \in BOOLEAN, chosen \in Choices :
       CreateDestination(d, on, chosen) \/ UpdateDestination(d, on, chosen)
  \/ \E d \in Destinations : DeleteDestination(d) \/ Test(d) \/ Prune(d)
  \/ \E p \in Processes :
       \/ RoundStep(p) \/ SendStep(p) \/ TickFails(p) \/ Crash(p)
       \/ \E f \in flight[p] : FetchFails(p, f) \/ AnswerLost(p, f) \/ RecordFails(p, f)
  \/ \E e \in Events : EventHappens(e) \/ EventAges(e)
  \/ \E k \in Pairs : ComesDue(k) \/ ClaimEnds(k)

Spec == Init /\ [][Next]_vars

\* The timer begins rounds for ever, their calls return or throw, time passes.
WebhooksFairness ==
  /\ \A p \in Processes : WF_vars(RoundStep(p)) /\ WF_vars(SendStep(p))
  /\ \A k \in Pairs : WF_vars(ComesDue(k)) /\ WF_vars(ClaimEnds(k))

FairSpec == Spec /\ WebhooksFairness

-----------------------------------------------------------------------------
\* "Claiming each so that two Nuvrion processes cannot send the same message":
\* no two sendings of one delivery are under way, in one process or in two.
OneSender ==
  \A p, q \in Processes : \A f \in flight[p], g \in flight[q] :
    f.item = g.item => p = q /\ f = g

\* Each time an event is queued the receiver takes its message once, and once
\* more for each fault (a crash, a lost answer, a result that could not be
\* recorded) at the worst.  How often it is queued is QueuedOnce's matter.
TakenAgainOnlyByFault == \A k \in Pairs : taken[k] <= queued[k] + faults

\* "An event is queued once and never again, even across a restart."  Not so: a
\* settled delivery beyond the newest Kept of its webhook is pruned although its
\* event is still recent, and the next round queues that event anew.
QueuedOnce == \A k \in Pairs : queued[k] <= 1

\* "A webhook only sends what happens after it was added or turned on: adding
\* one does not replay yesterday's alerts, and turning one back on does not send
\* what happened while it was off."  The one way round it: a round listed the
\* webhook while it was on, and queues for it all that happens until it has
\* collected the events, although the webhook has been turned off since.
NothingReplayed == \A k \in Pairs : queued[k] > 0 => found[k] \in {"on", "listed"}

\* A delivery is given up in time: six recorded attempts in all, and another
\* claim only while one is left.
AttemptsWithinLimit ==
  \A k \in Pairs : /\ row[k].attempts <= MaxAttempts
                   /\ row[k].status = "pending" => row[k].attempts < MaxAttempts

\* What was delivered or given up is never made pending or judged anew, however
\* late a result arrives; it can only be pruned or go with its destination.
SettledStaysSettled ==
  [][\A k \in Pairs : Settled(k) => row'[k] \in {row[k], NoRow}]_vars

Wanted(k) ==
  /\ moment[k[2]] = "recent"
  /\ hook[k[1]] = "on"
  /\ k[2] \in choice[k[1]] \ before[k[1]]

\* A webhook that is on is owed an event it wants and has not been queued, and
\* a delivery that is pending.
Owed(k) ==
  \/ Wanted(k) /\ queued[k] = 0
  \/ row[k].status = "pending" /\ hook[k[1]] = "on"

\* What a webhook is owed it gets: the event is queued while it is recent, and
\* the delivery is made, given up or removed; or it stops being owed, because
\* the webhook is turned off, deleted or set to want other events.
OwedIsSettled == \A k \in Pairs : Owed(k) ~> ~Owed(k)
=============================================================================
