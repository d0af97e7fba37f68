--------------------------- MODULE WebhooksProofs ---------------------------
(***************************************************************************)
(* Theorems about Webhooks, for any numbers of destinations, events and    *)
(* processes.  The ones about claims assume that a claim outlives the      *)
(* sending it was made for (ClaimsMayLapse = FALSE).                       *)
(***************************************************************************)
EXTENDS Webhooks, TLAPS

LEMMA PairParts ==
  ASSUME NEW k \in Pairs
  PROVE  k[1] \in Destinations /\ k[2] \in Events
  BY DEF Pairs

LEMMA JudgeRange ==
  ASSUME NEW answer, NEW attempts
  PROVE  judge(answer, attempts) \in {"sent", "failed", "pending"}
  BY DEF judge

LEMMA NoRowType == NoRow \in Rows
  BY DEF NoRow, Rows

\* The records the actions write, from those they read.
LEMMA NewRowType == [NoRow EXCEPT !.status = "pending", !.due = TRUE] \in Rows
  BY DEF NoRow, Rows

LEMMA RowUpdates ==
  ASSUME NEW r \in Rows
  PROVE  /\ [r EXCEPT !.claim = "held"] \in Rows
         /\ [r EXCEPT !.claim = "over"] \in Rows
         /\ [r EXCEPT !.due = TRUE] \in Rows
  BY DEF Rows

LEMMA FlightUpdates ==
  ASSUME NEW f \in Flights
  PROVE  /\ [f EXCEPT !.step = "posting"] \in Flights
         /\ [f EXCEPT !.awaited = FALSE] \in Flights
         /\ \A answer \in Answers : [f EXCEPT !.step = "answered", !.answer = answer] \in Flights
  BY DEF Flights

LEMMA StartingType ==
  ASSUME NEW i \in Items
  PROVE  Starting(i) \in Flights
  BY DEF Starting, Flights

LEMMA MemberTypes ==
  ASSUME TypeOK
  PROVE  /\ \A k \in Pairs : row[k] \in Rows /\ queued[k] \in Nat
         /\ \A p \in Processes : waiting[p] \in SUBSET Items /\ flight[p] \in SUBSET Flights
  BY DEF TypeOK

-----------------------------------------------------------------------------
(* Types, one lemma for each group of actions.                             *)

LEMMA InitType == Init => TypeOK
  BY WebhooksAssumption, NoRowType DEF Init, TypeOK, WebhooksAssumption

LEMMA DestinationType ==
  ASSUME TypeOK, NEW d \in Destinations, NEW on \in BOOLEAN, NEW chosen \in Choices,
         \/ CreateDestination(d, on, chosen) \/ UpdateDestination(d, on, chosen)
  PROVE  TypeOK'
<1>1. chosen \in SUBSET Events /\ Happened \in SUBSET Events
  BY WebhooksAssumption DEF WebhooksAssumption, Happened
<1>2. CASE CreateDestination(d, on, chosen)
  BY <1>1, <1>2 DEF CreateDestination, TypeOK, queueVars, dispatchVars, boundVars
<1>3. CASE UpdateDestination(d, on, chosen)
  <2>1. changes' \in 0 .. MaxChanges /\ faults' = faults
    BY <1>3, WebhooksAssumption DEF UpdateDestination, Change, TypeOK, WebhooksAssumption
  <2> QED
    BY <1>1, <1>3, <2>1 DEF UpdateDestination, TypeOK, queueVars, dispatchVars
<1> QED BY <1>2, <1>3

\* Pruning takes settled rows only.
LEMMA PruneEffect ==
  ASSUME TypeOK, NEW d \in Destinations, Prune(d)
  PROVE  /\ \E gone \in SUBSET Pairs :
              /\ \A k \in gone : Settled(k)
              /\ row' = [k \in Pairs |-> IF k \in gone THEN NoRow ELSE row[k]]
         /\ tests' \in [Destinations -> Nat]
<1>1. PICK aged \in SUBSET Outdated(d) :
        \E beyond \in SUBSET {<<d, e>> : e \in {x \in Events \ aged : row[<<d, x>>].status # "none"}} :
          \E n \in 0 .. tests[d] :
            /\ Beyond(d, {<<d, e>> : e \in {x \in Events \ aged : row[<<d, x>>].status # "none"}}, beyond, n)
            /\ row' = [k \in Pairs |->
                 IF k[1] = d /\ Settled(k) /\ (k[2] \in aged \/ k \in beyond)
                   THEN NoRow ELSE row[k]]
            /\ tests' = [tests EXCEPT ![d] = @ - n]
  BY DEF Prune
<1>2. PICK beyond \in SUBSET {<<d, e>> : e \in {x \in Events \ aged : row[<<d, x>>].status # "none"}} :
        \E n \in 0 .. tests[d] :
          /\ row' = [k \in Pairs |->
               IF k[1] = d /\ Settled(k) /\ (k[2] \in aged \/ k \in beyond)
                 THEN NoRow ELSE row[k]]
          /\ tests' = [tests EXCEPT ![d] = @ - n]
  BY <1>1
<1>3. PICK n \in 0 .. tests[d] : tests' = [tests EXCEPT ![d] = @ - n]
  BY <1>2
<1>4. tests[d] - n \in Nat
  BY <1>3 DEF TypeOK
<1>5. tests' \in [Destinations -> Nat]
  BY <1>3, <1>4 DEF TypeOK
<1> DEFINE gone == {k \in Pairs : k[1] = d /\ Settled(k) /\ (k[2] \in aged \/ k \in beyond)}
<1>6. gone \in SUBSET Pairs /\ \A k \in gone : Settled(k)
  OBVIOUS
<1>7. row' = [k \in Pairs |-> IF k \in gone THEN NoRow ELSE row[k]]
  BY <1>2
<1> QED BY <1>5, <1>6, <1>7

LEMMA HistoryType ==
  ASSUME TypeOK, NEW d \in Destinations, DeleteDestination(d) \/ Test(d) \/ Prune(d)
  PROVE  TypeOK'
<1>1. CASE DeleteDestination(d)
  BY <1>1, NoRowType DEF DeleteDestination, TypeOK, dispatchVars, boundVars
<1>2. CASE Test(d)
  <2>1. changes' \in 0 .. MaxChanges /\ faults' = faults
    BY <1>2, WebhooksAssumption DEF Test, Change, TypeOK, WebhooksAssumption
  <2> QED BY <1>2, <2>1 DEF Test, TypeOK, hookVars, dispatchVars
<1>3. CASE Prune(d)
  <2>1. changes' \in 0 .. MaxChanges /\ faults' = faults
    BY <1>3, WebhooksAssumption DEF Prune, Change, TypeOK, WebhooksAssumption
  <2>2. row' \in [Pairs -> Rows] /\ tests' \in [Destinations -> Nat]
    BY <1>3, PruneEffect, NoRowType DEF TypeOK
  <2> QED BY <1>3, <2>1, <2>2 DEF Prune, TypeOK, hookVars, dispatchVars
<1> QED BY <1>1, <1>2, <1>3

LEMMA RoundType ==
  ASSUME TypeOK, NEW p \in Processes, RoundStep(p)
  PROVE  TypeOK'
<1>1. CASE Begin(p)
  BY <1>1 DEF Begin, TypeOK, hookVars, queueVars, boundVars
<1>2. CASE Collect(p)
  BY <1>2 DEF Collect, TypeOK, hookVars, queueVars, boundVars
<1>3. CASE Queues(p)
  <2>1. PICK k \in Pairs : Enqueue(p, k)
    BY <1>3 DEF Queues
  <2>2. row' \in [Pairs -> Rows]
    <3> DEFINE new == [NoRow EXCEPT !.status = "pending", !.due = TRUE]
    <3>1. row' = row \/ row' = [row EXCEPT ![k] = new]
      BY <2>1 DEF Enqueue
    <3>2. new \in Rows
      BY NewRowType
    <3> HIDE DEF new
    <3> QED BY <3>1, <3>2 DEF TypeOK
  <2>3. queued' \in [Pairs -> Nat]
    <3>1. queued' = queued \/ queued' = [queued EXCEPT ![k] = queued[k] + 1]
      BY <2>1 DEF Enqueue
    <3>2. queued[k] + 1 \in Nat
      BY MemberTypes
    <3> QED BY <3>1, <3>2 DEF TypeOK
  <2> QED BY <2>1, <2>2, <2>3 DEF Enqueue, TypeOK, hookVars, boundVars
<1>4. CASE Claims(p)
  <2>1. PICK S \in SUBSET Pairs : ClaimDue(p, S)
    BY <1>4 DEF Claims
  <2>2. {[pair |-> k, turn |-> queued[k]] : k \in S} \in SUBSET Items
    BY DEF Items, TypeOK
  <2>3. \A k \in Pairs : [row[k] EXCEPT !.claim = "held"] \in Rows
    BY MemberTypes, RowUpdates
  <2> QED BY <2>1, <2>2, <2>3 DEF ClaimDue, TypeOK, hookVars, boundVars
<1>5. CASE Starts(p)
  <2>1. PICK B \in SUBSET waiting[p] : StartBatch(p, B)
    BY <1>5 DEF Starts
  <2>2. {Starting(i) : i \in B} \in SUBSET Flights
    BY MemberTypes, StartingType
  <2> QED BY <2>1, <2>2 DEF StartBatch, TypeOK, hookVars, queueVars, boundVars
<1>6. CASE EndRound(p)
  BY <1>6 DEF EndRound, TypeOK, hookVars, queueVars, boundVars
<1> QED BY <1>1, <1>2, <1>3, <1>4, <1>5, <1>6 DEF RoundStep

LEMMA FaultType ==
  ASSUME TypeOK, Fault
  PROVE  faults' \in 0 .. MaxFaults /\ changes' \in 0 .. MaxChanges
  BY WebhooksAssumption DEF Fault, TypeOK, WebhooksAssumption

LEMMA AnsweredType ==
  ASSUME TypeOK, NEW p \in Processes, NEW f \in flight[p], NEW answer \in Answers,
         Answered(p, f, answer)
  PROVE  /\ flight' \in [Processes -> SUBSET Flights]
         /\ UNCHANGED <<moment, hookVars, queueVars, at, accepts, todo, waiting, found>>
<1>1. [f EXCEPT !.step = "answered", !.answer = answer] \in Flights
  BY MemberTypes, FlightUpdates
<1> QED BY <1>1 DEF Answered, TypeOK

LEMMA SendType ==
  ASSUME TypeOK, NEW p \in Processes, NEW f \in flight[p],
         \/ Fetch(p, f) \/ ReceiverTakes(p, f) \/ ReceiverRefuses(p, f) \/ Record(p, f)
  PROVE  TypeOK'
<1>0. f \in Flights /\ f.item \in Items /\ f.item.pair \in Pairs
  BY DEF TypeOK, Flights, Items
<1>1. CASE Fetch(p, f)
  <2>1. [f EXCEPT !.step = "posting"] \in Flights
    BY <1>0 DEF Flights
  <2> QED BY <1>1, <2>1 DEF Fetch, TypeOK, hookVars, queueVars, boundVars
<1>2. CASE ReceiverTakes(p, f)
  <2>1. Answered(p, f, "ok") /\ taken' \in [Pairs -> Nat] /\ UNCHANGED boundVars
    BY <1>0, <1>2 DEF ReceiverTakes, TypeOK
  <2> QED BY <2>1, AnsweredType DEF TypeOK, Answers, hookVars, queueVars, boundVars
<1>3. CASE ReceiverRefuses(p, f)
  <2>1. PICK answer \in {"retry", "final"} : Answered(p, f, answer)
    BY <1>3 DEF ReceiverRefuses
  <2>2. UNCHANGED <<taken, boundVars>>
    BY <1>3 DEF ReceiverRefuses
  <2> QED BY <2>1, <2>2, AnsweredType DEF TypeOK, Answers, hookVars, queueVars, boundVars
<1>4. CASE Record(p, f)
  <2>1. row' \in [Pairs -> Rows]
    <3> DEFINE k == f.item.pair
               new == [status |-> judge(f.answer, row[k].attempts + 1),
                       attempts |-> row[k].attempts + 1,
                       due |-> row[k].due /\ judge(f.answer, row[k].attempts + 1) # "pending",
                       claim |-> "free"]
    <3>1. row' = IF IsCurrent(f.item) THEN [row EXCEPT ![k] = new] ELSE row
      BY <1>4 DEF Record
    <3>2. judge(f.answer, row[k].attempts + 1) \in {"sent", "failed", "pending"}
      BY JudgeRange
    <3>3. row[k].attempts + 1 \in Nat /\ row[k].due \in BOOLEAN
      BY <1>0 DEF TypeOK, Rows
    <3>4. new \in Rows
      BY <3>2, <3>3 DEF Rows
    <3> HIDE DEF new
    <3> QED BY <1>0, <3>1, <3>4 DEF TypeOK
  <2> QED BY <1>4, <2>1 DEF Record, TypeOK, hookVars, boundVars
<1> QED BY <1>1, <1>2, <1>3, <1>4

LEMMA FaultStepType ==
  ASSUME TypeOK, NEW p \in Processes, NEW f \in flight[p],
         FetchFails(p, f) \/ AnswerLost(p, f) \/ RecordFails(p, f)
  PROVE  TypeOK'
<1>0. f \in Flights /\ f.item \in Items /\ f.item.pair \in Pairs
  BY DEF TypeOK, Flights, Items
<1>1. faults' \in 0 .. MaxFaults /\ changes' \in 0 .. MaxChanges
  BY FaultType DEF FetchFails, AnswerLost, RecordFails
<1>2. CASE FetchFails(p, f)
  <2>1. [f EXCEPT !.step = "answered", !.answer = "retry"] \in Flights
    BY <1>0 DEF Flights, Answers
  <2> QED BY <1>1, <1>2, <2>1 DEF FetchFails, TypeOK, hookVars, queueVars
<1>3. CASE AnswerLost(p, f)
  <2>1. Answered(p, f, "retry") /\ taken' \in [Pairs -> Nat]
    BY <1>0, <1>3 DEF AnswerLost, TypeOK
  <2> QED BY <1>1, <2>1, AnsweredType DEF TypeOK, Answers, hookVars, queueVars
<1>4. CASE RecordFails(p, f)
  <2>1. {[g EXCEPT !.awaited = FALSE] : g \in flight[p] \ {f}} \in SUBSET Flights
    BY MemberTypes, FlightUpdates
  <2>2. flight' \in [Processes -> SUBSET Flights]
    BY <1>4, <2>1 DEF RecordFails, TypeOK
  <2>3. at' \in [Processes -> {"idle", "collect", "enqueue", "deliver"}]
        /\ waiting' \in [Processes -> SUBSET Items]
    BY <1>4 DEF RecordFails, TypeOK
  <2> QED BY <1>1, <1>4, <2>2, <2>3 DEF RecordFails, TypeOK, hookVars, queueVars
<1> QED BY <1>2, <1>3, <1>4

LEMMA StopType ==
  ASSUME TypeOK, NEW p \in Processes, TickFails(p) \/ Crash(p)
  PROVE  TypeOK'
<1>1. faults' \in 0 .. MaxFaults /\ changes' \in 0 .. MaxChanges
  BY FaultType DEF TickFails, Crash
<1>2. CASE TickFails(p)
  BY <1>1, <1>2 DEF TickFails, TypeOK, hookVars, queueVars
<1>3. CASE Crash(p)
  BY <1>1, <1>3 DEF Crash, TypeOK, hookVars, queueVars
<1> QED BY <1>2, <1>3

LEMMA TimeType ==
  ASSUME TypeOK,
         \/ \E e \in Events : EventHappens(e) \/ EventAges(e)
         \/ \E k \in Pairs : ComesDue(k) \/ ClaimEnds(k)
  PROVE  TypeOK'
<1>1. CASE \E e \in Events : EventHappens(e)
  <2>1. PICK e \in Events : EventHappens(e)
    BY <1>1
  <2>2. found' \in [Pairs -> {"unseen", "absent", "on", "off", "listed", "deleted"}]
    BY <2>1, PairParts DEF EventHappens, Finds, TypeOK
  <2> QED BY <2>1, <2>2 DEF EventHappens, TypeOK, hookVars, queueVars, dispatchVars, boundVars
<1>2. CASE \E e \in Events : EventAges(e)
  BY <1>2 DEF EventAges, TypeOK, hookVars, queueVars, dispatchVars, boundVars
<1>3. CASE \E k \in Pairs : ComesDue(k)
  <2>1. PICK k \in Pairs : ComesDue(k)
    BY <1>3
  <2>2. [row[k] EXCEPT !.due = TRUE] \in Rows
    BY MemberTypes, RowUpdates
  <2> QED BY <2>1, <2>2 DEF ComesDue, TypeOK, hookVars, dispatchVars, boundVars
<1>4. CASE \E k \in Pairs : ClaimEnds(k)
  <2>1. PICK k \in Pairs : ClaimEnds(k)
    BY <1>4
  <2>2. [row[k] EXCEPT !.claim = "over"] \in Rows
    BY MemberTypes, RowUpdates
  <2> QED BY <2>1, <2>2 DEF ClaimEnds, TypeOK, hookVars, dispatchVars, boundVars
<1> QED BY <1>1, <1>2, <1>3, <1>4

LEMMA NextType == TypeOK /\ [Next]_vars => TypeOK'
<1> SUFFICES ASSUME TypeOK, [Next]_vars PROVE TypeOK'
  OBVIOUS
<1>1. CASE UNCHANGED vars
  BY <1>1 DEF vars, hookVars, queueVars, dispatchVars, boundVars, TypeOK
<1>2. CASE Next
  BY <1>2, DestinationType, HistoryType, RoundType, SendType, FaultStepType, StopType, TimeType
  DEF Next, SendStep, Fetches, Sends, Records
<1> QED BY <1>1, <1>2

\* The types of the tables and of what the dispatchers hold in memory.
THEOREM WebhooksTypeOK == Spec => []TypeOK
  BY InitType, NextType, PTL DEF Spec

-----------------------------------------------------------------------------
(* Claims.  A delivery a process holds and whose row is still there is     *)
(* pending and claimed, so nobody else can claim it and its result is the  *)
(* first; rows that are gone never come back under the same name.          *)

HeldIsClaimed ==
  \A p \in Processes, i \in Items : Holds(p, i) =>
    /\ i.turn <= queued[i.pair]
    /\ IsCurrent(i) => row[i.pair].status = "pending" /\ row[i.pair].claim = "held"

HeldByOne == \A p, q \in Processes, i \in Items : Holds(p, i) /\ Holds(q, i) => p = q

HeldOnce ==
  \A p \in Processes :
    /\ \A f \in flight[p] : f.item \notin waiting[p]
    /\ \A f, g \in flight[p] : f.item = g.item => f = g

SettledIsFree == \A k \in Pairs : Settled(k) => row[k].claim = "free"

ClaimInv ==
  /\ TypeOK
  /\ HeldIsClaimed
  /\ HeldByOne
  /\ HeldOnce
  /\ SettledIsFree
  /\ AttemptsWithinLimit

LEMMA ClaimInit == Init => ClaimInv
<1> SUFFICES ASSUME Init PROVE ClaimInv
  OBVIOUS
<1>1. TypeOK
  BY InitType
<1>2. \A p \in Processes, i \in Items : ~Holds(p, i)
  BY DEF Init, Holds
<1>3. HeldIsClaimed /\ HeldByOne
  BY <1>2 DEF HeldIsClaimed, HeldByOne
<1>4. HeldOnce
  BY DEF Init, HeldOnce
<1>5. SettledIsFree
  BY DEF Init, SettledIsFree, NoRow
<1>6. AttemptsWithinLimit
  BY WebhooksAssumption DEF Init, AttemptsWithinLimit, NoRow, WebhooksAssumption
<1> QED BY <1>1, <1>3, <1>4, <1>5, <1>6 DEF ClaimInv

\* Steps that leave the queue alone and hold no more than before.
LEMMA MemoryStep ==
  ASSUME ClaimInv, TypeOK', UNCHANGED <<row, queued>>, HeldOnce',
         \A p \in Processes, i \in Items : Holds(p, i)' => Holds(p, i)
  PROVE  ClaimInv'
<1>1. HeldIsClaimed'
  BY DEF ClaimInv, HeldIsClaimed, IsCurrent
<1>2. HeldByOne'
  BY DEF ClaimInv, HeldByOne
<1>3. SettledIsFree' /\ AttemptsWithinLimit'
  BY DEF ClaimInv, SettledIsFree, AttemptsWithinLimit, Settled
<1> QED BY <1>1, <1>2, <1>3 DEF ClaimInv

LEMMA SameMemory ==
  ASSUME UNCHANGED <<waiting, flight>>
  PROVE  /\ \A p \in Processes, i \in Items : Holds(p, i)' <=> Holds(p, i)
         /\ HeldOnce => HeldOnce'
  BY DEF Holds, HeldOnce

\* A sending moves on, or ends, with its delivery.
LEMMA FlightMoves ==
  ASSUME TypeOK, HeldOnce, NEW p \in Processes, NEW f \in flight[p], NEW next,
         next = {} \/ \E g \in Flights : next = {g} /\ g.item = f.item,
         flight' = [flight EXCEPT ![p] = (@ \ {f}) \cup next], UNCHANGED waiting
  PROVE  /\ \A q \in Processes, i \in Items : Holds(q, i)' => Holds(q, i)
         /\ HeldOnce'
<1>1. flight'[p] = (flight[p] \ {f}) \cup next /\ \A q \in Processes \ {p} : flight'[q] = flight[q]
  BY DEF TypeOK
<1>2. \A g \in next : g.item = f.item
  OBVIOUS
<1>3. ASSUME NEW q \in Processes, NEW i \in Items, Holds(q, i)'
      PROVE  Holds(q, i)
  BY <1>1, <1>2, <1>3 DEF Holds
<1>4. ASSUME NEW q \in Processes
      PROVE  /\ \A g \in flight'[q] : g.item \notin waiting'[q]
             /\ \A g, h \in flight'[q] : g.item = h.item => g = h
  BY <1>1, <1>2 DEF HeldOnce
<1>5. HeldOnce'
  BY <1>4 DEF HeldOnce
<1> QED BY <1>3, <1>5

LEMMA DestinationClaims ==
  ASSUME ClaimInv, NEW d \in Destinations, NEW on \in BOOLEAN, NEW chosen \in Choices,
         \/ CreateDestination(d, on, chosen) \/ UpdateDestination(d, on, chosen)
  PROVE  ClaimInv'
<1>1. UNCHANGED <<row, queued, waiting, flight>>
  BY DEF CreateDestination, UpdateDestination, queueVars, dispatchVars
<1>2. TypeOK'
  BY DestinationType DEF ClaimInv
<1> QED BY <1>1, <1>2, SameMemory, MemoryStep DEF ClaimInv

\* Rows taken out, whoever still holds them.
LEMMA RowsGo ==
  ASSUME ClaimInv, TypeOK', NEW gone \in SUBSET Pairs,
         row' = [k \in Pairs |-> IF k \in gone THEN NoRow ELSE row[k]],
         UNCHANGED <<queued, waiting, flight>>
  PROVE  ClaimInv'
<1>1. \A k \in Pairs : row'[k] = NoRow \/ row'[k] = row[k]
  OBVIOUS
<1>2. HeldOnce' /\ HeldByOne'
  BY SameMemory DEF ClaimInv, HeldByOne
<1>3. HeldIsClaimed'
  <2> SUFFICES ASSUME NEW p \in Processes, NEW i \in Items, Holds(p, i)'
               PROVE  /\ i.turn <= queued'[i.pair]
                      /\ IsCurrent(i)' => /\ row'[i.pair].status = "pending"
                                          /\ row'[i.pair].claim = "held"
    BY DEF HeldIsClaimed
  <2>1. Holds(p, i) /\ i.pair \in Pairs
    BY SameMemory DEF Items
  <2>2. IsCurrent(i)' => row'[i.pair] = row[i.pair] /\ IsCurrent(i)
    BY <1>1, <2>1 DEF IsCurrent, NoRow
  <2> QED BY <2>1, <2>2 DEF ClaimInv, HeldIsClaimed
<1>4. SettledIsFree'
  BY <1>1 DEF ClaimInv, SettledIsFree, Settled, NoRow
<1>5. AttemptsWithinLimit'
  BY <1>1, WebhooksAssumption DEF ClaimInv, AttemptsWithinLimit, NoRow, WebhooksAssumption
<1> QED BY <1>2, <1>3, <1>4, <1>5 DEF ClaimInv

LEMMA HistoryClaims ==
  ASSUME ClaimInv, NEW d \in Destinations, DeleteDestination(d) \/ Test(d) \/ Prune(d)
  PROVE  ClaimInv'
<1>0. TypeOK'
  BY HistoryType DEF ClaimInv
<1>1. CASE DeleteDestination(d)
  <2> DEFINE gone == {k \in Pairs : k[1] = d}
  <2>1. row' = [k \in Pairs |-> IF k \in gone THEN NoRow ELSE row[k]]
    BY <1>1 DEF DeleteDestination
  <2>2. UNCHANGED <<queued, waiting, flight>>
    BY <1>1 DEF DeleteDestination, dispatchVars
  <2> HIDE DEF gone
  <2>3. gone \in SUBSET Pairs
    BY DEF gone
  <2> QED BY <1>0, <2>1, <2>2, <2>3, RowsGo
<1>2. CASE Test(d)
  <2>1. UNCHANGED <<row, queued, waiting, flight>>
    BY <1>2 DEF Test, dispatchVars
  <2> QED BY <1>0, <2>1, SameMemory, MemoryStep DEF ClaimInv
<1>3. CASE Prune(d)
  <2>1. PICK gone \in SUBSET Pairs :
          row' = [k \in Pairs |-> IF k \in gone THEN NoRow ELSE row[k]]
    BY <1>3, PruneEffect DEF ClaimInv
  <2>2. UNCHANGED <<queued, waiting, flight>>
    BY <1>3 DEF Prune, dispatchVars
  <2> QED BY <1>0, <2>1, <2>2, RowsGo
<1> QED BY <1>1, <1>2, <1>3

LEMMA EnqueueClaims ==
  ASSUME ClaimInv, TypeOK', NEW p \in Processes, NEW k \in Pairs, Enqueue(p, k)
  PROVE  ClaimInv'
<1> DEFINE new == [NoRow EXCEPT !.status = "pending", !.due = TRUE]
<1>1. UNCHANGED <<waiting, flight>>
  BY DEF Enqueue
<1>2. CASE ~Queueable(k)
  BY <1>1, <1>2, SameMemory, MemoryStep DEF ClaimInv, Enqueue
<1>3. CASE Queueable(k)
  <2>1. row' = [row EXCEPT ![k] = new] /\ queued' = [queued EXCEPT ![k] = queued[k] + 1]
    BY <1>3 DEF Enqueue
  <2>2. new.status = "pending" /\ new.claim = "free" /\ new.attempts = 0
    BY DEF NoRow
  <2>3. queued[k] \in Nat /\ \A j \in Pairs : queued[j] \in Nat
    BY MemberTypes DEF ClaimInv
  <2> HIDE DEF new
  <2>4. row'[k] = new /\ queued'[k] = queued[k] + 1
        /\ \A j \in Pairs \ {k} : row'[j] = row[j] /\ queued'[j] = queued[j]
    BY <2>1 DEF ClaimInv, TypeOK
  <2>5. HeldOnce' /\ HeldByOne'
    BY <1>1, SameMemory DEF ClaimInv, HeldByOne
  <2>6. HeldIsClaimed'
    <3> SUFFICES ASSUME NEW q \in Processes, NEW i \in Items, Holds(q, i)'
                 PROVE  /\ i.turn <= queued'[i.pair]
                        /\ IsCurrent(i)' => /\ row'[i.pair].status = "pending"
                                            /\ row'[i.pair].claim = "held"
      BY DEF HeldIsClaimed
    <3>1. Holds(q, i) /\ i.pair \in Pairs /\ i.turn \in Nat
      BY <1>1, SameMemory DEF Items
    <3>2. i.turn <= queued[i.pair]
          /\ (IsCurrent(i) => row[i.pair].status = "pending" /\ row[i.pair].claim = "held")
      BY <3>1 DEF ClaimInv, HeldIsClaimed
    <3>3. CASE i.pair = k
      <4>1. i.turn <= queued'[i.pair] /\ queued'[i.pair] # i.turn
        BY <2>3, <2>4, <3>1, <3>2, <3>3
      <4> QED BY <4>1 DEF IsCurrent
    <3>4. CASE i.pair # k
      BY <2>4, <3>1, <3>2, <3>4 DEF IsCurrent
    <3> QED BY <3>3, <3>4
  <2>7. SettledIsFree'
    BY <2>2, <2>4 DEF ClaimInv, SettledIsFree, Settled
  <2>8. AttemptsWithinLimit'
    BY <2>2, <2>4, WebhooksAssumption DEF ClaimInv, AttemptsWithinLimit, WebhooksAssumption
  <2> QED BY <2>5, <2>6, <2>7, <2>8 DEF ClaimInv
<1> QED BY <1>2, <1>3

\* What is claimed was held by nobody: it would have been claimed already.
LEMMA ClaimDueClaims ==
  ASSUME ClaimInv, TypeOK', NEW p \in Processes, NEW S \in SUBSET Pairs, ClaimDue(p, S)
  PROVE  ClaimInv'
<1> DEFINE new == {[pair |-> k, turn |-> queued[k]] : k \in S}
<1>1. \A k \in S : row[k].status = "pending" /\ row[k].claim # "held"
  BY DEF ClaimDue, Claimable
<1>2. /\ \A k \in Pairs : row'[k].status = row[k].status /\ row'[k].attempts = row[k].attempts
      /\ \A k \in S : row'[k].claim = "held"
      /\ \A k \in Pairs \ S : row'[k] = row[k]
  <2>1. \A k \in Pairs : row'[k] = IF k \in S THEN [row[k] EXCEPT !.claim = "held"] ELSE row[k]
    BY DEF ClaimDue
  <2>2. \A k \in Pairs : row[k] \in Rows
    BY MemberTypes DEF ClaimInv
  <2>3. \A r \in Rows : LET u == [r EXCEPT !.claim = "held"]
                        IN u.status = r.status /\ u.attempts = r.attempts /\ u.claim = "held"
    BY DEF Rows
  <2> QED BY <2>1, <2>2, <2>3
<1>3. UNCHANGED <<queued, flight>> /\ waiting' = [waiting EXCEPT ![p] = new]
  BY DEF ClaimDue
<1>4. \A k \in Pairs : queued[k] \in Nat
  BY MemberTypes DEF ClaimInv
<1>5. \A i \in new : /\ i.pair \in S /\ i.turn = queued[i.pair] /\ i \in Items
  BY <1>4 DEF Items
<1> HIDE DEF new
<1>6. \A i \in new, q \in Processes : ~Holds(q, i)
  BY <1>1, <1>5 DEF ClaimInv, HeldIsClaimed, IsCurrent
<1>7. waiting'[p] = new /\ \A q \in Processes \ {p} : waiting'[q] = waiting[q]
  BY <1>3 DEF ClaimInv, TypeOK
<1>8. ASSUME NEW q \in Processes, NEW i \in Items, Holds(q, i)'
      PROVE  Holds(q, i) \/ (q = p /\ i \in new)
  BY <1>3, <1>7, <1>8 DEF Holds
<1>9. HeldByOne'
  BY <1>6, <1>8 DEF ClaimInv, HeldByOne
<1>10. HeldOnce'
  <2>1. ASSUME NEW q \in Processes, NEW f \in flight'[q]
        PROVE  f.item \notin waiting'[q]
    <3>1. f \in flight[q] /\ Holds(q, f.item)
      BY <1>3, <2>1 DEF Holds
    <3> QED BY <1>6, <1>7, <3>1 DEF ClaimInv, HeldOnce
  <2> QED BY <1>3, <2>1 DEF ClaimInv, HeldOnce
<1>11. HeldIsClaimed'
  <2> SUFFICES ASSUME NEW q \in Processes, NEW i \in Items, Holds(q, i)'
               PROVE  /\ i.turn <= queued'[i.pair]
                      /\ IsCurrent(i)' => /\ row'[i.pair].status = "pending"
                                          /\ row'[i.pair].claim = "held"
    BY DEF HeldIsClaimed
  <2>0. i.pair \in Pairs /\ i.turn \in Nat
    BY DEF Items
  <2>1. CASE i \in new
    BY <1>1, <1>2, <1>3, <1>4, <1>5, <2>0, <2>1
  <2>2. CASE Holds(q, i)
    <3>1. i.turn <= queued[i.pair]
          /\ (IsCurrent(i) => row[i.pair].status = "pending" /\ row[i.pair].claim = "held")
      BY <2>2 DEF ClaimInv, HeldIsClaimed
    <3> QED BY <1>2, <1>3, <2>0, <3>1 DEF IsCurrent
  <2> QED BY <1>8, <2>1, <2>2
<1>12. SettledIsFree'
  BY <1>1, <1>2 DEF ClaimInv, SettledIsFree, Settled
<1>13. AttemptsWithinLimit'
  BY <1>2 DEF ClaimInv, AttemptsWithinLimit
<1> QED BY <1>9, <1>10, <1>11, <1>12, <1>13 DEF ClaimInv

LEMMA RoundClaims ==
  ASSUME ClaimInv, NEW p \in Processes, RoundStep(p)
  PROVE  ClaimInv'
<1>0. TypeOK'
  BY RoundType DEF ClaimInv
<1>1. CASE Begin(p) \/ Collect(p) \/ EndRound(p)
  <2>1. UNCHANGED <<row, queued, waiting, flight>>
    BY <1>1 DEF Begin, Collect, EndRound, queueVars
  <2> QED BY <1>0, <2>1, SameMemory, MemoryStep DEF ClaimInv
<1>2. CASE Queues(p)
  BY <1>0, <1>2, EnqueueClaims DEF Queues
<1>3. CASE Claims(p)
  BY <1>0, <1>3, ClaimDueClaims DEF Claims
<1>4. CASE Starts(p)
  <2>1. PICK B \in SUBSET waiting[p] : StartBatch(p, B)
    BY <1>4 DEF Starts
  <2> DEFINE new == {Starting(i) : i \in B}
  <2>2. /\ waiting' = [waiting EXCEPT ![p] = @ \ B] /\ flight' = [flight EXCEPT ![p] = @ \cup new]
        /\ UNCHANGED <<row, queued>>
    BY <2>1 DEF StartBatch, queueVars
  <2>3. \A f \in new : f.item \in B /\ f = Starting(f.item)
    BY DEF Starting
  <2> HIDE DEF new
  <2>4. /\ waiting'[p] = waiting[p] \ B /\ flight'[p] = flight[p] \cup new
        /\ \A q \in Processes \ {p} : waiting'[q] = waiting[q] /\ flight'[q] = flight[q]
    BY <2>2 DEF ClaimInv, TypeOK
  <2>5. ASSUME NEW q \in Processes, NEW i \in Items, Holds(q, i)'
        PROVE  Holds(q, i)
    BY <2>3, <2>4, <2>5 DEF Holds
  <2>6. ASSUME NEW q \in Processes
        PROVE  /\ \A f \in flight'[q] : f.item \notin waiting'[q]
               /\ \A f, g \in flight'[q] : f.item = g.item => f = g
    <3>1. CASE q = p
      BY <2>3, <2>4, <3>1 DEF ClaimInv, HeldOnce
    <3>2. CASE q # p
      BY <2>4, <3>2 DEF ClaimInv, HeldOnce
    <3> QED BY <3>1, <3>2
  <2>7. HeldOnce'
    BY <2>6 DEF HeldOnce
  <2> QED BY <1>0, <2>2, <2>5, <2>7, MemoryStep
<1> QED BY <1>1, <1>2, <1>3, <1>4 DEF RoundStep

LEMMA AnsweredMoves ==
  ASSUME TypeOK, HeldOnce, NEW p \in Processes, NEW f \in flight[p], NEW answer \in Answers,
         Answered(p, f, answer)
  PROVE  /\ UNCHANGED <<row, queued>>
         /\ HeldOnce'
         /\ \A q \in Processes, i \in Items : Holds(q, i)' => Holds(q, i)
<1> DEFINE g == [f EXCEPT !.step = "answered", !.answer = answer]
<1>1. g \in Flights /\ g.item = f.item
  <2>1. f \in Flights
    BY MemberTypes
  <2> QED BY <2>1, FlightUpdates DEF Flights
<1>2. flight' = [flight EXCEPT ![p] = (@ \ {f}) \cup {g}] /\ UNCHANGED <<waiting, row, queued>>
  BY DEF Answered, queueVars
<1> HIDE DEF g
<1> QED BY <1>1, <1>2, FlightMoves

\* The first result of a delivery is recorded by the one process that holds it.
LEMMA RecordClaims ==
  ASSUME ClaimInv, TypeOK', NEW p \in Processes, NEW f \in flight[p], Record(p, f)
  PROVE  ClaimInv'
<1> DEFINE k == f.item.pair
           n == row[k].attempts + 1
           new == [status |-> judge(f.answer, n), attempts |-> n,
                   due |-> row[k].due /\ judge(f.answer, n) # "pending", claim |-> "free"]
<1>0. f.item \in Items /\ k \in Pairs /\ row[k] \in Rows
  BY MemberTypes DEF ClaimInv, Flights, Items
<1>1. flight' = [flight EXCEPT ![p] = (@ \ {f}) \cup {}] /\ UNCHANGED <<queued, waiting>>
  BY DEF Record
<1>2. /\ HeldOnce'
      /\ \A q \in Processes, i \in Items : Holds(q, i)' => Holds(q, i)
  BY <1>1, FlightMoves DEF ClaimInv
<1>3. CASE ~IsCurrent(f.item)
  BY <1>1, <1>2, <1>3, MemoryStep DEF Record
<1>4. CASE IsCurrent(f.item)
  <2>1. row' = [row EXCEPT ![k] = new]
    BY <1>4 DEF Record
  <2>2. Holds(p, f.item) /\ row[k].status = "pending" /\ n <= MaxAttempts
    <3>1. Holds(p, f.item)
      BY DEF Holds
    <3>2. row[k].status = "pending"
      BY <1>0, <1>4, <3>1 DEF ClaimInv, HeldIsClaimed
    <3>3. row[k].attempts < MaxAttempts /\ row[k].attempts \in Nat
      BY <1>0, <3>2 DEF ClaimInv, AttemptsWithinLimit, Rows
    <3> QED BY <3>1, <3>2, <3>3, WebhooksAssumption DEF WebhooksAssumption
  <2>3. /\ new.claim = "free" /\ new.attempts = n
        /\ new.status = "pending" => n < MaxAttempts
    <3>1. new.claim = "free" /\ new.attempts = n /\ new.status = judge(f.answer, n)
      OBVIOUS
    <3>2. judge(f.answer, n) = "pending" => n < MaxAttempts
      <4>1. n \in Nat
        BY <1>0 DEF Rows
      <4> HIDE DEF n
      <4> QED BY <4>1, WebhooksAssumption DEF judge, WebhooksAssumption
    <3> QED BY <3>1, <3>2
  <2> HIDE DEF new
  <2>4. row'[k] = new /\ \A j \in Pairs \ {k} : row'[j] = row[j]
    BY <1>0, <2>1 DEF ClaimInv, TypeOK
  <2>5. \A q \in Processes : ~Holds(q, f.item)'
    <3> SUFFICES ASSUME NEW q \in Processes, Holds(q, f.item)' PROVE FALSE
      OBVIOUS
    <3>1. q = p
      BY <1>0, <1>2, <2>2 DEF ClaimInv, HeldByOne
    <3>2. flight'[p] = flight[p] \ {f} /\ waiting'[p] = waiting[p]
      BY <1>1 DEF ClaimInv, TypeOK
    <3> QED BY <3>1, <3>2 DEF Holds, ClaimInv, HeldOnce
  <2>6. HeldByOne'
    BY <1>2 DEF ClaimInv, HeldByOne
  <2>7. HeldIsClaimed'
    <3> SUFFICES ASSUME NEW q \in Processes, NEW i \in Items, Holds(q, i)'
                 PROVE  /\ i.turn <= queued'[i.pair]
                        /\ IsCurrent(i)' => /\ row'[i.pair].status = "pending"
                                            /\ row'[i.pair].claim = "held"
      BY DEF HeldIsClaimed
    <3>1. Holds(q, i) /\ i.pair \in Pairs /\ i # f.item
      BY <1>2, <2>5 DEF Items
    <3>2. i.turn <= queued[i.pair]
          /\ (IsCurrent(i) => row[i.pair].status = "pending" /\ row[i.pair].claim = "held")
      BY <3>1 DEF ClaimInv, HeldIsClaimed
    <3>3. CASE i.pair = k
      \* Another turn of the pair: its row is gone.
      <4>1. i.turn # f.item.turn
        BY <1>0, <3>1, <3>3 DEF Items
      <4>2. queued'[i.pair] = f.item.turn
        BY <1>1, <1>4, <3>3 DEF IsCurrent
      <4> QED BY <1>1, <3>2, <4>1, <4>2 DEF IsCurrent
    <3>4. CASE i.pair # k
      BY <1>1, <2>4, <3>1, <3>2, <3>4 DEF IsCurrent
    <3> QED BY <3>3, <3>4
  <2>8. SettledIsFree'
    BY <2>3, <2>4 DEF ClaimInv, SettledIsFree, Settled
  <2>9. AttemptsWithinLimit'
    <3> HIDE DEF n
    <3> QED BY <2>2, <2>3, <2>4 DEF ClaimInv, AttemptsWithinLimit
  <2> QED BY <1>2, <2>6, <2>7, <2>8, <2>9 DEF ClaimInv
<1> QED BY <1>3, <1>4

LEMMA SendClaims ==
  ASSUME ClaimInv, NEW p \in Processes, NEW f \in flight[p],
         \/ Fetch(p, f) \/ ReceiverTakes(p, f) \/ ReceiverRefuses(p, f) \/ Record(p, f)
  PROVE  ClaimInv'
<1>0. TypeOK'
  BY SendType DEF ClaimInv
<1>1. CASE Fetch(p, f)
  <2> DEFINE g == [f EXCEPT !.step = "posting"]
             next == IF Exists(f.item.pair[1]) THEN {g} ELSE {}
  <2>1. g \in Flights /\ g.item = f.item
    <3>1. f \in Flights
      BY MemberTypes DEF ClaimInv
    <3> QED BY <3>1, FlightUpdates DEF Flights
  <2>2. flight' = [flight EXCEPT ![p] = (@ \ {f}) \cup next] /\ UNCHANGED <<row, queued, waiting>>
    BY <1>1 DEF Fetch, queueVars
  <2> HIDE DEF g
  <2>3. next = {} \/ next = {g}
    OBVIOUS
  <2> HIDE DEF next
  <2> QED BY <1>0, <2>1, <2>2, <2>3, FlightMoves, MemoryStep DEF ClaimInv
<1>2. CASE ReceiverTakes(p, f) \/ ReceiverRefuses(p, f)
  <2>1. PICK answer \in Answers : Answered(p, f, answer)
    BY <1>2 DEF ReceiverTakes, ReceiverRefuses, Answers
  <2> QED BY <1>0, <2>1, AnsweredMoves, MemoryStep DEF ClaimInv
<1>3. CASE Record(p, f)
  BY <1>0, <1>3, RecordClaims
<1> QED BY <1>1, <1>2, <1>3

LEMMA FaultClaims ==
  ASSUME ClaimInv, NEW p \in Processes, NEW f \in flight[p],
         FetchFails(p, f) \/ AnswerLost(p, f) \/ RecordFails(p, f)
  PROVE  ClaimInv'
<1>0. TypeOK'
  BY FaultStepType DEF ClaimInv
<1>1. CASE FetchFails(p, f)
  <2> DEFINE g == [f EXCEPT !.step = "answered", !.answer = "retry"]
  <2>1. g \in Flights /\ g.item = f.item
    <3>1. f \in Flights /\ "retry" \in Answers
      BY MemberTypes DEF ClaimInv, Answers
    <3> QED BY <3>1, FlightUpdates DEF Flights
  <2>2. flight' = [flight EXCEPT ![p] = (@ \ {f}) \cup {g}] /\ UNCHANGED <<row, queued, waiting>>
    BY <1>1 DEF FetchFails, queueVars
  <2> HIDE DEF g
  <2> QED BY <1>0, <2>1, <2>2, FlightMoves, MemoryStep DEF ClaimInv
<1>2. CASE AnswerLost(p, f)
  BY <1>0, <1>2, AnsweredMoves, MemoryStep DEF ClaimInv, AnswerLost, Answers
<1>3. CASE RecordFails(p, f)
  <2> DEFINE others == {[g EXCEPT !.awaited = FALSE] : g \in flight[p] \ {f}}
  <2>1. \A h \in others : \E g \in flight[p] \ {f} : h = [g EXCEPT !.awaited = FALSE] /\ h.item = g.item
    <3>1. \A g \in flight[p] : [g EXCEPT !.awaited = FALSE].item = g.item
      <4>1. \A g \in Flights : [g EXCEPT !.awaited = FALSE].item = g.item
        BY DEF Flights
      <4> QED BY <4>1, MemberTypes DEF ClaimInv
    <3> QED BY <3>1
  <2>2. /\ flight' = [flight EXCEPT ![p] = others] \/ flight' = [flight EXCEPT ![p] = @ \ {f}]
        /\ waiting' = waiting \/ waiting' = [waiting EXCEPT ![p] = {}]
        /\ UNCHANGED <<row, queued>>
    BY <1>3 DEF RecordFails, queueVars
  <2> HIDE DEF others
  <2>3. /\ flight'[p] = others \/ flight'[p] = flight[p] \ {f}
        /\ waiting'[p] \subseteq waiting[p]
        /\ \A q \in Processes \ {p} : flight'[q] = flight[q] /\ waiting'[q] = waiting[q]
    BY <2>2 DEF ClaimInv, TypeOK
  <2>4. ASSUME NEW q \in Processes, NEW i \in Items, Holds(q, i)'
        PROVE  Holds(q, i)
    BY <2>1, <2>3, <2>4 DEF Holds
  <2>5. HeldOnce'
    <3>1. ASSUME NEW q \in Processes
          PROVE  /\ \A g \in flight'[q] : g.item \notin waiting'[q]
                 /\ \A g, h \in flight'[q] : g.item = h.item => g = h
      <4>1. /\ \A g \in others : g.item \notin waiting[p]
            /\ \A g, h \in others : g.item = h.item => g = h
        BY <2>1 DEF ClaimInv, HeldOnce
      <4>2. CASE q = p
        BY <2>3, <4>1, <4>2 DEF ClaimInv, HeldOnce
      <4>3. CASE q # p
        BY <2>3, <4>3 DEF ClaimInv, HeldOnce
      <4> QED BY <4>2, <4>3
    <3> QED BY <3>1 DEF HeldOnce
  <2> QED BY <1>0, <2>2, <2>4, <2>5, MemoryStep
<1> QED BY <1>1, <1>2, <1>3

LEMMA StopClaims ==
  ASSUME ClaimInv, NEW p \in Processes, TickFails(p) \/ Crash(p)
  PROVE  ClaimInv'
<1>0. TypeOK'
  BY StopType DEF ClaimInv
<1>1. CASE TickFails(p)
  <2>1. UNCHANGED <<row, queued, waiting, flight>>
    BY <1>1 DEF TickFails, queueVars
  <2> QED BY <1>0, <2>1, SameMemory, MemoryStep DEF ClaimInv
<1>2. CASE Crash(p)
  <2>1. /\ waiting' = [waiting EXCEPT ![p] = {}] /\ flight' = [flight EXCEPT ![p] = {}]
        /\ UNCHANGED <<row, queued>>
    BY <1>2 DEF Crash, queueVars
  <2>2. /\ waiting'[p] = {} /\ flight'[p] = {}
        /\ \A q \in Processes \ {p} : flight'[q] = flight[q] /\ waiting'[q] = waiting[q]
    BY <2>1 DEF ClaimInv, TypeOK
  <2>3. HeldOnce'
    BY <2>2 DEF ClaimInv, HeldOnce
  <2>4. ASSUME NEW q \in Processes, NEW i \in Items, Holds(q, i)'
        PROVE  Holds(q, i)
    BY <2>2, <2>4 DEF Holds
  <2> QED BY <1>0, <2>1, <2>3, <2>4, MemoryStep
<1> QED BY <1>1, <1>2

LEMMA TimeClaims ==
  ASSUME ~ClaimsMayLapse, ClaimInv,
         \/ \E e \in Events : EventHappens(e) \/ EventAges(e)
         \/ \E k \in Pairs : ComesDue(k) \/ ClaimEnds(k)
  PROVE  ClaimInv'
<1>0. TypeOK'
  BY TimeType DEF ClaimInv
<1>1. CASE \E e \in Events : EventHappens(e) \/ EventAges(e)
  <2>1. UNCHANGED <<row, queued, waiting, flight>>
    BY <1>1 DEF EventHappens, EventAges, queueVars, dispatchVars
  <2> QED BY <1>0, <2>1, SameMemory, MemoryStep DEF ClaimInv
<1>2. ASSUME NEW k \in Pairs, ComesDue(k) \/ ClaimEnds(k)
      PROVE  ClaimInv'
  <2>1. /\ UNCHANGED <<queued, waiting, flight>>
        /\ row[k].status = "pending" \/ row[k].claim = "held"
    BY <1>2 DEF ComesDue, ClaimEnds, dispatchVars
  <2>2. PICK new \in Rows : /\ row' = [row EXCEPT ![k] = new]
                            /\ new.status = row[k].status /\ new.attempts = row[k].attempts
                            /\ \/ new.claim = row[k].claim
                               \/ \A p \in Processes : ~Holds(p, [pair |-> k, turn |-> queued[k]])
    <3>1. row[k] \in Rows
      BY MemberTypes DEF ClaimInv
    <3>2. CASE ComesDue(k)
      <4>1. row' = [row EXCEPT ![k] = [row[k] EXCEPT !.due = TRUE]]
        BY <3>2 DEF ComesDue
      <4>2. [row[k] EXCEPT !.due = TRUE] \in Rows
        BY <3>1, RowUpdates
      <4>3. /\ [row[k] EXCEPT !.due = TRUE].status = row[k].status
            /\ [row[k] EXCEPT !.due = TRUE].attempts = row[k].attempts
            /\ [row[k] EXCEPT !.due = TRUE].claim = row[k].claim
        BY <3>1 DEF Rows
      <4> QED BY <4>1, <4>2, <4>3
    <3>3. CASE ClaimEnds(k)
      <4>1. row' = [row EXCEPT ![k] = [row[k] EXCEPT !.claim = "over"]]
            /\ \A p \in Processes : ~Holds(p, [pair |-> k, turn |-> queued[k]])
        BY <3>3 DEF ClaimEnds
      <4>2. [row[k] EXCEPT !.claim = "over"] \in Rows
        BY <3>1, RowUpdates
      <4>3. /\ [row[k] EXCEPT !.claim = "over"].status = row[k].status
            /\ [row[k] EXCEPT !.claim = "over"].attempts = row[k].attempts
        BY <3>1 DEF Rows
      <4> QED BY <4>1, <4>2, <4>3
    <3> QED BY <1>2, <3>2, <3>3
  <2>3. row'[k] = new /\ \A j \in Pairs \ {k} : row'[j] = row[j]
    BY <2>2 DEF ClaimInv, TypeOK
  <2>4. HeldOnce' /\ HeldByOne'
    BY <2>1, SameMemory DEF ClaimInv, HeldByOne
  <2>5. HeldIsClaimed'
    <3> SUFFICES ASSUME NEW q \in Processes, NEW i \in Items, Holds(q, i)'
                 PROVE  /\ i.turn <= queued'[i.pair]
                        /\ IsCurrent(i)' => /\ row'[i.pair].status = "pending"
                                            /\ row'[i.pair].claim = "held"
      BY DEF HeldIsClaimed
    <3>1. Holds(q, i) /\ i.pair \in Pairs
      BY <2>1, SameMemory DEF Items
    <3>2. i.turn <= queued[i.pair]
          /\ (IsCurrent(i) => row[i.pair].status = "pending" /\ row[i.pair].claim = "held")
      BY <3>1 DEF ClaimInv, HeldIsClaimed
    <3>3. CASE i.pair = k /\ IsCurrent(i)
      <4>1. i = [pair |-> k, turn |-> queued[k]]
        BY <3>3 DEF IsCurrent, Items
      <4> QED BY <2>1, <2>2, <2>3, <3>1, <3>2, <3>3, <4>1 DEF IsCurrent
    <3>4. CASE i.pair = k /\ ~IsCurrent(i)
      BY <2>1, <2>2, <2>3, <3>2, <3>4 DEF IsCurrent
    <3>5. CASE i.pair # k
      BY <2>1, <2>3, <3>1, <3>2, <3>5 DEF IsCurrent
    <3> QED BY <3>3, <3>4, <3>5
  <2>6. SettledIsFree'
    <3>1. ~Settled(k)
      BY <2>1 DEF ClaimInv, SettledIsFree, Settled
    <3> QED BY <2>2, <2>3, <3>1 DEF ClaimInv, SettledIsFree, Settled
  <2>7. AttemptsWithinLimit'
    BY <2>2, <2>3 DEF ClaimInv, AttemptsWithinLimit
  <2> QED BY <1>0, <2>4, <2>5, <2>6, <2>7 DEF ClaimInv
<1> QED BY <1>1, <1>2

LEMMA ClaimNext == ~ClaimsMayLapse /\ ClaimInv /\ [Next]_vars => ClaimInv'
<1> SUFFICES ASSUME ~ClaimsMayLapse, ClaimInv, [Next]_vars PROVE ClaimInv'
  OBVIOUS
<1>1. CASE UNCHANGED vars
  <2>1. UNCHANGED <<row, queued, waiting, flight>> /\ TypeOK'
    BY <1>1, NextType DEF vars, queueVars, dispatchVars, ClaimInv
  <2> QED BY <2>1, SameMemory, MemoryStep DEF ClaimInv
<1>2. CASE Next
  BY <1>2, DestinationClaims, HistoryClaims, RoundClaims, SendClaims, FaultClaims, StopClaims, TimeClaims
  DEF Next, SendStep, Fetches, Sends, Records
<1> QED BY <1>1, <1>2

THEOREM WebhooksClaims == ~ClaimsMayLapse => (Spec => []ClaimInv)
<1> SUFFICES ASSUME ~ClaimsMayLapse PROVE Spec => []ClaimInv
  OBVIOUS
<1>1. ClaimInv /\ [Next]_vars => ClaimInv'
  BY ClaimNext
<1> QED BY ClaimInit, <1>1, PTL DEF Spec

\* Two processes never send the same delivery at once: "claiming each so that
\* two Nuvrion processes cannot send the same message".
THEOREM WebhooksOneSender == ~ClaimsMayLapse => (Spec => []OneSender)
<1> SUFFICES ASSUME ~ClaimsMayLapse PROVE Spec => []OneSender
  OBVIOUS
<1>1. ClaimInv => OneSender
  <2> SUFFICES ASSUME ClaimInv, NEW p \in Processes, NEW q \in Processes,
                      NEW f \in flight[p], NEW g \in flight[q], f.item = g.item
               PROVE  p = q /\ f = g
    BY DEF OneSender
  <2>1. f.item \in Items
    BY MemberTypes DEF ClaimInv, Flights
  <2>2. p = q
    BY <2>1 DEF Holds, ClaimInv, HeldByOne
  <2> QED BY <2>2 DEF ClaimInv, HeldOnce
<1> QED BY <1>1, WebhooksClaims, PTL

\* A delivery is given up after its last attempt and not claimed again.
THEOREM WebhooksAttempts == ~ClaimsMayLapse => (Spec => []AttemptsWithinLimit)
<1> SUFFICES ASSUME ~ClaimsMayLapse PROVE Spec => []AttemptsWithinLimit
  OBVIOUS
<1>1. ClaimInv => AttemptsWithinLimit
  BY DEF ClaimInv
<1> QED BY <1>1, WebhooksClaims, PTL

-----------------------------------------------------------------------------
(* What is settled stays so: a result is recorded for a pending row only.  *)

SettledKept == \A k \in Pairs : Settled(k) => row'[k] \in {row[k], NoRow}

LEMMA SettledNext == ClaimInv /\ [Next]_vars => SettledKept
<1> SUFFICES ASSUME ClaimInv, [Next]_vars PROVE SettledKept
  OBVIOUS
<1>1. CASE UNCHANGED row
  BY <1>1 DEF SettledKept
<1>2. ASSUME NEW d \in Destinations, DeleteDestination(d) \/ Prune(d)
      PROVE  SettledKept
  <2>1. CASE DeleteDestination(d)
    BY <2>1 DEF DeleteDestination, SettledKept
  <2>2. CASE Prune(d)
    BY <2>2, PruneEffect DEF ClaimInv, SettledKept
  <2> QED BY <1>2, <2>1, <2>2
<1>3. ASSUME NEW k \in Pairs, NEW new, row' = [row EXCEPT ![k] = new], ~Settled(k)
      PROVE  SettledKept
  BY <1>3 DEF ClaimInv, TypeOK, SettledKept
<1>4. ASSUME NEW p \in Processes, NEW k \in Pairs, Enqueue(p, k)
      PROVE  SettledKept
  <2>1. CASE Queueable(k)
    <3>1. row' = [row EXCEPT ![k] = [NoRow EXCEPT !.status = "pending", !.due = TRUE]]
      BY <1>4, <2>1 DEF Enqueue
    <3>2. ~Settled(k)
      BY <2>1 DEF Queueable, Settled
    <3> QED BY <1>3, <3>1, <3>2
  <2>2. CASE ~Queueable(k)
    BY <1>1, <1>4, <2>2 DEF Enqueue
  <2> QED BY <2>1, <2>2
<1>5. ASSUME NEW p \in Processes, NEW S \in SUBSET Pairs, ClaimDue(p, S)
      PROVE  SettledKept
  <2>1. \A k \in S : ~Settled(k)
    BY <1>5 DEF ClaimDue, Claimable, Settled
  <2>2. \A k \in Pairs \ S : row'[k] = row[k]
    BY <1>5 DEF ClaimDue
  <2> QED BY <2>1, <2>2 DEF SettledKept
<1>6. ASSUME NEW p \in Processes, NEW f \in flight[p], Record(p, f)
      PROVE  SettledKept
  <2>1. f.item \in Items /\ f.item.pair \in Pairs /\ Holds(p, f.item)
    BY MemberTypes DEF ClaimInv, Flights, Items, Holds
  <2>2. CASE IsCurrent(f.item)
    <3>1. ~Settled(f.item.pair)
      BY <2>1, <2>2 DEF ClaimInv, HeldIsClaimed, Settled
    <3>2. \E new : row' = [row EXCEPT ![f.item.pair] = new]
      BY <1>6, <2>2 DEF Record
    <3> QED BY <1>3, <2>1, <3>1, <3>2
  <2>3. CASE ~IsCurrent(f.item)
    BY <1>1, <1>6, <2>3 DEF Record
  <2> QED BY <2>2, <2>3
<1>7. ASSUME NEW k \in Pairs, ComesDue(k) \/ ClaimEnds(k)
      PROVE  SettledKept
  <2>1. ~Settled(k)
    BY <1>7 DEF ComesDue, ClaimEnds, ClaimInv, SettledIsFree, Settled
  <2>2. \E new : row' = [row EXCEPT ![k] = new]
    BY <1>7 DEF ComesDue, ClaimEnds
  <2> QED BY <1>3, <2>1, <2>2
<1>8. CASE UNCHANGED vars
  BY <1>1, <1>8 DEF vars, queueVars
<1>9. CASE Next
  <2>1. ASSUME NEW d \in Destinations, NEW on \in BOOLEAN, NEW chosen \in Choices,
               CreateDestination(d, on, chosen) \/ UpdateDestination(d, on, chosen)
        PROVE  SettledKept
    BY <1>1, <2>1 DEF CreateDestination, UpdateDestination, queueVars
  <2>2. ASSUME NEW d \in Destinations, Test(d) PROVE SettledKept
    BY <1>1, <2>2 DEF Test
  <2>3. ASSUME NEW p \in Processes, RoundStep(p) PROVE SettledKept
    <3>1. CASE Begin(p) \/ Collect(p) \/ Starts(p) \/ EndRound(p)
      BY <1>1, <3>1 DEF Begin, Collect, Starts, StartBatch, EndRound, queueVars
    <3> QED BY <1>4, <1>5, <2>3, <3>1 DEF RoundStep, Queues, Claims
  <2>4. ASSUME NEW p \in Processes, SendStep(p) PROVE SettledKept
    <3>1. CASE Fetches(p) \/ Sends(p)
      BY <1>1, <3>1 DEF Fetches, Sends, Fetch, ReceiverTakes, ReceiverRefuses, Answered, queueVars
    <3> QED BY <1>6, <2>4, <3>1 DEF SendStep, Records
  <2>5. ASSUME NEW p \in Processes,
               \/ TickFails(p) \/ Crash(p)
               \/ \E f \in flight[p] : FetchFails(p, f) \/ AnswerLost(p, f) \/ RecordFails(p, f)
        PROVE  SettledKept
    BY <1>1, <2>5 DEF TickFails, Crash, FetchFails, AnswerLost, Answered, RecordFails, queueVars
  <2>6. ASSUME NEW e \in Events, EventHappens(e) \/ EventAges(e) PROVE SettledKept
    BY <1>1, <2>6 DEF EventHappens, EventAges, queueVars
  <2> QED BY <1>2, <1>7, <1>9, <2>1, <2>2, <2>3, <2>4, <2>5, <2>6 DEF Next
<1> QED BY <1>8, <1>9

\* A late or repeated result never reopens a delivery that was sent or given up.
THEOREM WebhooksSettledStaysSettled == ~ClaimsMayLapse => (Spec => SettledStaysSettled)
<1> SUFFICES ASSUME ~ClaimsMayLapse PROVE Spec => SettledStaysSettled
  OBVIOUS
<1>1. ClaimInv /\ [Next]_vars => [SettledKept]_vars
  BY SettledNext
<1>2. [][SettledKept]_vars => SettledStaysSettled
  BY DEF SettledStaysSettled, SettledKept
<1> QED BY <1>1, <1>2, WebhooksClaims, PTL DEF Spec

-----------------------------------------------------------------------------
(* Nothing is replayed.  An event older than its destination lies before   *)
(* the active_since of whatever copy of the destination a round works on.  *)

FoundWhenItHappened ==
  \A k \in Pairs :
    /\ found[k] = "unseen" <=> moment[k[2]] = "future"
    /\ found[k] = "absent" => hook[k[1]] = "absent" \/ k[2] \in before[k[1]]
    /\ found[k] = "off" => hook[k[1]] # "on" \/ k[2] \in before[k[1]]
    /\ found[k] = "deleted" => hook[k[1]] = "deleted"

ListedWasThere ==
  \A p \in Processes, k \in Pairs :
    /\ k[2] \in accepts[p][k[1]] => hook[k[1]] # "absent" /\ found[k] \notin {"absent", "off"}
    /\ k \in todo[p] => found[k] \notin {"unseen", "absent", "off"}

ReplayInv == TypeOK /\ FoundWhenItHappened /\ ListedWasThere /\ NothingReplayed

LEMMA ReplayInit == Init => ReplayInv
<1> SUFFICES ASSUME Init PROVE ReplayInv
  OBVIOUS
<1>1. TypeOK
  BY InitType
<1>2. \A k \in Pairs : found[k] = "unseen" /\ moment[k[2]] = "future" /\ queued[k] = 0
  BY PairParts DEF Init
<1>3. \A p \in Processes, k \in Pairs : accepts[p][k[1]] = {} /\ todo[p] = {}
  BY PairParts DEF Init
<1> QED BY <1>1, <1>2, <1>3 DEF ReplayInv, FoundWhenItHappened, ListedWasThere, NothingReplayed

\* Steps that touch neither the destinations nor the queue nor the lists.
LEMMA ReplaySame ==
  ASSUME ReplayInv, TypeOK', UNCHANGED <<hook, before, found, queued>>,
         \A e \in Events : moment'[e] = "future" <=> moment[e] = "future",
         \A p \in Processes, d \in Destinations : accepts'[p][d] \in {accepts[p][d], {}},
         \A p \in Processes : todo'[p] \subseteq todo[p]
  PROVE  ReplayInv'
<1>1. FoundWhenItHappened'
  BY PairParts DEF ReplayInv, FoundWhenItHappened
<1>2. ListedWasThere'
  BY PairParts DEF ReplayInv, ListedWasThere
<1> QED BY <1>1, <1>2 DEF ReplayInv, NothingReplayed

LEMMA ReplayNext == ReplayInv /\ [Next]_vars => ReplayInv'
<1> SUFFICES ASSUME ReplayInv, [Next]_vars PROVE ReplayInv'
  OBVIOUS
<1>0. TypeOK /\ TypeOK'
  BY NextType DEF ReplayInv
<1>1. CASE UNCHANGED <<moment, hook, before, found, queued, accepts, todo>>
  BY <1>0, <1>1, ReplaySame
<1>2. ASSUME NEW d \in Destinations, NEW on \in BOOLEAN, NEW chosen \in Choices,
             CreateDestination(d, on, chosen)
      PROVE  ReplayInv'
  <2>1. /\ hook[d] = "absent" /\ hook'[d] \in {"on", "off"} /\ before'[d] = Happened
        /\ \A c \in Destinations \ {d} : hook'[c] = hook[c] /\ before'[c] = before[c]
        /\ UNCHANGED <<moment, found, queued, accepts, todo>>
    BY <1>0, <1>2 DEF CreateDestination, TypeOK, queueVars, dispatchVars
  <2>2. \A k \in Pairs : found[k] \in {"absent", "off"} => k[2] \in Happened
    BY PairParts DEF ReplayInv, FoundWhenItHappened, Happened
  <2>3. FoundWhenItHappened'
    BY <2>1, <2>2, PairParts DEF ReplayInv, FoundWhenItHappened
  <2>4. ListedWasThere'
    BY <2>1, PairParts DEF ReplayInv, ListedWasThere
  <2> QED BY <1>0, <2>1, <2>3, <2>4 DEF ReplayInv, NothingReplayed
<1>3. ASSUME NEW d \in Destinations, NEW on \in BOOLEAN, NEW chosen \in Choices,
             UpdateDestination(d, on, chosen)
      PROVE  ReplayInv'
  <2>1. /\ hook[d] \in {"on", "off"} /\ hook'[d] \in {"on", "off"}
        /\ \/ before'[d] = Happened
           \/ before'[d] = before[d] /\ (hook'[d] = "on" => hook[d] = "on")
        /\ \A c \in Destinations \ {d} : hook'[c] = hook[c] /\ before'[c] = before[c]
        /\ UNCHANGED <<moment, found, queued, accepts, todo>>
    BY <1>0, <1>3 DEF UpdateDestination, Exists, TypeOK, queueVars, dispatchVars
  <2>2. \A k \in Pairs : found[k] \in {"absent", "off"} => k[2] \in Happened
    BY PairParts DEF ReplayInv, FoundWhenItHappened, Happened
  <2>3. FoundWhenItHappened'
    BY <2>1, <2>2, PairParts DEF ReplayInv, FoundWhenItHappened
  <2>4. ListedWasThere'
    BY <2>1, PairParts DEF ReplayInv, ListedWasThere
  <2> QED BY <1>0, <2>1, <2>3, <2>4 DEF ReplayInv, NothingReplayed
<1>4. ASSUME NEW d \in Destinations, DeleteDestination(d)
      PROVE  ReplayInv'
  <2>1. /\ hook[d] \in {"on", "off"} /\ hook'[d] = "deleted"
        /\ \A c \in Destinations \ {d} : hook'[c] = hook[c]
        /\ UNCHANGED <<moment, before, found, queued, accepts, todo>>
    BY <1>0, <1>4 DEF DeleteDestination, Exists, TypeOK, dispatchVars
  <2>2. FoundWhenItHappened'
    BY <2>1, PairParts DEF ReplayInv, FoundWhenItHappened
  <2>3. ListedWasThere'
    BY <2>1, PairParts DEF ReplayInv, ListedWasThere
  <2> QED BY <1>0, <2>1, <2>2, <2>3 DEF ReplayInv, NothingReplayed
<1>5. ASSUME NEW p \in Processes, Begin(p)
      PROVE  ReplayInv'
  <2>1. /\ \A d \in Destinations : accepts'[p][d] = IF hook[d] = "on" THEN choice[d] \ before[d] ELSE {}
        /\ \A q \in Processes \ {p} : accepts'[q] = accepts[q]
        /\ UNCHANGED <<moment, hook, before, found, queued, todo>>
    BY <1>0, <1>5 DEF Begin, TypeOK, hookVars, queueVars
  <2>2. ASSUME NEW k \in Pairs, k[2] \in accepts'[p][k[1]]
        PROVE  hook[k[1]] # "absent" /\ found[k] \notin {"absent", "off"}
    <3>1. hook[k[1]] = "on" /\ k[2] \notin before[k[1]]
      BY <2>1, <2>2, PairParts
    <3> QED BY <3>1 DEF ReplayInv, FoundWhenItHappened
  <2>3. ListedWasThere'
    BY <2>1, <2>2 DEF ReplayInv, ListedWasThere
  <2> QED BY <1>0, <2>1, <2>3 DEF ReplayInv, FoundWhenItHappened, NothingReplayed
<1>6. ASSUME NEW p \in Processes, Collect(p)
      PROVE  ReplayInv'
  <2>1. /\ todo'[p] = {k \in Pairs : moment[k[2]] = "recent" /\ k[2] \in accepts[p][k[1]]}
        /\ \A q \in Processes \ {p} : todo'[q] = todo[q]
        /\ \A q \in Processes, d \in Destinations : accepts'[q][d] \in {accepts[q][d], {}}
        /\ UNCHANGED <<moment, hook, before, found, queued>>
    BY <1>0, <1>6 DEF Collect, TypeOK, hookVars, queueVars
  <2>2. \A k \in todo'[p] : k \in Pairs /\ found[k] \notin {"unseen", "absent", "off"}
    BY <2>1 DEF ReplayInv, FoundWhenItHappened, ListedWasThere
  <2>3. ListedWasThere'
    BY <2>1, <2>2, PairParts DEF ReplayInv, ListedWasThere
  <2> QED BY <1>0, <2>1, <2>3 DEF ReplayInv, FoundWhenItHappened, NothingReplayed
<1>7. ASSUME NEW p \in Processes, NEW k \in Pairs, Enqueue(p, k)
      PROVE  ReplayInv'
  <2>1. /\ k \in todo[p] /\ \A q \in Processes : todo'[q] \subseteq todo[q]
        /\ UNCHANGED <<moment, hook, before, found, accepts>>
        /\ \A j \in Pairs \ {k} : queued'[j] = queued[j]
        /\ queued'[k] = queued[k] \/ Exists(k[1])
    BY <1>0, <1>7 DEF Enqueue, Queueable, TypeOK, hookVars
  <2>2. Exists(k[1]) => found[k] \in {"on", "listed"}
    BY <1>0, <2>1 DEF ReplayInv, FoundWhenItHappened, ListedWasThere, Exists, TypeOK
  <2>3. NothingReplayed'
    BY <2>1, <2>2 DEF ReplayInv, NothingReplayed
  <2>4. ListedWasThere'
    BY <2>1 DEF ReplayInv, ListedWasThere
  <2> QED BY <1>0, <2>1, <2>3, <2>4 DEF ReplayInv, FoundWhenItHappened
<1>8. ASSUME NEW p \in Processes, NEW S, ClaimDue(p, S)
      PROVE  ReplayInv'
  <2>1. /\ \A q \in Processes, d \in Destinations : accepts'[q][d] \in {accepts[q][d], {}}
        /\ UNCHANGED <<moment, hook, before, found, queued, todo>>
    BY <1>0, <1>8 DEF ClaimDue, TypeOK, hookVars
  <2> QED BY <1>0, <2>1, ReplaySame
<1>9. ASSUME NEW p \in Processes, TickFails(p) \/ Crash(p)
      PROVE  ReplayInv'
  <2>1. /\ \A q \in Processes, d \in Destinations : accepts'[q][d] \in {accepts[q][d], {}}
        /\ \A q \in Processes : todo'[q] \subseteq todo[q]
        /\ UNCHANGED <<moment, hook, before, found, queued>>
    <3>1. /\ accepts' = [accepts EXCEPT ![p] = [d \in Destinations |-> {}]]
          /\ todo' = [todo EXCEPT ![p] = {}]
          /\ UNCHANGED <<moment, hook, before, found, queued>>
      BY <1>9 DEF TickFails, Crash, hookVars, queueVars
    <3>2. accepts \in [Processes -> [Destinations -> SUBSET Events]]
          /\ todo \in [Processes -> SUBSET Pairs]
      BY <1>0 DEF TypeOK
    <3> QED BY <3>1, <3>2
  <2> QED BY <1>0, <2>1, ReplaySame
<1>10. ASSUME NEW e \in Events, EventHappens(e)
       PROVE  ReplayInv'
  <2>1. /\ moment[e] = "future" /\ moment'[e] = "recent"
        /\ \A x \in Events \ {e} : moment'[x] = moment[x]
        /\ \A k \in Pairs : found'[k] = IF k[2] = e THEN Finds(k[1], e) ELSE found[k]
        /\ UNCHANGED <<hook, before, queued, accepts, todo>>
    BY <1>0, <1>10 DEF EventHappens, TypeOK, hookVars, queueVars, dispatchVars
  <2>2. \A k \in Pairs : k[2] = e => found[k] = "unseen" /\ queued[k] = 0 /\ \A p \in Processes : k \notin todo[p]
    <3>1. \A k \in Pairs : k[2] = e => found[k] = "unseen"
      BY <2>1 DEF ReplayInv, FoundWhenItHappened
    <3>2. \A k \in Pairs : queued[k] \in Nat
      BY <1>0, MemberTypes
    <3> QED BY <3>1, <3>2 DEF ReplayInv, ListedWasThere, NothingReplayed
  <2>3. \A d \in Destinations :
          /\ hook[d] \in {"absent", "on", "off", "deleted"}
          /\ Finds(d, e) \in {hook[d], "listed"}
          /\ Finds(d, e) = "listed" => hook[d] = "off"
          /\ Finds(d, e) = "off" => \A p \in Processes : e \notin accepts[p][d]
    BY <1>0 DEF TypeOK, Finds
  <2>4. FoundWhenItHappened'
    BY <2>1, <2>3, PairParts DEF ReplayInv, FoundWhenItHappened
  <2>5. ListedWasThere'
    BY <2>1, <2>2, <2>3, PairParts DEF ReplayInv, ListedWasThere
  <2>6. NothingReplayed'
    BY <2>1, <2>2 DEF ReplayInv, NothingReplayed
  <2> QED BY <1>0, <2>4, <2>5, <2>6 DEF ReplayInv
<1>11. ASSUME NEW e \in Events, EventAges(e)
       PROVE  ReplayInv'
  <2>1. /\ \A x \in Events : moment'[x] = "future" <=> moment[x] = "future"
        /\ UNCHANGED <<hook, before, found, queued, accepts, todo>>
    BY <1>0, <1>11 DEF EventAges, TypeOK, hookVars, queueVars, dispatchVars
  <2> QED BY <1>0, <2>1, ReplaySame
<1>12. CASE UNCHANGED vars
  BY <1>1, <1>12 DEF vars, hookVars, queueVars, dispatchVars
<1>13. CASE Next
  <2>1. ASSUME NEW d \in Destinations, Test(d) \/ Prune(d) PROVE ReplayInv'
    BY <1>1, <2>1 DEF Test, Prune, hookVars, dispatchVars
  <2>2. ASSUME NEW p \in Processes, RoundStep(p) PROVE ReplayInv'
    <3>1. CASE Starts(p) \/ EndRound(p)
      BY <1>1, <3>1 DEF Starts, StartBatch, EndRound, hookVars, queueVars
    <3> QED BY <1>5, <1>6, <1>7, <1>8, <2>2, <3>1 DEF RoundStep, Queues, Claims
  <2>3. ASSUME NEW p \in Processes, NEW f \in flight[p],
               \/ Fetch(p, f) \/ ReceiverTakes(p, f) \/ ReceiverRefuses(p, f) \/ Record(p, f)
               \/ FetchFails(p, f) \/ AnswerLost(p, f) \/ RecordFails(p, f)
        PROVE  ReplayInv'
    BY <1>1, <2>3 DEF Fetch, ReceiverTakes, ReceiverRefuses, Answered, Record, FetchFails,
                      AnswerLost, RecordFails, hookVars, queueVars
  <2>4. ASSUME NEW k \in Pairs, ComesDue(k) \/ ClaimEnds(k) PROVE ReplayInv'
    BY <1>1, <2>4 DEF ComesDue, ClaimEnds, hookVars, dispatchVars
  <2> QED BY <1>2, <1>3, <1>4, <1>9, <1>10, <1>11, <1>13, <2>1, <2>2, <2>3, <2>4
          DEF Next, SendStep, Fetches, Sends, Records
<1> QED BY <1>12, <1>13

\* A webhook is queued nothing that happened before it was added, while it was
\* off (unless a round had it listed as on) or after it was deleted, whatever
\* the rounds, crashes and lapsed claims in between.
THEOREM WebhooksNothingReplayed == Spec => []NothingReplayed
<1>1. ReplayInv => NothingReplayed
  BY DEF ReplayInv
<1> QED BY <1>1, ReplayInit, ReplayNext, PTL DEF Spec

-----------------------------------------------------------------------------
(* Taken again only by a fault.  Who holds a delivery holds the last one   *)
(* queued for its pair, and its row is there or went with its destination. *)
(* What a receiver may yet take without a fault is a message being posted, *)
(* or that of a pending row which no answer on its way says is delivered:  *)
(* as long as there is one, one taking is left to the pair.                *)

HolderStands ==
  \A p \in Processes, i \in Items : Holds(p, i) =>
    /\ i.turn = queued[i.pair]
    /\ row[i.pair].status # "none" \/ hook[i.pair[1]] = "deleted"

Posted(k) == \E p \in Processes : \E f \in flight[p] : f.item.pair = k /\ f.step = "posting"

Told(k) == \E p \in Processes : \E f \in flight[p] :
             f.item.pair = k /\ f.step = "answered" /\ f.answer = "ok"

MayTake(k) == Posted(k) \/ (row[k].status = "pending" /\ ~Told(k))

OneIsLeft ==
  \A k \in Pairs : /\ taken[k] <= queued[k] + faults
                   /\ MayTake(k) => taken[k] < queued[k] + faults

TakenInv == ClaimInv /\ HolderStands /\ OneIsLeft

LEMMA CountTypes ==
  ASSUME TypeOK
  PROVE  /\ faults \in Nat /\ \A k \in Pairs : queued[k] \in Nat /\ taken[k] \in Nat
  BY WebhooksAssumption DEF TypeOK, WebhooksAssumption

LEMMA TakenInit == Init => TakenInv
<1> SUFFICES ASSUME Init PROVE TakenInv
  OBVIOUS
<1>1. HolderStands
  BY DEF Init, HolderStands, Holds
<1>2. OneIsLeft
  BY DEF Init, OneIsLeft, MayTake, Posted, NoRow
<1> QED BY <1>1, <1>2, ClaimInit DEF TakenInv

\* The deliveries of one pair that are being sent are one.
LEMMA PairHeldOnce ==
  ASSUME TakenInv, NEW p \in Processes, NEW q \in Processes, NEW f \in flight[p], NEW g \in flight[q],
         f.item.pair = g.item.pair
  PROVE  p = q /\ f = g
<1>1. f.item \in Items /\ g.item \in Items
  BY MemberTypes DEF TakenInv, ClaimInv, Flights
<1>2. Holds(p, f.item) /\ Holds(q, g.item)
  BY DEF Holds
<1>3. f.item.turn = g.item.turn
  BY <1>1, <1>2 DEF TakenInv, HolderStands
<1>4. f.item = g.item
  BY <1>1, <1>3 DEF Items
<1>5. p = q
  BY <1>1, <1>2, <1>4 DEF TakenInv, ClaimInv, HeldByOne
<1> QED BY <1>4, <1>5 DEF TakenInv, ClaimInv, HeldOnce

\* Those who hold no more than before still know what they hold.
LEMMA HoldersKeep ==
  ASSUME HolderStands, UNCHANGED queued,
         \A p \in Processes, i \in Items : Holds(p, i)' => Holds(p, i),
         \A k \in Pairs : row[k].status # "none" => row'[k].status # "none" \/ hook'[k[1]] = "deleted",
         \A d \in Destinations : hook[d] = "deleted" => hook'[d] = "deleted"
  PROVE  HolderStands'
<1> SUFFICES ASSUME NEW p \in Processes, NEW i \in Items, Holds(p, i)'
             PROVE  /\ i.turn = queued'[i.pair]
                    /\ row'[i.pair].status # "none" \/ hook'[i.pair[1]] = "deleted"
  BY DEF HolderStands
<1>1. i.pair \in Pairs /\ i.pair[1] \in Destinations
  BY PairParts DEF Items
<1> QED BY <1>1 DEF HolderStands

\* As long as nothing more may be taken, one is left where one was.
LEMMA LeftKeeps ==
  ASSUME TypeOK, OneIsLeft, UNCHANGED taken, faults' \in Nat, faults <= faults',
         \A k \in Pairs : queued'[k] \in Nat /\ queued[k] <= queued'[k],
         \A k \in Pairs : MayTake(k)' => MayTake(k) \/ queued[k] < queued'[k]
  PROVE  OneIsLeft'
<1> SUFFICES ASSUME NEW k \in Pairs
             PROVE  /\ taken[k] <= queued'[k] + faults'
                    /\ MayTake(k)' => taken[k] < queued'[k] + faults'
  BY DEF OneIsLeft
<1>1. /\ taken[k] <= queued[k] + faults
      /\ MayTake(k) => taken[k] < queued[k] + faults
  BY DEF OneIsLeft
<1>2. faults \in Nat /\ queued[k] \in Nat /\ taken[k] \in Nat
  BY CountTypes
<1> QED BY <1>1, <1>2

\* Each fault leaves one more.
LEMMA FaultLeaves ==
  ASSUME TypeOK, OneIsLeft, UNCHANGED <<taken, queued>>, faults' = faults + 1
  PROVE  OneIsLeft'
<1> SUFFICES ASSUME NEW k \in Pairs
             PROVE  taken[k] < queued[k] + (faults + 1)
  BY CountTypes DEF OneIsLeft
<1>1. taken[k] <= queued[k] + faults
  BY DEF OneIsLeft
<1>2. faults \in Nat /\ queued[k] \in Nat /\ taken[k] \in Nat
  BY CountTypes
<1> QED BY <1>1, <1>2

\* Steps that leave the queue and what is being sent alone.
LEMMA QuietStep ==
  ASSUME TakenInv, UNCHANGED <<row, queued, waiting, flight, taken, faults>>,
         \A d \in Destinations : hook[d] = "deleted" => hook'[d] = "deleted"
  PROVE  HolderStands' /\ OneIsLeft'
<1>1. HolderStands'
  BY SameMemory, HoldersKeep DEF TakenInv
<1>2. OneIsLeft'
  BY DEF TakenInv, OneIsLeft, MayTake, Posted, Told
<1> QED BY <1>1, <1>2

LEMMA DestinationTaken ==
  ASSUME TakenInv, NEW d \in Destinations, NEW on \in BOOLEAN, NEW chosen \in Choices,
         \/ CreateDestination(d, on, chosen) \/ UpdateDestination(d, on, chosen)
  PROVE  HolderStands' /\ OneIsLeft'
<1>1. UNCHANGED <<row, queued, waiting, flight, taken, faults>>
  BY DEF CreateDestination, UpdateDestination, queueVars, dispatchVars, boundVars, Change
<1>2. hook[d] # "deleted" /\ \A x \in Destinations \ {d} : hook'[x] = hook[x]
  BY DEF CreateDestination, UpdateDestination, Exists, TakenInv, ClaimInv, TypeOK
<1> QED BY <1>1, <1>2, QuietStep

\* Rows that nobody holds, or whose destination goes, are taken out.
LEMMA RowsGoTaken ==
  ASSUME TakenInv, NEW gone \in SUBSET Pairs,
         row' = [k \in Pairs |-> IF k \in gone THEN NoRow ELSE row[k]],
         UNCHANGED <<queued, waiting, flight, taken, faults>>,
         \A d \in Destinations : hook[d] = "deleted" => hook'[d] = "deleted",
         \A k \in gone : hook'[k[1]] = "deleted" \/ \A p \in Processes, i \in Items : Holds(p, i) => i.pair # k
  PROVE  HolderStands' /\ OneIsLeft'
<1>1. \A k \in Pairs : row'[k] = IF k \in gone THEN NoRow ELSE row[k]
  OBVIOUS
<1>2. HolderStands'
  <2> SUFFICES ASSUME NEW p \in Processes, NEW i \in Items, Holds(p, i)'
               PROVE  /\ i.turn = queued'[i.pair]
                      /\ row'[i.pair].status # "none" \/ hook'[i.pair[1]] = "deleted"
    BY DEF HolderStands
  <2>1. i.pair \in Pairs /\ i.pair[1] \in Destinations /\ Holds(p, i)
    BY PairParts, SameMemory DEF Items
  <2> QED BY <1>1, <2>1 DEF TakenInv, HolderStands
<1>3. \A k \in Pairs : MayTake(k)' => MayTake(k)
  BY <1>1 DEF MayTake, Posted, Told, NoRow
<1>4. OneIsLeft'
  <2>1. TypeOK /\ OneIsLeft
    BY DEF TakenInv, ClaimInv
  <2> QED BY <1>3, <2>1, CountTypes, LeftKeeps
<1> QED BY <1>2, <1>4

LEMMA HistoryTaken ==
  ASSUME TakenInv, NEW d \in Destinations, DeleteDestination(d) \/ Test(d) \/ Prune(d)
  PROVE  HolderStands' /\ OneIsLeft'
<1>1. CASE DeleteDestination(d)
  <2> DEFINE gone == {k \in Pairs : k[1] = d}
  <2>1. row' = [k \in Pairs |-> IF k \in gone THEN NoRow ELSE row[k]]
    BY <1>1 DEF DeleteDestination
  <2>2. hook'[d] = "deleted" /\ \A x \in Destinations \ {d} : hook'[x] = hook[x]
    BY <1>1 DEF DeleteDestination, TakenInv, ClaimInv, TypeOK
  <2>3. UNCHANGED <<queued, waiting, flight, taken, faults>>
    BY <1>1 DEF DeleteDestination, dispatchVars, boundVars
  <2>4. gone \in SUBSET Pairs /\ \A k \in gone : hook'[k[1]] = "deleted"
    BY <2>2
  <2>5. \A x \in Destinations : hook[x] = "deleted" => hook'[x] = "deleted"
    BY <2>2
  <2> HIDE DEF gone
  <2> QED BY <2>1, <2>3, <2>4, <2>5, RowsGoTaken
<1>2. CASE Test(d)
  BY <1>2, QuietStep DEF Test, hookVars, dispatchVars, Change
<1>3. CASE Prune(d)
  <2>1. PICK gone \in SUBSET Pairs :
          /\ \A k \in gone : Settled(k)
          /\ row' = [k \in Pairs |-> IF k \in gone THEN NoRow ELSE row[k]]
    BY <1>3, PruneEffect DEF TakenInv, ClaimInv
  <2>2. UNCHANGED <<queued, waiting, flight, taken, faults, hook>>
    BY <1>3 DEF Prune, dispatchVars, hookVars, Change
  <2>3. ASSUME NEW k \in gone, NEW p \in Processes, NEW i \in Items, Holds(p, i), i.pair = k
        PROVE  FALSE
    <3>1. IsCurrent(i)
      BY <2>1, <2>3 DEF TakenInv, HolderStands, Settled, IsCurrent
    <3> QED BY <2>1, <2>3, <3>1 DEF TakenInv, ClaimInv, HeldIsClaimed, Settled
  <2> QED BY <2>1, <2>2, <2>3, RowsGoTaken
<1> QED BY <1>1, <1>2, <1>3

\* A pair is queued again only when nobody holds a delivery of it.
LEMMA EnqueueTaken ==
  ASSUME TakenInv, NEW p \in Processes, NEW k \in Pairs, Enqueue(p, k)
  PROVE  HolderStands' /\ OneIsLeft'
<1>1. UNCHANGED <<waiting, flight, taken, faults, hook>>
  BY DEF Enqueue, hookVars, boundVars
<1>2. CASE ~Queueable(k)
  BY <1>1, <1>2, QuietStep DEF Enqueue
<1>3. CASE Queueable(k)
  <2>1. /\ queued'[k] = queued[k] + 1 /\ queued[k] \in Nat
        /\ \A j \in Pairs \ {k} : row'[j] = row[j] /\ queued'[j] = queued[j]
    BY <1>3, CountTypes DEF Enqueue, TakenInv, ClaimInv, TypeOK
  <2>2. \A q \in Processes, i \in Items : Holds(q, i) => i.pair # k
    BY <1>3 DEF TakenInv, HolderStands, Queueable, Exists
  <2>3. HolderStands'
    <3> SUFFICES ASSUME NEW q \in Processes, NEW i \in Items, Holds(q, i)'
                 PROVE  /\ i.turn = queued'[i.pair]
                        /\ row'[i.pair].status # "none" \/ hook'[i.pair[1]] = "deleted"
      BY DEF HolderStands
    <3>1. i.pair \in Pairs /\ Holds(q, i) /\ i.pair # k
      BY <1>1, <2>2, SameMemory DEF Items
    <3> QED BY <1>1, <2>1, <3>1 DEF TakenInv, HolderStands
  <2>4. \A j \in Pairs : MayTake(j)' => MayTake(j) \/ queued[j] < queued'[j]
    <3> SUFFICES ASSUME NEW j \in Pairs \ {k}, MayTake(j)' PROVE MayTake(j)
      BY <2>1
    <3> QED BY <1>1, <2>1 DEF MayTake, Posted, Told
  <2>5. \A j \in Pairs : queued'[j] \in Nat /\ queued[j] <= queued'[j]
    BY <2>1, CountTypes DEF TakenInv, ClaimInv
  <2>6. TypeOK /\ OneIsLeft /\ faults \in Nat
    BY CountTypes DEF TakenInv, ClaimInv
  <2> QED BY <1>1, <2>3, <2>4, <2>5, <2>6, LeftKeeps
<1> QED BY <1>2, <1>3

LEMMA ClaimDueTaken ==
  ASSUME TakenInv, NEW p \in Processes, NEW S \in SUBSET Pairs, ClaimDue(p, S)
  PROVE  HolderStands' /\ OneIsLeft'
<1> DEFINE new == {[pair |-> k, turn |-> queued[k]] : k \in S}
<1>1. \A k \in S : row[k].status = "pending"
  BY DEF ClaimDue, Claimable
<1>2. \A k \in Pairs : row'[k].status = row[k].status
  <2>1. \A k \in Pairs : row'[k] = IF k \in S THEN [row[k] EXCEPT !.claim = "held"] ELSE row[k]
    BY DEF ClaimDue
  <2>2. \A k \in Pairs : row[k] \in Rows
    BY MemberTypes DEF TakenInv, ClaimInv
  <2>3. \A r \in Rows : [r EXCEPT !.claim = "held"].status = r.status
    BY DEF Rows
  <2> QED BY <2>1, <2>2, <2>3
<1>3. UNCHANGED <<queued, flight, hook, taken, faults>> /\ waiting' = [waiting EXCEPT ![p] = new]
  BY DEF ClaimDue, hookVars, boundVars
<1>4. \A i \in new : i.pair \in S /\ i.turn = queued[i.pair]
  OBVIOUS
<1> HIDE DEF new
<1>5. waiting'[p] = new /\ \A q \in Processes \ {p} : waiting'[q] = waiting[q]
  BY <1>3 DEF TakenInv, ClaimInv, TypeOK
<1>6. HolderStands'
  <2> SUFFICES ASSUME NEW q \in Processes, NEW i \in Items, Holds(q, i)'
               PROVE  /\ i.turn = queued'[i.pair]
                      /\ row'[i.pair].status # "none" \/ hook'[i.pair[1]] = "deleted"
    BY DEF HolderStands
  <2>1. i.pair \in Pairs
    BY DEF Items
  <2>2. Holds(q, i) \/ i \in new
    BY <1>3, <1>5 DEF Holds
  <2>3. CASE i \in new
    BY <1>1, <1>2, <1>3, <1>4, <2>1, <2>3
  <2>4. CASE Holds(q, i)
    BY <1>2, <1>3, <2>1, <2>4 DEF TakenInv, HolderStands
  <2> QED BY <2>2, <2>3, <2>4
<1>7. \A k \in Pairs : MayTake(k)' => MayTake(k)
  BY <1>2, <1>3 DEF MayTake, Posted, Told
<1>8. TypeOK /\ OneIsLeft /\ faults \in Nat /\ \A k \in Pairs : queued[k] \in Nat
  BY CountTypes DEF TakenInv, ClaimInv
<1> QED BY <1>3, <1>6, <1>7, <1>8, LeftKeeps

LEMMA StartBatchTaken ==
  ASSUME TakenInv, NEW p \in Processes, NEW B \in SUBSET waiting[p], StartBatch(p, B)
  PROVE  HolderStands' /\ OneIsLeft'
<1> DEFINE new == {Starting(i) : i \in B}
<1>1. /\ waiting' = [waiting EXCEPT ![p] = @ \ B] /\ flight' = [flight EXCEPT ![p] = @ \cup new]
      /\ UNCHANGED <<row, queued, hook, taken, faults>>
  BY DEF StartBatch, queueVars, hookVars, boundVars
<1>2. \A f \in new : f.item \in B /\ f.step = "starting"
  BY DEF Starting
<1> HIDE DEF new
<1>3. /\ waiting'[p] = waiting[p] \ B /\ flight'[p] = flight[p] \cup new
      /\ \A q \in Processes \ {p} : waiting'[q] = waiting[q] /\ flight'[q] = flight[q]
  BY <1>1 DEF TakenInv, ClaimInv, TypeOK
<1>4. ASSUME NEW q \in Processes, NEW i \in Items, Holds(q, i)'
      PROVE  Holds(q, i)
  BY <1>2, <1>3, <1>4 DEF Holds
<1>5. HolderStands'
  BY <1>1, <1>4, HoldersKeep DEF TakenInv
<1>6. \A q \in Processes : flight[q] \subseteq flight'[q]
                           /\ \A f \in flight'[q] : f \in flight[q] \/ f.step = "starting"
  BY <1>2, <1>3
<1>7. \A k \in Pairs : MayTake(k)' => MayTake(k)
  BY <1>1, <1>6 DEF MayTake, Posted, Told
<1>8. TypeOK /\ OneIsLeft /\ faults \in Nat /\ \A k \in Pairs : queued[k] \in Nat
  BY CountTypes DEF TakenInv, ClaimInv
<1> QED BY <1>1, <1>5, <1>7, <1>8, LeftKeeps

LEMMA RoundTaken ==
  ASSUME TakenInv, NEW p \in Processes, RoundStep(p)
  PROVE  HolderStands' /\ OneIsLeft'
<1>1. CASE Begin(p) \/ Collect(p) \/ EndRound(p)
  <2>1. UNCHANGED <<row, queued, waiting, flight, taken, faults, hook>>
    BY <1>1 DEF Begin, Collect, EndRound, queueVars, hookVars, boundVars
  <2> QED BY <2>1, QuietStep
<1>2. CASE Queues(p)
  BY <1>2, EnqueueTaken DEF Queues
<1>3. CASE Claims(p)
  BY <1>3, ClaimDueTaken DEF Claims
<1>4. CASE Starts(p)
  BY <1>4, StartBatchTaken DEF Starts
<1> QED BY <1>1, <1>2, <1>3, <1>4 DEF RoundStep

LEMMA FlightPosting ==
  ASSUME NEW f \in Flights
  PROVE  \E g \in Flights : g = [f EXCEPT !.step = "posting"] /\ g.item = f.item
<1> DEFINE g == [f EXCEPT !.step = "posting"]
<1>1. g \in Flights
  BY FlightUpdates
<1>2. g.item = f.item
  BY DEF Flights
<1> QED BY <1>1, <1>2

LEMMA FlightAnswered ==
  ASSUME NEW f \in Flights, NEW answer \in Answers
  PROVE  \E g \in Flights : /\ g = [f EXCEPT !.step = "answered", !.answer = answer]
                            /\ g.item = f.item /\ g.step = "answered" /\ g.answer = answer
<1> DEFINE g == [f EXCEPT !.step = "answered", !.answer = answer]
<1>1. g \in Flights
  BY FlightUpdates
<1>2. g.item = f.item /\ g.step = "answered" /\ g.answer = answer
  BY DEF Flights
<1> QED BY <1>1, <1>2

\* A sending moves on or ends: what else is being sent stays.
LEMMA FlightStep ==
  ASSUME TypeOK, NEW p \in Processes, NEW f \in flight[p], NEW next,
         flight' = [flight EXCEPT ![p] = (@ \ {f}) \cup next]
  PROVE  /\ flight'[p] = (flight[p] \ {f}) \cup next
         /\ \A q \in Processes \ {p} : flight'[q] = flight[q]
         /\ \A q \in Processes : \A g \in flight[q] : (q = p /\ g = f) \/ g \in flight'[q]
         /\ \A q \in Processes : \A g \in flight'[q] : (q = p /\ g \in next) \/ g \in flight[q]
<1>1. flight'[p] = (flight[p] \ {f}) \cup next /\ \A q \in Processes \ {p} : flight'[q] = flight[q]
  BY DEF TypeOK
<1> QED BY <1>1

\* A delivery is posted only while its destination is there, whose row still waits for the answer.
LEMMA FetchTaken ==
  ASSUME TakenInv, NEW p \in Processes, NEW f \in flight[p], Fetch(p, f)
  PROVE  HolderStands' /\ OneIsLeft'
<1> DEFINE next == IF Exists(f.item.pair[1]) THEN {[f EXCEPT !.step = "posting"]} ELSE {}
<1>0. TypeOK /\ HeldOnce /\ OneIsLeft /\ faults \in Nat /\ \A k \in Pairs : queued[k] \in Nat
  BY CountTypes DEF TakenInv, ClaimInv
<1>1. f \in Flights /\ f.item \in Items /\ f.item.pair \in Pairs
  BY <1>0, MemberTypes DEF Flights, Items
<1>2. PICK g \in Flights : g = [f EXCEPT !.step = "posting"] /\ g.item = f.item
  BY <1>1, FlightPosting
<1>3. next = {} \/ (next = {g} /\ Exists(f.item.pair[1]))
  BY <1>2
<1>4. /\ flight' = [flight EXCEPT ![p] = (@ \ {f}) \cup next]
      /\ UNCHANGED <<row, queued, waiting, taken, faults, hook>>
  BY DEF Fetch, queueVars, hookVars, boundVars
<1> HIDE DEF next
<1>5. \A q \in Processes, i \in Items : Holds(q, i)' => Holds(q, i)
  BY <1>0, <1>2, <1>3, <1>4, FlightMoves
<1>6. HolderStands'
  BY <1>4, <1>5, HoldersKeep DEF TakenInv
<1>7. /\ \A q \in Processes : \A h \in flight[q] : (q = p /\ h = f) \/ h \in flight'[q]
      /\ \A q \in Processes : \A h \in flight'[q] : (q = p /\ h \in next) \/ h \in flight[q]
  BY <1>0, <1>4, FlightStep
<1>8. f.step = "starting"
  BY DEF Fetch
<1>9. \A k \in Pairs : Told(k) => Told(k)'
  BY <1>7, <1>8 DEF Told
<1>10. ASSUME NEW k \in Pairs, Posted(k)'
       PROVE  MayTake(k)
  <2>1. CASE Posted(k)
    BY <2>1 DEF MayTake
  <2>2. CASE ~Posted(k)
    <3>1. k = f.item.pair /\ Exists(f.item.pair[1])
      BY <1>2, <1>3, <1>7, <1>10, <2>2 DEF Posted
    <3>2. Holds(p, f.item)
      BY DEF Holds
    <3>3. row[k].status # "none" /\ queued[k] = f.item.turn
      BY <1>1, <3>1, <3>2 DEF TakenInv, HolderStands, Exists
    <3>4. row[k].status = "pending"
      BY <1>1, <3>1, <3>2, <3>3 DEF TakenInv, ClaimInv, HeldIsClaimed, IsCurrent
    <3>5. ~Told(k)
      BY <1>8, <3>1, PairHeldOnce DEF Told
    <3> QED BY <3>4, <3>5 DEF MayTake
  <2> QED BY <2>1, <2>2
<1>11. \A k \in Pairs : MayTake(k)' => MayTake(k)
  BY <1>4, <1>9, <1>10 DEF MayTake
<1> QED BY <1>0, <1>4, <1>6, <1>11, LeftKeeps

\* What an answer leaves of a sending that was posted.
LEMMA AnsweredEffect ==
  ASSUME TakenInv, NEW p \in Processes, NEW f \in flight[p], NEW answer \in Answers, Answered(p, f, answer)
  PROVE  /\ f.step = "posting" /\ f.item.pair \in Pairs
         /\ UNCHANGED <<row, queued, hook>>
         /\ HolderStands'
         /\ \A k \in Pairs : Posted(k)' => Posted(k) /\ k # f.item.pair
         /\ \A k \in Pairs : Told(k) => Told(k)'
         /\ answer = "ok" => Told(f.item.pair)'
<1>0. TypeOK /\ HeldOnce
  BY DEF TakenInv, ClaimInv
<1>1. f \in Flights /\ f.item \in Items /\ f.item.pair \in Pairs
  BY <1>0, MemberTypes DEF Flights, Items
<1>2. PICK g \in Flights : /\ g = [f EXCEPT !.step = "answered", !.answer = answer]
                           /\ g.item = f.item /\ g.step = "answered" /\ g.answer = answer
  BY <1>1, FlightAnswered
<1>3. /\ flight' = [flight EXCEPT ![p] = (@ \ {f}) \cup {g}]
      /\ UNCHANGED <<row, queued, waiting, hook>> /\ f.step = "posting"
  BY <1>2 DEF Answered, queueVars, hookVars
<1>4. \A q \in Processes, i \in Items : Holds(q, i)' => Holds(q, i)
  BY <1>0, <1>2, <1>3, FlightMoves
<1>5. HolderStands'
  BY <1>3, <1>4, HoldersKeep DEF TakenInv
<1>6. /\ flight'[p] = (flight[p] \ {f}) \cup {g}
      /\ \A q \in Processes : \A h \in flight[q] : (q = p /\ h = f) \/ h \in flight'[q]
      /\ \A q \in Processes : \A h \in flight'[q] : (q = p /\ h \in {g}) \/ h \in flight[q]
  BY <1>0, <1>3, FlightStep
<1>7. \A k \in Pairs : Told(k) => Told(k)'
  BY <1>3, <1>6 DEF Told
<1>8. ASSUME NEW k \in Pairs, Posted(k)'
      PROVE  Posted(k) /\ k # f.item.pair
  <2>0. PICK q \in Processes : \E h \in flight'[q] : h.item.pair = k /\ h.step = "posting"
    BY <1>8 DEF Posted
  <2>1. PICK h \in flight'[q] : h.item.pair = k /\ h.step = "posting"
    BY <2>0
  <2>2. h \in flight[q] /\ h # g
    BY <1>2, <1>6, <2>1
  <2>3. ASSUME k = f.item.pair PROVE FALSE
    <3>1. q = p /\ h = f
      BY <2>1, <2>2, <2>3, PairHeldOnce
    <3>2. f \notin flight'[p]
      BY <1>2, <1>3, <1>6
    <3> QED BY <2>1, <3>1, <3>2
  <2> QED BY <2>1, <2>2, <2>3 DEF Posted
<1>9. answer = "ok" => Told(f.item.pair)'
  BY <1>2, <1>6 DEF Told
<1> QED BY <1>1, <1>3, <1>5, <1>7, <1>8, <1>9

LEMMA ReceiverTaken ==
  ASSUME TakenInv, NEW p \in Processes, NEW f \in flight[p], ReceiverTakes(p, f) \/ ReceiverRefuses(p, f)
  PROVE  HolderStands' /\ OneIsLeft'
<1>0. TypeOK /\ OneIsLeft /\ faults \in Nat /\ \A k \in Pairs : queued[k] \in Nat /\ taken[k] \in Nat
  BY CountTypes DEF TakenInv, ClaimInv
<1>1. CASE ReceiverTakes(p, f)
  <2> PICK j \in Pairs : j = f.item.pair
    BY <1>0, MemberTypes DEF Flights, Items
  <2>1. Answered(p, f, "ok") /\ "ok" \in Answers
    BY <1>1 DEF ReceiverTakes, Answers
  <2>2. /\ f.step = "posting" /\ UNCHANGED <<row, queued>>
        /\ HolderStands'
        /\ \A k \in Pairs : Posted(k)' => Posted(k) /\ k # j
        /\ \A k \in Pairs : Told(k) => Told(k)'
        /\ Told(j)'
    BY <2>1, AnsweredEffect
  <2>3. /\ faults' = faults /\ taken'[j] = taken[j] + 1
        /\ \A k \in Pairs \ {j} : taken'[k] = taken[k]
    BY <1>1 DEF ReceiverTakes, boundVars, TakenInv, ClaimInv, TypeOK
  <2>4. Posted(j)
    BY <2>2 DEF Posted
  <2>5. OneIsLeft'
    <3> SUFFICES ASSUME NEW k \in Pairs
                 PROVE  /\ taken'[k] <= queued'[k] + faults'
                        /\ MayTake(k)' => taken'[k] < queued'[k] + faults'
      BY DEF OneIsLeft
    <3>1. CASE k = j
      <4>1. taken[j] < queued[j] + faults
        BY <1>0, <2>4 DEF OneIsLeft, MayTake
      <4>2. ~MayTake(k)'
        BY <2>2, <3>1 DEF MayTake
      <4> QED BY <1>0, <2>2, <2>3, <3>1, <4>1, <4>2
    <3>2. CASE k # j
      <4>1. MayTake(k)' => MayTake(k)
        BY <2>2 DEF MayTake
      <4> QED BY <1>0, <2>2, <2>3, <3>2, <4>1 DEF OneIsLeft
    <3> QED BY <3>1, <3>2
  <2> QED BY <2>2, <2>5
<1>2. CASE ReceiverRefuses(p, f)
  <2>1. PICK answer \in Answers : Answered(p, f, answer)
    BY <1>2 DEF ReceiverRefuses, Answers
  <2>2. /\ UNCHANGED <<row, queued>> /\ HolderStands'
        /\ \A k \in Pairs : Posted(k)' => Posted(k)
        /\ \A k \in Pairs : Told(k) => Told(k)'
    BY <2>1, AnsweredEffect
  <2>3. \A k \in Pairs : MayTake(k)' => MayTake(k)
    BY <2>2 DEF MayTake
  <2>4. UNCHANGED <<taken, faults>>
    BY <1>2 DEF ReceiverRefuses, boundVars
  <2> QED BY <1>0, <2>2, <2>3, <2>4, LeftKeeps
<1> QED BY <1>1, <1>2

\* A recorded result that leaves the delivery pending did not say that it was taken.
LEMMA RecordTaken ==
  ASSUME TakenInv, NEW p \in Processes, NEW f \in flight[p], Record(p, f)
  PROVE  HolderStands' /\ OneIsLeft'
<1> DEFINE n == row[f.item.pair].attempts + 1
           new == [status |-> judge(f.answer, n), attempts |-> n,
                   due |-> row[f.item.pair].due /\ judge(f.answer, n) # "pending", claim |-> "free"]
<1>0. /\ TypeOK /\ HeldOnce /\ OneIsLeft /\ faults \in Nat /\ \A k \in Pairs : queued[k] \in Nat
      /\ f.step = "answered"
  BY CountTypes DEF TakenInv, ClaimInv, Record
<1>1. f.item \in Items /\ f.item.pair \in Pairs
  BY <1>0, MemberTypes DEF Flights, Items
<1> PICK j \in Pairs : j = f.item.pair
  BY <1>1
<1>2. /\ flight' = [flight EXCEPT ![p] = (@ \ {f}) \cup {}]
      /\ UNCHANGED <<queued, waiting, taken, faults, hook>>
  BY DEF Record, hookVars, boundVars
<1>3. /\ \A q \in Processes : \A h \in flight[q] : (q = p /\ h = f) \/ h \in flight'[q]
      /\ \A q \in Processes : flight'[q] \subseteq flight[q]
  <2>1. /\ \A q \in Processes : \A h \in flight[q] : (q = p /\ h = f) \/ h \in flight'[q]
        /\ \A q \in Processes : \A h \in flight'[q] : (q = p /\ h \in {}) \/ h \in flight[q]
    BY <1>0, <1>2, FlightStep
  <2> QED BY <2>1
<1>4. \A q \in Processes, i \in Items : Holds(q, i)' => Holds(q, i)
  BY <1>2, <1>3 DEF Holds
<1>5. new.status = judge(f.answer, n) /\ judge(f.answer, n) \in {"sent", "failed", "pending"}
  BY JudgeRange
<1>6. judge("ok", n) = "sent"
  BY DEF judge
<1>7. row' = IF IsCurrent(f.item) THEN [row EXCEPT ![j] = new] ELSE row
  BY DEF Record
<1> HIDE DEF new, n
<1>8. /\ \A k \in Pairs \ {j} : row'[k] = row[k]
      /\ row'[j] = IF IsCurrent(f.item) THEN new ELSE row[j]
  BY <1>0, <1>7 DEF TypeOK
<1>9. HolderStands'
  BY <1>2, <1>4, <1>5, <1>8, HoldersKeep DEF TakenInv
<1>10. ASSUME NEW k \in Pairs, MayTake(k)'
       PROVE  MayTake(k)
  <2>1. CASE Posted(k)'
    BY <1>3, <2>1 DEF MayTake, Posted
  <2>2. CASE k # j /\ row'[k].status = "pending" /\ ~Told(k)'
    <3>1. ~Told(k)
      BY <1>3, <2>2 DEF Told
    <3> QED BY <1>8, <2>2, <3>1 DEF MayTake
  <2>3. CASE k = j /\ row'[k].status = "pending" /\ ~Told(k)'
    <3>1. Holds(p, f.item)
      BY DEF Holds
    <3>2. IsCurrent(f.item)
      BY <1>1, <1>8, <2>3, <3>1 DEF TakenInv, HolderStands, IsCurrent
    <3>3. row[j].status = "pending"
      BY <1>1, <3>1, <3>2 DEF TakenInv, ClaimInv, HeldIsClaimed
    <3>4. f.answer # "ok"
      BY <1>5, <1>6, <1>8, <2>3, <3>2
    <3>5. ~Told(j)
      BY <1>3, <2>3, <3>4 DEF Told
    <3> QED BY <2>3, <3>3, <3>5 DEF MayTake
  <2> QED BY <1>10, <2>1, <2>2, <2>3 DEF MayTake
<1> QED BY <1>0, <1>2, <1>9, <1>10, LeftKeeps

\* A call fails, or a process stops: those who hold hold no more, and one more is left.
LEMMA FaultTaken ==
  ASSUME TakenInv, NEW p \in Processes, NEW f \in flight[p],
         FetchFails(p, f) \/ RecordFails(p, f)
  PROVE  HolderStands' /\ OneIsLeft'
<1>0. TypeOK /\ OneIsLeft /\ HeldOnce
  BY DEF TakenInv, ClaimInv
<1>1. UNCHANGED <<row, queued, hook, taken>> /\ faults' = faults + 1
  BY DEF FetchFails, RecordFails, queueVars, hookVars, Fault
<1>2. \A q \in Processes, i \in Items : Holds(q, i)' => Holds(q, i)
  <2>1. CASE FetchFails(p, f)
    <3>1. f \in Flights /\ "retry" \in Answers
      BY <1>0, MemberTypes DEF Answers
    <3>2. PICK g \in Flights : g = [f EXCEPT !.step = "answered", !.answer = "retry"] /\ g.item = f.item
      BY <3>1, FlightAnswered
    <3>3. flight' = [flight EXCEPT ![p] = (@ \ {f}) \cup {g}] /\ UNCHANGED waiting
      BY <2>1, <3>2 DEF FetchFails
    <3> QED BY <1>0, <3>2, <3>3, FlightMoves
  <2>2. CASE RecordFails(p, f)
    <3> DEFINE others == {[g EXCEPT !.awaited = FALSE] : g \in flight[p] \ {f}}
    <3>1. \A h \in others : \E g \in flight[p] \ {f} : h.item = g.item
      <4>1. \A g \in Flights : [g EXCEPT !.awaited = FALSE].item = g.item
        BY DEF Flights
      <4> QED BY <1>0, <4>1, MemberTypes
    <3>2. /\ flight' = [flight EXCEPT ![p] = others] \/ flight' = [flight EXCEPT ![p] = @ \ {f}]
          /\ waiting' = waiting \/ waiting' = [waiting EXCEPT ![p] = {}]
      BY <2>2 DEF RecordFails
    <3> HIDE DEF others
    <3>3. /\ flight'[p] = others \/ flight'[p] = flight[p] \ {f}
          /\ waiting'[p] \subseteq waiting[p]
          /\ \A q \in Processes \ {p} : flight'[q] = flight[q] /\ waiting'[q] = waiting[q]
      BY <1>0, <3>2 DEF TypeOK
    <3> SUFFICES ASSUME NEW q \in Processes, NEW i \in Items, Holds(q, i)' PROVE Holds(q, i)
      OBVIOUS
    <3> QED BY <3>1, <3>3 DEF Holds
  <2> QED BY <2>1, <2>2
<1> QED BY <1>0, <1>1, <1>2, HoldersKeep, FaultLeaves DEF TakenInv

LEMMA AnswerLostTaken ==
  ASSUME TakenInv, NEW p \in Processes, NEW f \in flight[p], AnswerLost(p, f)
  PROVE  HolderStands' /\ OneIsLeft'
<1>0. TypeOK /\ OneIsLeft /\ faults \in Nat /\ \A k \in Pairs : queued[k] \in Nat /\ taken[k] \in Nat
  BY CountTypes DEF TakenInv, ClaimInv
<1> PICK j \in Pairs : j = f.item.pair
  BY <1>0, MemberTypes DEF Flights, Items
<1>1. Answered(p, f, "retry") /\ "retry" \in Answers
  BY DEF AnswerLost, Answers
<1>2. f.step = "posting" /\ UNCHANGED queued /\ HolderStands'
  BY <1>1, AnsweredEffect
<1>3. /\ faults' = faults + 1 /\ taken'[j] = taken[j] + 1
      /\ \A k \in Pairs \ {j} : taken'[k] = taken[k]
  BY DEF AnswerLost, Fault, TakenInv, ClaimInv, TypeOK
<1>4. taken[j] < queued[j] + faults
  BY <1>0, <1>2 DEF OneIsLeft, MayTake, Posted
<1>5. \A k \in Pairs : taken'[k] < queued'[k] + faults'
  <2> SUFFICES ASSUME NEW k \in Pairs PROVE taken'[k] < queued'[k] + faults'
    OBVIOUS
  <2>1. taken[k] <= queued[k] + faults
    BY <1>0 DEF OneIsLeft
  <2> QED BY <1>0, <1>2, <1>3, <1>4, <2>1
<1>6. \A k \in Pairs : taken'[k] \in Nat /\ queued'[k] + faults' \in Nat
  BY <1>0, <1>2, <1>3
<1>7. OneIsLeft'
  BY <1>5, <1>6 DEF OneIsLeft
<1> QED BY <1>2, <1>7

LEMMA StopTaken ==
  ASSUME TakenInv, NEW p \in Processes, TickFails(p) \/ Crash(p)
  PROVE  HolderStands' /\ OneIsLeft'
<1>0. TypeOK /\ OneIsLeft
  BY DEF TakenInv, ClaimInv
<1>1. UNCHANGED <<row, queued, hook, taken>> /\ faults' = faults + 1
  BY DEF TickFails, Crash, queueVars, hookVars, Fault
<1>2. \A q \in Processes, i \in Items : Holds(q, i)' => Holds(q, i)
  <2>1. CASE TickFails(p)
    BY <2>1 DEF TickFails, Holds
  <2>2. CASE Crash(p)
    <3>1. /\ waiting'[p] = {} /\ flight'[p] = {}
          /\ \A q \in Processes \ {p} : flight'[q] = flight[q] /\ waiting'[q] = waiting[q]
      BY <1>0, <2>2 DEF Crash, TypeOK
    <3> QED BY <3>1 DEF Holds
  <2> QED BY <2>1, <2>2
<1> QED BY <1>0, <1>1, <1>2, HoldersKeep, FaultLeaves DEF TakenInv

LEMMA TimeTaken ==
  ASSUME TakenInv,
         \/ \E e \in Events : EventHappens(e) \/ EventAges(e)
         \/ \E k \in Pairs : ComesDue(k) \/ ClaimEnds(k)
  PROVE  HolderStands' /\ OneIsLeft'
<1>1. CASE \E e \in Events : EventHappens(e) \/ EventAges(e)
  <2>1. UNCHANGED <<row, queued, waiting, flight, taken, faults, hook>>
    BY <1>1 DEF EventHappens, EventAges, queueVars, dispatchVars, hookVars, boundVars
  <2> QED BY <2>1, QuietStep
<1>2. ASSUME NEW k \in Pairs, ComesDue(k) \/ ClaimEnds(k)
      PROVE  HolderStands' /\ OneIsLeft'
  <2>1. UNCHANGED <<queued, waiting, flight, taken, faults, hook>>
    BY <1>2 DEF ComesDue, ClaimEnds, dispatchVars, hookVars, boundVars
  <2>2. \A j \in Pairs : row'[j].status = row[j].status
    <3>1. \A r \in Rows : [r EXCEPT !.due = TRUE].status = r.status /\ [r EXCEPT !.claim = "over"].status = r.status
      BY DEF Rows
    <3>2. row[k] \in Rows
      BY MemberTypes DEF TakenInv, ClaimInv
    <3>3. \/ row' = [row EXCEPT ![k] = [row[k] EXCEPT !.due = TRUE]]
          \/ row' = [row EXCEPT ![k] = [row[k] EXCEPT !.claim = "over"]]
      BY <1>2 DEF ComesDue, ClaimEnds
    <3> QED BY <3>1, <3>2, <3>3 DEF TakenInv, ClaimInv, TypeOK
  <2>3. HolderStands'
    BY <2>1, <2>2, SameMemory, HoldersKeep DEF TakenInv
  <2>4. OneIsLeft'
    BY <2>1, <2>2 DEF TakenInv, OneIsLeft, MayTake, Posted, Told
  <2> QED BY <2>3, <2>4
<1> QED BY <1>1, <1>2

LEMMA TakenNext == TakenInv /\ [Next]_vars => HolderStands' /\ OneIsLeft'
<1> SUFFICES ASSUME TakenInv, [Next]_vars PROVE HolderStands' /\ OneIsLeft'
  OBVIOUS
<1>1. CASE UNCHANGED vars
  BY <1>1, QuietStep DEF vars, queueVars, dispatchVars, hookVars, boundVars
<1>2. CASE Next
  BY <1>2, DestinationTaken, HistoryTaken, RoundTaken, FetchTaken, ReceiverTaken, RecordTaken, FaultTaken,
     AnswerLostTaken, StopTaken, TimeTaken
  DEF Next, SendStep, Fetches, Sends, Records
<1> QED BY <1>1, <1>2

\* A receiver takes a message once for each time it was queued, and once more
\* for each fault at the worst, however rounds, claims and crashes interleave
\* (webhook-dispatcher.js).
THEOREM WebhooksTakenAgainOnlyByFault == ~ClaimsMayLapse => (Spec => []TakenAgainOnlyByFault)
<1> SUFFICES ASSUME ~ClaimsMayLapse PROVE Spec => []TakenAgainOnlyByFault
  OBVIOUS
<1>1. TakenInv /\ [Next]_vars => TakenInv'
  BY ClaimNext, TakenNext DEF TakenInv
<1>2. TakenInv => TakenAgainOnlyByFault
  BY DEF TakenInv, OneIsLeft, TakenAgainOnlyByFault
<1> QED BY TakenInit, <1>1, <1>2, PTL DEF Spec
=============================================================================
