-------------------------- MODULE EventClientProofs --------------------------
(* Proofs about EventClient, for every pq_max and any number of events, faults *)
(* and clients.                                                                *)
EXTENDS EventClient, TLAPS

-----------------------------------------------------------------------------
(* No event vanishes and none is counted twice *)

\* get_events holds an event only from its receipt until it is queued or dropped,
\* and missed events only until it has counted them; it leaves with an event in its
\* hands only when the queue is disposed of.
Amounts ==
    /\ published \in Nat /\ q \in Nat /\ sent \in Nat
    /\ counters \in [Stats -> Nat] /\ hand \in [event : BOOLEAN, missed : Nat]
InHand ==
    /\ get \in {"recv", "check"} => ~hand.event
    /\ get # "count" => hand.missed = 0
    /\ get \in {"leave", "off"} => stop \/ ~hand.event
    /\ run = "spawn" => get = "off" /\ ~hand.event
    /\ get \in {"queue", "put"} => hand.event
Accounts == Amounts /\ InHand /\ EventsAccounted

\* The steps outside get_events: the session empties the queue only by sending.
LEMMA SessionAccounts ==
    Accounts /\ (NewEventClient \/ StreamRun \/ CloseSession \/ Wait \/ Send \/ FailedSend \/ UpdateStats)
    => Accounts'
<1> SUFFICES ASSUME Accounts PROVE
      NewEventClient \/ StreamRun \/ CloseSession \/ Wait \/ Send \/ FailedSend \/ UpdateStats => Accounts'
  OBVIOUS
<1> USE DEF Accounts, Amounts, InHand, EventsAccounted, Stats
<1>1. CASE NewEventClient
  BY <1>1 DEF NewEventClient, Zero
<1>2. CASE StreamRun
  BY <1>2 DEF StreamRun
<1>3. CASE CloseSession
  BY <1>3 DEF CloseSession
<1>4. CASE Wait
  BY <1>4 DEF Wait
<1>5. CASE Send
  BY <1>5 DEF Send
<1>6. CASE FailedSend
  BY <1>6 DEF FailedSend
<1>7. CASE UpdateStats
  BY <1>7 DEF UpdateStats, AwaitCounter, LoadCounters, WriteStats, UpdStopped, UpdFrame
<1> QED
  BY <1>1, <1>2, <1>3, <1>4, <1>5, <1>6, <1>7

\* The steps of get_events: each moves an event to the next place.
LEMMA GetAccounts == Accounts /\ GetEvents => Accounts'
<1> SUFFICES ASSUME Accounts PROVE GetEvents => Accounts'
  OBVIOUS
<1> USE DEF Accounts, Amounts, InHand, EventsAccounted, Stats, GetFrame
<1>1. CASE RecvEvt
  <2>1. CASE get' = "check" /\ UNCHANGED <<published, hand, evFaults>>
    BY <1>1, <2>1 DEF RecvEvt
  <2>2. ASSUME NEW m \in {0, 1}, NEW test \in BOOLEAN, get' = "count",
               published' = published + m + IF test THEN 0 ELSE 1,
               hand' = [event |-> ~test, missed |-> m]
        PROVE  Accounts'
    <3>1. hand'.event = ~test /\ hand'.missed = m /\ m \in Nat
      BY <2>2
    <3>2. hand' \in [event : BOOLEAN, missed : Nat]
      BY <2>2, <3>1
    <3>3. ~hand.event /\ hand.missed = 0
      BY <1>1 DEF RecvEvt
    <3>4. CASE test
      BY <1>1, <2>2, <3>1, <3>2, <3>3, <3>4 DEF RecvEvt
    <3>5. CASE ~test
      <4>1. hand'.event /\ published' = published + m + 1
        BY <2>2, <3>1, <3>5
      <4>2. get = "recv" /\ UNCHANGED <<q, sent, counters, stop, run>>
        BY <1>1 DEF RecvEvt
      <4> QED
        BY <2>2, <3>1, <3>2, <3>3, <4>1, <4>2
    <3> QED
      BY <3>4, <3>5
  <2> QED
    BY <1>1, <2>1, <2>2 DEF RecvEvt
<1>2. CASE CountMissed
  BY <1>2 DEF CountMissed
<1>3. CASE QueueEvent
  BY <1>3 DEF QueueEvent
<1>4. CASE SendEvent
  <2>1. CASE ~stop
    <3>1. hand.event /\ ~hand'.event /\ hand'.missed = hand.missed /\ hand' \in [event : BOOLEAN, missed : Nat]
      BY <1>4, <2>1 DEF SendEvent
    <3>2. q' = q + 1 /\ get' = "check" /\ get = "put"
      BY <1>4, <2>1 DEF SendEvent
    <3> QED
      BY <1>4, <2>1, <3>1, <3>2 DEF SendEvent
  <2>2. CASE stop
    BY <1>4, <2>2 DEF SendEvent
  <2> QED
    BY <2>1, <2>2
<1>5. CASE DropEvent
  <2>1. hand.event /\ ~hand'.event /\ hand'.missed = hand.missed /\ hand' \in [event : BOOLEAN, missed : Nat]
    BY <1>5 DEF DropEvent
  <2>2. /\ counters' \in [Stats -> Nat]
        /\ counters'["dropped"] = counters["dropped"] + 1 /\ counters'["missed"] = counters["missed"]
    BY <1>5 DEF DropEvent
  <2>3. get' = "check" /\ get = "queue" /\ UNCHANGED <<published, q, sent, stop, run>>
    BY <1>5 DEF DropEvent
  <2> QED
    BY <2>1, <2>2, <2>3
<1>6. CASE CheckStopped
  BY <1>6 DEF CheckStopped
<1>7. CASE Leave
  BY <1>7 DEF Leave
<1> QED
  BY <1>1, <1>2, <1>3, <1>4, <1>5, <1>6, <1>7 DEF GetEvents

\* While the session is open every published event was sent, is queued, was counted
\* as dropped or missed, or is in the hands of get_events (client/events_client.go).
THEOREM NoEventVanishes == Spec => []EventsAccounted
<1>1. Init => Accounts
  BY DEF Init, Accounts, Amounts, InHand, EventsAccounted, Stats, Zero
<1>2. Accounts /\ UNCHANGED vars => Accounts'
  BY DEF Accounts, Amounts, InHand, EventsAccounted, vars
<1>3. Accounts /\ [Next]_vars => Accounts'
  BY <1>2, SessionAccounts, GetAccounts DEF Next
<1> QED
  BY <1>1, <1>3, PTL DEF Spec, Accounts

-----------------------------------------------------------------------------
(* The queue is bounded *)

\* Only get_events adds to the queue, so the room it saw before send_event is still
\* there.
Roomy == q \in Nat /\ q <= PqMax /\ (get = "put" => q < PqMax \/ stop)

\* The queue of a receiver that does not read never grows past pq_max, though its
\* length is tested before, and not while, the event is put.
THEOREM QueueStaysBounded == ASSUME PqMax \in Nat PROVE Spec => []QueueBounded
<1>1. Init => Roomy
  BY DEF Init, Roomy
<1>2. Roomy /\ [Next]_vars => Roomy'
  <2> SUFFICES ASSUME Roomy, [Next]_vars PROVE Roomy'
    OBVIOUS
  <2> USE DEF Roomy
  <2>1. CASE GetEvents
    BY <2>1 DEF GetEvents, RecvEvt, CountMissed, QueueEvent, SendEvent, DropEvent, CheckStopped, Leave, GetFrame
  <2>2. CASE UpdateStats
    BY <2>2 DEF UpdateStats, AwaitCounter, LoadCounters, WriteStats, UpdStopped, UpdFrame
  <2>3. CASE NewEventClient \/ StreamRun \/ CloseSession
    BY <2>3 DEF NewEventClient, StreamRun, CloseSession
  <2>4. CASE Wait \/ Send \/ FailedSend \/ UNCHANGED vars
    BY <2>4 DEF Wait, Send, FailedSend, vars
  <2> QED
    BY <2>1, <2>2, <2>3, <2>4 DEF Next
<1> QED
  BY <1>1, <1>2, PTL DEF Spec, Roomy, QueueBounded

-----------------------------------------------------------------------------
(* The WaitGroup *)

One(b) == IF b THEN 1 ELSE 0

\* The WaitGroup counts the goroutines that are not over, except get_events between
\* its start and the Add that follows it.
Counted ==
    /\ run \in {"spawn", "add", "test", "select", "off"}
    /\ run = "spawn" => get = "off"
    /\ run \in {"spawn", "add"} => upd = "off"
    /\ wg = One(run # "off") + One(upd # "off") + One(get # "off") - One(run = "add")
    /\ waited = "yes" => wg = 0 /\ run # "add"

\* The session's Wait returns, unless it was early, only when the three goroutines are
\* over, and they stay so.
THEOREM WaitCoversGoroutines == Spec => []WaitsForAll
<1>1. Init => Counted
  BY DEF Init, Counted, One
<1>2. Counted /\ [Next]_vars => Counted'
  <2> SUFFICES ASSUME Counted, [Next]_vars PROVE Counted'
    OBVIOUS
  <2> USE DEF Counted, One
  <2>1. CASE RecvEvt \/ CountMissed \/ QueueEvent \/ DropEvent
    BY <2>1 DEF RecvEvt, CountMissed, QueueEvent, DropEvent, GetFrame
  <2>2. CASE SendEvent \/ CheckStopped \/ Leave
    BY <2>2 DEF SendEvent, CheckStopped, Leave, GetFrame
  <2>3. CASE UpdateStats
    BY <2>3 DEF UpdateStats, AwaitCounter, LoadCounters, WriteStats, UpdStopped, UpdFrame, UpdEnds
  <2>4. CASE NewEventClient
    BY <2>4 DEF NewEventClient
  <2>5. CASE StreamRun
    BY <2>5 DEF StreamRun
  <2>6. CASE CloseSession \/ Wait
    BY <2>6 DEF CloseSession, Wait
  <2>7. CASE Send \/ FailedSend \/ UNCHANGED vars
    BY <2>7 DEF Send, FailedSend, vars
  <2> QED
    BY <2>1, <2>2, <2>3, <2>4, <2>5, <2>6, <2>7 DEF Next, GetEvents
<1>3. Counted => WaitsForAll
  BY DEF Counted, One, WaitsForAll
<1> QED
  BY <1>1, <1>2, <1>3, PTL DEF Spec

\* The event client loses nothing silently, keeps its queue within pq_max and leaves no
\* goroutine behind.
THEOREM EventsAreKept == ASSUME PqMax \in Nat PROVE Spec => []EventsKept
<1> QED
  BY NoEventVanishes, QueueStaysBounded, WaitCoversGoroutines, PTL DEF EventsKept

=============================================================================
