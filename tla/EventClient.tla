---------------------------- MODULE EventClient ----------------------------
(***************************************************************************)
(* The EVENTS data client: get_events moves events from eventd's           *)
(* subscriber into the session's queue and counts what it cannot queue,    *)
(* update_stats writes the counters to COUNTERS_DB, StreamRun waits for    *)
(* the stop channel.  One EventClient follows another; COUNTERS_DB stays.  *)
(***************************************************************************)
EXTENDS Naturals, Sequences

CONSTANTS PqMax,      \* pq_max, after NewEventClient has clamped it
          LatencyListSize, \* LATENCY_LIST_SIZE
          MaxEvents,  \* bound: events published to one client
          MaxClients, \* bound: event subscriptions, one after the other
          MaxEventFaults

VARIABLES client,    \* the number of the present EventClient
          published, \* history: events eventd published to this client
          get, hand, \* get_events: where it is, what it received
          upd, base, wr, \* update_stats: where it is, db_counters, wr_counters
          run,       \* StreamRun
          q, sent,   \* the session's queue; history: responses sent
          counters, lastErrors,
          stopped,   \* evtc.stopped
          stop,      \* the stop channel is closed and the queue disposed
          wg, waited,
          db,        \* COUNTERS_DB
          evFaults

vars == <<client, published, get, hand, upd, base, wr, run, q, sent, counters, lastErrors,
          stopped, stop, wg, waited, db, evFaults>>

Stats == {"missed", "dropped"}
Zero == [k \in Stats |-> 0]
Fault == evFaults < MaxEventFaults /\ evFaults' = evFaults + 1

Init ==
    /\ client = 1 /\ published = 0
    /\ get = "off" /\ hand = [event |-> FALSE, missed |-> 0]
    /\ upd = "off" /\ base = Zero /\ wr = <<>>
    /\ run = "spawn"
    /\ q = 0 /\ sent = 0 /\ counters = Zero /\ lastErrors = 0
    /\ stopped = FALSE /\ stop = FALSE /\ wg = 1 /\ waited = "no"
    /\ db \in {Zero, [Zero EXCEPT !["dropped"] = 1]}
    /\ evFaults = 0

\* NewEventClient, for the next subscription.
NewEventClient ==
    /\ waited # "no" /\ get = "off" /\ upd = "off" /\ run = "off"
    /\ client < MaxClients
    /\ client' = client + 1
    /\ published' = 0 /\ hand' = [event |-> FALSE, missed |-> 0]
    /\ base' = Zero /\ wr' = <<>> /\ run' = "spawn"
    /\ q' = 0 /\ sent' = 0 /\ counters' = Zero /\ lastErrors' = 0
    /\ stopped' = FALSE /\ stop' = FALSE /\ wg' = 1 /\ waited' = "no"
    /\ UNCHANGED <<get, upd, db, evFaults>>

-----------------------------------------------------------------------------
(* StreamRun, the session that closes its channel, and its WaitGroup *)

\* Mutant: one of the two goroutines is not counted.
MutStreamRun ==
    /\ \/ run = "spawn" /\ run' = "add" /\ get' = "recv" /\ UNCHANGED <<upd, wg, stopped>>
       \/ run = "add" /\ run' = "test" /\ wg' = wg + 1 /\ upd' = "wait" /\ UNCHANGED <<get, stopped>>
       \/ run = "test" /\ ~stopped /\ run' = "select" /\ UNCHANGED <<get, upd, wg, stopped>>
       \/ run = "test" /\ stopped /\ run' = "off" /\ wg' = wg - 1 /\ UNCHANGED <<get, upd, stopped>>
       \/ /\ run = "select" /\ stop
          /\ stopped' = TRUE /\ run' = "off" /\ wg' = wg - 1 /\ UNCHANGED <<get, upd>>
    /\ UNCHANGED <<client, published, hand, base, wr, q, sent, counters, lastErrors, stop, waited, db, evFaults>>

\* The loop tests isStopped only before it selects on the channel.
StreamRun ==
    /\ \/ run = "spawn" /\ run' = "add" /\ get' = "recv" /\ UNCHANGED <<upd, wg, stopped>>
       \/ run = "add" /\ run' = "test" /\ wg' = wg + 2 /\ upd' = "wait" /\ UNCHANGED <<get, stopped>>
       \/ run = "test" /\ ~stopped /\ run' = "select" /\ UNCHANGED <<get, upd, wg, stopped>>
       \/ run = "test" /\ stopped /\ run' = "off" /\ wg' = wg - 1 /\ UNCHANGED <<get, upd, stopped>>
       \/ /\ run = "select" /\ stop
          /\ stopped' = TRUE /\ run' = "off" /\ wg' = wg - 1 /\ UNCHANGED <<get, upd>>
    /\ UNCHANGED <<client, published, hand, base, wr, q, sent, counters, lastErrors, stop, waited, db, evFaults>>

\* The session ends: the queue is disposed of and the channel closed.
CloseSession ==
    /\ ~stop /\ stop' = TRUE /\ q' = 0
    /\ UNCHANGED <<client, published, get, hand, upd, base, wr, run, sent, counters, lastErrors,
                   stopped, wg, waited, db, evFaults>>

\* StreamRun adds get_events to the WaitGroup after it started it: one that
\* ends at once lets Wait return early.
Wait ==
    /\ stop /\ wg = 0 /\ waited = "no"
    /\ waited' = IF run = "add" THEN "early" ELSE "yes"
    /\ UNCHANGED <<client, published, get, hand, upd, base, wr, run, q, sent, counters, lastErrors,
                   stopped, stop, wg, db, evFaults>>

\* The session's sender: SentOne, or FailedSend and the end of the session.
Send ==
    /\ ~stop /\ q > 0 /\ q' = q - 1 /\ sent' = sent + 1
    /\ UNCHANGED <<client, published, get, hand, upd, base, wr, run, counters, lastErrors,
                   stopped, stop, wg, waited, db, evFaults>>
FailedSend ==
    /\ ~stop /\ q > 0 /\ Fault
    /\ q' = 0 /\ lastErrors' = lastErrors + 1 /\ stop' = TRUE
    /\ UNCHANGED <<client, published, get, hand, upd, base, wr, run, sent, counters,
                   stopped, wg, waited, db>>

-----------------------------------------------------------------------------
(* get_events *)

GetFrame == UNCHANGED <<client, upd, base, wr, run, sent, lastErrors, stop, waited, db>>

\* C_recv_evt: a timeout, or an event, with the number lost before it; test
\* events are not for the client.
RecvEvt ==
    /\ get = "recv"
    /\ \/ get' = "check" /\ UNCHANGED <<published, hand, evFaults>>
       \/ \E m \in {0, 1}, test \in BOOLEAN :
            /\ (m = 0 /\ ~test /\ UNCHANGED evFaults) \/ Fault
            /\ published + m < MaxEvents
            /\ published' = published + m + IF test THEN 0 ELSE 1
            /\ hand' = [event |-> ~test, missed |-> m]
            /\ get' = "count"
    /\ UNCHANGED <<q, counters, stopped, wg>> /\ GetFrame

CountMissed ==
    /\ get = "count"
    /\ counters' = [counters EXCEPT !["missed"] = @ + hand.missed]
    /\ hand' = [hand EXCEPT !.missed = 0]
    /\ get' = IF hand.event THEN "queue" ELSE "check"
    /\ UNCHANGED <<published, q, stopped, wg, evFaults>> /\ GetFrame

\* Mutant: a full queue takes one more.
MutQueueEvent ==
    /\ get = "queue" /\ q <= PqMax
    /\ get' = "put"
    /\ UNCHANGED <<published, hand, q, counters, stopped, wg, evFaults>> /\ GetFrame

\* q.Len() below pq_max: send_event, whose Put fails on a disposed queue.
QueueEvent ==
    /\ get = "queue" /\ q < PqMax
    /\ get' = "put"
    /\ UNCHANGED <<published, hand, q, counters, stopped, wg, evFaults>> /\ GetFrame
SendEvent ==
    /\ get = "put"
    /\ \/ ~stop /\ q' = q + 1 /\ get' = "check" /\ hand' = [hand EXCEPT !.event = FALSE]
       \/ stop /\ get' = "leave" /\ UNCHANGED <<q, hand>>
    /\ UNCHANGED <<published, counters, stopped, wg, evFaults>> /\ GetFrame
\* Mutant: an event that finds the queue full is not counted.
MutDropEvent ==
    /\ get = "queue" /\ q >= PqMax
    /\ hand' = [hand EXCEPT !.event = FALSE] /\ get' = "check"
    /\ UNCHANGED <<published, q, counters, stopped, wg, evFaults>> /\ GetFrame

DropEvent ==
    /\ get = "queue" /\ q >= PqMax
    /\ counters' = [counters EXCEPT !["dropped"] = @ + 1]
    /\ hand' = [hand EXCEPT !.event = FALSE] /\ get' = "check"
    /\ UNCHANGED <<published, q, stopped, wg, evFaults>> /\ GetFrame

CheckStopped ==
    /\ get = "check"
    /\ get' = IF stopped THEN "leave" ELSE "recv"
    /\ UNCHANGED <<published, hand, q, counters, stopped, wg, evFaults>> /\ GetFrame

Leave ==
    /\ get = "leave" /\ get' = "off" /\ stopped' = TRUE /\ wg' = wg - 1
    /\ UNCHANGED <<published, hand, q, counters, evFaults>> /\ GetFrame

GetEvents == RecvEvt \/ CountMissed \/ QueueEvent \/ SendEvent \/ DropEvent \/ CheckStopped \/ Leave

-----------------------------------------------------------------------------
(* update_stats *)

UpdFrame == UNCHANGED <<client, published, get, hand, run, q, sent, counters, lastErrors, stopped, stop, waited>>
UpdEnds == upd' = "off" /\ wg' = wg - 1

\* Mutant: the pause before the first counter does not look at stopped.
MutAwaitCounter ==
    /\ upd = "wait"
    /\ counters # Zero \/ sent >= LatencyListSize
    /\ upd' = "load"
    /\ UNCHANGED <<base, wr, wg, db, evFaults>> /\ UpdFrame

\* Pause until a counter is not zero; compute_latency makes the latency one
\* when SentOne has filled its list.
AwaitCounter ==
    /\ upd = "wait"
    /\ stopped \/ counters # Zero \/ sent >= LatencyListSize
    /\ upd' = "load"
    /\ UNCHANGED <<base, wr, wg, db, evFaults>> /\ UpdFrame

\* The values in COUNTERS_DB are taken only from a read that failed, which has
\* none; without the address of the database the goroutine ends.
LoadCounters ==
    /\ upd = "load" /\ ~stopped
    /\ \/ upd' = "loop" /\ UNCHANGED <<wg, evFaults>>
       \/ Fault /\ UpdEnds
    /\ UNCHANGED <<base, wr, db>> /\ UpdFrame

Totals == [k \in Stats |-> counters[k] + base[k] + IF k = "dropped" THEN lastErrors ELSE 0]

\* Mutant: the counters are written only once.
MutWriteStats ==
    /\ upd = "loop" /\ ~stopped
    /\ wr = <<>> /\ wr' = <<Totals>>
    /\ db' = Totals
    /\ UNCHANGED <<upd, base, wg, evFaults>> /\ UpdFrame

\* Written when they differ from what was written last; a failing HSet is only
\* logged.
WriteStats ==
    /\ upd = "loop" /\ ~stopped
    /\ wr # <<Totals>> /\ wr' = <<Totals>>
    /\ \/ db' = Totals /\ UNCHANGED evFaults
       \/ \E lost \in SUBSET Stats \ {{}} :
            Fault /\ db' = [k \in Stats |-> IF k \in lost THEN db[k] ELSE Totals[k]]
    /\ UNCHANGED <<upd, base, wg>> /\ UpdFrame

UpdStopped ==
    /\ upd \in {"load", "loop"} /\ stopped
    /\ UpdEnds /\ UNCHANGED <<base, wr, db, evFaults>> /\ UpdFrame

UpdateStats == AwaitCounter \/ LoadCounters \/ WriteStats \/ UpdStopped

Next ==
    \/ NewEventClient \/ StreamRun \/ CloseSession \/ Wait
    \/ Send \/ FailedSend \/ GetEvents \/ UpdateStats

\* The goroutines run; event_receive returns within SUBSCRIBER_TIMEOUT.  When
\* clients come, publish or stop reading is up to them, and no
\* failure is owed.
Fairness ==
    /\ WF_vars(StreamRun /\ UNCHANGED evFaults) /\ WF_vars(GetEvents /\ UNCHANGED evFaults)
    /\ WF_vars(UpdateStats /\ UNCHANGED evFaults) /\ WF_vars(Wait)
Spec == Init /\ [][Next]_vars /\ Fairness

-----------------------------------------------------------------------------
\* The state keeps its types and bounds.
TypeOK ==
    /\ client \in 1..MaxClients /\ published \in 0..MaxEvents
    /\ get \in {"off", "recv", "count", "queue", "put", "check", "leave"}
    /\ upd \in {"off", "wait", "load", "loop"} /\ run \in {"spawn", "add", "test", "select", "off"}
    /\ counters \in [Stats -> 0..MaxEvents] /\ wg \in 0..3

\* While the session is open, every event eventd published was sent, is in the
\* queue, was counted as dropped or missed, or is in get_events' hands: none
\* vanishes, none is counted twice.
EventsAccounted ==
    ~stop => published = sent + q + counters["dropped"] + counters["missed"]
                         + hand.missed + (IF hand.event THEN 1 ELSE 0)

\* The queue of a slow receiver never exceeds pq_max.
QueueBounded == q <= PqMax

\* The session's Wait returns only when none of the three goroutines is left
\* (unless get_events ended before StreamRun counted it), so the next client
\* does not meet the last one's.
WaitsForAll == waited = "yes" => get = "off" /\ upd = "off" /\ run = "off"

\* An open session's counters reach COUNTERS_DB: when nothing more is dropped or
\* missed, what was is shown there (unless a Redis call failed).
StatsShown ==
    <>[](stop \/ evFaults > 0 \/ counters = Zero \/ \A k \in Stats : db[k] >= counters[k])

\* After the session is closed the goroutines of the event client end and the
\* session's Wait returns.
EventsStop == []<>(stop => waited # "no")

\* The event client keeps its promises to a slow reader and to the next client: no
\* event vanishes uncounted, the queue stays within pq_max, and Wait leaves no
\* goroutine behind.
EventsKept == EventsAccounted /\ QueueBounded /\ WaitsForAll

=============================================================================
