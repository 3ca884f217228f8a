---------------------------- MODULE TableStream ----------------------------
(***************************************************************************)
(* One path of a Redis table served to a subscriber by DbClient or by      *)
(* MixedDbClient: the goroutine of the path, the listener of each of its   *)
(* table paths, the keyspace notifications of Redis, and what the client   *)
(* can know of the table from the messages put into its queue.  Redis is   *)
(* external and is modelled by how the clients use it: a key may change    *)
(* between the listing of the keys, the reading of one of them and the     *)
(* processing of a notification.                                           *)
(***************************************************************************)
EXTENDS Naturals, Sequences, FiniteSets, SequencesExt

CONSTANTS Keys,        \* the keys of the table
          Setups,      \* the [client, shape, mode] that are explored
          MaxChanges,  \* bound: changes made to the table
          MaxPolls,    \* bound: polls of one subscription
          MaxFaults    \* bound: failing Redis operations

VARIABLES setup,     \* which client serves what: chosen in Init
          table,     \* Redis: the hash of each key
          gone,      \* history: "no", "deleted" or "reset" for each key
          changes,   \* changes made so far
          pc,        \* the goroutine of the path
          todo,      \* table paths it has still to go through
          toRead,    \* keys it has still to read for Head(todo)
          msiAll,    \* the values it has collected
          last,      \* the last field values it has sent, or prevUpdates
          bus,       \* notifications each pubsub has not handed out
          lst,       \* the listeners
          view,      \* the table as the client knows it
          touched,   \* history: keys changed since the current poll began
          polls, stop, faults

chans == <<bus, lst>>
hist  == <<setup, gone, changes, touched>>
vars  == <<setup, table, gone, changes, pc, todo, toRead, msiAll, last, bus,
           lst, view, touched, polls, stop, faults>>

\* Hashes: a field f with the value a or b, and in ab a second field g.  The
\* other two are no such key (no entry) and an entry without fields.
Hashes == {"a", "b", "ab"}
None   == "absent"
Value  == Hashes \cup {None, "empty"}

\* The path of a whole table, next to the paths of single keys.
Table    == "table"
Shape    == setup.shape
Mixed    == setup.client = "mixed"
OnChange == setup.mode = "onchange"
KeysOf(p) == IF p = Table THEN Keys ELSE {p}
AnyKey   == CHOOSE k \in Keys : TRUE

\* The table paths one gNMI path stands for.  MixedDbClient has exactly one,
\* DbClient one for each key of a virtual path.
Paths ==
    CASE Shape \in {"table", "polltable"} -> {Table}
      [] Shape = "field" \/ (Mixed /\ Shape # "poll") -> {AnyKey}
      [] OTHER -> Keys

NoData    == [data |-> [k \in Keys |-> None], del |-> FALSE]
Streaming == Shape \in {"table", "key"}
Polling   == Shape \in {"poll", "polltable"}

Init ==
    /\ setup \in Setups
    /\ table \in [Keys -> {None, "a"}]
    /\ gone = [k \in Keys |-> "no"]
    /\ changes = 0
    /\ pc = IF Polling THEN "idle" ELSE "subscribe"
    /\ todo \in IF Polling THEN {<<>>} ELSE SetToSeqs(Paths)
    /\ toRead = {}
    /\ msiAll = NoData
    /\ last = [k \in Keys \cup {Table} |-> None]
    /\ bus = [p \in Paths |-> <<>>]
    /\ lst = [p \in Paths |-> [pc |-> "none", msi |-> NoData.data, new |-> NoData]]
    /\ view = [k \in Keys |-> None]
    /\ touched = {}
    /\ polls = 0
    /\ stop = FALSE
    /\ faults = 0

Fault == faults < MaxFaults /\ faults' = faults + 1

-----------------------------------------------------------------------------
(* Redis: a change notifies the pubsubs whose pattern has the key.  Changes *)
(* after the end of the session are left out.                              *)

Subscribed(p) ==
    /\ Streaming /\ pc # "done"
    /\ p \notin Range(todo) \/ (pc = "read" /\ p = Head(todo))

Change(k, v, op, mark) ==
    /\ changes < MaxChanges /\ ~stop
    /\ changes' = changes + 1
    /\ table' = [table EXCEPT ![k] = v]
    /\ gone' = [gone EXCEPT ![k] = mark]
    /\ touched' = IF Polling THEN touched \cup {k} ELSE touched
    /\ bus' = [p \in Paths |->
                 IF Subscribed(p) /\ k \in KeysOf(p)
                 THEN Append(bus[p], [key |-> k, op |-> op]) ELSE bus[p]]
    /\ UNCHANGED <<setup, pc, todo, toRead, msiAll, last, lst, view, polls,
                   stop, faults>>

HSet(k) ==
    \E v \in CASE table[k] = None -> {"a", "ab"}
               [] table[k] = "a"  -> {"b"}
               [] table[k] = "b"  -> {"a"}
               [] table[k] = "ab" -> {"ab"} :
        Change(k, v, "hset", IF gone[k] = "no" THEN "no" ELSE "reset")

Del(k)  == table[k] # None /\ Change(k, None, "del", "deleted")
HDel(k) == table[k] = "ab" /\ Change(k, "a", "hdel", "reset")

-----------------------------------------------------------------------------
(* Values.                                                                 *)

\* TableData2Msi: a key without fields gives nothing.
TableData2Msi(k) == table[k]

\* MixedDbClient.tableData2Msi: as a member of a table it gives an object
\* without fields, as the only key of a path nothing.
MixedTableData2Msi(k) ==
    IF table[k] = None /\ Shape \in {"table", "polltable"} THEN "empty" ELSE table[k]

\* readVal of dbFieldSubscribe: a missing field is the empty string.
FieldVal(k) ==
    CASE table[k] = None -> "empty"
      [] table[k] = "ab" -> "a"
      [] OTHER           -> table[k]

\* readVal of dbFieldMultiSubscribe: a missing field of a virtual path, and
\* one that has not changed when only changes are wanted, are left out.
MultiFieldVal(k) ==
    IF table[k] = None \/ (setup.mode # "sample" /\ FieldVal(k) = last[k])
    THEN None ELSE FieldVal(k)

ReadVal(k) ==
    CASE Shape = "field" -> FieldVal(k)
      [] Shape = "multi" -> MultiFieldVal(k)
      [] OTHER           -> IF Mixed THEN MixedTableData2Msi(k) ELSE TableData2Msi(k)

\* What the client knows after a message: the entries of an update replace
\* those it had, and a message with Delete paths is sent with these alone.
ValToResp(m) ==
    [k \in Keys |-> IF m.del THEN None
                    ELSE IF m.data[k] = None THEN view[k] ELSE m.data[k]]

Merge(m, n) ==
    [data |-> [k \in Keys |-> IF n.data[k] = None THEN m.data[k] ELSE n.data[k]],
     del  |-> m.del \/ n.del]

-----------------------------------------------------------------------------
(* The goroutine of the path.                                              *)

\* dbTableKeySubscribe, one table path: PSubscribe, then list the keys.
Subscribe ==
    /\ pc = "subscribe" /\ todo # <<>>
    /\ toRead' = IF Head(todo) = Table THEN {k \in Keys : table[k] # None}
                                       ELSE {Head(todo)}
    /\ pc' = "read"
    /\ UNCHANGED <<hist, table, todo, msiAll, last, chans, view, polls, stop,
                   faults>>

\* One HGetAll or HGet of the path that is read.
ReadKey ==
    /\ pc = "read"
    /\ \E k \in toRead :
         /\ toRead' = toRead \ {k}
         /\ msiAll' = [msiAll EXCEPT !.data[k] =
                         IF ReadVal(k) = None THEN @ ELSE ReadVal(k)]
    /\ UNCHANGED <<hist, table, pc, todo, last, chans, view, polls, stop, faults>>

PathRead ==
    /\ pc = "read" /\ toRead = {} /\ ~Polling
    /\ todo' = Tail(todo)
    /\ pc' = IF Tail(todo) = <<>> THEN "send" ELSE "subscribe"
    /\ UNCHANGED <<hist, table, toRead, msiAll, last, chans, view, polls, stop,
                   faults>>

\* Mutant: what was notified before the listeners start is thrown away.
MutSendInitial ==
    /\ pc = "send" /\ Streaming
    /\ IF stop THEN pc' = "done" /\ UNCHANGED <<view, msiAll, chans>>
       ELSE /\ pc' = "loop"
            /\ view' = ValToResp(msiAll)
            /\ msiAll' = IF setup.mode = "sample" THEN msiAll ELSE NoData
            /\ lst' = [p \in Paths |-> [lst[p] EXCEPT !.pc = "recv"]]
            /\ bus' = [p \in Paths |-> <<>>]
    /\ UNCHANGED <<hist, table, todo, toRead, last, polls, stop, faults>>

\* sendMsiData of the initial values, after which the listeners are started.
\* Putting into a queue that has been disposed of ends the goroutine.
SendInitial ==
    /\ pc = "send" /\ Streaming
    /\ IF stop THEN pc' = "done" /\ UNCHANGED <<view, msiAll, lst>>
       ELSE /\ pc' = "loop"
            /\ view' = ValToResp(msiAll)
            /\ msiAll' = IF setup.mode = "sample" THEN msiAll ELSE NoData
            /\ lst' = [p \in Paths |-> [lst[p] EXCEPT !.pc = "recv"]]
    /\ UNCHANGED <<hist, table, todo, toRead, last, bus, polls, stop, faults>>

Update ==
    /\ pc = "loop" /\ Streaming
    /\ \E p \in Paths :
         /\ lst[p].pc = "offer"
         /\ lst' = [lst EXCEPT ![p].pc = "recv"]
         /\ IF ~OnChange THEN msiAll' = Merge(msiAll, lst[p].new) /\ UNCHANGED <<view, pc>>
            ELSE IF stop THEN pc' = "done" /\ UNCHANGED <<view, msiAll>>
            ELSE view' = ValToResp(lst[p].new) /\ UNCHANGED <<msiAll, pc>>
    /\ UNCHANGED <<hist, table, todo, toRead, last, bus, polls, stop, faults>>

Tick ==
    /\ pc = "loop" /\ Streaming /\ ~OnChange
    /\ IF stop THEN pc' = "done" /\ UNCHANGED <<view, msiAll>>
       ELSE /\ view' = ValToResp(msiAll)
            /\ msiAll' = IF setup.mode = "updates" THEN NoData
                         ELSE [msiAll EXCEPT !.del = FALSE]
            /\ UNCHANGED pc
    /\ UNCHANGED <<hist, table, todo, toRead, last, chans, polls, stop, faults>>

\* A Redis operation fails: the subscription ends with a fatal message, and
\* the pubsubs are closed by the deferred calls.
ReadFails ==
    /\ pc \in {"subscribe", "read"} /\ Streaming
    /\ Fault
    /\ pc' = "done"
    /\ UNCHANGED <<hist, table, todo, toRead, msiAll, last, chans, view, polls, stop>>

LoopStops ==
    /\ pc = "loop" /\ stop
    /\ pc' = "done"
    /\ UNCHANGED <<hist, table, todo, toRead, msiAll, last, chans, view, polls,
                   stop, faults>>

\* The steps of a goroutine for table keys.
TableKeySteps ==
    \/ Subscribe \/ ReadKey \/ PathRead \/ SendInitial \/ Update \/ Tick
    \/ ReadFails \/ LoopStops

DbTableKeySubscribe    == ~Mixed /\ Streaming /\ TableKeySteps
MixedTableKeySubscribe == Mixed /\ Streaming /\ TableKeySteps

\* Sending of a field goroutine; a value that has not changed since the last
\* one is not sent in on-change mode.
SendField ==
    /\ pc = "send" /\ Shape \in {"field", "multi"}
    /\ IF stop THEN pc' = "done" /\ UNCHANGED <<view, last>>
       ELSE /\ pc' = "loop"
            /\ view' = IF OnChange /\ Shape = "field" /\ msiAll.data[AnyKey] = last[AnyKey]
                       THEN view ELSE ValToResp(msiAll)
            /\ last' = [k \in DOMAIN last |->
                          IF k = Table \/ msiAll.data[k] = None THEN last[k]
                          ELSE msiAll.data[k]]
    /\ msiAll' = NoData
    /\ UNCHANGED <<hist, table, todo, toRead, chans, polls, stop, faults>>

\* The next interval of a field goroutine.
FieldTick ==
    /\ pc = "loop" /\ Shape \in {"field", "multi"}
    /\ pc' = "read"
    /\ \E s \in SetToSeqs(Paths) : todo' = s
    /\ toRead' = {Head(todo')}
    /\ UNCHANGED <<hist, table, msiAll, last, chans, view, polls, stop, faults>>

\* HGet fails for another reason than a missing field: the value is taken to
\* be the empty string.
FieldFails ==
    /\ pc = "read" /\ Shape \in {"field", "multi"}
    /\ Fault
    /\ \E k \in toRead : /\ msiAll' = [msiAll EXCEPT !.data[k] = "empty"]
                         /\ toRead' = toRead \ {k}
    /\ UNCHANGED <<hist, table, pc, todo, last, chans, view, polls, stop>>

FieldSteps ==
    Subscribe \/ ReadKey \/ PathRead \/ SendField \/ FieldTick \/ FieldFails
    \/ LoopStops

DbFieldSubscribe      == ~Mixed /\ Shape = "field" /\ FieldSteps
DbFieldMultiSubscribe == Shape = "multi" /\ FieldSteps
MixedFieldSubscribe   == Mixed /\ Shape = "field" /\ FieldSteps

-----------------------------------------------------------------------------
(* The listener of a table path.                                           *)

\* newMsi for a notification: deletions of a key of a table give an entry
\* without fields, and MixedDbClient adds its mark; deletions of the only key
\* of a path give nothing; hset gives the hash as it is now.
DbNewMsi(p, e) ==
    [data |-> [NoData.data EXCEPT ![e.key] =
                 IF e.op = "hset" THEN TableData2Msi(e.key)
                 ELSE IF p = Table THEN "empty" ELSE None],
     del  |-> FALSE]
MixedNewMsi(p, e) ==
    [data |-> [NoData.data EXCEPT ![e.key] =
                 IF e.op = "hset" THEN MixedTableData2Msi(e.key)
                 ELSE IF p = Table THEN "empty" ELSE None],
     del  |-> p = Table /\ e.op # "hset"]

\* One notification: what equals the last hset is not passed on, and an empty
\* newMsi is not either.  The last hset is not forgotten at a deletion.
Receive(p) ==
    /\ lst[p].pc = "recv" /\ bus[p] # <<>> /\ pc # "done"
    /\ LET e == Head(bus[p])
           n == IF Mixed THEN MixedNewMsi(p, e) ELSE DbNewMsi(p, e)
           same == e.op = "hset" /\ n.data = lst[p].msi
       IN  lst' = [lst EXCEPT ![p] =
              [pc  |-> IF same \/ n = NoData THEN "recv" ELSE "offer",
               msi |-> IF e.op = "hset" THEN n.data ELSE @.msi,
               new |-> n]]
    /\ bus' = [bus EXCEPT ![p] = Tail(@)]
    /\ UNCHANGED <<hist, table, pc, todo, toRead, msiAll, last, view, polls,
                   stop, faults>>

\* ReceiveTimeout fails, because of Redis or because the goroutine of the path
\* has closed the pubsub: the listener waits for the stop channel.
ReceiveFails(p) ==
    /\ lst[p].pc = "recv"
    /\ IF pc = "done" THEN UNCHANGED faults ELSE Fault
    /\ lst' = [lst EXCEPT ![p].pc = "deaf"]
    /\ UNCHANGED <<hist, table, pc, todo, toRead, msiAll, last, bus, view,
                   polls, stop>>

\* The read of the changed key fails: the listener ends.
ListenerFatal(p) ==
    /\ lst[p].pc = "recv" /\ bus[p] # <<>> /\ Head(bus[p]).op = "hset"
    /\ Fault
    /\ lst' = [lst EXCEPT ![p].pc = "fatal"]
    /\ UNCHANGED <<hist, table, pc, todo, toRead, msiAll, last, bus, view,
                   polls, stop>>

\* Mutant: a listener whose pubsub failed does not look at the stop channel.
MutListenerStops(p) ==
    /\ lst[p].pc = "recv" /\ stop
    /\ lst' = [lst EXCEPT ![p].pc = "done"]
    /\ UNCHANGED <<hist, table, pc, todo, toRead, msiAll, last, bus, view,
                   polls, stop, faults>>

ListenerStops(p) ==
    /\ lst[p].pc \in {"recv", "deaf"} /\ stop
    /\ lst' = [lst EXCEPT ![p].pc = "done"]
    /\ UNCHANGED <<hist, table, pc, todo, toRead, msiAll, last, bus, view,
                   polls, stop, faults>>

DbSingleTableKeySubscribe(p) ==
    /\ ~Mixed /\ Streaming
    /\ Receive(p) \/ ReceiveFails(p) \/ ListenerFatal(p) \/ ListenerStops(p)
MixedSingleTableKeySubscribe(p) ==
    /\ Mixed /\ Streaming
    /\ Receive(p) \/ ReceiveFails(p) \/ ListenerFatal(p) \/ ListenerStops(p)

-----------------------------------------------------------------------------
(* Polling.                                                                *)

PollBegin ==
    /\ pc = "idle" /\ polls < MaxPolls
    /\ polls' = polls + 1
    /\ touched' = {}
    /\ \E s \in SetToSeqs(Paths) : todo' = s
    /\ pc' = "path"
    /\ UNCHANGED <<setup, table, gone, changes, toRead, msiAll, last, chans,
                   view, stop, faults>>

\* The next path.  getDbtablePath of MixedDbClient wants a table to have a
\* key when it is asked for as a whole: PollRun returns otherwise, and so it
\* does when a read fails.
PollPath ==
    /\ pc = "path" /\ todo # <<>>
    /\ toRead' = {k \in KeysOf(Head(todo)) : Head(todo) # Table \/ table[k] # None}
    /\ pc' = IF Mixed /\ Head(todo) = Table /\ toRead' = {} THEN "done" ELSE "read"
    /\ UNCHANGED <<hist, table, todo, msiAll, last, chans, view, polls, stop,
                   faults>>

PollFails ==
    /\ pc = "read" /\ Polling /\ toRead # {}
    /\ Fault
    /\ pc' = "done"
    /\ UNCHANGED <<hist, table, todo, toRead, msiAll, last, chans, view, polls, stop>>

\* Mutant: nothing is sent for a path that has lost its value.
MutPollPut ==
    /\ pc = "read" /\ toRead = {} /\ Polling
    /\ LET p == Head(todo) IN
         view' = [k \in Keys |-> IF msiAll # NoData /\ k \in KeysOf(p) THEN msiAll.data[k] ELSE view[k]]
    /\ msiAll' = NoData
    /\ todo' = Tail(todo)
    /\ pc' = IF Tail(todo) = <<>> THEN "synced" ELSE "path"
    /\ UNCHANGED <<hist, table, toRead, last, chans, polls, stop, faults>>

\* A value, or a deletion the first time that there is none; last is "a" for
\* a path that had a value, which is prevUpdates.
PollPut ==
    /\ pc = "read" /\ toRead = {} /\ Polling
    /\ LET p == Head(todo) IN
         IF msiAll = NoData
         THEN /\ view' = IF last[p] = "a" THEN [k \in Keys |-> IF k \in KeysOf(p) THEN None ELSE view[k]]
                         ELSE view
              /\ last' = [last EXCEPT ![p] = None]
         ELSE /\ view' = [k \in Keys |-> IF k \in KeysOf(p) THEN msiAll.data[k] ELSE view[k]]
              /\ last' = [last EXCEPT ![p] = "a"]
    /\ msiAll' = NoData
    /\ todo' = Tail(todo)
    /\ pc' = IF Tail(todo) = <<>> THEN "synced" ELSE "path"
    /\ UNCHANGED <<hist, table, toRead, chans, polls, stop, faults>>

PollSync ==
    /\ pc = "synced"
    /\ pc' = "idle"
    /\ UNCHANGED <<hist, table, todo, toRead, msiAll, last, chans, view, polls,
                   stop, faults>>

PollStops ==
    /\ pc = "idle" /\ stop
    /\ pc' = "done"
    /\ UNCHANGED <<hist, table, todo, toRead, msiAll, last, chans, view, polls,
                   stop, faults>>

PollSteps == PollBegin \/ PollPath \/ PollFails \/ ReadKey \/ PollPut
             \/ PollSync \/ PollStops
DbPollRun    == ~Mixed /\ Polling /\ PollSteps
MixedPollRun == Mixed /\ Polling /\ PollSteps

-----------------------------------------------------------------------------
\* Client.Close closes the stop channel and disposes of the queue.
StopSession ==
    /\ ~stop
    /\ stop' = TRUE
    /\ UNCHANGED <<hist, table, pc, todo, toRead, msiAll, last, chans, view,
                   polls, faults>>

Redis == \E k \in Keys : HSet(k) \/ Del(k) \/ HDel(k)

Serve ==
    \/ DbTableKeySubscribe \/ MixedTableKeySubscribe
    \/ DbFieldSubscribe \/ DbFieldMultiSubscribe \/ MixedFieldSubscribe
    \/ DbPollRun \/ MixedPollRun
Listen(p) == DbSingleTableKeySubscribe(p) \/ MixedSingleTableKeySubscribe(p)

Next == Redis \/ Serve \/ StopSession \/ \E p \in Paths : Listen(p)

\* The goroutines are scheduled, intervals end and Redis answers.  Changes of
\* the table, polls and the end of the session are up to others, and no
\* failure is ever owed.
Fairness ==
    /\ WF_vars(Serve /\ ~PollBegin /\ UNCHANGED faults)
    /\ WF_vars(FieldTick) /\ WF_vars(Tick) /\ WF_vars(LoopStops)
    /\ WF_vars(Update)
    /\ \A p \in Keys \cup {Table} : WF_vars(p \in Paths /\ Listen(p) /\ UNCHANGED faults)

Spec == Init /\ [][Next]_vars /\ Fairness

-----------------------------------------------------------------------------
\* The state keeps its types and bounds.
TypeOK ==
    /\ setup \in Setups
    /\ table \in [Keys -> Hashes \cup {None}]
    /\ gone \in [Keys -> {"no", "deleted", "reset"}]
    /\ pc \in {"subscribe", "read", "send", "loop", "idle", "path", "synced", "done"}
    /\ toRead \subseteq Keys /\ touched \subseteq Keys
    /\ msiAll \in [data : [Keys -> Value], del : BOOLEAN]
    /\ last \in [Keys \cup {Table} -> Value]
    /\ view \in [Keys -> Value]
    /\ \A p \in Paths :
         /\ lst[p].pc \in {"none", "recv", "offer", "deaf", "fatal", "done"}
         /\ lst[p].msi \in [Keys -> Value]
         /\ \A i \in 1 .. Len(bus[p]) : bus[p][i].key \in KeysOf(p)
    /\ changes \in 0 .. MaxChanges /\ polls \in 0 .. MaxPolls
    /\ faults \in 0 .. MaxFaults /\ stop \in BOOLEAN

Same(v, w) == v = w \/ {v, w} \subseteq {None, "empty"}

\* The keys a stream keeps right at the client.  Not among them: in a table, a
\* key that was set again after a deletion, since the listener compares with
\* the hash it sent before the deletion, and one with a deleted field, whose
\* entry is sent without fields; for paths of single keys every deletion,
\* since it is not sent; and for tables of MixedDbClient all the keys once any
\* is deleted, since the whole path is, until SAMPLE sends them all again.
Owed(k) ==
    /\ \E p \in Paths : k \in KeysOf(p)
    /\ CASE Shape = "field" -> TRUE
         [] Shape = "multi" -> gone[k] # "deleted"
         [] Shape = "key"   -> gone[k] = "no"
         [] OTHER -> IF Mixed /\ setup.mode # "sample" THEN \A j \in Keys : gone[j] = "no"
                     ELSE gone[k] # "reset"

Expected(k) == IF Shape \in {"field", "multi"} THEN FieldVal(k) ELSE table[k]

Silent == stop \/ pc = "done" \/ \E p \in Paths : lst[p].pc \in {"deaf", "fatal"}

\* Every stream converges: once the table rests, and unless the session ended
\* or Redis failed, what dbTableKeySubscribe, its listeners and the field
\* goroutines have sent lets the client know the value of every key the stream
\* keeps; no change is lost between the first read and the listeners.
Converges ==
    <>[](Silent \/ Polling \/ \A k \in Keys : Owed(k) => Same(view[k], Expected(k)))

\* Polls are exact: when PollRun of either client puts the sync of a round,
\* the client knows the value, or the absence, of every key that did not
\* change during the round, also of keys that went between two polls.
PollExact ==
    pc = "synced" => \A k \in Keys \ touched : Same(view[k], table[k])

\* Closing the stop channel ends the goroutine of the path and every listener
\* but one that is just handing over a value (dbSingleTableKeySubscribe sends
\* on updateChannel outside its select).
StopEnds ==
    []<>(stop => /\ pc = "done"
                 /\ \A p \in Paths : lst[p].pc \notin {"recv", "deaf"})

=============================================================================
