-------------------------- MODULE SubscribeSession --------------------------
(***************************************************************************)
(* One gNMI Subscribe RPC: Client.Run, its recv goroutine, its send loop,  *)
(* Client.Close, and the goroutines of the data client that Run starts     *)
(* (gnmi_server/client_subscribe.go and the StreamRun, PollRun and OnceRun *)
(* methods of sonic_data_client).  The goroutines share a priority queue,  *)
(* one Go channel (c.stop, c.polled or c.once, by mode) and a WaitGroup.   *)
(*                                                                         *)
(* The WaitGroup is the set of goroutines that still owe a Done: every     *)
(* goroutine calls Add and Done at most once.  Client.Close runs under     *)
(* c.mu and is one step: no other goroutine of the session reads both the  *)
(* queue and the channel between two of its own blocking operations.       *)
(***************************************************************************)
EXTENDS Naturals, Sequences, FiniteSets

CONSTANTS
    Paths,     \* the paths of the SubscriptionList
    Combos,    \* the <<mode, kind of data client>> pairs a run considers
    MaxQueue,  \* bound: a periodic update is enqueued only below this length
    MaxOwed,   \* bound: Poll requests the client leaves unanswered at a time
    Faults     \* environment events a run admits, a subset of AllFaults

Modes == {"STREAM", "POLL", "ONCE"}
Kinds == {"db", "nondb", "event", "transl"}
AllFaults == {"dupEarly",    \* a second stream with the same key arrives before Run has started its goroutines
              "dup",         \* ... or while a STREAM session is running
              "dupPoll",     \* ... or while a POLL or ONCE session is running
              "terminate",   \* translib reports IsTerminated
              "readError"}   \* DbClient.PollRun cannot build a value
Helpers == {"get", "stats", "resp"}    \* get_events, update_stats, processResponses
Children == Paths \cup Helpers

ASSUME PathsAssumption == IsFiniteSet(Paths) /\ Paths # {} /\ Paths \cap (Helpers \cup {"dc"}) = {}
ASSUME CombosAssumption == Combos \subseteq Modes \X Kinds /\ Combos \cap ({"POLL", "ONCE"} \X {"event"}) = {}
ASSUME BoundsAssumption == MaxQueue \in Nat \ {0} /\ MaxOwed \in Nat \ {0}
ASSUME FaultsAssumption == Faults \subseteq AllFaults

VARIABLES
    mode, kind,   \* c.subscribe.Mode, and the data client chosen by Run
    present,      \* the paths the first pass has a value for
    run,          \* the RPC goroutine: Run and, inside it, send
    recv,         \* the recv goroutine
    dc,           \* the goroutine of StreamRun, PollRun or OnceRun
    child,        \* the goroutines the data client starts, one per path or helper
    wg,           \* c.w: the goroutines that have not called Done
    q, disposed,  \* c.q
    hand,         \* the item send has taken from c.q and not yet sent
    ch, tokens,   \* c.stop, c.polled or c.once (capacity 1)
    todo,         \* the paths the current round still has to read
    stopped,      \* EventClient.stopped
    slot,         \* this session holds an entry of the connection manager
    ctx, half,    \* the client: its stream context; it has half-closed the stream
    owed,         \* sync responses the client is waiting for
    seen, synced, \* what the client has received: paths, a sync response
    crashed       \* a panic nobody recovers: the process is gone

vars == <<mode, kind, present, run, recv, dc, child, wg, q, disposed, hand, ch, tokens, todo,
          stopped, slot, ctx, half, owed, seen, synced, crashed>>
session == <<mode, kind, present>>
client == <<ctx, half, owed, seen, synced>>
queue == <<q, disposed>>

-----------------------------------------------------------------------------
(* The queue: items are ordered by timestamp.  An item is stamped when it is put, *)
(* except a translib notification, which translib has stamped some time before.   *)
Data(p) == [type |-> "data", path |-> p]
Sync == [type |-> "sync", path |-> "none"]
Fatal == [type |-> "fatal", path |-> "none"]
NoItem == [type |-> "none", path |-> "none"]
Items == {Data(p) : p \in Paths} \cup {Sync, Fatal}

\* PriorityQueue.Put: nothing happens on a disposed queue (the error is returned).
Put(item) == q' = IF disposed THEN q ELSE Append(q, item)

\* The positions PriorityQueue.Get(1) may return: an item with the least timestamp, the
\* one put first or a notification whose own stamp is older.
Notifications == {i \in 1..Len(q) : kind = "transl" /\ q[i].type = "data"}
Least == Notifications \cup ({1} \cap (1..Len(q)))

RemoveItem(s, i) == [j \in 1..(Len(s) - 1) |-> IF j < i THEN s[j] ELSE s[j + 1]]

-----------------------------------------------------------------------------
\* A goroutine of a live process is at loc.
At(pc, loc) == ~crashed /\ pc = loc

Init ==
    /\ \E c \in Combos : mode = c[1] /\ kind = c[2]
    /\ present \in IF kind = "transl" THEN SUBSET Paths ELSE {Paths}
    /\ run = "init" /\ recv = "none" /\ dc = "none"
    /\ child = [g \in Children |-> "none"]
    /\ wg = {}
    /\ q = <<>> /\ disposed = FALSE /\ hand = NoItem
    /\ ch = "nil" /\ tokens = 0
    /\ todo = {} /\ stopped = FALSE
    /\ slot = FALSE
    /\ ctx = "live" /\ half = FALSE /\ owed = 1
    /\ seen = {} /\ synced = FALSE
    /\ crashed = FALSE

\* Mutant: Close without the test of q.Disposed.
MutCloseTwice ==
    /\ disposed' = TRUE
    /\ q' = <<>>
    /\ ch' = IF ch = "open" THEN "closed" ELSE ch
    /\ crashed' = (ch = "closed")

\* Client.Close.  Closing a closed channel panics.
Close ==
    IF disposed
    THEN UNCHANGED <<q, disposed, ch, crashed>>
    ELSE /\ disposed' = TRUE
         /\ q' = <<>>
         /\ ch' = IF ch = "open" THEN "closed" ELSE ch
         /\ crashed' = (ch = "closed")

-----------------------------------------------------------------------------
(* Client.Run *)

\* The first message is missing, is no SubscriptionList, or has conflicting origins.
RunReject ==
    /\ At(run, "init")
    /\ run' = "done" /\ ctx' = "done"
    /\ UNCHANGED <<session, recv, dc, child, wg, queue, hand, ch, tokens, todo, stopped,
                   slot, half, owed, seen, synced, crashed>>

\* The subscription is well formed: ask the connection manager for a slot.
RunAdmit ==
    /\ At(run, "init")
    /\ \/ run' = "setup" /\ slot' = TRUE /\ UNCHANGED ctx
       \/ run' = "done" /\ ctx' = "done" /\ UNCHANGED slot   \* at capacity
    /\ UNCHANGED <<session, recv, dc, child, wg, queue, hand, ch, tokens, todo, stopped,
                   half, owed, seen, synced, crashed>>

\* No data client serves the request, or authentication fails; the slot is given back.
RunRefuse ==
    /\ At(run, "setup")
    /\ run' = "done" /\ slot' = FALSE /\ ctx' = "done"
    /\ UNCHANGED <<session, recv, dc, child, wg, queue, hand, ch, tokens, todo, stopped,
                   half, owed, seen, synced, crashed>>

\* Make the channel of the mode, start the data client and recv, enter send.
RunStart ==
    /\ At(run, "setup")
    /\ ch' = "open"
    /\ tokens' = IF mode = "STREAM" THEN 0 ELSE 1
    /\ wg' = wg \cup {"dc"}
    /\ dc' = "start" /\ recv' = "recv" /\ run' = "send"
    /\ UNCHANGED <<session, child, queue, hand, todo, stopped, slot, client, crashed>>

\* send: q.Get(1) returns an item, or nothing once the queue is disposed.  ValToResp
\* turns a fatal value into the error send returns.
SendGet ==
    /\ At(run, "send")
    /\ \/ /\ disposed
          /\ run' = "close"
          /\ UNCHANGED <<q, hand>>
       \/ /\ ~disposed
          /\ \E i \in Least :
                /\ q' = RemoveItem(q, i)
                /\ IF q[i].type = "fatal"
                   THEN run' = "close" /\ UNCHANGED hand
                   ELSE run' = "sending" /\ hand' = q[i]
    /\ UNCHANGED <<session, recv, dc, child, wg, disposed, ch, tokens, todo, stopped, slot,
                   client, crashed>>

\* send: stream.Send succeeds while the client is there, and fails once it is gone.
SendMsg ==
    /\ At(run, "sending")
    /\ \/ /\ ctx = "live"
          /\ run' = "send"
          /\ seen' = IF hand.type = "data" THEN seen \cup {hand.path} ELSE seen
          /\ synced' = (synced \/ hand.type = "sync")
          /\ owed' = IF hand.type = "sync" /\ owed > 0 THEN owed - 1 ELSE owed
       \/ /\ ctx = "done"
          /\ run' = "close"
          /\ UNCHANGED <<seen, synced, owed>>
    /\ hand' = NoItem
    /\ UNCHANGED <<session, recv, dc, child, wg, queue, ch, tokens, todo, stopped, slot,
                   ctx, half, crashed>>

RunClose ==
    /\ At(run, "close")
    /\ Close
    /\ run' = "wait"
    /\ UNCHANGED <<session, recv, dc, child, wg, hand, tokens, todo, stopped, slot, client>>

\* c.w.Wait returns; the deferred calls give the slot back; the RPC ends.
RunReturn ==
    /\ At(run, "wait")
    /\ wg = {}
    /\ run' = "done" /\ slot' = FALSE /\ ctx' = "done"
    /\ UNCHANGED <<session, recv, dc, child, wg, queue, hand, ch, tokens, todo, stopped,
                   half, owed, seen, synced, crashed>>

-----------------------------------------------------------------------------
(* Client.recv *)

\* stream.Recv returns an error, or the end of the client's messages.
RecvEnd ==
    /\ At(recv, "recv")
    /\ \/ ctx = "done" /\ recv' = "close"
       \/ half /\ recv' = IF mode = "STREAM" THEN "eof" ELSE "close"
    /\ UNCHANGED <<session, run, dc, child, wg, queue, hand, ch, tokens, todo, stopped, slot,
                   client, crashed>>

\* stream.Recv returns a request: in POLL mode anything but a Poll ends recv.  In the
\* other modes a request is logged and ignored.
RecvRequest ==
    /\ At(recv, "recv") /\ mode = "POLL"
    /\ ctx = "live" /\ ~half
    /\ \/ owed < MaxOwed /\ recv' = "push" /\ owed' = owed + 1
       \/ recv' = "close" /\ UNCHANGED owed
    /\ UNCHANGED <<session, run, dc, child, wg, queue, hand, ch, tokens, todo, stopped, slot,
                   ctx, half, seen, synced, crashed>>

\* A STREAM client that half-closed is still listening: wait for its context.
RecvEofWait ==
    /\ At(recv, "eof")
    /\ ctx = "done"
    /\ recv' = "close"
    /\ UNCHANGED <<session, run, dc, child, wg, queue, hand, ch, tokens, todo, stopped, slot,
                   client, crashed>>

\* c.polled <- struct{}{}: blocks while the channel is full, panics once it is closed.
RecvPush ==
    /\ At(recv, "push")
    /\ \/ /\ ch = "closed"
          /\ crashed' = TRUE
          /\ UNCHANGED <<recv, tokens>>
       \/ /\ ch = "open" /\ tokens = 0
          /\ tokens' = 1 /\ recv' = "recv"
          /\ UNCHANGED crashed
    /\ UNCHANGED <<session, run, dc, child, wg, queue, hand, ch, todo, stopped, slot, client>>

RecvClose ==
    /\ At(recv, "close")
    /\ Close
    /\ recv' = "done"
    /\ UNCHANGED <<session, run, dc, child, wg, hand, tokens, todo, stopped, slot, client>>

-----------------------------------------------------------------------------
(* The data client's goroutine.  DbClient: kind "db"; NonDbClient: "nondb";       *)
(* EventClient: "event"; TranslClient: "transl".                                  *)

Serves(m, k) == mode = m /\ kind = k
Done(g) == wg' = wg \ {g}
StartChildren(S, pc) == child' = [g \in Children |-> IF g \in S THEN pc ELSE child[g]]
EndChild(g) == child' = [child EXCEPT ![g] = "done"]

\* Mutant: the per-subscription goroutines do not join the WaitGroup.
MutDbStreamStartNoAdd ==
    /\ At(dc, "start") /\ Serves("STREAM", "db")
    /\ StartChildren(Paths, "init")
    /\ dc' = "syncWait"
    /\ UNCHANGED <<session, run, recv, wg, queue, hand, ch, tokens, todo, stopped, slot, client, crashed>>

\* DbClient.StreamRun starts a goroutine per subscription; a subscription of an
\* unsupported mode is fatal, and those already started go on.
DbStreamStart ==
    /\ At(dc, "start") /\ Serves("STREAM", "db")
    /\ \E S \in SUBSET Paths :
          /\ StartChildren(S, "init")
          /\ IF S = Paths
             THEN /\ dc' = "syncWait"
                  /\ wg' = wg \cup S
                  /\ UNCHANGED q
             ELSE /\ dc' = "done"
                  /\ wg' = (wg \cup S) \ {"dc"}
                  /\ Put(Fatal)
    /\ UNCHANGED <<session, run, recv, disposed, hand, ch, tokens, todo, stopped, slot, client, crashed>>

\* dbFieldSubscribe, dbFieldMultiSubscribe and dbTableKeySubscribe up to synced.Done:
\* the first value is queued, or the subscription fails with a fatal message.
DbSubInit(p) ==
    /\ At(child[p], "init")
    /\ \/ /\ ~disposed
          /\ Put(Data(p))
          /\ child' = [child EXCEPT ![p] = "loop"]
          /\ UNCHANGED wg
       \/ /\ Put(Fatal)
          /\ EndChild(p) /\ Done(p)
    /\ UNCHANGED <<session, run, recv, dc, disposed, hand, ch, tokens, todo, stopped, slot, client, crashed>>

\* Mutant: the sync message does not wait for the first values.
MutDbSyncedEarly ==
    /\ At(dc, "syncWait")
    /\ Put(Sync)
    /\ dc' = "stopWait"
    /\ UNCHANGED <<session, run, recv, child, wg, disposed, hand, ch, tokens, todo, stopped, slot, client, crashed>>

\* c.synced.Wait, then the sync message.
DbSynced ==
    /\ At(dc, "syncWait")
    /\ \A p \in Paths : child[p] # "init"
    /\ Put(Sync)
    /\ dc' = "stopWait"
    /\ UNCHANGED <<session, run, recv, child, wg, disposed, hand, ch, tokens, todo, stopped, slot, client, crashed>>

\* <-c.channel at the end of DbClient.StreamRun and NonDbClient.StreamRun.
StreamStop ==
    /\ At(dc, "stopWait")
    /\ ch = "closed"
    /\ dc' = "done" /\ Done("dc")
    /\ UNCHANGED <<session, run, recv, child, queue, hand, ch, tokens, todo, stopped, slot, client, crashed>>

\* A DbClient subscription goroutine queues an update; it ends with a fatal message
\* on an error, and when the queue refuses the update.
DbSubTick(p) ==
    /\ At(child[p], "loop") /\ kind = "db"
    /\ \/ /\ ~disposed /\ Len(q) < MaxQueue
          /\ Put(Data(p))
          /\ UNCHANGED <<child, wg>>
       \/ /\ Len(q) < MaxQueue
          /\ Put(Fatal)
          /\ EndChild(p) /\ Done(p)
    /\ UNCHANGED <<session, run, recv, dc, disposed, hand, ch, tokens, todo, stopped, slot, client, crashed>>

\* NonDbClient streamSample: the result of Put is ignored.
NonDbSubTick(p) ==
    /\ At(child[p], "loop") /\ kind = "nondb"
    /\ Len(q) < MaxQueue
    /\ Put(Data(p))
    /\ UNCHANGED <<session, run, recv, dc, child, wg, disposed, hand, ch, tokens, todo, stopped, slot, client, crashed>>

\* case <-c.channel of a subscription goroutine (NonDbClient's are not in the WaitGroup).
SubStop(p) ==
    /\ At(child[p], "loop")
    /\ ch = "closed"
    /\ EndChild(p) /\ Done(p)
    /\ UNCHANGED <<session, run, recv, dc, queue, hand, ch, tokens, todo, stopped, slot, client, crashed>>

\* A round that reads every path once: the body of PollRun and OnceRun, and the
\* first pass of the streams of NonDbClient and TranslClient.
StartRound == todo' = Paths /\ dc' = "round"

\* NonDbClient.StreamRun: invalid subscriptions are fatal; with no valid one it returns.
NonDbStreamStart ==
    /\ At(dc, "start") /\ Serves("STREAM", "nondb")
    /\ \/ StartRound /\ UNCHANGED <<q, wg>>
       \/ Put(Fatal) /\ dc' = "done" /\ Done("dc") /\ UNCHANGED todo
       \/ dc' = "done" /\ Done("dc") /\ UNCHANGED <<q, todo>>
    /\ UNCHANGED <<session, run, recv, child, disposed, hand, ch, tokens, stopped, slot, client, crashed>>

\* TranslClient's three run methods reject a request with a fatal message (a bad bundle
\* version; for a stream also an unsupported path, mode or interval).
TranslReject ==
    /\ At(dc, "start") /\ kind = "transl"
    /\ Put(Fatal)
    /\ dc' = "done" /\ Done("dc")
    /\ UNCHANGED <<session, run, recv, child, disposed, hand, ch, tokens, todo, stopped, slot, client, crashed>>

\* TranslClient.StreamRun: the first pass; on-change paths get a processResponses goroutine.
TranslStreamStart ==
    /\ At(dc, "start") /\ Serves("STREAM", "transl")
    /\ StartRound
    /\ \/ UNCHANGED <<child, wg>>
       \/ StartChildren({"resp"}, "loop") /\ wg' = wg \cup {"resp"}
    /\ UNCHANGED <<session, run, recv, queue, hand, ch, tokens, stopped, slot, client, crashed>>

\* EventClient.StreamRun starts get_events and update_stats.
EventStreamStart ==
    /\ At(dc, "start") /\ Serves("STREAM", "event")
    /\ StartChildren({"get", "stats"}, "loop")
    /\ wg' = wg \cup {"get", "stats"}
    /\ dc' = "eventWait"
    /\ UNCHANGED <<session, run, recv, queue, hand, ch, tokens, todo, stopped, slot, client, crashed>>

EventStop ==
    /\ At(dc, "eventWait")
    /\ ch = "closed"
    /\ stopped' = TRUE
    /\ dc' = "done" /\ Done("dc")
    /\ UNCHANGED <<session, run, recv, child, queue, hand, ch, tokens, todo, slot, client, crashed>>

\* get_events: an event is queued, or dropped at pq_max; a refused Put ends the loop.
GetEvent ==
    /\ At(child["get"], "loop")
    /\ \/ /\ ~disposed /\ Len(q) < MaxQueue
          /\ \E p \in Paths : Put(Data(p))
          /\ UNCHANGED <<child, wg, stopped>>
       \/ /\ disposed \/ stopped
          /\ EndChild("get") /\ Done("get") /\ stopped' = TRUE
          /\ UNCHANGED q
    /\ UNCHANGED <<session, run, recv, dc, disposed, hand, ch, tokens, todo, slot, client, crashed>>

\* Mutant: update_stats goes on with its periodic loop.
MutStatsEnd == At(child["stats"], "loop") /\ stopped /\ UNCHANGED vars

\* update_stats leaves its loop once the client is stopped.
StatsEnd ==
    /\ At(child["stats"], "loop")
    /\ stopped
    /\ EndChild("stats") /\ Done("stats")
    /\ UNCHANGED <<session, run, recv, dc, queue, hand, ch, tokens, todo, stopped, slot, client, crashed>>

\* PollRun and TranslClient.OnceRun receive from their channel: a token starts a round,
\* a closed channel ends the goroutine (the fatal message TranslClient then puts meets a
\* disposed queue).
RoundStart ==
    /\ \/ At(dc, "start") /\ mode = "POLL"
       \/ At(dc, "start") /\ Serves("ONCE", "transl")
       \/ At(dc, "idle")
    /\ \/ /\ tokens = 1
          /\ tokens' = 0 /\ StartRound /\ UNCHANGED wg
       \/ /\ tokens = 0 /\ ch = "closed"
          /\ dc' = "done" /\ Done("dc") /\ UNCHANGED <<tokens, todo>>
    /\ UNCHANGED <<session, run, recv, child, queue, hand, ch, stopped, slot, client, crashed>>

\* OnceRun of DbClient, MixedDbClient and NonDbClient returns at once.
EmptyRun ==
    /\ At(dc, "start") /\ kind # "transl" /\ mode = "ONCE"
    /\ dc' = "done"
    /\ UNCHANGED <<session, run, recv, child, wg, queue, hand, ch, tokens, todo, stopped, slot, client, crashed>>

\* One path of a round is read and queued.  A poll, and translib (which sends nothing
\* for an empty subtree or under updates_only), queue nothing for missing data; an error
\* of translib is fatal, and the round goes on.
RoundPath(p) ==
    /\ At(dc, "round") /\ p \in todo
    /\ todo' = todo \ {p}
    /\ \/ p \in present /\ Put(Data(p))
       \/ (mode = "POLL" \/ p \notin present) /\ UNCHANGED q
       \/ kind = "transl" /\ Put(Fatal)
    /\ UNCHANGED <<session, run, recv, dc, child, wg, disposed, hand, ch, tokens, stopped, slot, client, crashed>>

\* DbClient.PollRun returns, without a message, when a value cannot be built.
PollReadError ==
    /\ At(dc, "round") /\ Serves("POLL", "db") /\ todo # {}
    /\ "readError" \in Faults
    /\ dc' = "done" /\ Done("dc") /\ todo' = {}
    /\ UNCHANGED <<session, run, recv, child, queue, hand, ch, tokens, stopped, slot, client, crashed>>

\* Mutant: a poll round without its sync message.
MutRoundSyncSilent ==
    /\ At(dc, "round") /\ todo = {}
    /\ dc' = "idle"
    /\ UNCHANGED <<session, run, recv, child, wg, queue, hand, ch, tokens, todo, stopped, slot, client, crashed>>

\* The round is over: the sync message, and what the data client does next.  With
\* on-change paths it is processResponses that puts the sync message, if it still runs.
RoundSync ==
    /\ At(dc, "round") /\ todo = {}
    /\ IF child["resp"] = "done" THEN UNCHANGED q ELSE Put(Sync)
    /\ \/ mode = "POLL" /\ dc' = "idle" /\ UNCHANGED <<child, wg>>
       \/ mode = "ONCE" /\ dc' = "done" /\ Done("dc") /\ UNCHANGED child
       \/ Serves("STREAM", "nondb") /\ dc' = "stopWait" /\ StartChildren(Paths, "loop") /\ UNCHANGED wg
       \/ Serves("STREAM", "transl") /\ dc' = "tick" /\ UNCHANGED <<child, wg>>
    /\ UNCHANGED <<session, run, recv, disposed, hand, ch, tokens, todo, stopped, slot, client, crashed>>

\* TranslClient.StreamRun's select loop: a ticker fires, or the stop channel is closed.
TranslTick ==
    /\ At(dc, "tick") /\ ~disposed /\ Len(q) < MaxQueue
    /\ \E p \in Paths : Put(Data(p))
    /\ UNCHANGED <<session, run, recv, dc, child, wg, disposed, hand, ch, tokens, todo, stopped, slot, client, crashed>>

TranslStop ==
    /\ At(dc, "tick")
    /\ ch = "closed" \/ disposed
    /\ dc' = "done" /\ Done("dc")
    /\ UNCHANGED <<session, run, recv, child, queue, hand, ch, tokens, todo, stopped, slot, client, crashed>>

\* processResponses: a notification is queued.
RespNotify ==
    /\ At(child["resp"], "loop") /\ ~disposed /\ Len(q) < MaxQueue
    /\ \E p \in Paths : Put(Data(p))
    /\ UNCHANGED <<session, run, recv, dc, child, wg, disposed, hand, ch, tokens, todo, stopped, slot, client, crashed>>

\* processResponses: translib disposes its queue once the stop channel is closed.
RespEnd ==
    /\ At(child["resp"], "loop") /\ ch = "closed"
    /\ EndChild("resp") /\ Done("resp")
    /\ UNCHANGED <<session, run, recv, dc, queue, hand, ch, tokens, todo, stopped, slot, client, crashed>>

\* processResponses: IsTerminated.  A fatal message, then close(c.channel), whose panic
\* on a closed channel recoverSubscribe catches.
RespTerminated ==
    /\ At(child["resp"], "loop") /\ "terminate" \in Faults
    /\ Put(Fatal)
    /\ ch' = "closed"
    /\ EndChild("resp") /\ Done("resp")
    /\ UNCHANGED <<session, run, recv, dc, disposed, hand, tokens, todo, stopped, slot, client, crashed>>

-----------------------------------------------------------------------------
(* The environment *)

\* The client cancels the RPC or its connection is lost.
ClientGone ==
    /\ ctx = "live"
    /\ ctx' = "done"
    /\ UNCHANGED <<session, run, recv, dc, child, wg, queue, hand, ch, tokens, todo, stopped, slot,
                   half, owed, seen, synced, crashed>>

\* The client closes its sending side and goes on listening.
ClientHalfClose ==
    /\ ctx = "live" /\ ~half
    /\ half' = TRUE
    /\ UNCHANGED <<session, run, recv, dc, child, wg, queue, hand, ch, tokens, todo, stopped, slot,
                   ctx, owed, seen, synced, crashed>>

\* Server.Subscribe of another stream finds this client under its key: oc.Close().
DuplicateClose ==
    /\ ~crashed
    /\ \/ "dupEarly" \in Faults /\ run \in {"init", "setup"}
       \/ (IF mode = "STREAM" THEN "dup" ELSE "dupPoll") \in Faults /\ run \in {"send", "sending", "close", "wait"}
    /\ ~disposed
    /\ Close
    /\ UNCHANGED <<session, run, recv, dc, child, wg, hand, tokens, todo, stopped, slot, client>>

\* Every goroutine has returned.
Ended ==
    /\ run = "done" /\ recv \in {"none", "done"} /\ dc \in {"none", "done"}
    /\ \A g \in Children : child[g] \in {"none", "done"}
    /\ UNCHANGED vars

-----------------------------------------------------------------------------
RunStep == RunReject \/ RunAdmit \/ RunRefuse \/ RunStart \/ SendGet \/ SendMsg \/ RunClose \/ RunReturn
RecvStep == RecvEnd \/ RecvEofWait \/ RecvPush \/ RecvClose
DcStop == StreamStop \/ EventStop \/ TranslStop
DcStep ==
    \/ DbStreamStart \/ DbSynced \/ NonDbStreamStart \/ TranslReject \/ TranslStreamStart \/ EventStreamStart
    \/ RoundStart \/ EmptyRun \/ PollReadError \/ RoundSync \/ DcStop
    \/ \E p \in Paths : RoundPath(p)
Ticks == TranslTick \/ RespNotify \/ \E p \in Paths : DbSubTick(p) \/ NonDbSubTick(p)

Next ==
    \/ RunStep \/ RecvStep \/ RecvRequest \/ DcStep \/ Ticks
    \/ GetEvent \/ StatsEnd \/ RespEnd \/ RespTerminated
    \/ \E p \in Paths : DbSubInit(p) \/ SubStop(p)
    \/ ClientGone \/ ClientHalfClose \/ DuplicateClose
    \/ Ended

\* The Go scheduler runs every goroutine that can run, a select with a closed channel
\* does not ignore it for ever, and a client that is there reads its stream.  Nothing
\* obliges the client to send a request.
Fairness ==
    /\ WF_vars(run # "init" /\ RunStep) /\ WF_vars(ctx = "done" /\ RunReject)
    /\ WF_vars(RecvStep)
    /\ WF_vars(DcStep)
    /\ WF_vars(stopped /\ GetEvent) /\ WF_vars(StatsEnd)
    /\ WF_vars(RespEnd)
    /\ \A p \in Paths : WF_vars(DbSubInit(p)) /\ WF_vars(SubStop(p))

Spec == Init /\ [][Next]_vars
FairSpec == Spec /\ Fairness

-----------------------------------------------------------------------------
(* Properties *)

\* The variables have their types.
TypeOK ==
    /\ mode \in Modes /\ kind \in Kinds /\ present \subseteq Paths
    /\ run \in {"init", "setup", "send", "sending", "close", "wait", "done"}
    /\ recv \in {"none", "recv", "eof", "push", "close", "done"}
    /\ dc \in {"none", "start", "syncWait", "stopWait", "round", "idle", "tick", "eventWait", "done"}
    /\ child \in [Children -> {"none", "init", "loop", "done"}]
    /\ wg \subseteq Children \cup {"dc"}
    /\ q \in Seq(Items) /\ disposed \in BOOLEAN
    /\ hand \in Items \cup {NoItem}
    /\ ch \in {"nil", "open", "closed"} /\ tokens \in 0..1
    /\ todo \subseteq Paths /\ stopped \in BOOLEAN /\ slot \in BOOLEAN
    /\ ctx \in {"live", "done"} /\ half \in BOOLEAN /\ owed \in 0..MaxOwed
    /\ seen \subseteq Paths /\ synced \in BOOLEAN /\ crashed \in BOOLEAN

\* Run returns only after every goroutine of the data client that joined the WaitGroup
\* has returned ("Wait until all child go routines exited"): the deferred dc.Close and
\* connectionManager.Remove never run under a live goroutine.
ReturnsClean ==
    run = "done" =>
        /\ dc \in {"none", "done"}
        /\ \A g \in Children : child[g] \in {"init", "loop"} => kind = "nondb"

\* No goroutine of the session panics outside a recover: nothing is sent on a closed
\* channel and no channel is closed twice, however recv, send, the data client and the
\* server's duplicate detection interleave.
NoCrash == ~crashed

\* A sync response goes out only after a value of every path that has one, and nothing
\* goes out after the RPC has ended, although values, sync and fatal messages are queued
\* by different goroutines.  (A poll answers with what is there, so its syncs do not count.)
Contract == INSTANCE SubscribeContract
                WITH open <- run # "done", synced <- (mode # "POLL" /\ synced)
ImplementsContract == Contract!Spec

\* Once the client is gone the RPC ends and its connection slot is free again.
RunTerminates == ctx = "done" ~> (run = "done" /\ ~slot)

\* A Poll request (the SubscriptionList counts as the first) is answered by a sync
\* response, unless the RPC ends.
PollAnswered == (mode = "POLL" /\ run # "init" /\ owed > 0) ~> (owed = 0 \/ run = "done")

=============================================================================
