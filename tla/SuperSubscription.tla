-------------------------- MODULE SuperSubscription --------------------------
(***************************************************************************)
(* Super subscriptions (sonic_data_client/super_subscription.go): STREAM    *)
(* subscriptions with equal requests share their tickers, and only the     *)
(* primary of them samples.  The part of TranslClient.StreamRun after the  *)
(* sync response, and the sample cache of transl_subscriber.go.            *)
(*                                                                         *)
(* A superSubscription is named by the client that created it.  One        *)
(* subscribed path with several instances stands for the sampled data; a   *)
(* message counts as received when it is put into the client's queue.      *)
(***************************************************************************)
EXTENDS Naturals, FiniteSets

CONSTANTS
    Clients,       \* the TranslClients, each running StreamRun once
    Requests,      \* SubscriptionLists up to proto.Equal
    Instances,     \* the paths of the values a sample returns
    Values,        \* what an instance can hold
    Suppress,      \* suppress_redundant, without heartbeat
    MaxChanges     \* bound: changes of the device's data

None == "none"
Absent == "absent"

ASSUME SharingAssumption ==
    /\ None \notin Clients
    /\ Suppress \in BOOLEAN /\ MaxChanges \in Nat

VARIABLES
    pc,        \* where StreamRun of each client is
    req,       \* its request
    home,      \* TranslClient.superSub
    wake,      \* the number of items in wakeChan, whose capacity is 1
    stopped,   \* the clients whose stop channel is closed
    subs,      \* superSubs.subs
    members,   \* superSubscription.clients
    primary,   \* superSubscription.primaryClient
    tickers,   \* superSubscription.tickers
    device,    \* the device's data
    changes,
    cache,     \* ygotCache.values of each client
    view,      \* the data as the messages to the client describe it
    todo,      \* the instances translib has still to report in the round
    rcvd       \* translSubscriber.rcvdPaths

sharing == <<home, wake, subs, members, primary>>
data == <<cache, view, todo, rcvd>>
vars == <<pc, req, sharing, tickers, stopped, device, changes, data>>

Data == [Instances -> Values \cup {Absent}]
Empty == [p \in Instances |-> Absent]
Serving == {"loop", "round"}
Joined == {"joined", "check", "select", "leaving"} \cup Serving
Locations == {"idle", "first", "synced", "gone"} \cup Joined

Go(c, from, to) == pc[c] = from /\ pc' = [pc EXCEPT ![c] = to]

Init ==
    /\ pc = [c \in Clients |-> "idle"]
    /\ req \in [Clients -> Requests]
    /\ home = [c \in Clients |-> None]
    /\ wake = [c \in Clients |-> 0]
    /\ stopped = {} /\ subs = {}
    /\ members = [c \in Clients |-> {}]
    /\ primary = [c \in Clients |-> None]
    /\ tickers = [c \in Clients |-> "none"]
    /\ device \in Data /\ changes = 0
    /\ cache = [c \in Clients |-> Empty] /\ view = [c \in Clients |-> Empty]
    /\ todo = [c \in Clients |-> {}] /\ rcvd = [c \in Clients |-> {}]

\* A round of translib.Stream begins: the initial one of StreamRun, or one for a tick.
StartRound(c) ==
    /\ todo' = [todo EXCEPT ![c] = Instances]
    /\ rcvd' = [rcvd EXCEPT ![c] = {}]
    /\ UNCHANGED <<cache, view>>

Start(c) ==
    /\ Go(c, "idle", "first")
    /\ StartRound(c)
    /\ UNCHANGED <<req, sharing, tickers, stopped, device, changes>>

\* ygotCache.msgBuilder for one instance, put into the client's own queue by notify;
\* nothing is reported for an instance the device does not have.
Response(c, p) ==
    /\ pc[c] \in {"first", "round"} /\ p \in todo[c]
    /\ todo' = [todo EXCEPT ![c] = @ \ {p}]
    /\ IF device[p] = Absent THEN UNCHANGED <<cache, view, rcvd>>
       ELSE /\ cache' = [cache EXCEPT ![c][p] = device[p]]
            /\ rcvd' = [rcvd EXCEPT ![c] = @ \cup {p}]
            /\ view' = IF Suppress /\ pc[c] = "round" /\ cache[c][p] = device[p] THEN view
                       ELSE [view EXCEPT ![c][p] = device[p]]
    /\ UNCHANGED <<pc, req, sharing, tickers, stopped, device, changes>>

Deleted(c) == {p \in Instances : cache[c][p] # Absent /\ p \notin rcvd[c]}
Without(d, gone) == [p \in Instances |-> IF p \in gone THEN Absent ELSE d[p]]

\* Mutant: the entries of deleted instances stay in the cache and nobody hears of them.
MutRoundEnd(c) ==
    /\ pc[c] \in {"first", "round"} /\ todo[c] = {}
    /\ pc' = [pc EXCEPT ![c] = IF @ = "first" THEN "synced" ELSE "loop"]
    /\ UNCHANGED <<cache, view, todo, rcvd, req, sharing, tickers, stopped, device, changes>>

\* The sync of translib ends the round: notify(nil) is the one message that
\* sendNotifications puts into the queues of all members.
RoundEnd(c) ==
    /\ pc[c] \in {"first", "round"} /\ todo[c] = {}
    /\ pc' = [pc EXCEPT ![c] = IF @ = "first" THEN "synced" ELSE "loop"]
    /\ cache' = [cache EXCEPT ![c] = Without(@, Deleted(c))]
    /\ view' = [d \in Clients |->
                  IF d = c \/ (home[c] # None /\ d \in members[home[c]])
                    THEN Without(view[d], Deleted(c)) ELSE view[d]]
    /\ UNCHANGED <<todo, rcvd, req, sharing, tickers, stopped, device, changes>>

\* findSuperSubscription
Matching(c) == {i \in subs : req[i] = req[c]}

Enter(c, i) ==
    /\ home' = [home EXCEPT ![c] = i]
    /\ members' = [members EXCEPT ![i] = @ \cup {c}]
    /\ primary' = [primary EXCEPT ![i] = IF @ = None THEN c ELSE @]
    /\ subs' = subs \cup {i}
    /\ UNCHANGED wake

\* Mutant: a new superSubscription for every client.
MutJoin(c) ==
    /\ Go(c, "synced", "joined")
    /\ Enter(c, c)
    /\ UNCHANGED <<req, tickers, stopped, device, changes, data>>

\* addClientToSuperSubscription, with createSuperSubscription, under superSubs.mu
Join(c) ==
    /\ Go(c, "synced", "joined")
    /\ \/ \E i \in Matching(c) : Enter(c, i)
       \/ Matching(c) = {} /\ Enter(c, c)
    /\ UNCHANGED <<req, tickers, stopped, device, changes, data>>

\* populateTickers: equal requests have equal intervals, so its errors do not happen.
PopulateTickers(c) ==
    /\ Go(c, "joined", "check")
    /\ tickers' = [tickers EXCEPT ![home[c]] = IF @ = "none" THEN "on" ELSE @]
    /\ UNCHANGED <<req, sharing, stopped, device, changes, data>>

\* isPrimary
CheckPrimary(c) ==
    /\ pc[c] = "check"
    /\ pc' = [pc EXCEPT ![c] = IF primary[home[c]] = c THEN "loop" ELSE "select"]
    /\ UNCHANGED <<req, sharing, tickers, stopped, device, changes, data>>

\* A secondary is waiting for wakeChan or for its stop channel.
Wake(c) ==
    /\ Go(c, "select", "check")
    /\ wake[c] > 0
    /\ wake' = [wake EXCEPT ![c] = @ - 1]
    /\ UNCHANGED <<home, subs, members, primary, req, tickers, stopped, device, changes, data>>

\* Mutant: the return leaves the select only, not the loop around it.
MutSecondaryExit(c) ==
    /\ Go(c, "select", "check")
    /\ c \in stopped
    /\ UNCHANGED <<req, sharing, tickers, stopped, device, changes, data>>

SecondaryExit(c) ==
    /\ Go(c, "select", "leaving")
    /\ c \in stopped
    /\ UNCHANGED <<req, sharing, tickers, stopped, device, changes, data>>

\* The primary: a tick of a shared ticker starts a round; the stop channel ends the loop.
Tick(c) ==
    /\ Go(c, "loop", "round")
    /\ tickers[home[c]] = "on"
    /\ StartRound(c)
    /\ UNCHANGED <<req, sharing, tickers, stopped, device, changes>>

PrimaryExit(c) ==
    /\ Go(c, "loop", "leaving")
    /\ c \in stopped
    /\ UNCHANGED <<req, sharing, tickers, stopped, device, changes, data>>

\* What is left of a superSubscription i without its client c; the send to wakeChan
\* happens under both locks and blocks while the channel is full.
LeaveLast(c, i) ==
    /\ members[i] = {c}
    /\ subs' = subs \ {i}
    /\ tickers' = [tickers EXCEPT ![i] = IF @ = "on" THEN "off" ELSE @]
    /\ UNCHANGED <<primary, wake>>

\* Mutant: the tickers are stopped by any client that leaves.
MutLeaveSecondary(c, i) ==
    /\ members[i] # {c} /\ primary[i] # c
    /\ tickers' = [tickers EXCEPT ![i] = IF @ = "on" THEN "off" ELSE @]
    /\ UNCHANGED <<subs, primary, wake>>

LeaveSecondary(c, i) ==
    /\ members[i] # {c} /\ primary[i] # c
    /\ UNCHANGED <<subs, tickers, primary, wake>>

\* Mutant: the new primary is not woken.
MutPromote(c, i) ==
    /\ members[i] # {c} /\ primary[i] = c
    /\ \E n \in members[i] \ {c} : primary' = [primary EXCEPT ![i] = n]
    /\ UNCHANGED <<subs, tickers, wake>>

\* Mutant: every remaining member is woken.
MutPromoteAll(c, i) ==
    /\ members[i] # {c} /\ primary[i] = c
    /\ \E n \in members[i] \ {c} : primary' = [primary EXCEPT ![i] = n]
    /\ \A n \in members[i] \ {c} : wake[n] = 0
    /\ wake' = [n \in Clients |-> IF n \in members[i] \ {c} THEN 1 ELSE wake[n]]
    /\ UNCHANGED <<subs, tickers>>

Promote(c, i) ==
    /\ members[i] # {c} /\ primary[i] = c
    /\ \E n \in members[i] \ {c} :
          /\ primary' = [primary EXCEPT ![i] = n]
          /\ wake[n] = 0
          /\ wake' = [wake EXCEPT ![n] = 1]
    /\ UNCHANGED <<subs, tickers>>

\* leaveSuperSubscription; StreamRun returns.
Leave(c) ==
    /\ Go(c, "leaving", "gone")
    /\ members' = [members EXCEPT ![home[c]] = @ \ {c}]
    /\ LeaveLast(c, home[c]) \/ LeaveSecondary(c, home[c]) \/ Promote(c, home[c])
    /\ UNCHANGED <<home, req, stopped, device, changes, data>>

\* The environment: Client.Close, or a fatal message, closes the stop channel.
Stop(c) ==
    /\ pc[c] \notin {"idle", "gone"} /\ c \notin stopped
    /\ stopped' = stopped \cup {c}
    /\ UNCHANGED <<pc, req, sharing, tickers, device, changes, data>>

Change(p, v) ==
    /\ changes < MaxChanges /\ device[p] # v
    /\ device' = [device EXCEPT ![p] = v]
    /\ changes' = changes + 1
    /\ UNCHANGED <<pc, req, sharing, tickers, stopped, data>>

Step(c) ==
    \/ (\E p \in Instances : Response(c, p)) \/ RoundEnd(c)
    \/ Join(c) \/ PopulateTickers(c) \/ CheckPrimary(c)
    \/ Wake(c) \/ SecondaryExit(c) \/ PrimaryExit(c) \/ Leave(c)

Next ==
    \/ \E c \in Clients : Start(c) \/ Step(c) \/ Tick(c) \/ Stop(c)
    \/ \E p \in Instances, v \in Values \cup {Absent} : Change(p, v)

Spec == Init /\ [][Next]_vars

\* A runnable goroutine runs, tickers tick, and a select with a closed stop channel and
\* a tick both ready chooses between them at random.
Fairness ==
    \A c \in Clients : WF_vars(Step(c)) /\ WF_vars(Tick(c)) /\ SF_vars(PrimaryExit(c))

FairSpec == Spec /\ Fairness

-----------------------------------------------------------------------------
(* Properties *)

\* The variables have their types.
TypeOK ==
    /\ pc \in [Clients -> Locations] /\ req \in [Clients -> Requests]
    /\ home \in [Clients -> Clients \cup {None}]
    /\ wake \in [Clients -> 0..1]
    /\ stopped \subseteq Clients /\ subs \subseteq Clients
    /\ members \in [Clients -> SUBSET Clients]
    /\ primary \in [Clients -> Clients \cup {None}]
    /\ tickers \in [Clients -> {"none", "on", "off"}]
    /\ device \in Data /\ changes \in 0..MaxChanges
    /\ cache \in [Clients -> Data] /\ view \in [Clients -> Data]
    /\ todo \in [Clients -> SUBSET Instances] /\ rcvd \in [Clients -> SUBSET Instances]

\* Equal subscriptions are deduplicated: of the clients with one request at most one is
\* ticking or sampling, through any sequence of joins, departures and promotions.
OneSampler ==
    \A c, d \in Clients :
        pc[c] \in Serving /\ pc[d] \in Serving /\ req[c] = req[d] => c = d

\* leaveSuperSubscription sends to wakeChan while it holds superSubs.mu, which every other
\* join and departure needs: the send must find room, whichever member it picks.
WakeHasRoom ==
    \A i \in subs : \A n \in members[i] : n # primary[i] => wake[n] = 0

\* The tickers of a superSubscription run as long as a client is served by them, although
\* the last client to leave stops them while another may be joining.
TickersRun == \A c \in Clients : pc[c] \in Serving \cup {"check", "select"} => tickers[home[c]] = "on"

\* Some member samples for the others: a primary that stays comes to serve, also when it
\* was promoted while it was checking or waiting.
PrimaryServes ==
    <>[](\A c \in Clients :
            pc[c] \in Joined /\ primary[home[c]] = c => pc[c] \in Serving \/ c \in stopped)

\* A client whose stop channel is closed leaves.
StoppedLeaves == <>[](\A c \in stopped : pc[c] = "gone")

\* Sharing is safe at every moment of a change of primary: no two clients sample for a
\* request, the promotion finds room in wakeChan while it holds superSubs.mu, and the
\* tickers of those who wait for them run.
SharingSafe == OneSampler /\ WakeHasRoom /\ TickersRun

\* Sharing leaves nobody behind: a primary that stays comes to serve, a client whose stop
\* channel is closed leaves.
NobodyStranded == PrimaryServes /\ StoppedLeaves

\* What the primary has been sent comes to agree with the device once that is stable.
PrimaryConverges == <>[](\A c \in Clients : pc[c] \in Serving /\ c \notin stopped => view[c] = device)

=============================================================================
