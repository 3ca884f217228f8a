------------------------------ MODULE DialOut ------------------------------
(***************************************************************************)
(* The dial-out client: TELEMETRY_CLIENT entries of CONFIG_DB name         *)
(* destination groups and client subscriptions; a single goroutine         *)
(* (DialOutRun) turns their keyspace notifications into publisher          *)
(* goroutines (publishRun), which dial the group's destinations in turn.   *)
(* A clientSubscription and its publishRun are one element of inst: every  *)
(* configuration change that restarts a subscription makes a new one.      *)
(***************************************************************************)
EXTENDS Naturals, Sequences, SequencesExt

CONSTANTS Subs, Groups, Dests,
          Entries,      \* what the administrator stores, of the key
          Stored,       \* the configurations found at the start
          MaxDialChanges,  \* bound: changes of CONFIG_DB
          MaxDialFaults    \* bound: failing dials, Publish calls and Sends

VARIABLES db,      \* the TELEMETRY_CLIENT entries, a key being <<kind, name>>
          notes,   \* keyspace notifications not processed: <<key, op>>
          groups,  \* destGrpNameMap
          users,   \* DestGrp2ClientSubMap
          subs,    \* ClientSubscriptionNameMap: index into inst
          inst,    \* every clientSubscription made, with its publishRun
          crash,   \* the panic that ended the process
          hung,    \* the configuration goroutine waits for a copied lock
          odd,     \* history: configuration histories that panic
          changes, faults

vars == <<db, notes, groups, users, subs, inst, crash, hung, odd, changes, faults>>
config == <<db, notes, groups, users, subs, hung, odd, changes>>

Global == <<"Global", "">>
Grp(g) == <<"DestinationGroup_", g>>
Sub(s) == <<"Subscription_", s>>
ClientKeys == {Global} \union {Grp(g) : g \in Groups} \union {Sub(s) : s \in Subs}

\* An absent entry is <<>>.  A group's entry is <<addresses>>, an invalid list
\* being the empty one; a subscription's <<group, report type>>, the group
\* being "none" without dst_group.
Init ==
    /\ db \in Stored
    \* the keys found, in the order of Redis
    /\ notes \in {[n \in DOMAIN ks |-> <<ks[n], "hset">>] :
                   ks \in SetToSeqs({k \in ClientKeys : db[k] # <<>>})}
    /\ groups = [g \in Groups |-> <<>>]
    /\ users = [g \in Groups |-> <<>>]
    /\ subs = [s \in Subs |-> 0]
    /\ inst = <<>>
    /\ crash = "none" /\ hung = FALSE /\ odd = {}
    /\ changes = 0 /\ faults = 0

Fault == faults < MaxDialFaults /\ faults' = faults + 1

\* The administrator and Redis: every change is notified.
Configure ==
    /\ changes < MaxDialChanges /\ changes' = changes + 1
    /\ \E k \in ClientKeys :
         \/ \E e \in Entries[k] \ {db[k]} :
              db' = [db EXCEPT ![k] = e] /\ notes' = Append(notes, <<k, "hset">>)
         \/ /\ db[k] # <<>>
            /\ db' = [db EXCEPT ![k] = <<>>] /\ notes' = Append(notes, <<k, "hdel">>)
    /\ UNCHANGED <<groups, users, subs, inst, crash, hung, odd, faults>>

-----------------------------------------------------------------------------
(* clientSubscription *)

\* clientSubscription.Close
Close(c) == IF c.opened THEN [c EXCEPT !.opened = FALSE, !.stop = TRUE] ELSE c

\* Mutant: the publisher is closed and its context not cancelled.
MutShut(c) == [Close(c) EXCEPT !.shut = TRUE]

\* Close and cancel; a copy made by setupDestGroupClients has the cancel
\* function of the original.
Shut(c) == [Close(c) EXCEPT !.shut = TRUE, !.cancelled = c.own \/ c.cancelled]

\* clientSubscription.NewInstance: no goroutine without the group.
NewInstance(c, grps) ==
    [c EXCEPT !.dests = IF grps[c.grp] = <<>> THEN <<>> ELSE grps[c.grp][1],
              !.pc = IF grps[c.grp] = <<>> THEN "never" ELSE "start",
              !.at = 0, !.shut = FALSE, !.cancelled = FALSE]

Current == {subs[s] : s \in Subs} \ {0}
Named(g) == IF users[g] = <<>> THEN {} ELSE users[g][1]

\* closeDestGroupClient
CloseDestGroupClient(ins, g) ==
    [i \in DOMAIN ins |-> IF \E s \in Named(g) : subs[s] = i THEN Shut(ins[i]) ELSE ins[i]]

\* A user of the group that is not a subscription any more: a nil pointer.
StaleUser(g) == \E s \in Named(g) : subs[s] = 0

\* setupDestGroupClients: copies of the subscriptions, started under a context
\* that nothing cancels.
SetupDestGroupClients(ins, grps, g) ==
    LET names == SetToSeq(Named(g))
        copy(s) == NewInstance([ins[subs[s]] EXCEPT !.own = FALSE], grps)
    IN  /\ inst' = ins \o [n \in DOMAIN names |-> copy(names[n])]
        /\ subs' = [s \in Subs |-> IF s \in Named(g)
                                   THEN Len(ins) + CHOOSE n \in DOMAIN names : names[n] = s
                                   ELSE subs[s]]

\* A goroutine about to take cMu may hold it while the struct is copied.
LockPoints == {"start", "retry", "dial", "sending"}
CopyHangs(g) == \E s \in Named(g) : inst[subs[s]].pc \in LockPoints

-----------------------------------------------------------------------------
(* processTelemetryClientConfig *)

Panic(why) == crash' = why /\ UNCHANGED <<groups, users, subs, inst, hung, odd>>

\* Global: every known group in turn, in the order of the map.  The groups
\* still to restart go before the notifications.
GlobalChange(op) ==
    /\ \E gs \in SetToSeqs(IF op = "hdel" THEN {} ELSE {g \in Groups : groups[g] # <<>>}) :
         notes' = [n \in DOMAIN gs |-> <<<<"restart", gs[n]>>, "hset">>] \o Tail(notes)
    /\ UNCHANGED <<groups, users, subs, inst, crash, hung, odd>>

\* Mutant: the clients are set up with the group as it was.
MutRestartGroup(g, grps) ==
    SetupDestGroupClients(CloseDestGroupClient(inst, g), groups, g) /\ UNCHANGED hung

\* Close, then copy and start; the copy may be of a locked mutex.
RestartGroup(g, grps) ==
    LET closed == CloseDestGroupClient(inst, g)
    IN  \/ SetupDestGroupClients(closed, grps, g) /\ UNCHANGED hung
        \/ CopyHangs(g) /\ hung' = TRUE /\ inst' = closed /\ UNCHANGED subs

GlobalGroup(g) ==
    \/ StaleUser(g) /\ Panic("stale user")
    \/ ~StaleUser(g) /\ RestartGroup(g, groups) /\ UNCHANGED <<groups, users, crash, odd>>

GroupChange(g, op) ==
    LET closed == CloseDestGroupClient(inst, g)
        value  == db[Grp(g)]
    IN  \/ StaleUser(g) /\ Panic("stale user")
        \/ /\ ~StaleUser(g) /\ op = "hdel"      \* refused once it has been used
           /\ inst' = closed
           /\ groups' = IF users[g] # <<>> THEN groups ELSE [groups EXCEPT ![g] = <<>>]
           /\ UNCHANGED <<users, subs, crash, hung, odd>>
        \/ /\ ~StaleUser(g) /\ op = "hset" /\ value = <<<<>>>>   \* invalid address
           /\ inst' = closed
           /\ UNCHANGED <<groups, users, subs, crash, hung, odd>>
        \/ /\ ~StaleUser(g) /\ op = "hset" /\ value # <<<<>>>>
           \* deleted since: no field, and no destination
           /\ LET dests == IF value = <<>> THEN <<<<>>>> ELSE value
                  grps  == [groups EXCEPT ![g] = dests]
              IN  /\ groups' = grps
                  /\ odd' = IF value = <<>> THEN odd \union {"deleted group"} ELSE odd
                  /\ RestartGroup(g, grps)
           /\ UNCHANGED <<users, crash>>

\* Mutant: the name stays with the users of the group.
MutSubscriptionDeleted(s) ==
    \/ subs[s] = 0 /\ Panic("unknown subscription")
    \/ /\ subs[s] # 0
       /\ inst' = [inst EXCEPT ![subs[s]] = Shut(@)]
       /\ subs' = [subs EXCEPT ![s] = 0]
       /\ UNCHANGED <<groups, users, crash, hung, odd>>

SubscriptionDeleted(s) ==
    \/ subs[s] = 0 /\ Panic("unknown subscription")
    \/ /\ subs[s] # 0
       /\ LET g == inst[subs[s]].grp
          IN  users' = [users EXCEPT ![g] = <<Named(g) \ {s}>>]
       /\ inst' = [inst EXCEPT ![subs[s]] = Shut(@)]
       /\ subs' = [subs EXCEPT ![s] = 0]
       /\ UNCHANGED <<groups, crash, hung, odd>>

SubscriptionSet(s) ==
    LET value  == db[Sub(s)]
        closed == IF subs[s] = 0 THEN inst ELSE [inst EXCEPT ![subs[s]] = Shut(@)]
    IN  IF value = <<>> \/ value[1] = "none"
        THEN /\ inst' = closed
             /\ odd' = IF subs[s] = 0 THEN odd \union {"no group"} ELSE odd
             /\ UNCHANGED <<groups, users, subs, crash, hung>>
        ELSE LET g == value[1]
                 c == [pc |-> "never", grp |-> g, type |-> value[2], dests |-> <<>>, at |-> 0,
                       own |-> TRUE, cancelled |-> FALSE, shut |-> FALSE,
                       opened |-> FALSE, stop |-> FALSE]
             IN  /\ users' = [users EXCEPT ![g] = <<Named(g) \union {s}>>]
                 /\ inst' = Append(closed, NewInstance(c, groups))
                 /\ subs' = [subs EXCEPT ![s] = Len(inst) + 1]
                 /\ odd' = IF \E h \in Groups \ {g} : s \in Named(h)
                           THEN odd \union {"moved"} ELSE odd
                 /\ UNCHANGED <<groups, crash, hung>>

ProcessTelemetryClientConfig(k, op) ==
    \/ k[1] = "DestinationGroup_" /\ GroupChange(k[2], op)
    \/ k[1] = "Subscription_" /\ op = "hdel" /\ SubscriptionDeleted(k[2])
    \/ k[1] = "Subscription_" /\ op = "hset" /\ SubscriptionSet(k[2])

\* DialOutRun: subscribed before it reads the keys, it processes one
\* notification at a time, with the entry as it is then.
DialOutRun ==
    /\ ~hung /\ notes # <<>>
    /\ LET k == Head(notes)[1]  op == Head(notes)[2]
       IN  \/ k = Global /\ GlobalChange(op)
           \/ k[1] = "restart" /\ notes' = Tail(notes) /\ GlobalGroup(k[2])
           \/ notes' = Tail(notes) /\ ProcessTelemetryClientConfig(k, op)
    /\ UNCHANGED <<db, changes, faults>>

-----------------------------------------------------------------------------
(* publishRun *)

Becomes(i, c) == inst' = [inst EXCEPT ![i] = c]
At(i, pc) == inst[i].pc = pc

\* restart: a new stop channel and queue, and the next destination.
Restart(i) ==
    LET c == inst[i]
    IN  /\ c.pc \in {"start", "retry"}
        /\ IF c.dests = <<>>
           THEN crash' = "no destination" /\ UNCHANGED inst
           ELSE /\ Becomes(i, [c EXCEPT !.pc = "dial", !.opened = TRUE, !.stop = FALSE,
                                       !.at = (c.at % Len(c.dests)) + 1])
                /\ UNCHANGED crash
        /\ UNCHANGED faults

\* Mutant: a server that cannot be reached ends the publisher.
MutDial(i) ==
    /\ At(i, "dial")
    /\ \/ inst[i].cancelled /\ Becomes(i, [Close(inst[i]) EXCEPT !.pc = "ended"]) /\ UNCHANGED faults
       \/ ~inst[i].cancelled /\ Becomes(i, [inst[i] EXCEPT !.pc = "loop"]) /\ UNCHANGED faults
       \/ ~inst[i].cancelled /\ Fault /\ Becomes(i, [inst[i] EXCEPT !.pc = "ended"])
    /\ UNCHANGED crash

\* newClient and the context looked at after it, then Publish, which fails
\* under a cancelled context or when the server does.
Dial(i) ==
    /\ At(i, "dial")
    /\ \/ inst[i].cancelled /\ Becomes(i, [Close(inst[i]) EXCEPT !.pc = "ended"]) /\ UNCHANGED faults
       \/ ~inst[i].cancelled /\ Becomes(i, [inst[i] EXCEPT !.pc = "loop"]) /\ UNCHANGED faults
       \/ ~inst[i].cancelled /\ Fault /\ Becomes(i, [inst[i] EXCEPT !.pc = "retry"])
    /\ UNCHANGED crash

\* The select on stop, and the report types that publish nothing.
Loop(i) ==
    /\ At(i, "loop")
    /\ LET next == CASE inst[i].type \notin {"stream", "periodic"} -> "ended"
                     [] inst[i].stop -> "ended"
                     [] OTHER -> "sending"
       IN  Becomes(i, [inst[i] EXCEPT !.pc = next])
    /\ UNCHANGED <<crash, faults>>

\* Periodic: one Get and Send; the sender fails once the client is closed.
SendPeriodic(i) ==
    /\ At(i, "sending") /\ inst[i].type = "periodic"
    /\ \/ inst[i].opened /\ Becomes(i, [inst[i] EXCEPT !.pc = "loop"]) /\ UNCHANGED faults
       \/ /\ (~inst[i].opened /\ UNCHANGED faults) \/ Fault
          /\ Becomes(i, [Close(inst[i]) EXCEPT !.pc = "retry"])
    /\ UNCHANGED crash

\* Stream: send until the queue is disposed or a Send fails; then Close, wait
\* for the data client, sleep and restart.
SendStream(i) ==
    /\ At(i, "sending") /\ inst[i].type = "stream"
    /\ (~inst[i].opened /\ UNCHANGED faults) \/ Fault
    /\ Becomes(i, [Close(inst[i]) EXCEPT !.pc = "retry"])
    /\ UNCHANGED crash

PublishRun(i) ==
    /\ Restart(i) \/ Dial(i) \/ Loop(i) \/ SendPeriodic(i) \/ SendStream(i)
    /\ UNCHANGED config

MaxInst == 2 * (MaxDialChanges + 1)  \* of a Global change at most one per group
Next ==
    /\ crash = "none"
    /\ Configure \/ DialOutRun \/ \E i \in DOMAIN inst : PublishRun(i)

\* The goroutines run; a blocked dial or Send ends with its timeout.
Fairness ==
    /\ WF_vars(crash = "none" /\ DialOutRun /\ UNCHANGED faults)
    /\ \A i \in 1..MaxInst : WF_vars(crash = "none" /\ i \in DOMAIN inst /\ PublishRun(i) /\ UNCHANGED faults)
Spec == Init /\ [][Next]_vars /\ Fairness

-----------------------------------------------------------------------------
\* The state keeps its types and bounds.
TypeOK ==
    /\ DOMAIN db = ClientKeys
    /\ \A n \in DOMAIN notes : notes[n][1] \in ClientKeys \union {<<"restart", g>> : g \in Groups} /\ notes[n][2] \in {"hset", "hdel"}
    /\ \A s \in Subs : subs[s] \in 0..Len(inst)
    /\ \A i \in DOMAIN inst :
         /\ inst[i].pc \in {"never", "start", "retry", "dial", "loop", "sending", "ended"}
         /\ inst[i].dests \in Seq(Dests) /\ inst[i].at \in 0..Len(inst[i].dests)
    /\ crash \in {"none", "stale user", "unknown subscription", "no destination"}
    /\ odd \subseteq {"deleted group", "no group", "moved"}

\* The publisher of a subscription dials the destinations that its group has
\* now: whatever changes came before, no subscription is left with an earlier
\* list of addresses (unless the configuration goroutine hangs between the
\* two).
DestsCurrent ==
    \A i \in Current :
        hung \/ inst[i].pc = "never" \/ groups[inst[i].grp] = <<inst[i].dests>>

\* The process panics only after a group was deleted before its change was
\* processed, a subscription without group was deleted, or a subscription
\* changed its group.
PanicExplained ==
    crash # "none" =>
        odd \intersect {CASE crash = "no destination" -> "deleted group"
                          [] crash = "unknown subscription" -> "no group"
                          [] OTHER -> "moved"} # {}

\* Publishers follow the configuration: they dial the destinations there are now, and
\* only the known histories of configuration changes end in a panic.
FollowsConfiguration == DestsCurrent /\ PanicExplained

\* Once the configuration and the servers settle, every subscription that no
\* later change has closed publishes for ever, whatever failed before.
Publishes ==
    <>[](crash # "none" \/ \A i \in Current :
            inst[i].shut \/ inst[i].pc = "never" \/ inst[i].type = "once"
                \/ (inst[i].opened /\ inst[i].pc \in {"loop", "sending"}))

\* A publisher that was started for a change of its own subscription ends
\* after the change that replaces it.
ReplacedEnds ==
    <>[](\/ crash # "none"
         \/ \A i \in DOMAIN inst :
              inst[i].shut /\ inst[i].own => inst[i].pc \in {"never", "ended"})

=============================================================================
