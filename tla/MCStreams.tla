------------------------------ MODULE MCStreams ------------------------------
(* Small instances of the components that carry data out of the device, which *)
(* share no state: one of them is used in a behaviour.                        *)
EXTENDS EventClient

CONSTANTS Keys, Setups, MaxChanges, MaxPolls, MaxFaults,
          MaxDialChanges, MaxDialFaults,
          MaxFile, MaxDbChanges, MaxJournalFaults

VARIABLES part,
    setup, table, gone, changes, pc, todo, toRead, msiAll, last, bus, lst, view, touched, polls, tabStop, faults,
    dialDb, notes, groups, users, subs, inst, crash, hung, odd, dialChanges, dialFaults,
    redis, channel, cache, jpc, event, file, zips, entry, scanned, unseen, written, late, stopJ, dbChanges, jFaults

tableVars == <<setup, table, gone, changes, pc, todo, toRead, msiAll, last, bus, lst, view, touched, polls, tabStop,
               faults>>
dialVars == <<dialDb, notes, groups, users, subs, inst, crash, hung, odd, dialChanges, dialFaults>>
journalVars == <<redis, channel, cache, jpc, event, file, zips, entry, scanned, unseen, written, late, stopJ,
                 dbChanges, jFaults>>
mcVars == <<part, vars, tableVars, dialVars, journalVars>>

Setup(c, s, m) == [client |-> c, shape |-> s, mode |-> m]
MCSetups ==
    {Setup("db", "table", "onchange"), Setup("db", "table", "updates"), Setup("db", "key", "onchange"),
     Setup("db", "field", "onchange"), Setup("db", "multi", "onchange"), Setup("db", "poll", "poll"),
     Setup("db", "polltable", "poll"), Setup("mixed", "table", "onchange"), Setup("mixed", "table", "sample"),
     Setup("mixed", "field", "sample"), Setup("mixed", "polltable", "poll")}

\* The keys of TELEMETRY_CLIENT: one subscription, two groups, Global.
DialKeys == {<<"Global", "">>, <<"DestinationGroup_", "g1">>, <<"DestinationGroup_", "g2">>, <<"Subscription_", "s1">>}
DialEntries ==
    [k \in DialKeys |->
        CASE k[1] = "Global" -> {<<"cfg">>}
          [] k[2] = "g1" -> {<<<<>>>>, <<<<"d1">>>>}
          [] k[2] = "g2" -> {<<<<"d1">>>>}
          [] OTHER -> {<<"g1", "stream">>, <<"g2", "stream">>, <<"none", "stream">>}]
LoneSubscription == [k \in DialKeys |-> IF k[2] = "s1" THEN <<"none", "stream">> ELSE <<>>]
DialStored ==
    {[LoneSubscription EXCEPT ![<<"DestinationGroup_", "g1">>] = <<<<"d1", "d2">>>>,
                              ![<<"Subscription_", "s1">>] = <<"g1", type>>] :
        type \in {"stream", "periodic", "once"}} \union {LoneSubscription}

Tab == INSTANCE TableStream WITH stop <- tabStop
Dial == INSTANCE DialOut
        WITH db <- dialDb, changes <- dialChanges, faults <- dialFaults,
             Subs <- {"s1"}, Groups <- {"g1", "g2"}, Dests <- {"d1", "d2"}, Entries <- DialEntries, Stored <- DialStored
Jour == INSTANCE DbJournal WITH Tables <- {"t1", "t2"}, Vals <- {0, 1, 2}

MCInit ==
    /\ part \in {"table", "events", "dialout", "journal"}
    /\ Tab!Init
    /\ part = "table" \/ (setup = Setup("db", "polltable", "poll") /\ table = [k \in Keys |-> Tab!None])
    /\ Init
    /\ part = "events" \/ db = Zero
    /\ Dial!Init
    /\ part = "dialout" \/ dialDb = LoneSubscription
    /\ Jour!Init
    /\ part = "journal" \/ redis = [k \in {"t1", "t2"} |-> 0]

MCNext ==
    \/ part = "table" /\ Tab!Next /\ UNCHANGED <<part, vars, dialVars, journalVars>>
    \/ part = "events" /\ Next /\ UNCHANGED <<part, tableVars, dialVars, journalVars>>
    \/ part = "dialout" /\ Dial!Next /\ UNCHANGED <<part, vars, tableVars, journalVars>>
    \/ part = "journal" /\ Jour!Next /\ UNCHANGED <<part, vars, tableVars, dialVars>>

\* The fairness of each component, for the behaviours in which it is used.
TableFair ==
    /\ WF_tableVars(part = "table" /\ Tab!Serve /\ ~Tab!PollBegin /\ UNCHANGED faults)
    /\ WF_tableVars(part = "table" /\ Tab!FieldTick) /\ WF_tableVars(part = "table" /\ Tab!Tick)
    /\ WF_tableVars(part = "table" /\ Tab!LoopStops) /\ WF_tableVars(part = "table" /\ Tab!Update)
    /\ \A p \in Keys \cup {Tab!Table} :
         WF_tableVars(part = "table" /\ p \in Tab!Paths /\ Tab!Listen(p) /\ UNCHANGED faults)
EventFair ==
    /\ WF_vars(part = "events" /\ StreamRun /\ UNCHANGED evFaults)
    /\ WF_vars(part = "events" /\ GetEvents /\ UNCHANGED evFaults)
    /\ WF_vars(part = "events" /\ UpdateStats /\ UNCHANGED evFaults)
    /\ WF_vars(part = "events" /\ Wait)
DialFair ==
    /\ WF_dialVars(part = "dialout" /\ crash = "none" /\ Dial!DialOutRun /\ UNCHANGED dialFaults)
    /\ \A i \in 1..Dial!MaxInst :
         WF_dialVars(part = "dialout" /\ crash = "none" /\ i \in DOMAIN inst /\ Dial!PublishRun(i)
                      /\ UNCHANGED dialFaults)
JournalFair ==
    /\ WF_journalVars(part = "journal" /\ Jour!Start /\ UNCHANGED jFaults)
    /\ WF_journalVars(part = "journal" /\ Jour!Journal /\ UNCHANGED jFaults)
MCSpec ==
    MCInit /\ [][MCNext]_mcVars /\ TableFair /\ EventFair /\ DialFair /\ JournalFair

-----------------------------------------------------------------------------
\* The states of the four components keep their types.
TypesOK == Tab!TypeOK /\ TypeOK /\ Dial!TypeOK /\ Jour!TypeOK

\* See TableStream: at the sync of a poll the client knows every key that did not change.
PollExact == Tab!PollExact

\* See DialOut: publishers dial the destinations there are now, and only known histories panic.
FollowsConfiguration == Dial!FollowsConfiguration

\* See DbJournal: the files hold the last entries, and the last entry of a key is true.
JournalTrue == Jour!JournalTrue

\* Everything catches up with the device once that rests: the client of a table stream with
\* the table, COUNTERS_DB with the counters of the event client, publishers with their
\* configuration, the journal's cache with the database.
CatchesUp == Tab!Converges /\ StatsShown /\ Dial!Publishes /\ Jour!JournalFollows

\* What is stopped ends: the goroutines of a table path and of the event client, and a
\* publisher that was replaced.
StopsEnd == Tab!StopEnds /\ EventsStop /\ Dial!ReplacedEnds

=============================================================================
