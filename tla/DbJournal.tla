----------------------------- MODULE DbJournal -----------------------------
(***************************************************************************)
(* The CONFIG_DB journal: every change of a table makes two notifications, *)
(* its operation and its key, which the journal joins in pairs; it reads   *)
(* the entry, writes the difference to its cache into a file, and rotates  *)
(* the file into one compressed backup when it is large.                   *)
(***************************************************************************)
EXTENDS Naturals, Sequences

CONSTANTS Tables,     \* the keys
          Vals,       \* of an entry; 0 is no entry
          MaxFile,    \* maxFileSize, in entries
          MaxDbChanges, MaxJournalFaults

VARIABLES redis, channel, cache,
          jpc,       \* where NewDbJournal and the journal goroutine are
          event,     \* the notifications of the pair being joined
          file, zips, \* entries in the journal file; the backups, oldest first
          entry,     \* the entry to be written
          scanned,   \* keys init has read
          unseen,    \* history: keys changed between init's reading and the subscription
          written,   \* history: every entry written, in order
          late,      \* history: keys created again before their deletion was processed
          stopJ, dbChanges, jFaults

vars == <<redis, channel, cache, jpc, event, file, zips, entry, scanned, unseen, written, late,
          stopJ, dbChanges, jFaults>>

Fault == jFaults < MaxJournalFaults /\ jFaults' = jFaults + 1
Running == jpc \notin {"init", "subscribe", "closed"}

Init ==
    /\ redis \in [Tables -> Vals] /\ channel = <<>> /\ cache = [k \in Tables |-> 0]
    /\ jpc = "init" /\ event = <<>> /\ file = <<>> /\ zips = <<>> /\ entry = <<>>
    /\ scanned = {} /\ unseen = {} /\ written = <<>> /\ late = {}
    /\ stopJ = FALSE /\ dbChanges = 0 /\ jFaults = 0

\* Redis: the keyspace notification has the operation, the keyevent one the key.
Change ==
    /\ dbChanges < MaxDbChanges /\ dbChanges' = dbChanges + 1
    /\ \E k \in Tables, v \in Vals :
         LET op == IF v = 0 THEN "del" ELSE "hset"
         IN  /\ v # redis[k]
             /\ redis' = [redis EXCEPT ![k] = v]
             /\ channel' = IF Running THEN channel \o <<op, k>> ELSE channel
             /\ unseen' = IF ~Running /\ k \in scanned
                          THEN unseen \union {k} ELSE unseen
             /\ late' = IF v # 0 /\ \E n \in DOMAIN (event \o channel) : (event \o channel)[n] = k
                        THEN late \union {k} ELSE late
    /\ UNCHANGED <<cache, jpc, event, file, zips, entry, scanned, written, stopJ, jFaults>>

-----------------------------------------------------------------------------
(* NewDbJournal: the cache first, the subscription after it *)

JFrame == UNCHANGED <<redis, unseen, late, dbChanges, stopJ>>

InitKey ==
    /\ jpc = "init" /\ scanned # Tables
    /\ \E k \in Tables \ scanned : /\ cache' = [cache EXCEPT ![k] = redis[k]]
                                   /\ scanned' = scanned \union {k}
    /\ UNCHANGED <<channel, jpc, event, file, zips, entry, written, jFaults>> /\ JFrame
InitDone ==
    /\ jpc = "init" /\ scanned = Tables /\ jpc' = "subscribe"
    /\ UNCHANGED <<channel, cache, event, file, zips, entry, scanned, written, jFaults>> /\ JFrame
PSubscribe ==
    /\ jpc = "subscribe"
    /\ \/ jpc' = "select" /\ UNCHANGED jFaults
       \/ Fault /\ jpc' = "closed"
    /\ UNCHANGED <<channel, cache, event, file, zips, entry, scanned, written>> /\ JFrame

-----------------------------------------------------------------------------
(* journal *)

\* Mutant: a third notification is waited for.
MutNotified ==
    /\ jpc = "select" /\ channel # <<>>
    /\ event' = Append(event, Head(channel)) /\ channel' = Tail(channel)
    /\ jpc' = IF Len(event) = 2 THEN "update" ELSE "select"
    /\ UNCHANGED <<cache, file, zips, entry, scanned, written, jFaults>> /\ JFrame

\* One of the two notifications.
Notified ==
    /\ jpc = "select" /\ channel # <<>>
    /\ event' = Append(event, Head(channel)) /\ channel' = Tail(channel)
    /\ jpc' = IF Len(event) = 1 THEN "update" ELSE "select"
    /\ UNCHANGED <<cache, file, zips, entry, scanned, written, jFaults>> /\ JFrame

\* Mutant: the entry tells the value before the change.
MutUpdateCacheOld ==
    /\ jpc = "update" /\ event[2] \in Tables
    /\ cache' = [cache EXCEPT ![event[2]] = redis[event[2]]]
    /\ entry' = <<event[2], cache[event[2]]>> /\ jpc' = "rotate"
    /\ event' = <<>>
    /\ UNCHANGED <<channel, file, zips, scanned, written, jFaults>> /\ JFrame

\* Mutant: a deletion is logged and the entry stays in the cache.
MutUpdateCacheDel ==
    /\ jpc = "update" /\ event[2] \in Tables
    /\ cache' = IF event[1] = "del" THEN cache ELSE [cache EXCEPT ![event[2]] = redis[event[2]]]
    /\ entry' = <<event[2], redis[event[2]]>> /\ jpc' = "rotate"
    /\ event' = <<>>
    /\ UNCHANGED <<channel, file, zips, scanned, written, jFaults>> /\ JFrame

\* updateCache: the entry as it is now, an unreadable one being empty; nothing
\* is logged of a set that shows no difference.
UpdateCache ==
    /\ jpc = "update" /\ event[2] \in Tables
    /\ \E new \in {redis[event[2]], 0} :
         /\ (new = redis[event[2]] /\ UNCHANGED jFaults) \/ Fault
         /\ cache' = [cache EXCEPT ![event[2]] = new]
         /\ LET silent == event[1] = "hset" /\ new = cache[event[2]]
            IN  /\ jpc' = IF silent THEN "select" ELSE "rotate"
                /\ entry' = IF silent THEN entry
                            ELSE <<event[2], IF event[1] = "del" THEN 0 ELSE new>>
    /\ event' = <<>>
    /\ UNCHANGED <<channel, file, zips, scanned, written>> /\ JFrame

\* rotateFile, in the order of its steps; any failure ends the journal.
FileSmall ==
    /\ jpc = "rotate" /\ Len(file) < MaxFile /\ jpc' = "write"
    /\ UNCHANGED <<channel, cache, event, file, zips, entry, scanned, written, jFaults>> /\ JFrame
RemoveOldest ==
    /\ jpc = "rotate" /\ Len(file) >= MaxFile /\ jpc' = "zip"
    /\ zips' = IF zips = <<>> THEN zips ELSE Tail(zips)
    /\ UNCHANGED <<channel, cache, event, file, entry, scanned, written, jFaults>> /\ JFrame
Compress ==
    /\ jpc = "zip" /\ jpc' = "recreate"
    /\ zips' = Append(zips, file)
    /\ UNCHANGED <<channel, cache, event, file, entry, scanned, written, jFaults>> /\ JFrame
\* Mutant: the file is opened again and not truncated.
MutRecreate ==
    /\ jpc = "recreate" /\ jpc' = "write"
    /\ UNCHANGED <<channel, cache, event, file, zips, entry, scanned, written, jFaults>> /\ JFrame

Recreate ==
    /\ jpc = "recreate" /\ jpc' = "write" /\ file' = <<>>
    /\ UNCHANGED <<channel, cache, event, zips, entry, scanned, written, jFaults>> /\ JFrame
RotateFails ==
    /\ jpc \in {"rotate", "zip", "recreate"} /\ Fault
    /\ jpc' = "closed" /\ entry' = <<>>
    /\ UNCHANGED <<channel, cache, event, file, zips, scanned, written>> /\ JFrame
RotateFile == FileSmall \/ RemoveOldest \/ Compress \/ Recreate \/ RotateFails

\* A failing write is only logged.
WriteEntry ==
    /\ jpc = "write" /\ jpc' = "select" /\ entry' = <<>>
    /\ \/ /\ file' = Append(file, entry) /\ written' = Append(written, entry)
          /\ UNCHANGED jFaults
       \/ Fault /\ UNCHANGED <<file, written>>
    /\ UNCHANGED <<channel, cache, event, zips, scanned>> /\ JFrame

\* Close, and the journal that reads done.
Close ==
    /\ ~stopJ /\ jpc \notin {"init", "subscribe"} /\ stopJ' = TRUE
    /\ UNCHANGED <<redis, channel, cache, jpc, event, file, zips, entry, scanned, unseen, written,
                   late, dbChanges, jFaults>>
Cleanup ==
    /\ jpc = "select" /\ stopJ /\ jpc' = "closed"
    /\ UNCHANGED <<redis, channel, cache, event, file, zips, entry, scanned, unseen, written,
                   late, stopJ, dbChanges, jFaults>>

Journal == Notified \/ UpdateCache \/ RotateFile \/ WriteEntry \/ Cleanup
Start == InitKey \/ InitDone \/ PSubscribe
Next == Change \/ Start \/ Journal \/ Close

\* The journal goroutine runs; no failure is owed.
Fairness == WF_vars(Start /\ UNCHANGED jFaults) /\ WF_vars(Journal /\ UNCHANGED jFaults)
Spec == Init /\ [][Next]_vars /\ Fairness

-----------------------------------------------------------------------------
\* The state keeps its types and bounds.
TypeOK ==
    /\ cache \in [Tables -> Vals] /\ Len(event) <= 2
    /\ jpc \in {"init", "subscribe", "select", "update", "rotate", "zip", "recreate", "write", "closed"}

\* What the file and the backup hold is a run of the last entries written:
\* rotation loses none of them, and only the oldest backup goes.
LastEntriesKept ==
    LET zip == IF zips = <<>> THEN <<>> ELSE zips[Len(zips)]
        Last(s) == Len(s) <= Len(written) /\ s = SubSeq(written, Len(written) - Len(s) + 1, Len(written))
    IN  Len(zips) <= 1 /\ (Last(zip \o file) \/ (zip = file /\ Last(file)))

\* The cache, and with it what the journal has told, follows the database:
\* unless the key changed before the subscription, a fault occurred or the
\* journal was closed, both agree in the end.
JournalFollows ==
    <>[](stopJ \/ jFaults > 0 \/ \A k \in Tables \ unseen : cache[k] = redis[k])

\* The last entry of a key says whether it is there, unless the key was made
\* again before its deletion was looked at.
LastWord(k) ==
    LET mine == {n \in DOMAIN written : written[n][1] = k}
    IN  written[CHOOSE n \in mine : \A m \in mine : m <= n][2]
LastWordTrue ==
    jpc = "select" /\ event = <<>> /\ jFaults = 0 =>
        \A k \in Tables \ (late \union unseen) :
            (\E n \in DOMAIN written : written[n][1] = k) => LastWord(k) = cache[k]

\* The journal tells the truth: its files hold the last entries written, and the last
\* entry of a key says whether the key is there.
JournalTrue == LastEntriesKept /\ LastWordTrue

=============================================================================
