----------------------- MODULE SubscribeSessionProofs -----------------------
(* Proofs about SubscribeSession, for every set of paths, every admitted       *)
(* combination of mode and data client, every bound and every set of faults.   *)
EXTENDS SubscribeSession, TLAPS

\* What is left of a queue after PriorityQueue.Get is a queue.
LEMMA RemoveItemType ==
    ASSUME NEW S, NEW s \in Seq(S), NEW i \in 1..Len(s)
    PROVE  RemoveItem(s, i) \in Seq(S)
<1> DEFINE n == Len(s) - 1
<1>1. n \in Nat
  OBVIOUS
<1>2. RemoveItem(s, i) \in [1..n -> S]
  BY DEF RemoveItem
<1>3. QED
  BY <1>1, <1>2

-----------------------------------------------------------------------------
(* Type correctness.  The Boolean variables are kept apart from the others, which *)
(* need arithmetic, functions and sequences.                                      *)
TypeFlags ==
    /\ disposed \in BOOLEAN /\ stopped \in BOOLEAN /\ slot \in BOOLEAN
    /\ half \in BOOLEAN /\ synced \in BOOLEAN /\ crashed \in BOOLEAN

TypeData ==
    /\ mode \in Modes /\ kind \in Kinds /\ present \subseteq Paths
    /\ run \in {"init", "setup", "send", "sending", "close", "wait", "done"}
    /\ recv \in {"none", "recv", "eof", "push", "close", "done"}
    /\ dc \in {"none", "start", "syncWait", "stopWait", "round", "idle", "tick", "eventWait", "done"}
    /\ child \in [Children -> {"none", "init", "loop", "done"}]
    /\ wg \subseteq Children \cup {"dc"}
    /\ q \in Seq(Items) /\ hand \in Items \cup {NoItem}
    /\ ch \in {"nil", "open", "closed"} /\ tokens \in 0..1
    /\ todo \subseteq Paths
    /\ ctx \in {"live", "done"} /\ owed \in 0..MaxOwed
    /\ seen \subseteq Paths

\* The two halves make the type invariant of the runs.
LEMMA TypeSplit == TypeOK <=> TypeData /\ TypeFlags
BY DEF TypeOK, TypeData, TypeFlags

LEMMA ItemTypes ==
    /\ Sync \in Items /\ Fatal \in Items
    /\ \A p \in Paths : Data(p) \in Items
BY DEF Items

\* PriorityQueue.Put keeps the queue a sequence of items.
LEMMA PutType ==
    ASSUME TypeData, NEW item \in Items, Put(item)
    PROVE  q' \in Seq(Items)
BY DEF Put, TypeData

\* Client.Close changes only the queue, the channel and the crash flag, within their types.
LEMMA CloseType ==
    ASSUME TypeData, TypeFlags, Close
    PROVE  /\ q' \in Seq(Items) /\ ch' \in {"nil", "open", "closed"}
           /\ disposed' \in BOOLEAN /\ crashed' \in BOOLEAN
<1>1. CASE disposed
  BY <1>1 DEF Close, TypeData, TypeFlags
<1>2. CASE ~disposed
  <2>1. q' = <<>> /\ ch' = IF ch = "open" THEN "closed" ELSE ch
    BY <1>2, Zenon DEF Close
  <2>2. disposed' \in BOOLEAN /\ crashed' \in BOOLEAN
    BY <1>2, Zenon DEF Close
  <2>3. QED
    BY <2>1, <2>2 DEF TypeData
<1>3. QED
  BY <1>1, <1>2

\* A step keeps the types of the queue, the channel, the goroutines and the client.
LEMMA TypeDataStep == TypeOK /\ [Next]_vars => TypeData'
<1> SUFFICES ASSUME TypeData, TypeFlags, [Next]_vars PROVE TypeData'
  BY TypeSplit
<1> USE PathsAssumption, BoundsAssumption, ItemTypes
<1>1. CASE RunReject
  BY <1>1 DEF RunReject, At, session, queue, TypeData, Children, Helpers
<1>2. CASE RunAdmit
  BY <1>2 DEF RunAdmit, At, session, queue, TypeData, Children, Helpers
<1>3. CASE RunRefuse
  BY <1>3 DEF RunRefuse, At, session, queue, TypeData, Children, Helpers
<1>4. CASE RunStart
  BY <1>4 DEF RunStart, At, session, client, queue, TypeData, Children, Helpers
<1>5. CASE SendGet
  BY <1>5, RemoveItemType DEF SendGet, At, session, client, Least, Notifications, TypeData, Children, Helpers
<1>6. CASE SendMsg
  BY <1>6 DEF SendMsg, At, session, queue, Items, Data, Sync, Fatal, NoItem, TypeData, Children, Helpers
<1>7. CASE RunClose
  BY <1>7, CloseType DEF RunClose, At, session, client, TypeData, Children, Helpers
<1>8. CASE RunReturn
  BY <1>8 DEF RunReturn, At, session, queue, TypeData, Children, Helpers
<1>9. CASE RecvEnd
  BY <1>9 DEF RecvEnd, At, session, client, queue, TypeData, Children, Helpers
<1>10. CASE RecvRequest
  BY <1>10 DEF RecvRequest, At, session, queue, TypeData, Children, Helpers
<1>11. CASE RecvEofWait
  BY <1>11 DEF RecvEofWait, At, session, client, queue, TypeData, Children, Helpers
<1>12. CASE RecvPush
  BY <1>12 DEF RecvPush, At, session, client, queue, TypeData, Children, Helpers
<1>13. CASE RecvClose
  BY <1>13, CloseType DEF RecvClose, At, session, client, TypeData, Children, Helpers
<1>14. CASE DbStreamStart
  BY <1>14, PutType DEF DbStreamStart, StartChildren, Serves, At, session, client, TypeData, Children, Helpers
<1>15. CASE DbSynced
  BY <1>15, PutType DEF DbSynced, At, session, client, TypeData, Children, Helpers
<1>16. CASE StreamStop
  BY <1>16 DEF StreamStop, Done, At, session, client, queue, TypeData, Children, Helpers
<1>17. CASE NonDbStreamStart
  BY <1>17, PutType DEF NonDbStreamStart, Done, StartRound, Serves, At, session, client, TypeData, Children, Helpers
<1>18. CASE TranslReject
  BY <1>18, PutType DEF TranslReject, Done, At, session, client, TypeData, Children, Helpers
<1>19. CASE TranslStreamStart
  BY <1>19 DEF TranslStreamStart, StartChildren, StartRound, Serves, At, session, client, queue, TypeData, Children, Helpers
<1>20. CASE EventStreamStart
  BY <1>20 DEF EventStreamStart, StartChildren, Serves, At, session, client, queue, TypeData, Children, Helpers
<1>21. CASE EventStop
  BY <1>21 DEF EventStop, Done, At, session, client, queue, TypeData, Children, Helpers
<1>22. CASE GetEvent
  BY <1>22, PutType DEF GetEvent, Done, EndChild, At, session, client, TypeData, Children, Helpers
<1>23. CASE StatsEnd
  BY <1>23 DEF StatsEnd, Done, EndChild, At, session, client, queue, TypeData, Children, Helpers
<1>24. CASE RoundStart
  BY <1>24 DEF RoundStart, Done, StartRound, Serves, At, session, client, queue, TypeData, Children, Helpers
<1>25. CASE EmptyRun
  BY <1>25 DEF EmptyRun, Serves, At, session, client, queue, TypeData, Children, Helpers
<1>26. CASE PollReadError
  BY <1>26 DEF PollReadError, Done, Serves, At, session, client, queue, TypeData, Children, Helpers
<1>27. CASE RoundSync
  BY <1>27, PutType DEF RoundSync, Done, StartChildren, Serves, At, session, client, TypeData, Children, Helpers
<1>28. CASE TranslTick
  BY <1>28, PutType DEF TranslTick, At, session, client, TypeData, Children, Helpers
<1>29. CASE TranslStop
  BY <1>29 DEF TranslStop, Done, At, session, client, queue, TypeData, Children, Helpers
<1>30. CASE RespNotify
  BY <1>30, PutType DEF RespNotify, At, session, client, TypeData, Children, Helpers
<1>31. CASE RespEnd
  BY <1>31 DEF RespEnd, Done, EndChild, At, session, client, queue, TypeData, Children, Helpers
<1>32. CASE RespTerminated
  BY <1>32, PutType DEF RespTerminated, Done, EndChild, At, session, client, TypeData, Children, Helpers
<1>33. CASE ClientGone
  BY <1>33 DEF ClientGone, session, queue, TypeData, Children, Helpers
<1>34. CASE ClientHalfClose
  BY <1>34 DEF ClientHalfClose, session, queue, TypeData, Children, Helpers
<1>35. CASE DuplicateClose
  BY <1>35, CloseType DEF DuplicateClose, session, client, TypeData, Children, Helpers
<1>36. CASE Ended
  BY <1>36 DEF Ended, vars, TypeData, Children, Helpers
<1>37. ASSUME NEW p \in Paths, DbSubInit(p) PROVE TypeData'
  BY <1>37, PutType DEF DbSubInit, Done, EndChild, At, session, client, TypeData, Children, Helpers
<1>38. ASSUME NEW p \in Paths, DbSubTick(p) PROVE TypeData'
  BY <1>38, PutType DEF DbSubTick, Done, EndChild, At, session, client, TypeData, Children, Helpers
<1>39. ASSUME NEW p \in Paths, NonDbSubTick(p) PROVE TypeData'
  BY <1>39, PutType DEF NonDbSubTick, At, session, client, TypeData, Children, Helpers
<1>40. ASSUME NEW p \in Paths, SubStop(p) PROVE TypeData'
  BY <1>40 DEF SubStop, Done, EndChild, At, session, client, queue, TypeData, Children, Helpers
<1>41. ASSUME NEW p \in Paths, RoundPath(p) PROVE TypeData'
  BY <1>41, PutType DEF RoundPath, At, session, client, TypeData, Children, Helpers
<1>42. CASE UNCHANGED vars
  BY <1>42 DEF vars, TypeData
<1>43. QED
  BY <1>1, <1>2, <1>3, <1>4, <1>5, <1>6, <1>7, <1>8, <1>9, <1>10, <1>11, <1>12, <1>13,
     <1>14, <1>15, <1>16, <1>17, <1>18, <1>19, <1>20, <1>21, <1>22, <1>23, <1>24, <1>25,
     <1>26, <1>27, <1>28, <1>29, <1>30, <1>31, <1>32, <1>33, <1>34, <1>35, <1>36, <1>37,
     <1>38, <1>39, <1>40, <1>41, <1>42 DEF Next, RunStep, RecvStep, DcStep, DcStop, Ticks

\* A step keeps the Boolean variables Boolean.
LEMMA TypeFlagsStep == TypeOK /\ [Next]_vars => TypeFlags'
<1> SUFFICES ASSUME TypeData, TypeFlags, [Next]_vars PROVE TypeFlags'
  BY TypeSplit
<1>1. CASE RunReject
  BY <1>1 DEF RunReject, At, session, queue, TypeFlags
<1>2. CASE RunAdmit
  BY <1>2 DEF RunAdmit, At, session, queue, TypeFlags
<1>3. CASE RunRefuse
  BY <1>3 DEF RunRefuse, At, session, queue, TypeFlags
<1>4. CASE RunStart
  BY <1>4 DEF RunStart, At, session, client, queue, TypeFlags
<1>5. CASE SendGet
  BY <1>5 DEF SendGet, At, session, client, TypeFlags
<1>6. CASE SendMsg
  BY <1>6 DEF SendMsg, At, session, queue, TypeFlags
<1>7. CASE RunClose
  BY <1>7, CloseType DEF RunClose, At, session, client, TypeFlags
<1>8. CASE RunReturn
  BY <1>8 DEF RunReturn, At, session, queue, TypeFlags
<1>9. CASE RecvEnd
  BY <1>9 DEF RecvEnd, At, session, client, queue, TypeFlags
<1>10. CASE RecvRequest
  BY <1>10 DEF RecvRequest, At, session, queue, TypeFlags
<1>11. CASE RecvEofWait
  BY <1>11 DEF RecvEofWait, At, session, client, queue, TypeFlags
<1>12. CASE RecvPush
  BY <1>12 DEF RecvPush, At, session, client, queue, TypeFlags
<1>13. CASE RecvClose
  BY <1>13, CloseType DEF RecvClose, At, session, client, TypeFlags
<1>14. CASE DbStreamStart
  BY <1>14 DEF DbStreamStart, At, session, client, TypeFlags
<1>15. CASE DbSynced
  BY <1>15 DEF DbSynced, At, session, client, TypeFlags
<1>16. CASE StreamStop
  BY <1>16 DEF StreamStop, At, session, client, queue, TypeFlags
<1>17. CASE NonDbStreamStart
  BY <1>17 DEF NonDbStreamStart, At, session, client, TypeFlags
<1>18. CASE TranslReject
  BY <1>18 DEF TranslReject, At, session, client, TypeFlags
<1>19. CASE TranslStreamStart
  BY <1>19 DEF TranslStreamStart, At, session, client, queue, TypeFlags
<1>20. CASE EventStreamStart
  BY <1>20 DEF EventStreamStart, At, session, client, queue, TypeFlags
<1>21. CASE EventStop
  BY <1>21 DEF EventStop, At, session, client, queue, TypeFlags
<1>22. CASE GetEvent
  BY <1>22 DEF GetEvent, At, session, client, TypeFlags
<1>23. CASE StatsEnd
  BY <1>23 DEF StatsEnd, At, session, client, queue, TypeFlags
<1>24. CASE RoundStart
  BY <1>24 DEF RoundStart, At, session, client, queue, TypeFlags
<1>25. CASE EmptyRun
  BY <1>25 DEF EmptyRun, At, session, client, queue, TypeFlags
<1>26. CASE PollReadError
  BY <1>26 DEF PollReadError, At, session, client, queue, TypeFlags
<1>27. CASE RoundSync
  BY <1>27 DEF RoundSync, At, session, client, TypeFlags
<1>28. CASE TranslTick
  BY <1>28 DEF TranslTick, At, session, client, TypeFlags
<1>29. CASE TranslStop
  BY <1>29 DEF TranslStop, At, session, client, queue, TypeFlags
<1>30. CASE RespNotify
  BY <1>30 DEF RespNotify, At, session, client, TypeFlags
<1>31. CASE RespEnd
  BY <1>31 DEF RespEnd, At, session, client, queue, TypeFlags
<1>32. CASE RespTerminated
  BY <1>32 DEF RespTerminated, At, session, client, TypeFlags
<1>33. CASE ClientGone
  BY <1>33 DEF ClientGone, session, queue, TypeFlags
<1>34. CASE ClientHalfClose
  BY <1>34 DEF ClientHalfClose, session, queue, TypeFlags
<1>35. CASE DuplicateClose
  BY <1>35, CloseType DEF DuplicateClose, session, client, TypeFlags
<1>36. CASE Ended
  BY <1>36 DEF Ended, vars, TypeFlags
<1>37. ASSUME NEW p \in Paths, DbSubInit(p) PROVE TypeFlags'
  BY <1>37 DEF DbSubInit, At, session, client, TypeFlags
<1>38. ASSUME NEW p \in Paths, DbSubTick(p) PROVE TypeFlags'
  BY <1>38 DEF DbSubTick, At, session, client, TypeFlags
<1>39. ASSUME NEW p \in Paths, NonDbSubTick(p) PROVE TypeFlags'
  BY <1>39 DEF NonDbSubTick, At, session, client, TypeFlags
<1>40. ASSUME NEW p \in Paths, SubStop(p) PROVE TypeFlags'
  BY <1>40 DEF SubStop, At, session, client, queue, TypeFlags
<1>41. ASSUME NEW p \in Paths, RoundPath(p) PROVE TypeFlags'
  BY <1>41 DEF RoundPath, At, session, client, TypeFlags
<1>42. CASE UNCHANGED vars
  BY <1>42 DEF vars, TypeFlags
<1>43. QED
  BY <1>1, <1>2, <1>3, <1>4, <1>5, <1>6, <1>7, <1>8, <1>9, <1>10, <1>11, <1>12, <1>13,
     <1>14, <1>15, <1>16, <1>17, <1>18, <1>19, <1>20, <1>21, <1>22, <1>23, <1>24, <1>25,
     <1>26, <1>27, <1>28, <1>29, <1>30, <1>31, <1>32, <1>33, <1>34, <1>35, <1>36, <1>37,
     <1>38, <1>39, <1>40, <1>41, <1>42 DEF Next, RunStep, RecvStep, DcStep, DcStop, Ticks

\* The variables of a Subscribe RPC keep their types for every set of paths and every
\* interleaving of Run, recv, the data client and the environment.
THEOREM TypeCorrect == Spec => []TypeOK
<1>1. Init => TypeOK
  <2> SUFFICES ASSUME Init PROVE TypeOK
    OBVIOUS
  <2>1. mode \in Modes /\ kind \in Kinds /\ present \subseteq Paths
    BY CombosAssumption DEF Init
  <2>2. owed \in 0..MaxOwed /\ tokens \in 0..1
    BY BoundsAssumption DEF Init
  <2>3. TypeData
    BY <2>1, <2>2 DEF Init, TypeData
  <2>4. TypeFlags
    BY DEF Init, TypeFlags
  <2>5. QED
    BY <2>3, <2>4, TypeSplit
<1>2. TypeOK /\ [Next]_vars => TypeOK'
  BY TypeDataStep, TypeFlagsStep DEF TypeOK, TypeData, TypeFlags
<1>3. QED
  BY <1>1, <1>2, PTL DEF Spec

-----------------------------------------------------------------------------
(* Run returns after its goroutines.                                              *)

\* Every goroutine of the data client that is alive is one the WaitGroup counts; before
\* RunStart there is none, and once Run has returned the WaitGroup is empty.
Counted ==
    /\ dc \notin {"none", "done"} => "dc" \in wg
    /\ \A g \in Children : child[g] \in {"init", "loop"} => g \in wg \/ kind = "nondb"
    /\ run \in {"init", "setup"} => dc = "none" /\ wg = {}
    /\ run = "done" => wg = {}

LEMMA CountedStep == TypeOK /\ Counted /\ [Next]_vars => Counted'
<1> SUFFICES ASSUME TypeData, Counted, [Next]_vars PROVE Counted'
  BY TypeSplit
<1>a. /\ "dc" \notin Children /\ Paths \subseteq Children
      /\ child \in [Children -> {"none", "init", "loop", "done"}]
  BY PathsAssumption DEF Children, Helpers, TypeData
<1>1. CASE RunReject
  BY <1>1, <1>a DEF RunReject, At, session, queue, Counted
<1>2. CASE RunAdmit
  BY <1>2, <1>a DEF RunAdmit, At, session, queue, Counted
<1>3. CASE RunRefuse
  BY <1>3, <1>a DEF RunRefuse, At, session, queue, Counted
<1>4. CASE RunStart
  BY <1>4, <1>a DEF RunStart, At, session, client, queue, Counted
<1>5. CASE SendGet
  BY <1>5, <1>a DEF SendGet, At, session, client, Counted
<1>6. CASE SendMsg
  BY <1>6, <1>a DEF SendMsg, At, session, queue, Counted
<1>7. CASE RunClose
  BY <1>7, <1>a DEF RunClose, At, session, client, Counted
<1>8. CASE RunReturn
  BY <1>8, <1>a DEF RunReturn, At, session, queue, Counted
<1>9. CASE RecvEnd
  BY <1>9, <1>a DEF RecvEnd, At, session, client, queue, Counted
<1>10. CASE RecvRequest
  BY <1>10, <1>a DEF RecvRequest, At, session, queue, Counted
<1>11. CASE RecvEofWait
  BY <1>11, <1>a DEF RecvEofWait, At, session, client, queue, Counted
<1>12. CASE RecvPush
  BY <1>12, <1>a DEF RecvPush, At, session, client, queue, Counted
<1>13. CASE RecvClose
  BY <1>13, <1>a DEF RecvClose, At, session, client, Counted
<1>14. CASE DbStreamStart
  BY <1>14, <1>a DEF DbStreamStart, StartChildren, Serves, At, session, client, Counted
<1>15. CASE DbSynced
  BY <1>15, <1>a DEF DbSynced, At, session, client, Counted
<1>16. CASE StreamStop
  BY <1>16, <1>a DEF StreamStop, Done, At, session, client, queue, Counted
<1>17. CASE NonDbStreamStart
  BY <1>17, <1>a DEF NonDbStreamStart, Done, StartRound, Serves, At, session, client,
     Counted
<1>18. CASE TranslReject
  BY <1>18, <1>a DEF TranslReject, Done, At, session, client, Counted
<1>19. CASE TranslStreamStart
  BY <1>19, <1>a DEF TranslStreamStart, StartChildren, StartRound, Serves, At, session,
     client, queue, Counted
<1>20. CASE EventStreamStart
  BY <1>20, <1>a DEF EventStreamStart, StartChildren, Serves, At, session, client, queue,
     Counted
<1>21. CASE EventStop
  BY <1>21, <1>a DEF EventStop, Done, At, session, client, queue, Counted
<1>22. CASE GetEvent
  BY <1>22, <1>a DEF GetEvent, Done, EndChild, At, session, client, Counted
<1>23. CASE StatsEnd
  BY <1>23, <1>a DEF StatsEnd, Done, EndChild, At, session, client, queue, Counted
<1>24. CASE RoundStart
  BY <1>24, <1>a DEF RoundStart, Done, StartRound, Serves, At, session, client, queue,
     Counted
<1>25. CASE EmptyRun
  BY <1>25, <1>a DEF EmptyRun, Serves, At, session, client, queue, Counted
<1>26. CASE PollReadError
  BY <1>26, <1>a DEF PollReadError, Done, Serves, At, session, client, queue, Counted
<1>27. CASE RoundSync
  BY <1>27, <1>a DEF RoundSync, Done, StartChildren, Serves, At, session, client, Counted
<1>28. CASE TranslTick
  BY <1>28, <1>a DEF TranslTick, At, session, client, Counted
<1>29. CASE TranslStop
  BY <1>29, <1>a DEF TranslStop, Done, At, session, client, queue, Counted
<1>30. CASE RespNotify
  BY <1>30, <1>a DEF RespNotify, At, session, client, Counted
<1>31. CASE RespEnd
  BY <1>31, <1>a DEF RespEnd, Done, EndChild, At, session, client, queue, Counted
<1>32. CASE RespTerminated
  BY <1>32, <1>a DEF RespTerminated, Done, EndChild, At, session, client, Counted
<1>33. CASE ClientGone
  BY <1>33, <1>a DEF ClientGone, session, queue, Counted
<1>34. CASE ClientHalfClose
  BY <1>34, <1>a DEF ClientHalfClose, session, queue, Counted
<1>35. CASE DuplicateClose
  BY <1>35, <1>a DEF DuplicateClose, session, client, Counted
<1>36. CASE Ended
  BY <1>36, <1>a DEF Ended, vars, Counted
<1>37. ASSUME NEW p \in Paths, DbSubInit(p) PROVE Counted'
  BY <1>37, <1>a DEF DbSubInit, Done, EndChild, At, session, client, Counted
<1>38. ASSUME NEW p \in Paths, DbSubTick(p) PROVE Counted'
  BY <1>38, <1>a DEF DbSubTick, Done, EndChild, At, session, client, Counted
<1>39. ASSUME NEW p \in Paths, NonDbSubTick(p) PROVE Counted'
  BY <1>39, <1>a DEF NonDbSubTick, At, session, client, Counted
<1>40. ASSUME NEW p \in Paths, SubStop(p) PROVE Counted'
  BY <1>40, <1>a DEF SubStop, Done, EndChild, At, session, client, queue, Counted
<1>41. ASSUME NEW p \in Paths, RoundPath(p) PROVE Counted'
  BY <1>41, <1>a DEF RoundPath, At, session, client, Counted
<1>42. CASE UNCHANGED vars
  BY <1>42 DEF vars, Counted
<1>43. QED
  BY <1>1, <1>2, <1>3, <1>4, <1>5, <1>6, <1>7, <1>8, <1>9, <1>10, <1>11, <1>12, <1>13,
     <1>14, <1>15, <1>16, <1>17, <1>18, <1>19, <1>20, <1>21, <1>22, <1>23, <1>24, <1>25,
     <1>26, <1>27, <1>28, <1>29, <1>30, <1>31, <1>32, <1>33, <1>34, <1>35, <1>36, <1>37,
     <1>38, <1>39, <1>40, <1>41, <1>42 DEF Next, RunStep, RecvStep, DcStep, DcStop, Ticks

\* Client.Run returns, and lets its deferred calls release the data client and the
\* connection slot, only after every goroutine that joined the WaitGroup has ended.
THEOREM RunReturnsClean == Spec => []ReturnsClean
<1>1. Init => Counted
  BY DEF Init, Counted
<1>2. Counted => ReturnsClean
  BY DEF Counted, ReturnsClean
<1>3. QED
  BY <1>1, <1>2, TypeCorrect, CountedStep, PTL DEF Spec

=============================================================================
