----------------------- MODULE SuperSubscriptionProofs -----------------------
(***************************************************************************)
(* Proofs about SuperSubscription, for every set of clients and requests.  *)
(* The safety properties follow from Shape, which relates the pointers of  *)
(* the clients to the tables of the superSubscriptions.                    *)
(***************************************************************************)
EXTENDS SuperSubscription, TLAPS

Early == {"idle", "first", "synced"}

\* The types of what the clients share.
Typed ==
    /\ pc \in [Clients -> Locations] /\ req \in [Clients -> Requests]
    /\ home \in [Clients -> Clients \cup {None}]
    /\ wake \in [Clients -> 0..1]
    /\ subs \subseteq Clients
    /\ members \in [Clients -> SUBSET Clients]
    /\ primary \in [Clients -> Clients \cup {None}]
    /\ tickers \in [Clients -> {"none", "on", "off"}]

\* A client that has not joined has created nothing and cannot have been woken.
Fresh ==
    \A c \in Clients : pc[c] \in Early =>
        /\ members[c] = {} /\ primary[c] = None /\ tickers[c] = "none"
        /\ wake[c] = 0

\* The members of a superSubscription are the clients that point to it.
Linked ==
    /\ \A c \in Clients : pc[c] \in Joined => home[c] \in Clients /\ req[home[c]] = req[c]
    /\ \A c, i \in Clients : c \in members[i] <=> pc[c] \in Joined /\ home[c] = i

\* The live superSubscriptions are those with members; their primary is a member, and
\* no two of them have the same request.
Led ==
    /\ \A i \in Clients : i \in subs <=> members[i] # {}
    /\ \A i \in subs : primary[i] \in members[i]
    /\ \A i, j \in subs : req[i] = req[j] => i = j

\* Whoever ticks or samples is the primary.
Elected == \A c \in Clients : pc[c] \in Serving => primary[home[c]] = c

\* The tickers of a live superSubscription are not stopped, and are there for a client
\* that has passed populateTickers.
Ticking ==
    /\ \A i \in subs : tickers[i] # "off"
    /\ \A c \in Clients : pc[c] \in Serving \cup {"check", "select"} => tickers[home[c]] = "on"

Shape == Typed /\ Fresh /\ Linked /\ Led /\ WakeHasRoom /\ Elected /\ Ticking

\* The first state has the shape.
LEMMA InitShape == Init => Shape
<1> SUFFICES ASSUME Init PROVE Shape
  OBVIOUS
<1>1. Typed
  BY DEF Init, Typed, Locations
<1>2. Fresh /\ Linked
  BY DEF Init, Fresh, Linked, Joined, Serving
<1>3. Led /\ WakeHasRoom
  BY DEF Init, Led, WakeHasRoom
<1>4. Elected /\ Ticking
  BY DEF Init, Elected, Ticking, Serving
<1> QED
  BY <1>1, <1>2, <1>3, <1>4 DEF Shape

\* A step that leaves the tables alone and moves a client within the states before it
\* joins, or within those after it, keeps the shape as long as a client that comes to
\* serve is the primary and one that looks at the tickers has them.
LEMMA LocalStep ==
    ASSUME Shape, NEW c \in Clients, NEW to \in Locations,
           pc' = [pc EXCEPT ![c] = to],
           pc[c] \in Early <=> to \in Early, pc[c] \in Joined <=> to \in Joined,
           to \in Serving => primary[home[c]] = c,
           to \in Serving \cup {"check", "select"} => tickers[home[c]] = "on",
           UNCHANGED <<req, sharing, tickers>>
    PROVE  Shape'
<1> USE DEF Shape, sharing
<1>1. Typed'
  BY DEF Typed
<1>2. Fresh' /\ Linked'
  BY DEF Typed, Fresh, Linked
<1>3. Led' /\ WakeHasRoom'
  BY DEF Typed, Led, WakeHasRoom
<1>4. Elected' /\ Ticking'
  BY DEF Typed, Elected, Ticking
<1> QED
  BY <1>1, <1>2, <1>3, <1>4

\* addClientToSuperSubscription keeps the shape: a new superSubscription is made only
\* when no live one has the request.
LEMMA JoinStep == ASSUME Shape, NEW c \in Clients, Join(c) PROVE Shape'
<1> USE DEF Shape, Go
<1>1. PICK i \in Clients : Enter(c, i) /\ (i \in Matching(c) \/ (i = c /\ Matching(c) = {}))
  BY DEF Join, Matching, Typed
<1>2. /\ pc[c] = "synced" /\ pc' = [pc EXCEPT ![c] = "joined"]
      /\ UNCHANGED <<req, tickers>>
  BY DEF Join
<1>3. /\ home' = [home EXCEPT ![c] = i]
      /\ members' = [members EXCEPT ![i] = @ \cup {c}]
      /\ primary' = [primary EXCEPT ![i] = IF @ = None THEN c ELSE @]
      /\ subs' = subs \cup {i}
      /\ wake' = wake
  BY <1>1 DEF Enter
<1>4. c \notin subs /\ members[c] = {} /\ primary[c] = None /\ tickers[c] = "none" /\ wake[c] = 0
  BY <1>2 DEF Fresh, Led, Early, Typed
<1>5. i \in subs \/ i = c
  BY <1>1 DEF Matching
<1>6. req[i] = req[c]
  BY <1>1 DEF Matching
<1>7. i \in subs => primary[i] \in members[i] /\ primary[i] # None
  BY SharingAssumption DEF Led, Typed
<1>8. \A j \in subs : req[j] = req[c] => j = i
  <2> SUFFICES ASSUME NEW j \in subs, req[j] = req[c] PROVE j = i
    OBVIOUS
  <2>1. j \in Matching(c)
    BY DEF Matching
  <2>2. i \in Matching(c)
    BY <1>1, <2>1
  <2> QED
    BY <2>1, <2>2 DEF Matching, Led
<1>9. c \notin members[i]
  BY <1>2 DEF Linked, Joined, Serving
<1>10. Typed'
  BY <1>2, <1>3 DEF Typed, Locations, Joined
<1>11. Fresh'
  BY <1>2, <1>3, <1>5, <1>4 DEF Fresh, Typed, Early, Led
<1>12. Linked'
  BY <1>2, <1>3, <1>6 DEF Linked, Typed, Joined, Serving
<1>13. Led'
  <2>1. \A j \in Clients : j \in subs' <=> members'[j] # {}
    BY <1>3 DEF Led, Typed
  <2>2. \A j \in subs' : primary'[j] \in members'[j]
    BY <1>3, <1>4, <1>5, <1>7 DEF Led, Typed
  <2>3. \A j, k \in subs' : req'[j] = req'[k] => j = k
    BY <1>2, <1>3, <1>6, <1>8 DEF Led
  <2> QED
    BY <2>1, <2>2, <2>3 DEF Led
<1>14. WakeHasRoom'
  BY <1>3, <1>4, <1>5, <1>7 DEF WakeHasRoom, Typed
<1>15. Elected'
  BY <1>2, <1>3, <1>4, <1>5, <1>7 DEF Elected, Typed, Serving, Linked, Joined
<1>16. Ticking'
  BY <1>2, <1>3, <1>4, <1>5 DEF Ticking, Typed, Serving
<1> QED
  BY <1>10, <1>11, <1>12, <1>13, <1>14, <1>15, <1>16

\* leaveSuperSubscription keeps the shape: the last client takes the superSubscription
\* with it, and a primary that leaves others behind has one of them promoted.
LEMMA LeaveStep == ASSUME Shape, NEW c \in Clients, Leave(c) PROVE Shape'
<1> USE DEF Shape, Go
<1> DEFINE i == home[c]
<1>1. /\ pc[c] = "leaving" /\ pc' = [pc EXCEPT ![c] = "gone"]
      /\ members' = [members EXCEPT ![i] = @ \ {c}]
      /\ UNCHANGED <<home, req>>
  BY DEF Leave
<1>2. i \in Clients /\ c \in members[i] /\ i \in subs
  BY <1>1 DEF Linked, Led, Joined
<1> HIDE DEF i
<1>3. Linked'
  BY <1>1, <1>2 DEF Linked, Typed, Joined, Serving, i
<1>4. CASE LeaveLast(c, i)
  <2>1. /\ members[i] = {c} /\ subs' = subs \ {i} /\ UNCHANGED <<primary, wake>>
        /\ tickers' = [tickers EXCEPT ![i] = IF @ = "on" THEN "off" ELSE @]
    BY <1>4 DEF LeaveLast
  <2>2. Typed'
    BY <1>1, <1>2, <2>1 DEF Typed, Locations
  <2>3. pc[i] \notin Early
    BY <1>2 DEF Fresh
  <2>4. Fresh'
    BY <1>1, <1>2, <2>1, <2>3 DEF Fresh, Typed, Early
  <2>5. Led' /\ WakeHasRoom'
    BY <1>1, <1>2, <2>1 DEF Led, WakeHasRoom, Typed
  <2>6. Elected'
    BY <1>1, <2>1 DEF Elected, Typed, Serving
  <2>7. \A d \in Clients \ {c} : pc[d] \in Joined => home[d] # i
    BY <2>1 DEF Linked
  <2>8. Ticking'
    BY <1>1, <1>2, <2>1, <2>7 DEF Ticking, Linked, Typed, Serving, Joined
  <2> QED
    BY <1>3, <2>2, <2>4, <2>5, <2>6, <2>8
<1>5. CASE LeaveSecondary(c, i)
  <2>1. members[i] # {c} /\ primary[i] # c /\ UNCHANGED <<subs, tickers, primary, wake>>
    BY <1>5 DEF LeaveSecondary
  <2>2. Typed'
    BY <1>1, <1>2, <2>1 DEF Typed, Locations
  <2>3. Fresh'
    BY <1>1, <1>2, <2>1 DEF Fresh, Typed, Early
  <2>4. Led' /\ WakeHasRoom'
    BY <1>1, <1>2, <2>1 DEF Led, WakeHasRoom, Typed
  <2>5. Elected' /\ Ticking'
    BY <1>1, <2>1 DEF Elected, Ticking, Typed, Serving
  <2> QED
    BY <1>3, <2>2, <2>3, <2>4, <2>5
<1>6. CASE Promote(c, i)
  <2>1. /\ members[i] # {c} /\ primary[i] = c /\ UNCHANGED <<subs, tickers>>
    BY <1>6 DEF Promote
  <2>2. PICK n \in members[i] \ {c} :
           primary' = [primary EXCEPT ![i] = n] /\ wake' = [wake EXCEPT ![n] = 1]
    BY <1>6 DEF Promote
  <2>3. n \in Clients /\ n # c /\ pc[n] \in Joined /\ home[n] = i
    BY <1>2, <2>2 DEF Linked, Typed
  <2>4. Typed'
    BY <1>1, <1>2, <2>1, <2>2, <2>3 DEF Typed, Locations
  <2>5. pc[i] \notin Early /\ pc[n] \notin Early
    BY <1>2, <2>3 DEF Fresh, Early, Joined, Serving
  <2>6. Fresh'
    BY <1>1, <1>2, <2>1, <2>2, <2>3, <2>5 DEF Fresh, Typed, Early
  <2>7. Led'
    BY <1>1, <1>2, <2>1, <2>2, <2>3 DEF Led, Typed
  <2>8. \A j \in subs \ {i} : n \notin members[j]
    BY <2>3 DEF Linked, Typed
  <2>9. WakeHasRoom'
    BY <1>1, <1>2, <2>1, <2>2, <2>3, <2>8 DEF WakeHasRoom, Typed
  <2>10. Elected' /\ Ticking'
    BY <1>1, <2>1, <2>2, <1>2 DEF Elected, Ticking, Typed, Serving
  <2> QED
    BY <1>3, <2>4, <2>6, <2>7, <2>9, <2>10
<1> QED
  BY <1>4, <1>5, <1>6 DEF Leave, i

\* Every step keeps the shape.
LEMMA ShapeStep == Shape /\ [Next]_vars => Shape'
<1> SUFFICES ASSUME Shape, [Next]_vars PROVE Shape'
  OBVIOUS
<1> USE DEF Go
<1>0. Typed /\ Linked /\ Elected /\ Ticking
  BY DEF Shape
<1>1. ASSUME UNCHANGED <<pc, req, sharing, tickers>> PROVE Shape'
  BY <1>1 DEF Shape, Typed, Fresh, Linked, Led, WakeHasRoom, Elected, Ticking, sharing
<1>2. ASSUME NEW c \in Clients, Start(c) PROVE Shape'
  <2>1. pc[c] = "idle" /\ pc' = [pc EXCEPT ![c] = "first"] /\ UNCHANGED <<req, sharing, tickers>>
    BY <1>2 DEF Start
  <2> QED
    BY <2>1, LocalStep DEF Early, Joined, Serving, Locations
<1>3. ASSUME NEW c \in Clients, RoundEnd(c) PROVE Shape'
  <2>1. UNCHANGED <<req, sharing, tickers>>
    BY <1>3 DEF RoundEnd
  <2>2. CASE pc[c] = "first" /\ pc' = [pc EXCEPT ![c] = "synced"]
    BY <2>1, <2>2, LocalStep DEF Early, Joined, Serving, Locations
  <2>3. CASE pc[c] = "round" /\ pc' = [pc EXCEPT ![c] = "loop"]
    <3>1. primary[home[c]] = c /\ tickers[home[c]] = "on"
      BY <2>3, <1>0 DEF Elected, Ticking, Serving
    <3> QED
      BY <2>1, <2>3, <3>1, LocalStep DEF Early, Joined, Serving, Locations
  <2> QED
    BY <1>3, <1>0, <2>2, <2>3 DEF RoundEnd, Typed
<1>4. ASSUME NEW c \in Clients, PopulateTickers(c) PROVE Shape'
  <2>1. /\ pc[c] = "joined" /\ pc' = [pc EXCEPT ![c] = "check"]
        /\ tickers' = [tickers EXCEPT ![home[c]] = IF @ = "none" THEN "on" ELSE @]
        /\ UNCHANGED <<req, home, wake, subs, members, primary>>
    BY <1>4 DEF PopulateTickers, sharing
  <2>2. home[c] \in Clients /\ c \in members[home[c]] /\ home[c] \in subs
    BY <2>1 DEF Shape, Linked, Led, Joined
  <2>3. tickers[home[c]] # "off" /\ pc[home[c]] \notin Early
    BY <2>2 DEF Shape, Ticking, Fresh
  <2>4. Typed'
    BY <1>0, <2>1, <2>2 DEF Typed, Locations, Joined
  <2>5. Fresh' /\ Linked'
    BY <1>0, <2>1, <2>2, <2>3 DEF Shape, Fresh, Linked, Typed, Early, Joined
  <2>6. Led' /\ WakeHasRoom' /\ Elected'
    BY <1>0, <2>1 DEF Shape, Led, WakeHasRoom, Elected, Typed, Serving
  <2>7. Ticking'
    BY <1>0, <2>1, <2>2, <2>3 DEF Ticking, Typed, Serving
  <2> QED
    BY <2>4, <2>5, <2>6, <2>7 DEF Shape
<1>5. ASSUME NEW c \in Clients, CheckPrimary(c) PROVE Shape'
  <2>1. pc[c] = "check" /\ UNCHANGED <<req, sharing, tickers>> /\ tickers[home[c]] = "on"
    BY <1>5, <1>0 DEF CheckPrimary, Ticking
  <2>2. CASE primary[home[c]] = c /\ pc' = [pc EXCEPT ![c] = "loop"]
    BY <2>1, <2>2, LocalStep DEF Early, Joined, Serving, Locations
  <2>3. CASE primary[home[c]] # c /\ pc' = [pc EXCEPT ![c] = "select"]
    BY <2>1, <2>3, LocalStep DEF Early, Joined, Serving, Locations
  <2> QED
    BY <1>5, <2>2, <2>3 DEF CheckPrimary
<1>6. ASSUME NEW c \in Clients, Wake(c) PROVE Shape'
  <2>1. /\ pc[c] = "select" /\ pc' = [pc EXCEPT ![c] = "check"] /\ wake[c] > 0
        /\ wake' = [wake EXCEPT ![c] = @ - 1]
        /\ UNCHANGED <<req, home, subs, members, primary, tickers>>
    BY <1>6 DEF Wake
  <2>2. Typed'
    BY <1>0, <2>1 DEF Typed, Locations, Joined
  <2>3. Fresh' /\ Linked' /\ Led'
    BY <1>0, <2>1 DEF Shape, Fresh, Linked, Led, Typed, Early, Joined, Serving
  <2>4. wake'[c] = 0
    BY <1>0, <2>1 DEF Typed
  <2>5. WakeHasRoom'
    BY <1>0, <2>1, <2>4 DEF Shape, WakeHasRoom, Typed
  <2>6. Elected' /\ Ticking'
    BY <1>0, <2>1 DEF Elected, Ticking, Typed, Serving
  <2> QED
    BY <2>2, <2>3, <2>5, <2>6 DEF Shape
<1>7. ASSUME NEW c \in Clients, SecondaryExit(c) \/ PrimaryExit(c) PROVE Shape'
  <2>1. /\ pc[c] \in {"select", "loop"} /\ pc' = [pc EXCEPT ![c] = "leaving"]
        /\ UNCHANGED <<req, sharing, tickers>>
    BY <1>7 DEF SecondaryExit, PrimaryExit
  <2> QED
    BY <2>1, LocalStep DEF Early, Joined, Serving, Locations
<1>8. ASSUME NEW c \in Clients, Tick(c) PROVE Shape'
  <2>1. pc[c] = "loop" /\ pc' = [pc EXCEPT ![c] = "round"] /\ UNCHANGED <<req, sharing, tickers>>
    BY <1>8 DEF Tick
  <2>2. primary[home[c]] = c /\ tickers[home[c]] = "on"
    BY <2>1, <1>0 DEF Elected, Ticking, Serving
  <2> QED
    BY <2>1, <2>2, LocalStep DEF Early, Joined, Serving, Locations
<1>9. CASE \E c \in Clients : Stop(c) \/ \E p \in Instances : Response(c, p)
  BY <1>1, <1>9 DEF Stop, Response
<1>10. CASE \E p \in Instances, v \in Values \cup {Absent} : Change(p, v)
  BY <1>1, <1>10 DEF Change
<1>11. CASE UNCHANGED vars
  BY <1>1, <1>11 DEF vars
<1> QED
  BY <1>2, <1>3, <1>4, <1>5, <1>6, <1>7, <1>8, <1>9, <1>10, <1>11, JoinStep, LeaveStep DEF Next, Step

LEMMA AlwaysShape == Spec => []Shape
<1> QED
  BY InitShape, ShapeStep, PTL DEF Spec

\* Equal subscriptions are sampled once: of the clients with one request at most one ticks
\* or samples (the point of superSubscription in StreamRun).
THEOREM EqualRequestsSampledOnce == Spec => []OneSampler
<1>1. Shape => OneSampler
  <2> SUFFICES ASSUME Shape, NEW c \in Clients, NEW d \in Clients,
                      pc[c] \in Serving, pc[d] \in Serving, req[c] = req[d]
               PROVE  c = d
    BY DEF OneSampler
  <2>1. /\ home[c] \in Clients /\ c \in members[home[c]] /\ req[home[c]] = req[c]
        /\ home[d] \in Clients /\ d \in members[home[d]] /\ req[home[d]] = req[d]
    BY DEF Shape, Linked, Joined
  <2>2. home[c] = home[d]
    BY <2>1 DEF Shape, Led
  <2> QED
    BY <2>2 DEF Shape, Elected
<1> QED
  BY <1>1, AlwaysShape, PTL

\* leaveSuperSubscription's send to wakeChan, made under superSubs.mu, finds room.
THEOREM PromotionNeverBlocks == Spec => []WakeHasRoom
<1>1. Shape => WakeHasRoom
  BY DEF Shape
<1> QED
  BY <1>1, AlwaysShape, PTL

\* The shared tickers run for every client past populateTickers that has not left.
THEOREM TickersStayOn == Spec => []TickersRun
<1>1. Shape => TickersRun
  BY DEF Shape, Ticking, TickersRun
<1> QED
  BY <1>1, AlwaysShape, PTL

\* The types of what is sampled.
Sampled ==
    /\ stopped \subseteq Clients /\ device \in Data /\ changes \in 0..MaxChanges
    /\ cache \in [Clients -> Data] /\ view \in [Clients -> Data]
    /\ todo \in [Clients -> SUBSET Instances] /\ rcvd \in [Clients -> SUBSET Instances]

LEMMA SampledStep == Sampled /\ [Next]_vars => Sampled'
<1> SUFFICES ASSUME Sampled, [Next]_vars PROVE Sampled'
  OBVIOUS
<1> USE DEF Sampled
<1>1. ASSUME NEW c \in Clients, Start(c) \/ Tick(c) PROVE Sampled'
  BY <1>1 DEF Start, Tick, StartRound
<1>2. ASSUME NEW c \in Clients, Stop(c) PROVE Sampled'
  BY <1>2 DEF Stop, data
<1>3. ASSUME NEW p \in Instances, NEW v \in Values \cup {Absent}, Change(p, v) PROVE Sampled'
  <2>1. device' \in Data
    BY <1>3 DEF Change, Data
  <2>2. changes' \in 0..MaxChanges
    BY <1>3, SharingAssumption DEF Change
  <2> QED
    BY <1>3, <2>1, <2>2 DEF Change, data
<1>4. ASSUME NEW c \in Clients, NEW p \in Instances, Response(c, p) PROVE Sampled'
  <2>1. device[p] \in Values \cup {Absent}
    BY DEF Data
  <2>2. \A d \in Data : [d EXCEPT ![p] = device[p]] \in Data
    BY <2>1 DEF Data
  <2>3. cache' \in [Clients -> Data]
    BY <1>4, <2>2 DEF Response
  <2>4. view' \in [Clients -> Data]
    BY <1>4, <2>2 DEF Response
  <2>5. todo' \in [Clients -> SUBSET Instances] /\ rcvd' \in [Clients -> SUBSET Instances]
    BY <1>4 DEF Response
  <2> QED
    BY <1>4, <2>3, <2>4, <2>5 DEF Response
<1>5. ASSUME NEW c \in Clients, RoundEnd(c) PROVE Sampled'
  <2>1. \A d \in Data : Without(d, Deleted(c)) \in Data
    BY DEF Without, Data
  <2>2. cache' \in [Clients -> Data]
    BY <1>5, <2>1 DEF RoundEnd
  <2>3. view' \in [Clients -> Data]
    BY <1>5, <2>1 DEF RoundEnd
  <2> QED
    BY <1>5, <2>2, <2>3 DEF RoundEnd
<1>6. ASSUME NEW c \in Clients,
             Join(c) \/ PopulateTickers(c) \/ CheckPrimary(c) \/ Wake(c) \/ SecondaryExit(c) \/ PrimaryExit(c) \/ Leave(c)
      PROVE  Sampled'
  BY <1>6 DEF Join, PopulateTickers, CheckPrimary, Wake, SecondaryExit, PrimaryExit, Leave, data
<1>7. CASE UNCHANGED vars
  BY <1>7 DEF vars, data
<1> QED
  BY <1>1, <1>2, <1>3, <1>4, <1>5, <1>6, <1>7 DEF Next, Step

\* The tables of the superSubscriptions and the sampled data keep their types, for any
\* clients, requests and data.
THEOREM SharingTypeCorrect == Spec => []TypeOK
<1>1. Init => Sampled
  <2> SUFFICES ASSUME Init PROVE Sampled
    OBVIOUS
  <2>1. Empty \in Data
    BY DEF Empty, Data
  <2>2. changes \in 0..MaxChanges
    BY SharingAssumption DEF Init
  <2> QED
    BY <2>1, <2>2 DEF Init, Sampled
<1>2. Shape /\ Sampled => TypeOK
  BY DEF Shape, Typed, Sampled, TypeOK
<1> QED
  BY <1>1, <1>2, AlwaysShape, SampledStep, PTL DEF Spec

\* Joining, leaving and promotion keep one sampler, room for the wake-up and the tickers.
THEOREM SharingIsSafe == Spec => []SharingSafe
<1> QED
  BY EqualRequestsSampledOnce, PromotionNeverBlocks, TickersStayOn, PTL DEF SharingSafe

=============================================================================
