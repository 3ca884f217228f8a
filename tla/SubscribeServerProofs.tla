------------------------ MODULE SubscribeServerProofs ------------------------
(* Proofs about SubscribeServer, for every set of RPCs, peers and queries and every *)
(* threshold.                                                                       *)
EXTENDS SubscribeServer, TLAPS

LEMMA KeyType ==
    ASSUME NEW r \in Rpcs, addr \in [Rpcs -> Addrs]
    PROVE  Key(r) \in ClientKeys
BY TablesAssumption DEF Key, ClientKeys

\* What makes NoOrphan inductive: an RPC gives its key back in two steps, first in memory
\* and then in STATE_DB, so the owners of the two tables are at different locations.
Counting(r) == pc[r] \in {"storing", "running", "removing"}
Listing(r) == pc[r] \in {"running", "removing", "hdel"}
Keyed == \A r \in Rpcs : Owning(r) => key[r] \in ConnKeys
Owned == cm => /\ \A k \in conns : \E r \in Rpcs : Counting(r) /\ key[r] = k
               /\ \A k \in redis : \E r \in Rpcs : Listing(r) /\ key[r] = k

\* Every step keeps the types; a key is stored only after it has been made.
LEMMA TypeStep == TypeOK /\ Keyed /\ [Next]_vars => TypeOK' /\ Keyed'
<1> SUFFICES ASSUME TypeOK, Keyed, [Next]_vars PROVE TypeOK' /\ Keyed'
  OBVIOUS
<1> USE TablesAssumption DEF TypeOK, Keyed, Owning, Go, Locations, env
<1>1. ASSUME NEW r \in Rpcs, Setup(r) PROVE TypeOK' /\ Keyed'
  BY <1>1 DEF Setup
<1>2. ASSUME NEW r \in Rpcs, Register(r) PROVE TypeOK' /\ Keyed'
  BY <1>2, KeyType DEF Register
<1>3. ASSUME NEW r \in Rpcs, Reject(r) PROVE TypeOK' /\ Keyed'
  BY <1>3 DEF Reject
<1>4. ASSUME NEW r \in Rpcs, AddCheck(r) PROVE TypeOK' /\ Keyed'
  BY <1>4 DEF AddCheck
<1>5. ASSUME NEW r \in Rpcs, AddInsert(r) PROVE TypeOK' /\ Keyed'
  <2>1. PICK q \in Queries : /\ key' = [key EXCEPT ![r] = <<addr[r], q, now>>]
                             /\ conns' = conns \cup {<<addr[r], q, now>>}
    BY <1>5 DEF AddInsert
  <2>2. <<addr[r], q, now>> \in ConnKeys
    BY DEF ConnKeys
  <2>3. QED
    BY <1>5, <2>1, <2>2 DEF AddInsert
<1>6. ASSUME NEW r \in Rpcs, AddStore(r) PROVE TypeOK' /\ Keyed'
  BY <1>6 DEF AddStore
<1>7. ASSUME NEW r \in Rpcs, RunEnd(r) PROVE TypeOK' /\ Keyed'
  BY <1>7 DEF RunEnd
<1>8. ASSUME NEW r \in Rpcs, Remove(r) PROVE TypeOK' /\ Keyed'
  BY <1>8 DEF Remove
<1>9. ASSUME NEW r \in Rpcs, RemoveRedis(r) PROVE TypeOK' /\ Keyed'
  BY <1>9 DEF RemoveRedis
<1>10. ASSUME NEW r \in Rpcs, Unregister(r) PROVE TypeOK' /\ Keyed'
  BY <1>10, KeyType DEF Unregister
<1>11. CASE Tick
  BY <1>11 DEF Tick
<1>12. CASE Restart
  <2>1. cm' \in BOOLEAN
    BY <1>12 DEF Restart
  <2>2. clients' \in [ClientKeys -> Rpcs \cup {None}] /\ pc' \in [Rpcs -> Locations]
    BY <1>12 DEF Restart
  <2>3. \A r \in Rpcs : pc'[r] \in {"idle", "ended"}
    BY <1>12 DEF Restart
  <2>4. crashes' \in 0..MaxCrashes
    BY <1>12 DEF Restart
  <2>5. QED
    BY <1>12, <2>1, <2>2, <2>3, <2>4 DEF Restart
<1>13. CASE UNCHANGED vars
  BY <1>13 DEF vars
<1>14. QED
  BY <1>1, <1>2, <1>3, <1>4, <1>5, <1>6, <1>7, <1>8, <1>9, <1>10, <1>11, <1>12, <1>13 DEF Next, Rpc

\* Every step keeps an owner for every counted and every listed connection.
LEMMA OwnedStep == TypeOK /\ Owned /\ [Next]_vars => Owned'
<1> SUFFICES ASSUME TypeOK, Owned, [Next]_vars PROVE Owned'
  OBVIOUS
<1> USE DEF TypeOK, Owned, Counting, Listing, Go, env
<1>1. ASSUME NEW r \in Rpcs, Setup(r) PROVE Owned'
  BY <1>1 DEF Setup
<1>2. ASSUME NEW r \in Rpcs, Register(r) PROVE Owned'
  BY <1>2 DEF Register
<1>3. ASSUME NEW r \in Rpcs, Reject(r) PROVE Owned'
  BY <1>3 DEF Reject
<1>4. ASSUME NEW r \in Rpcs, AddCheck(r) PROVE Owned'
  BY <1>4 DEF AddCheck
<1>5. ASSUME NEW r \in Rpcs, AddInsert(r) PROVE Owned'
  BY <1>5 DEF AddInsert
<1>6. ASSUME NEW r \in Rpcs, AddStore(r) PROVE Owned'
  BY <1>6 DEF AddStore
<1>7. ASSUME NEW r \in Rpcs, RunEnd(r) PROVE Owned'
  BY <1>7 DEF RunEnd
<1>8. ASSUME NEW r \in Rpcs, Remove(r) PROVE Owned'
  BY <1>8 DEF Remove
<1>9. ASSUME NEW r \in Rpcs, RemoveRedis(r) PROVE Owned'
  BY <1>9 DEF RemoveRedis
<1>10. ASSUME NEW r \in Rpcs, Unregister(r) PROVE Owned'
  BY <1>10 DEF Unregister
<1>11. CASE Tick
  BY <1>11 DEF Tick
<1>12. CASE Restart
  BY <1>12 DEF Restart
<1>13. CASE UNCHANGED vars
  BY <1>13 DEF vars
<1>14. QED
  BY <1>1, <1>2, <1>3, <1>4, <1>5, <1>6, <1>7, <1>8, <1>9, <1>10, <1>11, <1>12, <1>13 DEF Next, Rpc

LEMMA InitTyped == Init => TypeOK /\ Keyed
<1> SUFFICES ASSUME Init PROVE TypeOK /\ Keyed
  OBVIOUS
<1>1. redis \subseteq ConnKeys
  <2>1. \A a \in Addrs, q \in Queries : <<a, q, 0>> \in ConnKeys
    BY TablesAssumption DEF ConnKeys
  <2>2. QED
    BY <2>1 DEF Init
<1>2a. cm \in BOOLEAN
  BY DEF Init
<1>2b. multiplex \in BOOLEAN
  BY DEF Init
<1>2. now \in 0..MaxClock /\ crashes \in 0..MaxCrashes
  BY TablesAssumption DEF Init
<1>3. pc \in [Rpcs -> Locations] /\ \A r \in Rpcs : ~Owning(r)
  BY DEF Init, Owning, Locations
<1>4. /\ addr \in [Rpcs -> Addrs] /\ key \in [Rpcs -> ConnKeys \cup {NoKey}]
      /\ clients \in [ClientKeys -> Rpcs \cup {None}]
  BY DEF Init
<1>5. closed \subseteq Rpcs /\ conns \subseteq ConnKeys
  BY DEF Init
<1>6. QED
  BY <1>1, <1>2a, <1>2b, <1>2, <1>3, <1>4, <1>5 DEF TypeOK, Keyed

\* The tables shared by the Subscribe RPCs keep their types.
THEOREM TablesTypeCorrect == Spec => []TypeOK
BY InitTyped, TypeStep, PTL DEF Spec

\* No connection slot leaks: what the connection manager counts and what STATE_DB lists
\* always belongs to an RPC that will give it back, across restarts of the process.
THEOREM NoSlotLeaks == Spec => []NoOrphan
<1>1. Init => Owned
  BY DEF Init, Owned
<1>2. Owned => NoOrphan
  BY DEF Owned, NoOrphan, Owning, Counting, Listing
<1>3. QED
  BY <1>1, <1>2, InitTyped, TypeStep, OwnedStep, PTL DEF Spec

-----------------------------------------------------------------------------
\* Another RPC that was given the same key has begun to give it back.
Shared(r) == \E o \in Rpcs \ {r} : key[o] = key[r] /\ pc[o] \in {"hdel", "leaving", "ended"}

\* What makes CountedUnlessShared inductive: a key is in memory from AddInsert to Remove and
\* in STATE_DB from AddStore to RemoveRedis; no session is under way before the manager
\* is made, which is when the tables are emptied.
Tabled ==
    /\ ~cm => \A r \in Rpcs : pc[r] \in {"idle", "ended"}
    /\ \A r \in Rpcs : Counting(r) => key[r] \in conns \/ Shared(r)
    /\ \A r \in Rpcs : pc[r] \in {"running", "removing"} => key[r] \in redis \/ Shared(r)

LEMMA TabledStep == TypeOK /\ Tabled /\ [Next]_vars => Tabled'
<1> SUFFICES ASSUME TypeOK, Tabled, [Next]_vars PROVE Tabled'
  OBVIOUS
<1> USE DEF TypeOK, Tabled, Shared, Counting, Go, env
<1>1. ASSUME NEW r \in Rpcs, Setup(r) PROVE Tabled'
  BY <1>1 DEF Setup
<1>2. ASSUME NEW r \in Rpcs, Register(r) PROVE Tabled'
  BY <1>2 DEF Register
<1>3. ASSUME NEW r \in Rpcs, Reject(r) PROVE Tabled'
  BY <1>3 DEF Reject
<1>4. ASSUME NEW r \in Rpcs, AddCheck(r) PROVE Tabled'
  BY <1>4 DEF AddCheck
<1>5. ASSUME NEW r \in Rpcs, AddInsert(r) PROVE Tabled'
  BY <1>5 DEF AddInsert
<1>6. ASSUME NEW r \in Rpcs, AddStore(r) PROVE Tabled'
  BY <1>6 DEF AddStore
<1>7. ASSUME NEW r \in Rpcs, RunEnd(r) PROVE Tabled'
  BY <1>7 DEF RunEnd
<1>8. ASSUME NEW r \in Rpcs, Remove(r) PROVE Tabled'
  BY <1>8 DEF Remove
<1>9. ASSUME NEW r \in Rpcs, RemoveRedis(r) PROVE Tabled'
  BY <1>9 DEF RemoveRedis
<1>10. ASSUME NEW r \in Rpcs, Unregister(r) PROVE Tabled'
  BY <1>10 DEF Unregister
<1>11. CASE Tick
  BY <1>11 DEF Tick
<1>12. CASE Restart
  BY <1>12 DEF Restart
<1>13. CASE UNCHANGED vars
  BY <1>13 DEF vars
<1>14. QED
  BY <1>1, <1>2, <1>3, <1>4, <1>5, <1>6, <1>7, <1>8, <1>9, <1>10, <1>11, <1>12, <1>13 DEF Next, Rpc

\* A running session is counted by the connection manager and listed in STATE_DB unless an
\* RPC with the very same key has ended since, for any number of RPCs, seconds and restarts.
THEOREM SessionsAreCounted == Spec => []CountedUnlessShared
<1>1. Init => Tabled
  BY DEF Init, Tabled, Counting
<1>2. Tabled => CountedUnlessShared
  BY DEF Tabled, CountedUnlessShared, Counting, Shared
<1>3. QED
  BY <1>1, <1>2, InitTyped, TypeStep, TabledStep, PTL DEF Spec

\* With multiplexing no two RPCs have the same key.
LEMMA KeysDiffer ==
    ASSUME multiplex, NEW r \in Rpcs, NEW o \in Rpcs, r # o
    PROVE  Key(r) # Key(o)
BY DEF Key

LEMMA RegisteredStep == TypeOK /\ Registered /\ [Next]_vars => Registered'
<1> SUFFICES ASSUME TypeOK, Registered, [Next]_vars, multiplex' PROVE Registered'
  BY DEF Registered
<1>m. multiplex' = multiplex /\ addr' = addr
  BY DEF Next, Rpc, Setup, Register, Reject, AddCheck, AddInsert, AddStore, RunEnd, Remove, RemoveRedis,
         Unregister, Tick, Restart, vars, env
<1>k. \A o \in Rpcs : Key(o)' = Key(o) /\ Key(o) \in ClientKeys
  BY <1>m, KeyType DEF Key, TypeOK
<1>d. \A r, o \in Rpcs : r # o => Key(r) # Key(o)
  BY <1>m, KeysDiffer
<1> USE <1>m, <1>k DEF TypeOK, Registered, Active, Locations, Go, env
<1>1. ASSUME NEW r \in Rpcs, Setup(r) PROVE Registered'
  BY <1>1 DEF Setup
<1>2. ASSUME NEW r \in Rpcs, Register(r) PROVE Registered'
  BY <1>2, <1>d DEF Register
<1>3. ASSUME NEW r \in Rpcs, Reject(r) PROVE Registered'
  BY <1>3 DEF Reject
<1>4. ASSUME NEW r \in Rpcs, AddCheck(r) PROVE Registered'
  BY <1>4 DEF AddCheck
<1>5. ASSUME NEW r \in Rpcs, AddInsert(r) PROVE Registered'
  BY <1>5 DEF AddInsert
<1>6. ASSUME NEW r \in Rpcs, AddStore(r) PROVE Registered'
  BY <1>6 DEF AddStore
<1>7. ASSUME NEW r \in Rpcs, RunEnd(r) PROVE Registered'
  BY <1>7 DEF RunEnd
<1>8. ASSUME NEW r \in Rpcs, Remove(r) PROVE Registered'
  BY <1>8 DEF Remove
<1>9. ASSUME NEW r \in Rpcs, RemoveRedis(r) PROVE Registered'
  BY <1>9 DEF RemoveRedis
<1>10. ASSUME NEW r \in Rpcs, Unregister(r) PROVE Registered'
  BY <1>10, <1>d DEF Unregister
<1>11. CASE Tick
  BY <1>11 DEF Tick
<1>12. CASE Restart
  BY <1>12 DEF Restart
<1>13. CASE UNCHANGED vars
  BY <1>13 DEF vars
<1>14. QED
  BY <1>1, <1>2, <1>3, <1>4, <1>5, <1>6, <1>7, <1>8, <1>9, <1>10, <1>11, <1>12, <1>13 DEF Next, Rpc

\* With multiplexing every session that nobody has closed is the one Server.clients holds
\* under its key, so that a duplicate would find it.
THEOREM SessionsAreRegistered == Spec => []Registered
<1>1. Init => Registered
  BY DEF Init, Registered, Active, Locations
<1>2. QED
  BY <1>1, InitTyped, TypeStep, RegisteredStep, PTL DEF Spec

\* The map of clients, the connection manager and STATE_DB hold the sessions there are.
THEOREM SessionsAreTracked == Spec => []SessionsTracked
<1> QED
  BY NoSlotLeaks, SessionsAreCounted, SessionsAreRegistered, PTL DEF SessionsTracked

=============================================================================
