--------------------------- MODULE SubscribeServer ---------------------------
(***************************************************************************)
(* The tables that all Subscribe RPCs share: the server's map of clients,  *)
(* used to close a duplicate (Server.Subscribe, gnmi_server/server.go), and *)
(* the connection manager with its copy in STATE_DB                        *)
(* (gnmi_server/connection_manager.go).  A session is a program counter    *)
(* here; what it does while it runs is SubscribeSession's.                 *)
(***************************************************************************)
EXTENDS Naturals, FiniteSets

CONSTANTS
    Rpcs,        \* the Subscribe RPCs, each served once (NewClient gives each its id)
    Addrs,       \* peer addresses
    Queries,     \* what createKey extracts of a SubscriptionList
    Threshold,   \* config.Threshold; 0 is no limit
    MaxClock,    \* bound: seconds that pass
    MaxCrashes   \* bound: restarts of the process

ASSUME TablesAssumption ==
    /\ IsFiniteSet(Rpcs) /\ 0 \notin Rpcs /\ Rpcs # {}
    /\ Threshold \in Nat /\ MaxClock \in Nat /\ MaxCrashes \in Nat

None == "none"
NoKey == <<>>

VARIABLES
    multiplex, \* config.EnableStreamMultiplexing
    pc,        \* where the goroutine of each RPC is
    addr,      \* the peer of each RPC
    key,       \* the connection key of each RPC: address, query and second
    closed,    \* the RPCs whose Client.Close a duplicate has called
    clients,   \* Server.clients
    cm,        \* connectionManager has been made
    conns,     \* ConnectionManager.connections
    redis,     \* the fields of TELEMETRY_CONNECTIONS in STATE_DB
    now,       \* the second time.Now() is in
    crashes

vars == <<multiplex, pc, addr, key, closed, clients, cm, conns, redis, now, crashes>>
env == <<multiplex, now, crashes>>

ClientKeys == Addrs \X (Rpcs \cup {0})
ConnKeys == Addrs \X Queries \X (0..MaxClock)
Locations == {"idle", "setup", "registered", "adding", "storing", "running", "removing", "hdel", "leaving", "ended"}

\* Mutant: every stream of a peer shares one key.
MutKey(r) == <<addr[r], 0>>

\* Client.Key
Key(r) == <<addr[r], IF multiplex THEN r ELSE 0>>

Go(r, from, to) == pc[r] = from /\ pc' = [pc EXCEPT ![r] = to]

Init ==
    /\ multiplex \in BOOLEAN
    /\ pc = [r \in Rpcs |-> "idle"]
    /\ addr \in [Rpcs -> Addrs]
    /\ key = [r \in Rpcs |-> NoKey]
    /\ closed = {}
    /\ clients = [k \in ClientKeys |-> None]
    /\ cm = FALSE /\ conns = {}
    /\ redis \in SUBSET {<<a, q, 0>> : a \in Addrs, q \in Queries}   \* left by an earlier process
    /\ now = 0 /\ crashes = 0

\* Mutant: the entries of an earlier process stay in STATE_DB.
MutSetup(r) ==
    /\ Go(r, "idle", "setup")
    /\ cm' = TRUE
    /\ conns' = IF cm THEN conns ELSE {}
    /\ UNCHANGED <<addr, key, closed, clients, redis, env>>

\* Mutant: every RPC makes a new connection manager.
MutSetupAlways(r) ==
    /\ Go(r, "idle", "setup")
    /\ cm' = TRUE
    /\ conns' = {} /\ redis' = {}
    /\ UNCHANGED <<addr, key, closed, clients, env>>

\* Client.setConnectionManager: the first RPC makes the manager, and PrepareRedis
\* removes what an earlier process has left.
Setup(r) ==
    /\ Go(r, "idle", "setup")
    /\ cm' = TRUE
    /\ conns' = IF cm THEN conns ELSE {}
    /\ redis' = IF cm THEN redis ELSE {}
    /\ UNCHANGED <<addr, key, closed, clients, env>>

\* Server.Subscribe under cMu: an older client of the same key is closed and replaced.
Register(r) ==
    /\ Go(r, "setup", "registered")
    /\ closed' = IF clients[Key(r)] = None THEN closed ELSE closed \cup {clients[Key(r)]}
    /\ clients' = [clients EXCEPT ![Key(r)] = r]
    /\ UNCHANGED <<addr, key, cm, conns, redis, env>>

\* Client.Run returns before it asks for a slot.
Reject(r) ==
    /\ Go(r, "registered", "leaving")
    /\ UNCHANGED <<addr, key, closed, clients, cm, conns, redis, env>>

AtCapacity == Threshold # 0 /\ Cardinality(conns) >= Threshold

\* Mutant: the key is stored before it is made.
MutAddCheck(r) ==
    /\ IF AtCapacity THEN Go(r, "registered", "leaving") ELSE Go(r, "registered", "storing")
    /\ UNCHANGED <<addr, key, closed, clients, cm, conns, redis, env>>

\* ConnectionManager.Add: the test, under the read lock ...
AddCheck(r) ==
    /\ IF AtCapacity THEN Go(r, "registered", "leaving") ELSE Go(r, "registered", "adding")
    /\ UNCHANGED <<addr, key, closed, clients, cm, conns, redis, env>>

\* ... the key, and the insertion under the write lock ...
AddInsert(r) ==
    /\ Go(r, "adding", "storing")
    /\ \E q \in Queries :
          /\ key' = [key EXCEPT ![r] = <<addr[r], q, now>>]
          /\ conns' = conns \cup {<<addr[r], q, now>>}
    /\ UNCHANGED <<addr, closed, clients, cm, redis, env>>

\* ... and storeKeyRedis.
AddStore(r) ==
    /\ Go(r, "storing", "running")
    /\ redis' = redis \cup {key[r]}
    /\ UNCHANGED <<addr, key, closed, clients, cm, conns, env>>

\* The session is over: its client is gone, it is refused, or a duplicate has closed it.
RunEnd(r) ==
    /\ Go(r, "running", "removing")
    /\ UNCHANGED <<addr, key, closed, clients, cm, conns, redis, env>>

\* ConnectionManager.Remove, then deleteKeyRedis.
Remove(r) ==
    /\ Go(r, "removing", "hdel")
    /\ conns' = conns \ {key[r]}
    /\ UNCHANGED <<addr, key, closed, clients, cm, redis, env>>

RemoveRedis(r) ==
    /\ Go(r, "hdel", "leaving")
    /\ redis' = redis \ {key[r]}
    /\ UNCHANGED <<addr, key, closed, clients, cm, conns, env>>

\* Server.Subscribe after Run: whatever is stored under the key is deleted.
Unregister(r) ==
    /\ Go(r, "leaving", "ended")
    /\ clients' = [clients EXCEPT ![Key(r)] = None]
    /\ UNCHANGED <<addr, key, closed, cm, conns, redis, env>>

Tick ==
    /\ now < MaxClock
    /\ now' = now + 1
    /\ UNCHANGED <<multiplex, pc, addr, key, closed, clients, cm, conns, redis, crashes>>

\* The process dies and is started again: only STATE_DB is left.
Restart ==
    /\ crashes < MaxCrashes
    /\ crashes' = crashes + 1
    /\ pc' = [r \in Rpcs |-> IF pc[r] = "idle" THEN "idle" ELSE "ended"]
    /\ clients' = [k \in ClientKeys |-> None]
    /\ cm' = FALSE /\ conns' = {}
    /\ UNCHANGED <<multiplex, addr, key, closed, redis, now>>

Rpc(r) ==
    \/ Setup(r) \/ Register(r) \/ Reject(r) \/ AddCheck(r) \/ AddInsert(r) \/ AddStore(r)
    \/ RunEnd(r) \/ Remove(r) \/ RemoveRedis(r) \/ Unregister(r)

Next == (\E r \in Rpcs : Rpc(r)) \/ Tick \/ Restart

Spec == Init /\ [][Next]_vars

-----------------------------------------------------------------------------
(* Properties *)

\* The variables have their types.
TypeOK ==
    /\ multiplex \in BOOLEAN
    /\ pc \in [Rpcs -> Locations]
    /\ addr \in [Rpcs -> Addrs]
    /\ key \in [Rpcs -> ConnKeys \cup {NoKey}]
    /\ closed \subseteq Rpcs
    /\ clients \in [ClientKeys -> Rpcs \cup {None}]
    /\ cm \in BOOLEAN
    /\ conns \subseteq ConnKeys /\ redis \subseteq ConnKeys
    /\ now \in 0..MaxClock /\ crashes \in 0..MaxCrashes

Owning(r) == pc[r] \in {"storing", "running", "removing", "hdel"}

\* No slot leaks: once the manager is made, every connection it counts, and every
\* connection STATE_DB lists, belongs to an RPC that has not given it back, although two
\* RPCs can get the same key (createKey has a resolution of a second) and the process may
\* have died with sessions open.
NoOrphan == cm => \A k \in conns \cup redis : \E r \in Rpcs : Owning(r) /\ key[r] = k

\* A running session is counted and listed, unless an RPC with the very same key has
\* ended since (the keys are not unique within a second).
CountedUnlessShared ==
    \A r \in Rpcs : pc[r] = "running" =>
        \/ key[r] \in conns \cap redis
        \/ \E o \in Rpcs \ {r} : key[o] = key[r] /\ pc[o] \in {"hdel", "leaving", "ended"}

Active(r) == pc[r] \in Locations \ {"idle", "setup", "ended"}

\* With multiplexing, duplicate detection can find every session: an RPC that nobody has
\* closed is the one the map holds under its key.
Registered == multiplex => \A r \in Rpcs : Active(r) /\ r \notin closed => clients[Key(r)] = r

\* The shared tables hold the sessions there are, from both sides: no entry without a
\* session, and every session is counted, listed and found.
SessionsTracked == NoOrphan /\ CountedUnlessShared /\ Registered

\* The peer address alone identifies the client when multiplexing is off: of two active
\* sessions with one key at least one has been closed.
OneStreamPerKey ==
    \A r, o \in Rpcs : r # o /\ Active(r) /\ Active(o) /\ Key(r) = Key(o) => r \in closed \/ o \in closed

=============================================================================
