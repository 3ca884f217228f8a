------------------------------ MODULE DpuProxy ------------------------------
(***************************************************************************)
(* The DPU proxy, the interceptor of every RPC of the server: an RPC whose *)
(* metadata names a DPU is refused, handled here, or forwarded over the    *)
(* one connection that is cached for that DPU's index.  Streams (File.Put, *)
(* System.SetPackage) are forwarded message by message.                    *)
(***************************************************************************)
EXTENDS Naturals, Sequences, FiniteSets

CONSTANTS Rpcs, Dpus,
          Calls,      \* what each RPC asks for: [Rpcs -> [dpu, method]]
          MaxMsgs,    \* bound: messages of a stream
          MaxDpuChanges, MaxDpuFaults

Locally == {"transfer", "reboot", "reflection"}
Unary == {"time", "verify", "activate"}
Streams == {"put", "setpackage"}

VARIABLES rpc,     \* of each RPC: call, pc, info (resolved), conn, sent, in flight
          table,   \* STATE_DB and CONFIG_DB: of each DPU its address and whether it is reachable
          serving, \* of each address, the ports where a gNMI server listens
          conns,   \* the cache: of each DPU, <<>> or <<[addr, port]>>
          opened,  \* connections made and neither cached nor closed
          lock,    \* the RPC that holds connMu for writing, or "free"
          got,     \* of each RPC the messages that a DPU received, and which DPU
          moved,   \* history: a DPU's address changed
          dpuFaults, dpuChanges

vars == <<rpc, table, serving, conns, opened, lock, got, moved, dpuFaults, dpuChanges>>

Fault == dpuFaults < MaxDpuFaults /\ dpuFaults' = dpuFaults + 1
Go(r, pc) == rpc' = [rpc EXCEPT ![r].pc = pc]
At(r, pc) == rpc[r].pc = pc
Dpu(r) == rpc[r].call.dpu
Method(r) == rpc[r].call.method

Init ==
    /\ \E c \in Calls :
         rpc = [r \in Rpcs |-> [call |-> c[r], pc |-> "idle", addr |-> "none", ports |-> <<>>,
                                sent |-> 0, left |-> MaxMsgs, by |-> "none"]]
    /\ table = [d \in Dpus |-> [addr |-> d, access |-> TRUE]]
    /\ serving \in [Dpus -> {{"8080"}, {"configured", "50052"}, {}}]
    /\ conns = [d \in Dpus |-> <<>>] /\ opened = {} /\ lock = "free"
    /\ got = [r \in Rpcs |-> 0]
    /\ moved = FALSE /\ dpuFaults = 0 /\ dpuChanges = 0

\* STATE_DB changes: a DPU goes away or comes back, two exchange addresses.
DpuChange ==
    /\ dpuChanges < MaxDpuChanges /\ dpuChanges' = dpuChanges + 1
    /\ \/ \E d \in Dpus : table' = [table EXCEPT ![d].access = ~@] /\ UNCHANGED moved
       \/ \E d, e \in Dpus : /\ d # e /\ moved' = TRUE
                             /\ table' = [table EXCEPT ![d].addr = table[e].addr, ![e].addr = table[d].addr]
    /\ UNCHANGED <<rpc, serving, conns, opened, lock, got, dpuFaults>>

-----------------------------------------------------------------------------
(* Routing: the interceptors, the forwarding modes and the resolver *)

RouteFrame == UNCHANGED <<table, serving, conns, opened, lock, got, moved, dpuChanges>>

\* Without DPU metadata, or a method handled locally: the next handler.
HandleLocally(r) ==
    /\ At(r, "idle") /\ (Dpu(r) = "none" \/ Method(r) \in Locally)
    /\ rpc' = [rpc EXCEPT ![r] = [@ EXCEPT !.pc = "ok", !.by = "local"]]
    /\ UNCHANGED dpuFaults /\ RouteFrame

\* getForwardingMode: a method that is not registered.
Reject(r) ==
    /\ At(r, "idle") /\ Dpu(r) # "none" /\ Method(r) \notin Locally \union Unary \union Streams
    /\ Go(r, "failed") /\ UNCHANGED dpuFaults /\ RouteFrame

\* DPUResolver.GetDPUInfo: the port of CONFIG_DB first, then the usual ones.
GetDPUInfo(r) ==
    /\ At(r, "idle") /\ Dpu(r) # "none" /\ Method(r) \in Unary \union Streams
    /\ \/ /\ table[Dpu(r)].access
          /\ rpc' = [rpc EXCEPT ![r] = [@ EXCEPT !.pc = "cached", !.addr = table[Dpu(r)].addr,
                                              !.ports = <<"configured", "8080", "50052">>]]
          /\ UNCHANGED dpuFaults
       \/ ~table[Dpu(r)].access /\ Go(r, "failed") /\ UNCHANGED dpuFaults
       \/ Fault /\ Go(r, "failed")                        \* not found, or Redis fails
    /\ RouteFrame

-----------------------------------------------------------------------------
(* getConnection *)

ConnFrame == UNCHANGED <<table, serving, got, moved, dpuFaults, dpuChanges>>

\* Under the read lock, which a writer keeps away.
CachedConnection(r) ==
    /\ At(r, "cached") /\ lock = "free"
    /\ Go(r, IF conns[Dpu(r)] # <<>> THEN "forward" ELSE "lock")
    /\ UNCHANGED <<conns, opened, lock>> /\ ConnFrame

\* Mutant: the cache is not looked up again under the write lock.
MutLockConnections(r) ==
    /\ At(r, "lock") /\ lock = "free"
    /\ Go(r, "try") /\ lock' = r
    /\ UNCHANGED <<conns, opened>> /\ ConnFrame

\* Under the write lock, looked up again.
LockConnections(r) ==
    /\ At(r, "lock") /\ lock = "free"
    /\ IF conns[Dpu(r)] # <<>>
       THEN Go(r, "forward") /\ UNCHANGED lock
       ELSE Go(r, "try") /\ lock' = r
    /\ UNCHANGED <<conns, opened>> /\ ConnFrame

\* A client for the next port, tried with System.Time for two seconds: any
\* answer but Unavailable, a timeout included, makes it the cached one.
TryPort(r) ==
    /\ At(r, "try") /\ rpc[r].ports # <<>>
    /\ opened' = opened \union {<<rpc[r].addr, Head(rpc[r].ports)>>}
    /\ Go(r, "test")
    /\ UNCHANGED <<conns, lock>> /\ ConnFrame
TestConnection(r) ==
    LET c == [addr |-> rpc[r].addr, port |-> Head(rpc[r].ports)]
        up == c.port \in serving[c.addr]
    IN  /\ At(r, "test")
        /\ opened' = opened \ {<<c.addr, c.port>>}
        /\ \/ /\ (up /\ UNCHANGED dpuFaults) \/ (~up /\ Fault)   \* no answer at all: DeadlineExceeded
              /\ conns' = [conns EXCEPT ![Dpu(r)] = <<c>>]
              /\ Go(r, "forward") /\ lock' = "free"
           \/ /\ ~up /\ UNCHANGED <<conns, lock, dpuFaults>>
              /\ rpc' = [rpc EXCEPT ![r] = [@ EXCEPT !.pc = "try", !.ports = Tail(rpc[r].ports)]]
        /\ UNCHANGED <<table, serving, got, moved, dpuChanges>>
\* Mutant: the lock is kept.
MutNoPort(r) ==
    /\ At(r, "try") /\ rpc[r].ports = <<>>
    /\ Go(r, "failed")
    /\ UNCHANGED <<conns, opened, lock>> /\ ConnFrame

NoPort(r) ==
    /\ At(r, "try") /\ rpc[r].ports = <<>>
    /\ Go(r, "failed") /\ lock' = "free"
    /\ UNCHANGED <<conns, opened>> /\ ConnFrame

GetConnection(r) ==
    CachedConnection(r) \/ LockConnections(r) \/ TryPort(r) \/ TestConnection(r) \/ NoPort(r)

-----------------------------------------------------------------------------
(* Forwarding *)

FwdFrame == UNCHANGED <<table, serving, conns, opened, lock, moved, dpuChanges>>
\* Mutant: whatever connection is cached.
MutConn(r) == LET d == CHOOSE d \in Dpus : conns[d] # <<>> IN conns[d][1]

Conn(r) == conns[Dpu(r)][1]
Answers(r) == Conn(r).port \in serving[Conn(r).addr]

\* forwardTimeRequest, forwardOSVerifyRequest, forwardOSActivateRequest
ForwardUnary(r) ==
    /\ At(r, "forward") /\ Method(r) \in Unary
    /\ \/ /\ Answers(r) /\ UNCHANGED dpuFaults
          /\ rpc' = [rpc EXCEPT ![r] = [@ EXCEPT !.pc = "ok", !.by = Conn(r).addr, !.left = 0, !.sent = 1]]
          /\ got' = [got EXCEPT ![r] = 1]
       \/ ((~Answers(r) /\ UNCHANGED dpuFaults) \/ Fault) /\ Go(r, "failed") /\ UNCHANGED got
    /\ FwdFrame

\* forwardFilePutStream, forwardSetPackageStream: the stream to the DPU, then
\* each message of the client; a failing Recv or Send ends it.
OpenStream(r) ==
    /\ At(r, "forward") /\ Method(r) \in Streams
    /\ \/ /\ Answers(r) /\ UNCHANGED dpuFaults
          /\ rpc' = [rpc EXCEPT ![r] = [@ EXCEPT !.pc = "copy", !.by = Conn(r).addr]]
       \/ ((~Answers(r) /\ UNCHANGED dpuFaults) \/ Fault) /\ Go(r, "failed")
    /\ UNCHANGED got /\ FwdFrame
\* Mutant: a client that fails is taken for one that has sent everything.
MutCopyMessage(r) ==
    /\ At(r, "copy")
    /\ \/ /\ rpc[r].left > 0 /\ UNCHANGED dpuFaults
          /\ rpc' = [rpc EXCEPT ![r] = [@ EXCEPT !.left = rpc[r].left - 1, !.sent = rpc[r].sent + 1]]
       \/ rpc[r].left = 0 /\ Go(r, "recv") /\ UNCHANGED dpuFaults
       \/ Fault /\ Go(r, "recv")
    /\ UNCHANGED got /\ FwdFrame

CopyMessage(r) ==
    /\ At(r, "copy")
    /\ \/ /\ rpc[r].left > 0 /\ UNCHANGED dpuFaults
          /\ rpc' = [rpc EXCEPT ![r] = [@ EXCEPT !.left = rpc[r].left - 1, !.sent = rpc[r].sent + 1]]
       \/ rpc[r].left = 0 /\ Go(r, "recv") /\ UNCHANGED dpuFaults     \* EOF
       \/ Fault /\ Go(r, "failed")
    /\ UNCHANGED got /\ FwdFrame
\* The DPU takes the messages in its own time.
DpuTakes(r) ==
    /\ got[r] < rpc[r].sent /\ rpc[r].by \notin {"none", "local"}
    /\ got' = [got EXCEPT ![r] = @ + 1]
    /\ UNCHANGED <<rpc, dpuFaults>> /\ FwdFrame
\* CloseAndRecv: the Put of the DPU answers when it has taken every message,
\* its SetPackage after the first.
Taken(r) == got[r] = rpc[r].sent \/ (Method(r) = "setpackage" /\ got[r] > 0)
Respond(r) ==
    /\ At(r, "recv")
    /\ \/ Taken(r) /\ Go(r, "ok") /\ UNCHANGED dpuFaults
       \/ Fault /\ Go(r, "failed")
    /\ UNCHANGED got /\ FwdFrame

Route(r) == HandleLocally(r) \/ Reject(r) \/ GetDPUInfo(r) \/ GetConnection(r)
Forward(r) == ForwardUnary(r) \/ OpenStream(r) \/ CopyMessage(r) \/ Respond(r)
Interceptor(r) == Route(r) \/ Forward(r)

Next == DpuChange \/ \E r \in Rpcs : Interceptor(r) \/ DpuTakes(r)
\* RPCs run and the connection test is bounded; what is forwarded waits for the
\* client and for the DPU, which are not taken for granted.
Fairness == \A r \in Rpcs : WF_vars(Route(r) /\ UNCHANGED dpuFaults)
Spec == Init /\ [][Next]_vars /\ Fairness

-----------------------------------------------------------------------------
Done(r) == rpc[r].pc \in {"ok", "failed"}

\* The state keeps its types and bounds.
TypeOK ==
    /\ lock \in Rpcs \union {"free"} /\ moved \in BOOLEAN
    /\ \A d \in Dpus : Len(conns[d]) <= 1
    /\ \A r \in Rpcs :
         /\ rpc[r].pc \in {"idle", "cached", "lock", "try", "test", "forward", "copy", "recv", "ok", "failed"}
         /\ got[r] \in 0..MaxMsgs

\* Every connection the proxy made is the cached one, or under test by the RPC
\* that holds the lock, or closed.  Concurrent RPCs for a DPU never make two: the
\* one that is tested replaces none in the cache.
NoConnectionLost ==
    /\ Cardinality(opened) <= 1
    /\ opened # {} => lock # "free" /\ At(lock, "test") /\ conns[Dpu(lock)] = <<>>

\* An RPC for a DPU is answered by that DPU, as long as no DPU changed its
\* address (the cache knows only the index).
RoutedToDpu ==
    ~moved => \A r \in Rpcs : rpc[r].by \in {"none", "local", Dpu(r)}

\* A stream the client is told is complete was sent to the DPU whole, and the
\* DPU has taken what it needs of it.
ForwardedWhole ==
    \A r \in Rpcs : At(r, "ok") /\ rpc[r].by # "local" => rpc[r].left = 0 /\ rpc[r].sent > 0 /\ Taken(r)

\* An RPC for a DPU reaches that DPU, and reaches it whole.
ReachesDpu == RoutedToDpu /\ ForwardedWhole

\* No RPC waits for ever for the lock or for a port: it is answered, it fails, or
\* it gets as far as talking to its DPU.
RpcsReturn == <>[](\A r \in Rpcs : Done(r) \/ rpc[r].pc \in {"forward", "copy", "recv"})
=============================================================================
