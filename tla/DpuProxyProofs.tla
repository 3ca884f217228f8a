--------------------------- MODULE DpuProxyProofs ---------------------------
(* Proofs about DpuProxy, for any RPCs, DPUs and calls, streams of any length  *)
(* and any changes of STATE_DB and faults.                                     *)
EXTENDS DpuProxy, FiniteSetTheorems, TLAPS

Requests == [dpu : Dpus \union {"none"}, method : STRING]

\* What the constants stand for.
Setting ==
    /\ "free" \notin Rpcs
    /\ Calls \subseteq [Rpcs -> Requests]
    /\ MaxMsgs \in Nat \ {0}

\* The places of an RPC: before it has a connection, with an address, and when it
\* talks to the DPU.
Resolved == {"cached", "lock", "try", "test"}
Talking == {"forward", "copy", "recv"}
Places == {"idle", "ok", "failed"} \union Resolved \union Talking

PortNames == {"configured", "8080", "50052"}
Ports == Seq(PortNames)
Rpc == [call : Requests, pc : Places, addr : Dpus \union {"none"}, ports : Ports,
        sent : Nat, left : Nat, by : Dpus \union {"none", "local"}]
Conns == [addr : Dpus, port : PortNames]

\* An RPC has a DPU and its address from GetDPUInfo on, and a port while one is
\* tested; nothing is forwarded before a connection is cached.
Typed ==
    /\ rpc \in [Rpcs -> Rpc]
    /\ table \in [Dpus -> [addr : Dpus, access : BOOLEAN]]
    /\ conns \in [Dpus -> Seq(Conns)]
    /\ got \in [Rpcs -> Nat]
    /\ \A r \in Rpcs :
         /\ rpc[r].pc = "test" => rpc[r].ports # <<>>
         /\ rpc[r].pc \in Resolved => rpc[r].addr \in Dpus
         /\ rpc[r].pc \in Resolved \union Talking => rpc[r].call.dpu \in Dpus
         /\ rpc[r].pc = "forward" => conns[rpc[r].call.dpu] # <<>>

\* The RPC that tries ports holds the lock, and has found nothing in the cache, to
\* which only it can add; the connection it tests is the only open one.
Locked ==
    /\ lock # "free" => lock \in Rpcs /\ rpc[lock].pc \in {"try", "test"}
    /\ \A r \in Rpcs : rpc[r].pc \in {"try", "test"} => lock = r /\ conns[rpc[r].call.dpu] = <<>>
    /\ \A c \in opened : \E r \in Rpcs : /\ rpc[r].pc = "test"
                                         /\ c = <<rpc[r].addr, Head(rpc[r].ports)>>

\* While no DPU has changed its address, what was resolved and cached for a DPU is its
\* own address.
Homed ==
    ~moved =>
      /\ \A d \in Dpus : table[d].addr = d /\ (conns[d] # <<>> => conns[d][1].addr = d)
      /\ \A r \in Rpcs : /\ rpc[r].pc \in Resolved => rpc[r].addr = rpc[r].call.dpu
                         /\ rpc[r].by \in {"none", "local", rpc[r].call.dpu}

\* What an RPC has sent and what is left of it, by where it is.
Carried ==
    \A r \in Rpcs :
      /\ got[r] <= rpc[r].sent
      /\ rpc[r].pc \in {"idle", "forward"} \union Resolved => rpc[r].sent = 0 /\ rpc[r].left = MaxMsgs
      /\ rpc[r].pc \in {"copy", "recv"} => rpc[r].sent + rpc[r].left = MaxMsgs
      /\ rpc[r].pc = "recv" => rpc[r].left = 0
      /\ rpc[r].pc = "ok" /\ rpc[r].by # "local" =>
           /\ rpc[r].left = 0 /\ rpc[r].sent > 0
           /\ got[r] = rpc[r].sent \/ (rpc[r].call.method = "setpackage" /\ got[r] > 0)

\* The ways the record of an RPC changes, besides moving on: it has an address, tries
\* the next port, has a peer, has its answer, sends a message.
ToAddress(r, p, a, ps) == rpc' = [rpc EXCEPT ![r] = [rpc[r] EXCEPT !.pc = p, !.addr = a, !.ports = ps]]
ToPort(r, p, ps) == rpc' = [rpc EXCEPT ![r] = [rpc[r] EXCEPT !.pc = p, !.ports = ps]]
ToPeer(r, p, b) == rpc' = [rpc EXCEPT ![r] = [rpc[r] EXCEPT !.pc = p, !.by = b]]
ToAnswer(r, p, b) == rpc' = [rpc EXCEPT ![r] = [rpc[r] EXCEPT !.pc = p, !.by = b, !.left = 0, !.sent = 1]]
ToSent(r, l, n) == rpc' = [rpc EXCEPT ![r] = [rpc[r] EXCEPT !.left = l, !.sent = n]]
Only(r) == rpc' \in [Rpcs -> Rpc] /\ \A s \in Rpcs \ {r} : rpc'[s] = rpc[s]

LEMMA Moves ==
    ASSUME rpc \in [Rpcs -> Rpc], NEW r \in Rpcs, NEW p \in Places, Go(r, p)
    PROVE  /\ Only(r)
           /\ rpc'[r].call = rpc[r].call /\ rpc'[r].pc = p
           /\ rpc'[r].addr = rpc[r].addr /\ rpc'[r].ports = rpc[r].ports
           /\ rpc'[r].sent = rpc[r].sent /\ rpc'[r].left = rpc[r].left /\ rpc'[r].by = rpc[r].by
<1>1. ASSUME NEW y \in Rpc
      PROVE  LET x == [y EXCEPT !.pc = p]
             IN  /\ x \in Rpc
                 /\ x.call = y.call /\ x.pc = p /\ x.addr = y.addr /\ x.ports = y.ports
                 /\ x.sent = y.sent /\ x.left = y.left /\ x.by = y.by
  BY Zenon DEF Rpc
<1>2. rpc[r] \in Rpc
  OBVIOUS
<1> QED
  BY <1>1, <1>2, Zenon DEF Only, Go

LEMMA Resolves ==
    ASSUME rpc \in [Rpcs -> Rpc], NEW r \in Rpcs, NEW p \in Places, NEW a \in Dpus, NEW ps \in Ports, ToAddress(r, p, a, ps)
    PROVE  /\ Only(r)
           /\ rpc'[r].call = rpc[r].call /\ rpc'[r].pc = p
           /\ rpc'[r].addr = a /\ rpc'[r].ports = ps
           /\ rpc'[r].sent = rpc[r].sent /\ rpc'[r].left = rpc[r].left /\ rpc'[r].by = rpc[r].by
<1>1. ASSUME NEW y \in Rpc
      PROVE  LET x == [y EXCEPT !.pc = p, !.addr = a, !.ports = ps]
             IN  /\ x \in Rpc
                 /\ x.call = y.call /\ x.pc = p /\ x.addr = a /\ x.ports = ps
                 /\ x.sent = y.sent /\ x.left = y.left /\ x.by = y.by
  BY Zenon DEF Rpc
<1>2. rpc[r] \in Rpc
  OBVIOUS
<1> QED
  BY <1>1, <1>2, Zenon DEF Only, ToAddress

LEMMA TriesNext ==
    ASSUME rpc \in [Rpcs -> Rpc], NEW r \in Rpcs, NEW p \in Places, NEW ps \in Ports, ToPort(r, p, ps)
    PROVE  /\ Only(r)
           /\ rpc'[r].call = rpc[r].call /\ rpc'[r].pc = p
           /\ rpc'[r].addr = rpc[r].addr /\ rpc'[r].ports = ps
           /\ rpc'[r].sent = rpc[r].sent /\ rpc'[r].left = rpc[r].left /\ rpc'[r].by = rpc[r].by
<1>1. ASSUME NEW y \in Rpc
      PROVE  LET x == [y EXCEPT !.pc = p, !.ports = ps]
             IN  /\ x \in Rpc
                 /\ x.call = y.call /\ x.pc = p /\ x.addr = y.addr /\ x.ports = ps
                 /\ x.sent = y.sent /\ x.left = y.left /\ x.by = y.by
  BY Zenon DEF Rpc
<1>2. rpc[r] \in Rpc
  OBVIOUS
<1> QED
  BY <1>1, <1>2, Zenon DEF Only, ToPort

LEMMA HasPeer ==
    ASSUME rpc \in [Rpcs -> Rpc], NEW r \in Rpcs, NEW p \in Places, NEW b \in Dpus \union {"local"}, ToPeer(r, p, b)
    PROVE  /\ Only(r)
           /\ rpc'[r].call = rpc[r].call /\ rpc'[r].pc = p
           /\ rpc'[r].addr = rpc[r].addr /\ rpc'[r].ports = rpc[r].ports
           /\ rpc'[r].sent = rpc[r].sent /\ rpc'[r].left = rpc[r].left /\ rpc'[r].by = b
<1>1. ASSUME NEW y \in Rpc
      PROVE  LET x == [y EXCEPT !.pc = p, !.by = b]
             IN  /\ x \in Rpc
                 /\ x.call = y.call /\ x.pc = p /\ x.addr = y.addr /\ x.ports = y.ports
                 /\ x.sent = y.sent /\ x.left = y.left /\ x.by = b
  BY Zenon DEF Rpc
<1>2. rpc[r] \in Rpc
  OBVIOUS
<1> QED
  BY <1>1, <1>2, Zenon DEF Only, ToPeer

LEMMA HasAnswer ==
    ASSUME rpc \in [Rpcs -> Rpc], NEW r \in Rpcs, NEW p \in Places, NEW b \in Dpus, ToAnswer(r, p, b)
    PROVE  /\ Only(r)
           /\ rpc'[r].call = rpc[r].call /\ rpc'[r].pc = p
           /\ rpc'[r].addr = rpc[r].addr /\ rpc'[r].ports = rpc[r].ports
           /\ rpc'[r].sent = 1 /\ rpc'[r].left = 0 /\ rpc'[r].by = b
<1>1. ASSUME NEW y \in Rpc
      PROVE  LET x == [y EXCEPT !.pc = p, !.by = b, !.left = 0, !.sent = 1]
             IN  /\ x \in Rpc
                 /\ x.call = y.call /\ x.pc = p /\ x.addr = y.addr /\ x.ports = y.ports
                 /\ x.sent = 1 /\ x.left = 0 /\ x.by = b
  BY Zenon DEF Rpc
<1>2. rpc[r] \in Rpc
  OBVIOUS
<1> QED
  BY <1>1, <1>2, Zenon DEF Only, ToAnswer

LEMMA Sends ==
    ASSUME rpc \in [Rpcs -> Rpc], NEW r \in Rpcs, NEW l \in Nat, NEW n \in Nat, ToSent(r, l, n)
    PROVE  /\ Only(r)
           /\ rpc'[r].call = rpc[r].call /\ rpc'[r].pc = rpc[r].pc
           /\ rpc'[r].addr = rpc[r].addr /\ rpc'[r].ports = rpc[r].ports
           /\ rpc'[r].sent = n /\ rpc'[r].left = l /\ rpc'[r].by = rpc[r].by
<1>1. ASSUME NEW y \in Rpc
      PROVE  LET x == [y EXCEPT !.left = l, !.sent = n]
             IN  /\ x \in Rpc
                 /\ x.call = y.call /\ x.pc = y.pc /\ x.addr = y.addr /\ x.ports = y.ports
                 /\ x.sent = n /\ x.left = l /\ x.by = y.by
  BY Zenon DEF Rpc
<1>2. rpc[r] \in Rpc
  OBVIOUS
<1> QED
  BY <1>1, <1>2, Zenon DEF Only, ToSent

LEMMA TypedInit == Setting /\ Init => Typed
<1> SUFFICES ASSUME Setting, Init PROVE Typed
  OBVIOUS
<1>1. PICK c \in Calls : rpc = [r \in Rpcs |-> [call |-> c[r], pc |-> "idle", addr |-> "none", ports |-> <<>>,
                                sent |-> 0, left |-> MaxMsgs, by |-> "none"]]
  BY DEF Init
<1>2. ASSUME NEW r \in Rpcs PROVE rpc[r] \in Rpc /\ rpc[r].pc = "idle"
  <2> DEFINE e == <<>>
  <2>1. c[r] \in Requests /\ MaxMsgs \in Nat /\ e \in Ports
    BY DEF Setting, Ports
  <2>2. rpc[r] = [call |-> c[r], pc |-> "idle", addr |-> "none", ports |-> e,
                  sent |-> 0, left |-> MaxMsgs, by |-> "none"]
    BY <1>1
  <2> HIDE DEF e
  <2> QED
    BY <2>1, <2>2 DEF Rpc, Places
<1>3. rpc \in [Rpcs -> Rpc]
  BY <1>1, <1>2
<1>4. \A r \in Rpcs : rpc[r].pc = "idle"
  BY <1>2
<1>5. table \in [Dpus -> [addr : Dpus, access : BOOLEAN]]
  BY DEF Init
<1>6. conns \in [Dpus -> Seq(Conns)] /\ got \in [Rpcs -> Nat]
  BY DEF Init
<1> QED
  BY <1>3, <1>4, <1>5, <1>6 DEF Typed, Resolved, Talking

Proxy == Typed /\ Locked /\ Homed /\ Carried

LEMMA LocalStep == ASSUME Setting, Proxy, NEW r \in Rpcs, HandleLocally(r) PROVE Proxy'
<1>1. ToPeer(r, "ok", "local")
  BY DEF HandleLocally, ToPeer
<1>2. "ok" \in Places /\ "local" \in Dpus \union {"local"} /\ rpc \in [Rpcs -> Rpc]
  BY DEF Places, Proxy, Typed
<1>3. /\ Only(r) /\ rpc'[r].pc = "ok" /\ rpc'[r].by = "local"
      /\ rpc'[r].call = rpc[r].call /\ rpc'[r].sent = rpc[r].sent /\ rpc'[r].left = rpc[r].left
  BY <1>1, <1>2, HasPeer
<1>4. rpc[r].pc = "idle" /\ UNCHANGED <<table, conns, opened, lock, got, moved>>
  BY DEF HandleLocally, RouteFrame, At
<1>5. Typed'
  BY <1>3, <1>4 DEF Proxy, Typed, Only, Resolved, Talking
<1>6. Locked'
  BY <1>3, <1>4 DEF Proxy, Locked, Only
<1>7. Homed'
  BY <1>3, <1>4 DEF Proxy, Homed, Only, Resolved
<1>8. Carried'
  BY <1>3, <1>4 DEF Proxy, Carried, Only, Resolved
<1> QED
  BY <1>5, <1>6, <1>7, <1>8 DEF Proxy

LEMMA LeavesStep ==
    ASSUME Setting, Proxy, NEW r \in Rpcs, NEW p \in {"failed", "recv", "ok"}, Go(r, p),
           rpc[r].pc \notin Resolved, UNCHANGED <<table, conns, opened, lock, got, moved>>,
           p = "recv" => rpc[r].pc = "copy" /\ rpc[r].left = 0,
           p = "ok" => rpc[r].pc = "recv" /\ Taken(r)
    PROVE  Proxy'
<1>1. p \in Places /\ rpc \in [Rpcs -> Rpc]
  BY DEF Places, Talking, Proxy, Typed
<1>2. /\ Only(r) /\ rpc'[r].pc = p
      /\ rpc'[r].call = rpc[r].call /\ rpc'[r].addr = rpc[r].addr /\ rpc'[r].ports = rpc[r].ports
      /\ rpc'[r].sent = rpc[r].sent /\ rpc'[r].left = rpc[r].left /\ rpc'[r].by = rpc[r].by
  BY <1>1, Moves
<1>3. Typed'
  BY ZenonT(60), <1>2 DEF Proxy, Typed, Only, Resolved, Talking
<1>4. Locked'
  BY <1>2 DEF Proxy, Locked, Only, Resolved
<1>5. Homed'
  BY <1>2 DEF Proxy, Homed, Only, Resolved
<1>6. Carried'
  <2>1. rpc[r].sent \in Nat /\ rpc[r].left \in Nat /\ MaxMsgs \in Nat \ {0}
    BY <1>1 DEF Rpc, Setting
  <2> QED
    BY <1>2, <2>1 DEF Proxy, Carried, Only, Resolved, Taken, Method
<1> QED
  BY <1>3, <1>4, <1>5, <1>6 DEF Proxy

LEMMA CachedStep ==
    ASSUME Setting, Proxy, NEW r \in Rpcs, NEW p \in {"forward", "lock"}, Go(r, p),
           rpc[r].pc \in {"cached", "lock"}, UNCHANGED <<table, conns, opened, lock, got, moved>>,
           p = "forward" => conns[Dpu(r)] # <<>>
    PROVE  Proxy'
<1>1. p \in Places /\ rpc \in [Rpcs -> Rpc]
  BY DEF Places, Resolved, Talking, Proxy, Typed
<1>2. /\ Only(r) /\ rpc'[r].pc = p
      /\ rpc'[r].call = rpc[r].call /\ rpc'[r].addr = rpc[r].addr /\ rpc'[r].ports = rpc[r].ports
      /\ rpc'[r].sent = rpc[r].sent /\ rpc'[r].left = rpc[r].left /\ rpc'[r].by = rpc[r].by
  BY <1>1, Moves
<1>3. Typed'
  BY ZenonT(60), <1>2 DEF Proxy, Typed, Only, Resolved, Talking, Dpu
<1>4. Locked'
  BY <1>2 DEF Proxy, Locked, Only
<1>5. Homed'
  BY <1>2 DEF Proxy, Homed, Only, Resolved
<1>6. Carried'
  BY SMTT(30), <1>2 DEF Proxy, Carried, Only, Resolved
<1> QED
  BY <1>3, <1>4, <1>5, <1>6 DEF Proxy

LEMMA LockStep ==
    ASSUME Setting, Proxy, NEW r \in Rpcs, Go(r, "try"), rpc[r].pc = "lock", lock = "free", lock' = r,
           conns[Dpu(r)] = <<>>, UNCHANGED <<table, conns, opened, got, moved>>
    PROVE  Proxy'
<1>1. "try" \in Places /\ rpc \in [Rpcs -> Rpc]
  BY DEF Places, Resolved, Proxy, Typed
<1>2. /\ Only(r) /\ rpc'[r].pc = "try"
      /\ rpc'[r].call = rpc[r].call /\ rpc'[r].addr = rpc[r].addr /\ rpc'[r].ports = rpc[r].ports
      /\ rpc'[r].sent = rpc[r].sent /\ rpc'[r].left = rpc[r].left /\ rpc'[r].by = rpc[r].by
  BY <1>1, Moves
<1>3. Typed'
  BY ZenonT(60), <1>2 DEF Proxy, Typed, Only, Resolved, Talking
<1>4. Locked'
  BY <1>2 DEF Proxy, Locked, Only, Dpu, Setting
<1>5. Homed'
  BY <1>2 DEF Proxy, Homed, Only, Resolved
<1>6. Carried'
  BY <1>2 DEF Proxy, Carried, Only, Resolved
<1> QED
  BY <1>3, <1>4, <1>5, <1>6 DEF Proxy

LEMMA TryPortStep == ASSUME Setting, Proxy, NEW r \in Rpcs, TryPort(r) PROVE Proxy'
<1>1. Go(r, "test")
  BY DEF TryPort
<1>2. "test" \in Places /\ rpc \in [Rpcs -> Rpc]
  BY DEF Places, Resolved, Proxy, Typed
<1>3. /\ Only(r) /\ rpc'[r].pc = "test"
      /\ rpc'[r].call = rpc[r].call /\ rpc'[r].addr = rpc[r].addr /\ rpc'[r].ports = rpc[r].ports
      /\ rpc'[r].sent = rpc[r].sent /\ rpc'[r].left = rpc[r].left /\ rpc'[r].by = rpc[r].by
  BY <1>1, <1>2, Moves
<1>4. /\ rpc[r].pc = "try" /\ rpc[r].ports # <<>>
      /\ opened' = opened \union {<<rpc[r].addr, Head(rpc[r].ports)>>}
      /\ UNCHANGED <<table, conns, lock, got, moved>>
  BY DEF TryPort, At, ConnFrame
<1>5. Typed'
  BY <1>3, <1>4 DEF Proxy, Typed, Only, Resolved, Talking
<1>6. Locked'
  BY <1>3, <1>4 DEF Proxy, Locked, Only
<1>7. Homed'
  BY <1>3, <1>4 DEF Proxy, Homed, Only, Resolved
<1>8. Carried'
  BY SMTT(30), <1>3, <1>4 DEF Proxy, Carried, Only, Resolved
<1> QED
  BY <1>5, <1>6, <1>7, <1>8 DEF Proxy

LEMMA NoPortStep == ASSUME Setting, Proxy, NEW r \in Rpcs, NoPort(r) PROVE Proxy'
<1>1. Go(r, "failed")
  BY DEF NoPort
<1>2. "failed" \in Places /\ rpc \in [Rpcs -> Rpc]
  BY DEF Places, Proxy, Typed
<1>3. /\ Only(r) /\ rpc'[r].pc = "failed"
      /\ rpc'[r].call = rpc[r].call /\ rpc'[r].addr = rpc[r].addr /\ rpc'[r].ports = rpc[r].ports
      /\ rpc'[r].sent = rpc[r].sent /\ rpc'[r].left = rpc[r].left /\ rpc'[r].by = rpc[r].by
  BY <1>1, <1>2, Moves
<1>4. rpc[r].pc = "try" /\ lock' = "free" /\ UNCHANGED <<table, conns, opened, got, moved>>
  BY DEF NoPort, At, ConnFrame
<1>5. Typed'
  BY ZenonT(60), <1>3, <1>4 DEF Proxy, Typed, Only, Resolved, Talking
<1>6. Locked'
  BY <1>3, <1>4 DEF Proxy, Locked, Only
<1>7. Homed'
  BY <1>3, <1>4 DEF Proxy, Homed, Only, Resolved
<1>8. Carried'
  BY SMTT(30), <1>3, <1>4 DEF Proxy, Carried, Only, Resolved
<1> QED
  BY <1>5, <1>6, <1>7, <1>8 DEF Proxy

LEMMA TestStep == ASSUME Setting, Proxy, NEW r \in Rpcs, TestConnection(r) PROVE Proxy'
<1> DEFINE c == [addr |-> rpc[r].addr, port |-> Head(rpc[r].ports)]
           cs == <<c>>
<1>1. /\ rpc[r].pc = "test" /\ opened' = opened \ {<<rpc[r].addr, Head(rpc[r].ports)>>}
      /\ UNCHANGED <<table, got, moved>>
  BY DEF TestConnection, At
<1>2. /\ rpc \in [Rpcs -> Rpc] /\ rpc[r].addr \in Dpus /\ Dpu(r) \in Dpus
      /\ rpc[r].ports \in Ports /\ rpc[r].ports # <<>> /\ conns \in [Dpus -> Seq(Conns)]
  BY <1>1 DEF Proxy, Typed, Rpc, Resolved, Dpu
<1>3. Tail(rpc[r].ports) \in Ports /\ Head(rpc[r].ports) \in PortNames
  BY <1>2 DEF Ports
<1>4. cs \in Seq(Conns) /\ cs # <<>> /\ cs[1].addr = rpc[r].addr
  BY <1>2, <1>3 DEF Conns
<1>5. CASE Go(r, "forward") /\ lock' = "free" /\ conns' = [conns EXCEPT ![Dpu(r)] = cs]
  <2>1. "forward" \in Places
    BY DEF Places, Talking
  <2>2. /\ Only(r) /\ rpc'[r].pc = "forward"
        /\ rpc'[r].call = rpc[r].call /\ rpc'[r].addr = rpc[r].addr /\ rpc'[r].ports = rpc[r].ports
        /\ rpc'[r].sent = rpc[r].sent /\ rpc'[r].left = rpc[r].left /\ rpc'[r].by = rpc[r].by
    BY <1>2, <1>5, <2>1, Moves
  <2> HIDE DEF cs
  <2>3. conns' \in [Dpus -> Seq(Conns)] /\ conns'[Dpu(r)] = cs /\ \A d \in Dpus \ {Dpu(r)} : conns'[d] = conns[d]
    BY <1>2, <1>4, <1>5
  <2>4. Typed'
    <3>1. \A d \in Dpus : conns[d] # <<>> => conns'[d] # <<>>
      BY <1>4, <2>3
    <3>2. conns'[rpc'[r].call.dpu] # <<>> /\ rpc'[r].call.dpu \in Dpus
      BY <1>2, <1>4, <2>2, <2>3 DEF Dpu
    <3>3. \A s \in Rpcs \ {r} : rpc'[s].pc = "forward" => conns'[rpc'[s].call.dpu] # <<>>
      BY <2>2, <3>1 DEF Proxy, Typed, Only, Talking
    <3> QED
      BY <1>1, <2>2, <2>3, <3>2, <3>3 DEF Proxy, Typed, Only, Resolved, Talking
  <2>5. Locked'
    <3>1. \A s \in Rpcs : rpc'[s].pc \notin {"try", "test"}
      BY <1>1, <2>2 DEF Proxy, Locked, Only
    <3>2. opened' = {}
      BY <1>1 DEF Proxy, Locked
    <3> QED
      BY <1>5, <3>1, <3>2 DEF Locked
  <2>6. Homed'
    <3>1. ~moved => \A d \in Dpus : conns'[d] # <<>> => conns'[d][1].addr = d
      BY <1>1, <1>4, <2>3 DEF Proxy, Homed, Resolved, Dpu
    <3> QED
      BY <1>1, <2>2, <3>1 DEF Proxy, Homed, Only, Resolved
  <2>7. Carried'
    BY <1>1, <2>2 DEF Proxy, Carried, Only, Resolved
  <2> QED
    BY <2>4, <2>5, <2>6, <2>7 DEF Proxy
<1>6. CASE UNCHANGED <<conns, lock>> /\ ToPort(r, "try", Tail(rpc[r].ports))
  <2>1. "try" \in Places
    BY DEF Places, Resolved
  <2>2. /\ Only(r) /\ rpc'[r].pc = "try" /\ rpc'[r].call = rpc[r].call /\ rpc'[r].addr = rpc[r].addr
        /\ rpc'[r].sent = rpc[r].sent /\ rpc'[r].left = rpc[r].left /\ rpc'[r].by = rpc[r].by
    BY <1>2, <1>3, <1>6, <2>1, TriesNext
  <2>3. Typed'
    BY <1>1, <1>6, <2>2 DEF Proxy, Typed, Only, Resolved, Talking
  <2>4. Locked'
    <3>1. opened' = {}
      BY <1>1 DEF Proxy, Locked
    <3> QED
      BY ZenonT(60), <1>1, <1>6, <2>2, <3>1 DEF Proxy, Locked, Only
  <2>5. Homed'
    BY <1>1, <1>6, <2>2 DEF Proxy, Homed, Only, Resolved
  <2>6. Carried'
    BY <1>1, <2>2 DEF Proxy, Carried, Only, Resolved
  <2> QED
    BY <2>3, <2>4, <2>5, <2>6 DEF Proxy
<1> QED
  BY <1>5, <1>6 DEF TestConnection, ToPort

LEMMA ResolveStep ==
    ASSUME Setting, Proxy, NEW r \in Rpcs, NEW a \in Dpus, NEW ps \in Ports,
           rpc[r].pc = "idle", Dpu(r) \in Dpus, a = table[Dpu(r)].addr,
           ToAddress(r, "cached", a, ps),
           UNCHANGED <<table, conns, opened, lock, got, moved>>
    PROVE  Proxy'
<1>1. rpc \in [Rpcs -> Rpc] /\ "cached" \in Places
  BY DEF Proxy, Typed, Places, Resolved
<1>2. /\ Only(r) /\ rpc'[r].pc = "cached" /\ rpc'[r].addr = a /\ rpc'[r].call = rpc[r].call
      /\ rpc'[r].sent = rpc[r].sent /\ rpc'[r].left = rpc[r].left /\ rpc'[r].by = rpc[r].by
  BY <1>1, Resolves
<1>3. Typed'
  BY <1>2 DEF Proxy, Typed, Only, Resolved, Talking, Dpu
<1>4. Locked'
  BY <1>2 DEF Proxy, Locked, Only
<1>5. Homed'
  <2> SUFFICES ASSUME ~moved, NEW q \in Rpcs
               PROVE  /\ rpc'[q].pc \in Resolved => rpc'[q].addr = rpc'[q].call.dpu
                      /\ rpc'[q].by \in {"none", "local", rpc'[q].call.dpu}
    BY DEF Proxy, Homed
  <2>1. CASE q = r
    BY <1>2, <2>1 DEF Proxy, Homed, Dpu
  <2>2. CASE q # r
    BY <1>2, <2>2 DEF Proxy, Homed, Only
  <2> QED
    BY <2>1, <2>2
<1>6. Carried'
  BY SMTT(30), <1>2 DEF Proxy, Carried, Only, Resolved
<1> QED
  BY <1>3, <1>4, <1>5, <1>6 DEF Proxy

LEMMA AnswerStep ==
    ASSUME Setting, Proxy, NEW r \in Rpcs, NEW b \in Dpus, rpc[r].pc = "forward", b = Conn(r).addr,
           ToAnswer(r, "ok", b),
           got' = [got EXCEPT ![r] = 1], UNCHANGED <<table, conns, opened, lock, moved>>
    PROVE  Proxy'
<1>1. rpc \in [Rpcs -> Rpc] /\ "ok" \in Places /\ got \in [Rpcs -> Nat]
  BY DEF Proxy, Typed, Places
<1>2. /\ Only(r) /\ rpc'[r].pc = "ok" /\ rpc'[r].call = rpc[r].call
      /\ rpc'[r].sent = 1 /\ rpc'[r].left = 0 /\ rpc'[r].by = b
  BY <1>1, HasAnswer
<1>3. got' \in [Rpcs -> Nat] /\ got'[r] = 1 /\ \A s \in Rpcs \ {r} : got'[s] = got[s]
  BY <1>1
<1>4. Typed'
  BY ZenonT(60), <1>2, <1>3 DEF Proxy, Typed, Only, Resolved, Talking
<1>5. Locked'
  BY <1>2 DEF Proxy, Locked, Only
<1>6. Homed'
  <2>1. ~moved => b = rpc[r].call.dpu
    BY DEF Proxy, Typed, Homed, Talking, Conn, Dpu
  <2> QED
    BY <1>2, <2>1 DEF Proxy, Homed, Only, Resolved
<1>7. Carried'
  BY <1>2, <1>3 DEF Proxy, Carried, Only, Resolved
<1> QED
  BY <1>4, <1>5, <1>6, <1>7 DEF Proxy

LEMMA OpenStep ==
    ASSUME Setting, Proxy, NEW r \in Rpcs, NEW b \in Dpus, rpc[r].pc = "forward", b = Conn(r).addr,
           ToPeer(r, "copy", b),
           UNCHANGED <<table, conns, opened, lock, got, moved>>
    PROVE  Proxy'
<1>1. rpc \in [Rpcs -> Rpc] /\ "copy" \in Places /\ b \in Dpus \union {"local"}
  BY DEF Proxy, Typed, Places, Talking
<1>2. /\ Only(r) /\ rpc'[r].pc = "copy" /\ rpc'[r].call = rpc[r].call
      /\ rpc'[r].sent = rpc[r].sent /\ rpc'[r].left = rpc[r].left /\ rpc'[r].by = b
  BY <1>1, HasPeer
<1>3. Typed'
  BY <1>2 DEF Proxy, Typed, Only, Resolved, Talking
<1>4. Locked'
  BY <1>2 DEF Proxy, Locked, Only
<1>5. Homed'
  <2>1. ~moved => b = rpc[r].call.dpu
    BY DEF Proxy, Typed, Homed, Talking, Conn, Dpu
  <2> QED
    BY <1>2, <2>1 DEF Proxy, Homed, Only, Resolved
<1>6. Carried'
  BY <1>2 DEF Proxy, Carried, Only, Resolved, Setting
<1> QED
  BY <1>3, <1>4, <1>5, <1>6 DEF Proxy

LEMMA SendStep ==
    ASSUME Setting, Proxy, NEW r \in Rpcs, NEW l, NEW n, rpc[r].pc = "copy", rpc[r].left > 0,
           l = rpc[r].left - 1, n = rpc[r].sent + 1,
           ToSent(r, l, n),
           UNCHANGED <<table, conns, opened, lock, got, moved>>
    PROVE  Proxy'
<1>1. rpc \in [Rpcs -> Rpc] /\ got \in [Rpcs -> Nat]
  BY DEF Proxy, Typed
<1>2. rpc[r].left \in Nat /\ rpc[r].sent \in Nat
  BY <1>1 DEF Rpc
<1>3. l \in Nat /\ n \in Nat /\ l + n = rpc[r].left + rpc[r].sent
  BY <1>2
<1>4. /\ Only(r) /\ rpc'[r].pc = rpc[r].pc /\ rpc'[r].call = rpc[r].call
      /\ rpc'[r].sent = n /\ rpc'[r].left = l /\ rpc'[r].by = rpc[r].by
  BY <1>1, <1>3, Sends
<1>5. Typed'
  BY <1>4 DEF Proxy, Typed, Only, Resolved, Talking
<1>6. Locked'
  BY <1>4 DEF Proxy, Locked, Only
<1>7. Homed'
  BY <1>4 DEF Proxy, Homed, Only, Resolved
<1>8. Carried'
  BY <1>1, <1>2, <1>3, <1>4 DEF Proxy, Carried, Only, Resolved
<1> QED
  BY <1>5, <1>6, <1>7, <1>8 DEF Proxy

LEMMA TakeStep == ASSUME Setting, Proxy, NEW r \in Rpcs, DpuTakes(r) PROVE Proxy'
<1>1. /\ got' = [got EXCEPT ![r] = got[r] + 1] /\ got[r] < rpc[r].sent
      /\ UNCHANGED <<rpc, table, conns, opened, lock, moved>>
  BY DEF DpuTakes, FwdFrame
<1>2. rpc \in [Rpcs -> Rpc] /\ got \in [Rpcs -> Nat]
  BY DEF Proxy, Typed
<1>3. rpc[r].sent \in Nat /\ got[r] \in Nat
  BY <1>2 DEF Rpc
<1>4. /\ got' \in [Rpcs -> Nat] /\ got'[r] = got[r] + 1 /\ got'[r] <= rpc[r].sent
      /\ \A s \in Rpcs \ {r} : got'[s] = got[s]
  BY <1>1, <1>2, <1>3
<1>5. Typed'
  BY <1>1, <1>4 DEF Proxy, Typed
<1>6. Locked' /\ Homed'
  BY <1>1 DEF Proxy, Locked, Homed
<1>7. Carried'
  BY <1>1, <1>3, <1>4 DEF Proxy, Carried
<1> QED
  BY <1>5, <1>6, <1>7 DEF Proxy

LEMMA ChangeStep == ASSUME Setting, Proxy, DpuChange PROVE Proxy'
<1>1. UNCHANGED <<rpc, conns, opened, lock, got>>
  BY DEF DpuChange
<1>2. /\ table' \in [Dpus -> [addr : Dpus, access : BOOLEAN]]
      /\ (~moved' => ~moved /\ \A d \in Dpus : table'[d].addr = table[d].addr)
  <2>1. table \in [Dpus -> [addr : Dpus, access : BOOLEAN]]
    BY DEF Proxy, Typed
  <2>2. CASE \E d \in Dpus : table' = [table EXCEPT ![d].access = ~@] /\ UNCHANGED moved
    <3>1. PICK d \in Dpus : table' = [table EXCEPT ![d].access = ~@] /\ UNCHANGED moved
      BY <2>2
    <3>2. (~table[d].access) \in BOOLEAN
      OBVIOUS
    <3>3. table' \in [Dpus -> [addr : Dpus, access : BOOLEAN]]
      <4>1. table' = [table EXCEPT ![d] = [table[d] EXCEPT !.access = ~table[d].access]]
        BY <2>1, <3>1
      <4>2. [table[d] EXCEPT !.access = ~table[d].access] \in [addr : Dpus, access : BOOLEAN]
        <5>1. ASSUME NEW y \in [addr : Dpus, access : BOOLEAN], NEW v \in BOOLEAN
              PROVE  [y EXCEPT !.access = v] \in [addr : Dpus, access : BOOLEAN]
          BY Zenon
        <5>2. table[d] \in [addr : Dpus, access : BOOLEAN]
          BY <2>1
        <5> QED
          BY <3>2, <5>1, <5>2, Zenon
      <4> QED
        BY <2>1, <4>1, <4>2
    <3>4. \A e \in Dpus : table'[e].addr = table[e].addr
      BY <2>1, <3>1
    <3> QED
      BY <3>1, <3>3, <3>4
  <2>3. CASE moved' = TRUE /\ \E d, e \in Dpus :
                table' = [table EXCEPT ![d].addr = table[e].addr, ![e].addr = table[d].addr]
    BY <2>1, <2>3
  <2> QED
    BY <2>2, <2>3 DEF DpuChange
<1>3. Typed'
  BY <1>1, <1>2 DEF Proxy, Typed
<1>4. Locked' /\ Carried'
  BY <1>1 DEF Proxy, Locked, Carried
<1>5. Homed'
  BY <1>1, <1>2 DEF Proxy, Homed
<1> QED
  BY <1>3, <1>4, <1>5 DEF Proxy

\* Every step of the proxy keeps the invariant.
LEMMA ProxyStep == Setting /\ Proxy /\ [Next]_vars => Proxy'
<1> SUFFICES ASSUME Setting, Proxy, [Next]_vars PROVE Proxy'
  OBVIOUS
<1>1. CASE DpuChange
  BY <1>1, ChangeStep
<1>2. CASE UNCHANGED vars
  <2>1. UNCHANGED <<rpc, table, conns, opened, lock, got, moved>>
    BY <1>2 DEF vars
  <2> QED
    <3>1. Typed' /\ Locked'
      BY <2>1 DEF Proxy, Typed, Locked
    <3>2. Homed' /\ Carried'
      BY <2>1 DEF Proxy, Homed, Carried
    <3> QED
      BY <3>1, <3>2 DEF Proxy
<1>3. ASSUME NEW r \in Rpcs, Reject(r) PROVE Proxy'
  BY <1>3, LeavesStep DEF Reject, RouteFrame, At, Resolved
<1>4. ASSUME NEW r \in Rpcs, GetDPUInfo(r) PROVE Proxy'
  <2>1. rpc[r].pc = "idle" /\ Dpu(r) # "none" /\ UNCHANGED <<table, conns, opened, lock, got, moved>>
    BY <1>4 DEF GetDPUInfo, At, RouteFrame
  <2>2. CASE Go(r, "failed")
    BY <2>1, <2>2, LeavesStep DEF Resolved
  <2>3. CASE ToAddress(r, "cached", table[Dpu(r)].addr, <<"configured", "8080", "50052">>)
    <3>1. Dpu(r) \in Dpus /\ table[Dpu(r)].addr \in Dpus
      BY <2>1 DEF Proxy, Typed, Rpc, Requests, Dpu
    <3>2. <<"configured", "8080", "50052">> \in Ports
      BY DEF Ports, PortNames
    <3> QED
      BY <2>1, <2>3, <3>1, <3>2, ResolveStep
  <2> QED
    BY <1>4, <2>2, <2>3 DEF GetDPUInfo, ToAddress
<1>5. ASSUME NEW r \in Rpcs, CachedConnection(r) PROVE Proxy'
  BY <1>5, CachedStep DEF CachedConnection, ConnFrame, At
<1>6. ASSUME NEW r \in Rpcs, LockConnections(r) PROVE Proxy'
  BY <1>6, CachedStep, LockStep DEF LockConnections, ConnFrame, At
<1>7. ASSUME NEW r \in Rpcs, ForwardUnary(r) \/ OpenStream(r) PROVE Proxy'
  <2>1. rpc[r].pc = "forward" /\ UNCHANGED <<table, conns, opened, lock, moved>>
    BY <1>7 DEF ForwardUnary, OpenStream, At, FwdFrame
  <2>2. Conn(r).addr \in Dpus
    <3>1. conns[Dpu(r)] \in Seq(Conns) /\ conns[Dpu(r)] # <<>>
      BY <2>1 DEF Proxy, Typed, Talking, Dpu
    <3>2. Conn(r) \in Conns
      BY <3>1 DEF Conn
    <3> QED
      BY <3>2 DEF Conns
  <2>3. CASE Go(r, "failed") /\ UNCHANGED got
    BY <2>1, <2>3, LeavesStep DEF Resolved
  <2>4. CASE ToAnswer(r, "ok", Conn(r).addr) /\ got' = [got EXCEPT ![r] = 1]
    BY <2>1, <2>2, <2>4, AnswerStep
  <2>5. CASE ToPeer(r, "copy", Conn(r).addr) /\ UNCHANGED got
    BY <2>1, <2>2, <2>5, OpenStep
  <2> QED
    BY <1>7, <2>3, <2>4, <2>5 DEF ForwardUnary, OpenStream, ToAnswer, ToPeer
<1>8. ASSUME NEW r \in Rpcs, CopyMessage(r) PROVE Proxy'
  <2>1. rpc[r].pc = "copy" /\ UNCHANGED <<table, conns, opened, lock, got, moved>>
    BY <1>8 DEF CopyMessage, At, FwdFrame
  <2>2. CASE Go(r, "failed")
    BY <2>1, <2>2, LeavesStep DEF Resolved
  <2>3. CASE rpc[r].left = 0 /\ Go(r, "recv")
    BY <2>1, <2>3, LeavesStep DEF Resolved
  <2>4. CASE rpc[r].left > 0 /\ ToSent(r, rpc[r].left - 1, rpc[r].sent + 1)
    BY <2>1, <2>4, SendStep
  <2> QED
    BY <1>8, <2>2, <2>3, <2>4 DEF CopyMessage, ToSent
<1>9. ASSUME NEW r \in Rpcs, Respond(r) PROVE Proxy'
  BY <1>9, LeavesStep DEF Respond, At, FwdFrame, Resolved
<1> QED
  BY <1>1, <1>2, <1>3, <1>4, <1>5, <1>6, <1>7, <1>8, <1>9, LocalStep, TryPortStep, TestStep, NoPortStep, TakeStep
  DEF Next, Interceptor, Route, Forward, GetConnection

LEMMA ProxyInit == Setting /\ Init => Proxy
<1> SUFFICES ASSUME Setting, Init PROVE Proxy
  OBVIOUS
<1>1. Typed
  BY TypedInit
<1>2. PICK c \in Calls : rpc = [r \in Rpcs |-> [call |-> c[r], pc |-> "idle", addr |-> "none", ports |-> <<>>,
                                sent |-> 0, left |-> MaxMsgs, by |-> "none"]]
  BY DEF Init
<1>3. \A r \in Rpcs : rpc[r].pc = "idle" /\ rpc[r].sent = 0 /\ rpc[r].left = MaxMsgs /\ rpc[r].by = "none"
  BY <1>2
<1>4. Locked /\ Homed
  BY <1>3 DEF Init, Locked, Homed, Resolved
<1>5. Carried
  BY <1>3 DEF Init, Carried, Resolved
<1> QED
  BY <1>1, <1>4, <1>5 DEF Proxy

-----------------------------------------------------------------------------
\* What the cache and the lock of getConnection promise: at most one connection is
\* open that is not in the cache, and it is the one that the holder of the lock tests
\* for a DPU that has none.
THEOREM NoConnectionIsLost == ASSUME Setting PROVE Spec => []NoConnectionLost
<1>1. Proxy => NoConnectionLost
  <2> SUFFICES ASSUME Proxy PROVE NoConnectionLost
    OBVIOUS
  <2>1. CASE opened = {}
    BY <2>1, FS_EmptySet DEF NoConnectionLost
  <2>2. CASE opened # {}
    <3>1. PICK c \in opened : TRUE
      BY <2>2
    <3>2. PICK r \in Rpcs : rpc[r].pc = "test" /\ c = <<rpc[r].addr, Head(rpc[r].ports)>>
      BY DEF Proxy, Locked
    <3>3. lock = r /\ conns[rpc[r].call.dpu] = <<>>
      BY <3>2 DEF Proxy, Locked
    <3>4. \A d \in opened : d = c
      BY <3>2, <3>3 DEF Proxy, Locked
    <3>5. opened = {c}
      BY <3>4
    <3>6. Cardinality(opened) = 1
      BY <3>5, FS_Singleton
    <3> QED
      BY <3>2, <3>3, <3>6 DEF NoConnectionLost, At, Dpu, Setting
  <2> QED
    BY <2>1, <2>2
<1> QED
  BY <1>1, ProxyInit, ProxyStep, PTL DEF Spec

\* An RPC that names a DPU is answered by that DPU, as long as no DPU has changed its
\* address.
THEOREM RoutesToDpu == ASSUME Setting PROVE Spec => []RoutedToDpu
<1>1. Proxy => RoutedToDpu
  BY DEF Proxy, Homed, RoutedToDpu, Dpu
<1> QED
  BY <1>1, ProxyInit, ProxyStep, PTL DEF Spec

\* A stream that is answered with success was forwarded whole, whatever its length.
THEOREM ForwardsWhole == ASSUME Setting PROVE Spec => []ForwardedWhole
<1>1. Proxy => ForwardedWhole
  BY DEF Proxy, Carried, ForwardedWhole, At, Taken, Method
<1> QED
  BY <1>1, ProxyInit, ProxyStep, PTL DEF Spec

=============================================================================
