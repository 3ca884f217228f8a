------------------------------ MODULE MCProcess ------------------------------
(* Small instances of what the process keeps for all its RPCs: the tables of   *)
(* the Subscribe RPCs, the election and the checkpoint of the Set RPCs, the    *)
(* server and its certificates, and the DPU proxy.  They share no state: one   *)
(* of them is used in a behaviour.                                             *)
EXTENDS SubscribeServer, Sequences

CONSTANTS r1, r2, r3, MaxCertChanges, MaxProcFaults, MaxMsgs, MaxDpuChanges, MaxDpuFaults

VARIABLES part,
    cert, certKey, ca, ctl, stopH, sig, handler, main, loaded, uds, mons, srvs, missed, certChanges, procFaults,
    rpc, table, serving, dpuConns, opened, lock, got, moved, dpuFaults, dpuChanges,
    kind, dels, upds, eid, setPc, res, err, master, admitted, running, appl, checkpoint, patch, wrote, ver, saved,
    late, applied

teleVars == <<cert, certKey, ca, ctl, stopH, sig, handler, main, loaded, uds, mons, srvs, missed,
              certChanges, procFaults>>
dpuVars == <<rpc, table, serving, dpuConns, opened, lock, got, moved, dpuFaults, dpuChanges>>
setVars == <<kind, dels, upds, eid, setPc, res, err, master, admitted, running, appl, checkpoint, patch, wrote, ver,
             saved, late, applied>>
mcVars == <<part, vars, teleVars, dpuVars, setVars>>

ThreeRpcs == {r1, r2, r3}
Call(d, m) == [dpu |-> d, method |-> m]
\* What r1 and r2 ask of the proxy: calls that meet at a connection, or are not forwarded.
DpuCalls ==
    {[r \in {r1, r2} |-> IF r = r1 THEN p[1] ELSE p[2]] :
        p \in {<<Call("d0", "put"), Call("d0", "put")>>, <<Call("d0", "time"), Call("d1", "verify")>>,
               <<Call("d0", "setpackage"), Call("d1", "activate")>>, <<Call("none", "get"), Call("d0", "set")>>,
               <<Call("d0", "reboot"), Call("d0", "time")>>}}

Tele == INSTANCE TelemetryServer WITH key <- certKey, pc <- main
Dpu == INSTANCE DpuProxy
       WITH Rpcs <- {r1, r2}, Dpus <- {"d0", "d1"}, Calls <- DpuCalls, conns <- dpuConns
Sets == INSTANCE GnmiSet
        WITH Rpcs <- {r1, r2}, Keys <- {"a"}, Kinds <- {"patch", "transl"}, Arbitration <- TRUE, SaveOnSet <- FALSE,
             Word <- 2, Present <- {"a"}, Faults <- FALSE, pc <- setPc

MCInit ==
    /\ part \in {"tables", "telemetry", "dpu", "set"}
    /\ Init
    /\ part = "tables" \/ (~multiplex /\ redis = {})
    /\ Tele!Init
    /\ part = "telemetry" \/ (cert = 0 /\ ~uds)
    /\ Dpu!Init
    /\ part = "dpu" \/ (rpc[r1].call.dpu = "none" /\ \A d \in {"d0", "d1"} : serving[d] = {})
    /\ Sets!Init
    /\ part = "set" \/ (\A r \in {r1, r2} : eid[r] = {} /\ kind[r] = "transl" /\ dels[r] = {})

MCNext ==
    \/ part = "tables" /\ Next /\ UNCHANGED <<part, teleVars, dpuVars, setVars>>
    \/ part = "telemetry" /\ Tele!Next /\ UNCHANGED <<part, vars, dpuVars, setVars>>
    \/ part = "dpu" /\ Dpu!Next /\ UNCHANGED <<part, vars, teleVars, setVars>>
    \/ part = "set" /\ Sets!Next /\ UNCHANGED <<part, vars, teleVars, dpuVars>>

\* The fairness of each part, for the behaviours that use it.
TeleFairness ==
    /\ WF_teleVars(part = "telemetry" /\ Tele!StartGNMIServer /\ UNCHANGED procFaults)
    /\ WF_teleVars(part = "telemetry" /\ Tele!SignalHandler /\ UNCHANGED procFaults)
    /\ WF_teleVars(part = "telemetry" /\ (\E s \in DOMAIN srvs : Tele!Serve(s)) /\ UNCHANGED procFaults)
    /\ WF_teleVars(part = "telemetry" /\ (\E m \in DOMAIN mons : Tele!INotifyCertMonitoring(m)) /\ UNCHANGED procFaults)
DpuFairness ==
    \A r \in {r1, r2} : WF_dpuVars(part = "dpu" /\ Dpu!Route(r) /\ UNCHANGED dpuFaults)
SetFairness == \A r \in {r1, r2} : WF_setVars(part = "set" /\ Sets!Rpc(r))

MCSpec == MCInit /\ [][MCNext]_mcVars /\ TeleFairness /\ DpuFairness /\ SetFairness

-----------------------------------------------------------------------------
\* The variables of every part have their types.
TypesOK == TypeOK /\ Tele!TypeOK /\ Dpu!TypeOK

\* Nothing that is taken is kept: a connection to a DPU is cached or closed, a server that
\* stops leaves the port to the next one, no checkpoint outlives the Sets that made it.
NothingLeaks == Dpu!NoConnectionLost /\ Tele!PortHeld /\ Sets!NoCheckpointLeft

\* See TelemetryServer: the pair that is on disk comes to be served.
CertServed == Tele!CertServed

\* See DpuProxy: an RPC for a DPU reaches that DPU, and reaches it whole.
ReachesDpu == Dpu!ReachesDpu

\* See GnmiSet: requests are let through in the order of their election ids.
ElectionOrder == Sets!ElectionOrder

\* Nobody waits for ever: a signal ends the process, an RPC does not hang on the lock of
\* the proxy or on its ports, and every Set is answered.
AllEnd ==
    /\ Tele!SignalEnds
    /\ <>[](part = "dpu" => \A r \in {r1, r2} : Dpu!Done(r) \/ rpc[r].pc \in {"forward", "copy", "recv"})
    /\ <>[](part = "set" => \A r \in {r1, r2} : res[r] # "none")

=============================================================================
