-------------------------- MODULE TelemetryServer --------------------------
(***************************************************************************)
(* The telemetry process: startGNMIServer loads the key pair, serves until *)
(* a control value arrives, and starts again; a certificate monitor per    *)
(* iteration and the signal handler are the senders of those values, over  *)
(* a channel that holds one.  The servers it made keep their listener until *)
(* Serve, which runs in a goroutine of its own, knows of it.               *)
(***************************************************************************)
EXTENDS Naturals, Sequences

CONSTANTS MaxCertChanges, \* bound: changes of the certificate files
          MaxProcFaults   \* bound: failing watchers, chains and listeners

VARIABLES cert, key, ca,  \* the files: version of the pair, 0 being unusable; CA readable
          ctl,            \* serverControlSignal, of capacity 1
          stopH,          \* stopSignalHandler holds a value
          sig, handler,   \* a signal was sent; signalHandler
          pc, loaded,     \* startGNMIServer; the version it loaded
          uds,            \* a unix socket is configured
          mons,           \* the monitors: pc, events, certLoaded
          srvs,           \* the servers
          missed,         \* history: a change no monitor could see
          certChanges, procFaults

vars == <<cert, key, ca, ctl, stopH, sig, handler, pc, loaded, uds, mons, srvs, missed,
          certChanges, procFaults>>
files == <<cert, key, ca, missed, certChanges>>

PairValid == cert = key /\ cert # 0
Fault == procFaults < MaxProcFaults /\ procFaults' = procFaults + 1
Srv == srvs[Len(srvs)]

Init ==
    /\ cert \in {0, 1} /\ key = cert /\ ca = TRUE
    /\ ctl = <<>> /\ stopH = FALSE
    /\ sig = FALSE /\ handler = "wait"
    /\ pc = "top" /\ loaded = 0 /\ uds \in BOOLEAN
    /\ mons = <<>> /\ srvs = <<>>
    /\ missed = FALSE
    /\ certChanges = 0 /\ procFaults = 0

-----------------------------------------------------------------------------
(* The environment: the files and their watchers, signals, RPCs *)

Watching(m) == mons[m].pc \notin {"add", "ended"}

\* A file is written (or cut short by a writer that will finish later) or
\* removed; inotify tells every watcher that is in place.
FileChanges ==
    /\ certChanges < MaxCertChanges /\ certChanges' = certChanges + 1
    /\ \E op \in {"write", "remove"} :
         /\ \/ \E v \in 0..2 \ {cert} : (op = "remove" => v = 0) /\ cert' = v /\ UNCHANGED <<key, ca>>
            \/ \E v \in 0..2 \ {key} : (op = "remove" => v = 0) /\ key' = v /\ UNCHANGED <<cert, ca>>
            \/ ca' = ~ca /\ (op = "remove" <=> ca) /\ UNCHANGED <<cert, key>>
         /\ mons' = [m \in DOMAIN mons |->
                       IF Watching(m) THEN [mons[m] EXCEPT !.events = Append(@, op)] ELSE mons[m]]
    /\ missed' = (missed \/ (pc \notin {"top", "load"} /\ mons # <<>> /\ mons[Len(mons)].pc = "add"))
    /\ UNCHANGED <<ctl, stopH, sig, handler, pc, loaded, uds, srvs, procFaults>>

Signal ==
    /\ ~sig /\ sig' = TRUE
    /\ UNCHANGED <<files, ctl, stopH, handler, pc, loaded, uds, mons, srvs, procFaults>>

\* A client's RPC, open as long as the client likes.
RpcChange ==
    /\ \E s \in DOMAIN srvs :
         /\ srvs[s].run = "serving" /\ (srvs[s].busy \/ ~srvs[s].stopped)
         /\ srvs' = [srvs EXCEPT ![s].busy = ~@]
    /\ UNCHANGED <<files, ctl, stopH, sig, handler, pc, loaded, uds, mons, procFaults>>

\* Server.Serve: a server that was stopped before closes its listener.
Serve(s) ==
    /\ srvs[s].run = "pending"
    /\ srvs' = [srvs EXCEPT ![s].run = IF srvs[s].stopped THEN "done" ELSE "serving",
                            ![s].bound = ~srvs[s].stopped /\ @]
    /\ UNCHANGED <<files, ctl, stopH, sig, handler, pc, loaded, uds, mons, procFaults>>

-----------------------------------------------------------------------------
(* iNotifyCertMonitoring *)

Mon(m, at) == mons' = [mons EXCEPT ![m].pc = at]
MonEnds(m) == mons' = [mons EXCEPT ![m] = [pc |-> "ended", events |-> <<>>, certLoaded |-> TRUE]]
MonFrame == UNCHANGED <<files, stopH, sig, handler, pc, loaded, uds, srvs>>

AddWatch(m) ==
    /\ mons[m].pc = "add"
    /\ \/ Mon(m, "watch") /\ UNCHANGED procFaults
       \/ Fault /\ Mon(m, "stop")
    /\ UNCHANGED ctl /\ MonFrame

CertEvent(m) ==
    /\ mons[m].pc = "watch" /\ mons[m].events # <<>>
    /\ mons' = [mons EXCEPT ![m].events = Tail(@),
                            ![m].pc = CASE Head(mons[m].events) = "remove" -> "restart"
                                        [] PairValid -> "start"
                                        [] OTHER -> "watch"]
    /\ UNCHANGED <<ctl, procFaults>> /\ MonFrame

WatcherFails(m) ==
    /\ mons[m].pc = "watch" /\ Fault /\ Mon(m, "stop")
    /\ UNCHANGED ctl /\ MonFrame

\* The send waits for room; after a removal the monitor goes on unless the
\* certificates have been loaded.
SendControl(m) ==
    /\ mons[m].pc \in {"start", "restart", "stop"} /\ ctl = <<>>
    /\ ctl' = <<mons[m].pc>>
    /\ IF mons[m].pc = "restart" THEN Mon(m, "check") ELSE MonEnds(m)
    /\ UNCHANGED procFaults /\ MonFrame
\* Mutant: a removal always ends the monitor.
MutCheckLoaded(m) ==
    /\ mons[m].pc = "check"
    /\ MonEnds(m)
    /\ UNCHANGED <<ctl, procFaults>> /\ MonFrame

CheckLoaded(m) ==
    /\ mons[m].pc = "check"
    /\ IF mons[m].certLoaded THEN MonEnds(m) ELSE Mon(m, "watch")
    /\ UNCHANGED <<ctl, procFaults>> /\ MonFrame

INotifyCertMonitoring(m) ==
    AddWatch(m) \/ CertEvent(m) \/ WatcherFails(m) \/ SendControl(m) \/ CheckLoaded(m)

\* Mutant: the signal handler does not wait for room in the channel.
MutSignalHandler ==
    /\ \/ handler = "wait" /\ sig /\ handler' = "send" /\ UNCHANGED <<ctl, stopH>>
       \/ handler = "wait" /\ stopH /\ handler' = "ended" /\ stopH' = FALSE /\ UNCHANGED ctl
       \/ /\ handler = "send" /\ handler' = "ended" /\ UNCHANGED stopH
          /\ ctl' = IF ctl = <<>> THEN <<"stop">> ELSE ctl
    /\ UNCHANGED <<files, sig, pc, loaded, uds, mons, srvs, procFaults>>

\* signalHandler
SignalHandler ==
    /\ \/ handler = "wait" /\ sig /\ handler' = "send" /\ UNCHANGED <<ctl, stopH>>
       \/ handler = "wait" /\ stopH /\ handler' = "ended" /\ stopH' = FALSE /\ UNCHANGED ctl
       \/ handler = "send" /\ ctl = <<>> /\ ctl' = <<"stop">> /\ handler' = "ended" /\ UNCHANGED stopH
    /\ UNCHANGED <<files, sig, pc, loaded, uds, mons, srvs, procFaults>>

-----------------------------------------------------------------------------
(* startGNMIServer *)

MainFrame == UNCHANGED <<files, sig, handler, uds>>
NewMonitor == [pc |-> "add", events |-> <<>>, certLoaded |-> FALSE]

\* A new iteration: the previous chain is closed, a watcher made; without one
\* the certificates are loaded and not monitored.
Iterate ==
    /\ pc = "top" /\ pc' = "load"
    /\ \/ mons' = Append(mons, NewMonitor) /\ UNCHANGED procFaults
       \/ Fault /\ UNCHANGED mons
    /\ UNCHANGED <<ctl, stopH, loaded, srvs>> /\ MainFrame

LoadPair ==
    /\ pc = "load"
    /\ IF PairValid THEN pc' = "ca" /\ loaded' = cert ELSE pc' = "wait" /\ UNCHANGED loaded
    /\ UNCHANGED <<ctl, stopH, mons, srvs, procFaults>> /\ MainFrame

\* The CA; then certLoaded is set for the monitor of this iteration.
LoadCA ==
    /\ pc = "ca"
    /\ IF ca
       THEN /\ pc' = "new"
            /\ mons' = IF mons = <<>> THEN mons ELSE [mons EXCEPT ![Len(mons)].certLoaded = TRUE]
       ELSE pc' = "wait" /\ UNCHANGED mons
    /\ UNCHANGED <<ctl, stopH, loaded, srvs, procFaults>> /\ MainFrame

\* Without certificates: only a stop or a changed certificate matters.
AwaitCert ==
    /\ pc = "wait" /\ ctl # <<>> /\ ctl' = <<>>
    /\ pc' = CASE Head(ctl) = "stop" -> "ended" [] Head(ctl) = "start" -> "top" [] OTHER -> "wait"
    /\ UNCHANGED <<stopH, loaded, mons, srvs, procFaults>> /\ MainFrame

\* NewServerChain and NewServer: a port that a former server still holds
\* disables the TCP listener; at least one listener is required.
NewServer ==
    /\ pc = "new"
    /\ LET free == \A s \in DOMAIN srvs : ~srvs[s].bound
       IN  \/ /\ free \/ uds
              /\ srvs' = Append(srvs, [run |-> "pending", bound |-> free, stopped |-> FALSE,
                                       busy |-> FALSE, cert |-> loaded])
              /\ pc' = "select" /\ UNCHANGED procFaults
           \/ ~free /\ ~uds /\ pc' = "ended" /\ UNCHANGED <<srvs, procFaults>>
           \/ Fault /\ pc' = "ended" /\ UNCHANGED srvs
    /\ UNCHANGED <<ctl, stopH, loaded, mons>> /\ MainFrame

\* Mutant: the listener of a server that serves stays open.
MutStopped(s) == [s EXCEPT !.stopped = TRUE]

\* Stop and ForceStop close the listener of a server that serves.
Stopped(s) == [s EXCEPT !.stopped = TRUE, !.bound = @ /\ s.run = "pending"]

ForceStop ==
    /\ pc = "select" /\ ctl = <<"stop">> /\ ctl' = <<>>
    /\ srvs' = [srvs EXCEPT ![Len(srvs)] = [Stopped(@) EXCEPT !.busy = FALSE]]
    /\ stopH' = TRUE /\ pc' = "ended"
    /\ UNCHANGED <<loaded, mons, procFaults>> /\ MainFrame

Stop ==
    /\ pc = "select" /\ ctl \in {<<"start">>, <<"restart">>} /\ ctl' = <<>>
    /\ srvs' = [srvs EXCEPT ![Len(srvs)] = Stopped(@)]
    /\ pc' = "stopping"
    /\ UNCHANGED <<stopH, loaded, mons, procFaults>> /\ MainFrame
GracefulStop ==
    /\ pc = "stopping" /\ ~Srv.busy
    /\ pc' = "top"
    /\ UNCHANGED <<ctl, stopH, loaded, mons, srvs, procFaults>> /\ MainFrame

StartGNMIServer ==
    Iterate \/ LoadPair \/ LoadCA \/ AwaitCert \/ NewServer \/ ForceStop \/ Stop \/ GracefulStop

MaxIterations == MaxCertChanges + 2
Next ==
    \/ FileChanges \/ Signal \/ RpcChange
    \/ \E s \in DOMAIN srvs : Serve(s)
    \/ \E m \in DOMAIN mons : INotifyCertMonitoring(m)
    \/ SignalHandler \/ StartGNMIServer

\* Goroutines run; whether files change, clients end their RPCs or a signal
\* comes is not up to the process.
Fairness ==
    /\ WF_vars(StartGNMIServer /\ UNCHANGED procFaults) /\ WF_vars(SignalHandler /\ UNCHANGED procFaults)
    /\ WF_vars((\E s \in DOMAIN srvs : Serve(s)) /\ UNCHANGED procFaults)
    /\ WF_vars((\E m \in DOMAIN mons : INotifyCertMonitoring(m)) /\ UNCHANGED procFaults)
Spec == Init /\ [][Next]_vars /\ Fairness

-----------------------------------------------------------------------------
Exited == pc = "ended" /\ handler = "ended"

\* The state keeps its types and bounds.
TypeOK ==
    /\ Len(ctl) <= 1 /\ Len(mons) <= MaxIterations /\ Len(srvs) <= MaxIterations
    /\ pc \in {"top", "load", "ca", "wait", "new", "select", "stopping", "ended"}
    /\ handler \in {"wait", "send", "ended"}
    /\ \A m \in DOMAIN mons :
         mons[m].pc \in {"add", "watch", "start", "restart", "stop", "check", "ended"}

\* The server that runs last serves the pair that is on disk, once the files
\* settle on a valid one: no certificate that was put in place is forgotten,
\* unless it came between a load and its watcher, a client keeps the old server
\* from stopping, or the process was told or forced to stop.
CertServed ==
    <>[](\/ sig \/ procFaults > 0 \/ missed \/ pc = "stopping" \/ pc = "ended"
         \/ ~PairValid \/ ~ca
         \/ pc = "select" /\ Srv.run = "serving" /\ Srv.cert = cert)

\* A signal ends the process, unless a client's RPC holds up a graceful stop or
\* the server goroutine is gone and another control value fills the channel.
SignalEnds ==
    []<>(sig => \/ Exited
                \/ pc = "stopping" /\ Srv.busy
                \/ pc = "ended" /\ ctl # <<>>)

\* A server that serves without the TCP port follows one that was stopped
\* before its Serve began, and kept the port until then: a stop of a server
\* that serves, graceful or not, leaves the port to the next one.
PortHeld ==
    \A s \in DOMAIN srvs : srvs[s].run = "serving" /\ ~srvs[s].stopped /\ ~srvs[s].bound =>
        \E t \in 1 .. (s - 1) : srvs[t].run \in {"pending", "done"}

=============================================================================
