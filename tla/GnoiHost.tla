------------------------------ MODULE GnoiHost ------------------------------
(***************************************************************************)
(* The gNOI RPCs that have the host work for them: OS Install, Activate    *)
(* and Verify, System SetPackage and KillProcess, factory reset, Containerz*)
(* Deploy and Healthz, and the translib actions.  A call to a host service *)
(* over D-Bus (or a command run on the host) is a job: the RPC waits for   *)
(* its answer up to a timeout, and a job that timed out is still done by   *)
(* the host, or not, at any later time.                                    *)
(***************************************************************************)
EXTENDS Naturals, Sequences, FiniteSets

CONSTANTS Rpcs,
          Mixes,       \* the RPCs that run together: a set of functions to names
          MaxChunks,   \* bound: messages of an OS image, chunks of an artifact
          MaxFaults    \* bound: host errors, lost clients, failing writes, restarts

VARIABLES rpc,     \* what each RPC is and how far it is
          lock,    \* sem: the Install in progress, or "free"
          image,   \* the file of the OS version being installed
          bytes,   \* totalBytesReceived of its path, in messages
          jobs,    \* host jobs not done yet
          done,    \* history: host jobs done
          tar,     \* Deploy's local file of each RPC
          dump,    \* debug artifact of each Healthz.Get: chunks so far, complete?
          faults

vars == <<rpc, lock, image, bytes, jobs, done, tar, dump, faults>>
hostVars == <<jobs, done, tar, dump>>
osVars   == <<lock, image, bytes>>

Ended == {"ok", "failed", "closed", "dead"}
Active == {r \in Rpcs : rpc[r].pc \notin Ended \cup {"idle"}}
At(r, op, pc) == rpc[r].op = op /\ rpc[r].pc = pc
Go(r, pc) == rpc' = [rpc EXCEPT ![r].pc = pc]
Fault == faults < MaxFaults /\ faults' = faults + 1
NoFault == UNCHANGED faults
Streamed(r) == [i \in 1 .. rpc[r].off |-> [by |-> r, i |-> i]]

\* The host calls of the RPCs that make them one after the other and stop at
\* the first that fails.
Deploy           == <<"download", "load", "removeFile">>
Activate         == <<"activate">>
Verify           == <<"list">>
HandleVerify     == <<"listCommand">>
HandleSetPackage == <<"binaryVersion", "installPackage", "setDefault">>
KillProcess      == <<"service">>
FactoryReset     == <<"reset">>
Acknowledge      == <<"ack">>
TranslProcessAction == <<"action">>
\* Mutant: the artifact is not waited for.
MutHealthzGet == <<"collect">>

HealthzGet       == <<"collect", "check">>

\* SetPackage resolves the version unless the request names it, and sets the
\* default image if the request says so.
Scripts(op) ==
    CASE op = "deploy"   -> {Deploy}
      [] op = "activate" -> {Activate}
      [] op = "verify"   -> {Verify, HandleVerify}
      [] op = "package"  -> {HandleSetPackage, Tail(HandleSetPackage),
                             SubSeq(HandleSetPackage, 2, 2), SubSeq(HandleSetPackage, 1, 2)}
      [] op = "kill"     -> {KillProcess}
      [] op = "reset"    -> {FactoryReset}
      [] op = "get"      -> {HealthzGet}
      [] op = "ack"      -> {Acknowledge}
      [] op = "action"   -> {TranslProcessAction}
      [] OTHER           -> {<<>>}

Init ==
    /\ \E mix \in Mixes :
         rpc = [r \in Rpcs |-> [op |-> mix[r], pc |-> "idle", todo |-> <<>>, reply |-> "none",
                                off |-> 0, init |-> FALSE, sent |-> 0]]
    /\ lock = "free"
    /\ image \in {<<>>, <<[by |-> "old", i |-> 1]>>}
    /\ bytes = 0
    /\ jobs = {} /\ done = {}
    /\ tar = [r \in Rpcs |-> "none"]
    /\ dump = [r \in Rpcs |-> [len |-> 0, ready |-> FALSE]]
    /\ faults = 0

-----------------------------------------------------------------------------
(* DbusApi, and exec.RunHostCommand.                                       *)

Call(r, todo) ==
    /\ rpc' = [rpc EXCEPT ![r].pc = "call", ![r].todo = todo, ![r].reply = "none"]
    /\ jobs' = jobs \cup {[by |-> r, cmd |-> Head(todo)]}
    /\ UNCHANGED <<done, tar, dump>>

Waits(j) == /\ rpc[j.by].pc = "call" /\ rpc[j.by].reply = "none"
            /\ Head(rpc[j.by].todo) = j.cmd
Answer(j, reply) ==
    /\ jobs' = jobs \ {j}
    /\ done' = IF reply = "ok" THEN done \cup {j} ELSE done
    /\ rpc' = IF Waits(j) THEN [rpc EXCEPT ![j.by].reply = reply] ELSE rpc
    /\ UNCHANGED osVars

\* Mutants: a call that times out is taken for done; a call has no timeout.
MutDbusTimeout(r) ==
    /\ rpc[r].pc = "call" /\ rpc[r].reply = "none"
    /\ rpc' = [rpc EXCEPT ![r].reply = "ok"]
    /\ UNCHANGED <<osVars, hostVars, faults>>
MutNoTimeout(r) ==
    /\ rpc[r].op = "install" /\ rpc[r].pc = "call" /\ rpc[r].reply = "none"
    /\ rpc' = [rpc EXCEPT ![r].reply = "err"]
    /\ UNCHANGED <<osVars, hostVars, faults>>

\* An action of translib has no timeout.
DbusTimeout(r) ==
    /\ rpc[r].pc = "call" /\ rpc[r].reply = "none" /\ rpc[r].op # "action"
    /\ rpc' = [rpc EXCEPT ![r].reply = "err"]
    /\ UNCHANGED <<osVars, hostVars, faults>>

\* The host does a job, or reports that it cannot.
DownloadFile(j) ==
    /\ j.cmd = "download"
    /\ IF tar[j.by] = "none"
       THEN /\ tar' = [tar EXCEPT ![j.by] = "part"]
            /\ UNCHANGED <<rpc, jobs, done, osVars>>
       ELSE tar' = [tar EXCEPT ![j.by] = "whole"] /\ Answer(j, "ok")
    /\ UNCHANGED dump
LoadDockerImage(j) ==
    /\ j.cmd = "load" /\ tar[j.by] = "whole"
    /\ Answer(j, "ok") /\ UNCHANGED <<tar, dump>>
RemoveFile(j) ==
    /\ j.cmd = "removeFile"
    /\ tar' = [tar EXCEPT ![j.by] = "none"]
    /\ Answer(j, "ok") /\ UNCHANGED dump
\* TransferEnd installs the image file; TransferRequest only asks.
InstallOS(j) ==
    /\ \/ j.cmd = "transferReq"
       \/ j.cmd = "transferEnd" /\ image # <<>>
    /\ Answer(j, "ok") /\ UNCHANGED <<tar, dump>>
HealthzCollect(j) ==
    /\ j.cmd = "collect"
    /\ dump' = [dump EXCEPT ![j.by].len = 1]
    /\ Answer(j, "ok") /\ UNCHANGED tar
\* Not ready is an error, or an answer that says so.
HealthzCheck(j) ==
    /\ j.cmd = "check"
    /\ \E reply \in IF dump[j.by].ready THEN {"ok"} ELSE {"err", "unready"} : Answer(j, reply)
    /\ UNCHANGED <<tar, dump>>
\* The artifact of another RPC, acknowledged, is removed.
HealthzAck(j) ==
    /\ j.cmd = "ack"
    /\ \E r \in Rpcs : dump' = [dump EXCEPT ![r] = [len |-> 0, ready |-> FALSE]]
    /\ Answer(j, "ok") /\ UNCHANGED tar
Plain == {"activate", "list", "listCommand", "binaryVersion", "installPackage",
          "setDefault", "service", "reset", "action"}
PlainJob(j) ==
    /\ j.cmd \in Plain
    /\ Answer(j, "ok") /\ UNCHANGED <<tar, dump>>

HostJob(j) ==
    /\ \/ DownloadFile(j) \/ LoadDockerImage(j) \/ RemoveFile(j) \/ InstallOS(j)
       \/ HealthzCollect(j) \/ HealthzCheck(j) \/ HealthzAck(j) \/ PlainJob(j)
    /\ NoFault
HostError(j) ==
    /\ Fault
    /\ Answer(j, "err") /\ UNCHANGED <<tar, dump>>

\* The collection of an artifact goes on in the background.
HostDumps(r) ==
    /\ dump[r].len > 0 /\ ~dump[r].ready
    /\ \/ /\ dump[r].len < MaxChunks
          /\ dump' = [dump EXCEPT ![r].len = @ + 1]
       \/ /\ dump[r].len = MaxChunks
          /\ dump' = [dump EXCEPT ![r].ready = TRUE]
    /\ UNCHANGED <<rpc, osVars, jobs, done, tar, faults>>

-----------------------------------------------------------------------------
(* The RPCs that are a sequence of calls.                                  *)

\* Authentication or the request's validation fails.
Refused(r) ==
    /\ rpc[r].op # "install" /\ rpc[r].pc = "idle"
    /\ Go(r, "failed")
    /\ UNCHANGED <<osVars, hostVars, faults>>

Begin(r) ==
    /\ rpc[r].pc = "idle"
    /\ \E s \in Scripts(rpc[r].op) : s # <<>> /\ Call(r, s)
    /\ UNCHANGED osVars /\ NoFault

\* Mutant: the next call is made although the last one failed.
MutProceed(r) ==
    /\ rpc[r].op # "install" /\ rpc[r].pc = "call" /\ rpc[r].reply # "none"
    /\ IF Len(rpc[r].todo) > 1 THEN Call(r, Tail(rpc[r].todo))
       ELSE Go(r, IF rpc[r].op = "get" THEN "hash" ELSE "ok") /\ UNCHANGED hostVars
    /\ UNCHANGED osVars /\ NoFault

Proceed(r) ==
    /\ rpc[r].op # "install" /\ rpc[r].pc = "call" /\ rpc[r].reply \in {"ok", "unready"}
    /\ IF Len(rpc[r].todo) > 1 THEN Call(r, Tail(rpc[r].todo))
       ELSE Go(r, IF rpc[r].op = "get" THEN "hash" ELSE "ok") /\ UNCHANGED hostVars
    /\ UNCHANGED osVars /\ NoFault

GiveUp(r) ==
    /\ rpc[r].op # "install" /\ rpc[r].pc = "call" /\ rpc[r].reply = "err"
    /\ Head(rpc[r].todo) # "check"
    /\ Go(r, "failed")
    /\ UNCHANGED <<osVars, hostVars, faults>>

\* waitForArtifact asks again after a failing check, until its own timeout.
NotReady(r) == rpc[r].pc = "call" /\ rpc[r].reply = "err" /\ Head(rpc[r].todo) = "check"
ArtifactTimeout(r) ==
    /\ NotReady(r)
    /\ Go(r, "failed")
    /\ UNCHANGED <<osVars, hostVars, faults>>
waitForArtifact(r) ==
    \/ ArtifactTimeout(r)
    \/ NotReady(r) /\ Call(r, rpc[r].todo) /\ UNCHANGED <<osVars, faults>>

\* getDebugData opens and hashes the file that is now there, and reports it
\* as healthy if the check said ready.
getDebugData(r) ==
    /\ At(r, "get", "hash")
    /\ rpc' = [rpc EXCEPT ![r].pc = IF dump[r].len = 0 THEN "failed" ELSE "ok",
                          ![r].sent = dump[r].len, ![r].init = rpc[r].reply = "ok"]
    /\ UNCHANGED <<osVars, hostVars, faults>>

\* Healthz.Artifact of the artifact of g: one pass for size and hash (the
\* header), a second one for the contents.
ArtifactHeader(r) ==
    /\ At(r, "artifact", "idle")
    /\ \E g \in Rpcs :
         IF dump[g].len = 0 THEN Go(r, "failed")
         ELSE rpc' = [rpc EXCEPT ![r].pc = "stream", ![r].todo = <<g>>,
                                 ![r].sent = dump[g].len, ![r].init = dump[g].ready]
    /\ UNCHANGED <<osVars, hostVars, faults>>
\* The open file can be read although it was removed, as it was then.
ArtifactChunk(r) ==
    /\ At(r, "artifact", "stream")
    /\ LET g   == rpc[r].todo[1]
           len == IF dump[g].len = 0 THEN rpc[r].sent ELSE dump[g].len
       IN  IF rpc[r].off < len THEN rpc' = [rpc EXCEPT ![r].off = @ + 1] ELSE Go(r, "ok")
    /\ UNCHANGED <<osVars, hostVars, faults>>
ArtifactFails(r) ==
    /\ At(r, "artifact", "stream")
    /\ Fault /\ Go(r, "failed")
    /\ UNCHANGED <<osVars, hostVars>>
Artifact(r) == ArtifactHeader(r) \/ ArtifactChunk(r) \/ ArtifactFails(r)

-----------------------------------------------------------------------------
(* OS Install.                                                             *)

\* The deferred functions: an image whose transfer began is removed, however
\* the RPC ends, and the lock is released.  A failing removal leaves it.
removeIncompleteTransfer(r, pc) ==
    \/ image' = <<>> /\ Go(r, pc) /\ NoFault
    \/ /\ Fault /\ UNCHANGED image
       /\ rpc' = [rpc EXCEPT ![r].pc = pc, ![r].reply = "unremoved"]
\* Mutants: every Install that returns removes the file; only TransferEnd does.
MutReturnRemoves(r, pc, explicit) ==
    /\ removeIncompleteTransfer(r, pc)
    /\ lock' = "free"
    /\ UNCHANGED <<bytes, hostVars>>
MutReturnKeeps(r, pc, explicit) ==
    /\ IF explicit THEN removeIncompleteTransfer(r, pc)
       ELSE Go(r, pc) /\ UNCHANGED <<image, faults>>
    /\ lock' = "free"
    /\ UNCHANGED <<bytes, hostVars>>

Return(r, pc, explicit) ==
    /\ IF explicit \/ rpc[r].init THEN removeIncompleteTransfer(r, pc)
       ELSE Go(r, pc) /\ UNCHANGED <<image, faults>>
    /\ lock' = "free"
    /\ UNCHANGED <<bytes, hostVars>>

TryLock(r) ==
    /\ At(r, "install", "idle")
    /\ IF lock = "free" THEN lock' = r /\ Go(r, "request")
       ELSE Go(r, "failed") /\ UNCHANGED lock
    /\ UNCHANGED <<image, bytes, hostVars, faults>>

processTransferReq(r) ==
    /\ At(r, "install", "request")
    /\ Call(r, <<"transferReq">>)
    /\ UNCHANGED <<osVars, faults>>
\* The stream ends, or the first message is not a TransferRequest with a version.
RequestRefused(r) ==
    /\ At(r, "install", "request")
    /\ \E pc \in {"closed", "failed"} : Return(r, pc, FALSE)
TransferReady(r) ==
    /\ At(r, "install", "call") /\ rpc[r].todo = <<"transferReq">>
    /\ CASE rpc[r].reply = "ok"  -> Go(r, "content") /\ UNCHANGED <<osVars, hostVars, faults>>
         [] rpc[r].reply = "err" -> Return(r, "failed", FALSE)
         [] OTHER -> FALSE

\* The message is appended to the file; the progress sent counts all messages
\* ever written to the path.
processTransferContent(r) ==
    /\ image' = Append(image, [by |-> r, i |-> rpc[r].off + 1])
    /\ bytes' = bytes + 1
    /\ rpc' = [rpc EXCEPT ![r].init = TRUE, ![r].off = @ + 1, ![r].sent = bytes + 1]
    /\ UNCHANGED <<lock, hostVars>>
\* Mutant: a file that exists is appended to.
MutTransferContent(r) ==
    /\ At(r, "install", "content") /\ rpc[r].off < MaxChunks
    /\ processTransferContent(r) /\ NoFault

TransferContent(r) ==
    /\ At(r, "install", "content") /\ rpc[r].off < MaxChunks
    /\ IF ~rpc[r].init /\ image # <<>> THEN Return(r, "failed", FALSE)
       ELSE \/ processTransferContent(r) /\ NoFault
            \/ /\ Fault                 \* a failing write, or a failing Send
               /\ image' = <<>> /\ lock' = "free" /\ Go(r, "failed")
               /\ bytes' \in {bytes, bytes + 1} /\ UNCHANGED hostVars
\* The stream ends or fails, or a second TransferRequest.
ContentRefused(r) ==
    /\ At(r, "install", "content")
    /\ Return(r, "failed", FALSE)
processTransferEnd(r) ==
    /\ At(r, "install", "content")
    /\ Call(r, <<"transferEnd">>)
    /\ UNCHANGED <<osVars, faults>>
Installed(r) ==
    /\ At(r, "install", "call") /\ rpc[r].todo = <<"transferEnd">>
    /\ CASE rpc[r].reply = "ok"  -> Return(r, "ok", FALSE)
         [] rpc[r].reply = "err" -> Return(r, "failed", TRUE)
         [] OTHER -> FALSE
\* The answer cannot be sent.
ResultLost(r) ==
    /\ At(r, "install", "call") /\ rpc[r].todo = <<"transferEnd">> /\ rpc[r].reply = "ok"
    /\ Fault /\ image' = <<>> /\ lock' = "free" /\ Go(r, "failed")
    /\ UNCHANGED <<bytes, hostVars>>

Install(r) ==
    \/ TryLock(r) \/ processTransferReq(r) \/ RequestRefused(r) \/ TransferReady(r)
    \/ TransferContent(r) \/ ContentRefused(r) \/ processTransferEnd(r)
    \/ Installed(r) \/ ResultLost(r)

-----------------------------------------------------------------------------
\* The process is killed and started again: files and host jobs stay.
Crash ==
    /\ Active # {} /\ Fault
    /\ rpc' = [r \in Rpcs |-> IF r \in Active THEN [rpc[r] EXCEPT !.pc = "dead"] ELSE rpc[r]]
    /\ lock' = "free" /\ bytes' = 0
    /\ UNCHANGED <<image, hostVars>>

Server(r) ==
    \/ Proceed(r) \/ GiveUp(r) \/ waitForArtifact(r) \/ getDebugData(r)
    \/ Artifact(r) \/ TransferReady(r) \/ Installed(r) \/ DbusTimeout(r)
Next ==
    \/ \E r \in Rpcs : Refused(r) \/ Begin(r) \/ Server(r) \/ Install(r) \/ HostDumps(r)
    \/ \E j \in jobs : HostJob(j) \/ HostError(j)
    \/ Crash

\* The server goes on by itself: D-Bus calls and commands end with an answer
\* or a timeout, and the timer of waitForArtifact runs out.  Neither the
\* clients' messages nor the host's answers are taken for granted, and no
\* failure is owed.
Fairness == \A r \in Rpcs : WF_vars(Server(r) /\ NoFault) /\ SF_vars(ArtifactTimeout(r))
Spec == Init /\ [][Next]_vars /\ Fairness

-----------------------------------------------------------------------------
\* The state keeps its types and bounds.
TypeOK ==
    /\ lock \in Rpcs \cup {"free"}
    /\ \A r \in Rpcs : rpc[r].off \in 0 .. MaxChunks /\ rpc[r].reply \in {"none", "ok", "err", "unready", "unremoved"}
    /\ \A j \in jobs \cup done : j.by \in Rpcs
    /\ \A r \in Rpcs : dump[r].len \in 0 .. MaxChunks
    /\ faults \in 0 .. MaxFaults

\* The image the host installs at a TransferEnd that is still waited for is
\* exactly what that Install's client streamed: no message of another Install
\* and nothing a killed process left behind, unless the client sent nothing.
InstalledWhole ==
    [][\A j \in jobs : (j.cmd = "transferEnd" /\ j \in done' /\ Waits(j) /\ rpc[j.by].init)
         => image = Streamed(j.by)]_vars

\* An image file is only removed or written by the Install that began to
\* write it, except at a TransferEnd: one that fails removes the file whoever
\* wrote it.
ForeignImageKept ==
    [][image' # image =>
         \E r \in Rpcs : lock = r /\
            (rpc[r].init \/ rpc'[r].init \/ image = <<>> \/ rpc[r].todo = <<"transferEnd">>)]_vars

\* Between Installs there is no file of an Install that returned, however it
\* ended, unless its removal failed.
NoImageLeft ==
    lock = "free" =>
        \A i \in 1 .. Len(image), r \in Rpcs :
            image[i].by = r => rpc[r].pc = "dead" \/ rpc[r].reply = "unremoved"

\* An RPC that answers OK had every one of its host calls done by the host.
OkMeansDone ==
    \A r \in Rpcs : rpc[r].pc = "ok" /\ rpc[r].op # "artifact" =>
        /\ rpc[r].op = "install" => [by |-> r, cmd |-> "transferEnd"] \in done
        /\ rpc[r].op = "deploy" => /\ tar[r] = "none"
                                   /\ \A i \in 1 .. 3 : [by |-> r, cmd |-> Deploy[i]] \in done
        /\ rpc[r].op = "package" => [by |-> r, cmd |-> "installPackage"] \in done

\* A container image is loaded, and the default OS image set, only after the
\* step before it was done: never from a download or an installation that
\* timed out, even when the host finishes that one later.
InOrder ==
    \A r \in Rpcs :
        /\ [by |-> r, cmd |-> "load"] \in jobs \cup done => [by |-> r, cmd |-> "download"] \in done
        /\ [by |-> r, cmd |-> "setDefault"] \in jobs \cup done
              => [by |-> r, cmd |-> "installPackage"] \in done

\* Healthz.Get reports as healthy only the size of a whole artifact, and
\* Artifact streams as many chunks as its header says for an artifact that
\* was complete.
ArtifactWhole ==
    \A r \in Rpcs : rpc[r].pc = "ok" =>
        /\ rpc[r].op = "get" /\ rpc[r].init => rpc[r].sent = MaxChunks
        /\ rpc[r].op = "artifact" /\ rpc[r].init => rpc[r].off = rpc[r].sent

\* The answers of the RPCs are in step with the host: its jobs are done in their order,
\* OK means that all of them are done, and an artifact is reported only when whole.
HostInStep == OkMeansDone /\ InOrder /\ ArtifactWhole

\* Whatever the host does, also if it never answers, an RPC that is not
\* waiting for its client's next message, or for translib, comes to an end or
\* to such a wait.
HostRpcReturns ==
    <>[](\A r \in Rpcs : \/ rpc[r].pc \in Ended \cup {"idle", "request", "content"}
                         \/ rpc[r].op = "action")

=============================================================================
