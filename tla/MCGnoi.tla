-------------------------------- MODULE MCGnoi --------------------------------
(* Small instances of the gNOI services and the OPERATIONAL target, which      *)
(* share no state in the process: one of them is used in a behaviour.          *)
EXTENDS GnoiFile

CONSTANTS MaxChunks, MaxHostFaults, MaxRebootFaults, Cap, MaxOut, MaxDebugFaults, MaxFsChanges

VARIABLES part,
    hostRpc, lock, image, bytes, jobs, done, tar, dump, hostFaults,
    rebootRpc, requests, open, rebootFaults,
    pc, cmd, ctx, io, log, debugFaults,
    dir, req, get, always, ever, fsChanges, begun

hostVars == <<hostRpc, lock, image, bytes, jobs, done, tar, dump, hostFaults>>
rebootVars == <<rebootRpc, requests, open, rebootFaults>>
debugVars == <<pc, cmd, ctx, io, log, debugFaults>>
getVars == <<dir, req, get, always, ever, fsChanges, begun>>
mcVars == <<part, vars, hostVars, rebootVars, debugVars, getVars>>

\* The operations of r1 and r2, of which only those that meet are combined.
Mix(ps) == {[r \in Rpcs |-> IF r = "r1" THEN p[1] ELSE p[2]] : p \in ps}
HostMixes == Mix({<<"install", "install">>, <<"install", "deploy">>, <<"get", "artifact">>, <<"get", "ack">>,
                  <<"artifact", "ack">>, <<"package", "package">>, <<"activate", "verify">>, <<"kill", "reset">>,
                  <<"action", "get">>})
RebootMixes == Mix({<<"Reboot", "Reboot">>, <<"Reboot", "RebootStatus">>, <<"RebootStatus", "RebootStatus">>,
                    <<"CancelReboot", "RebootStatus">>})

\* The directory of the OPERATIONAL target and the requests for it.
FsOrder == <<"boot", "boot/phy.bin", "fw.bin", "sonic.img">>
FsFiles ==
    [f \in {"boot", "boot/phy.bin", "fw.bin", "sonic.img"} |->
        CASE f = "boot"         -> [parent |-> "", dir |-> TRUE, ext |-> "", words |-> {"boot"}]
          [] f = "boot/phy.bin" -> [parent |-> "boot", dir |-> FALSE, ext |-> "bin", words |-> {"boot", "phy"}]
          [] f = "fw.bin"       -> [parent |-> "", dir |-> FALSE, ext |-> "bin", words |-> {}]
          [] f = "sonic.img"    -> [parent |-> "", dir |-> FALSE, ext |-> "img", words |-> {"sonic"}]]
Elem(n) == [name |-> n, key |-> <<>>]
Keyed(n, k) == [name |-> n, key |-> <<k>>]
Fs(k) == Keyed("filesystem", k)
GetRequests ==
    {<<<<Fs("/m"), Elem("disk-space")>>>>,
     <<<<Fs("/d"), Elem("files"), Elem("count")>>, <<Fs("/d"), Elem("files")>>>>,
     <<<<Fs("/d"), Keyed("files", "bin"), Elem("list")>>, <<Fs("/d"), Keyed("files", "bin"), Elem("count")>>>>,
     <<<<Fs("/d"), Keyed("files", "["), Elem("types")>>>>,
     <<<<Fs("/d"), Elem("files"), Elem("fw.bin")>>>>,
     <<<<Fs("/d"), Elem("disk-space")>>, <<Fs("/d"), Keyed("files", "img"), Elem("types")>>>>,
     <<<<Fs("/m"), Elem("files")>>>>,
     <<<<Fs(""), Elem("files")>>>>,
     <<<<Elem("filesystem"), Elem("disk-space")>>>>,
     <<<<Keyed("firmware", "/d"), Elem("files")>>>>}

Host == INSTANCE GnoiHost WITH rpc <- hostRpc, faults <- hostFaults, Mixes <- HostMixes, MaxFaults <- MaxHostFaults
Reb == INSTANCE GnoiReboot
       WITH rpc <- rebootRpc, faults <- rebootFaults, Mixes <- RebootMixes, MaxFaults <- MaxRebootFaults
Debug == INSTANCE GnoiDebug WITH faults <- debugFaults, MaxFaults <- MaxDebugFaults
Oper == INSTANCE OperationalGet
        WITH Files <- FsFiles, Order <- FsOrder, Requests <- GetRequests, Dirs <- {"/d"}, FilesKeys <- {"/files"}

AllOps == <<"put", "transfer", "dpu", "pull", "get", "stat", "remove">>
Rank(op) == CHOOSE n \in DOMAIN AllOps : AllOps[n] = op

MCInit ==
    /\ part \in {"file", "host", "reboot", "debug", "operational"}
    /\ Init
    \* r1 and r2 are alike: one order of their operations is enough
    /\ Rank(rpc["r1"].op) <= Rank(rpc["r2"].op)
    /\ part = "file" \/ (entry["x"] = 0 /\ \A r \in Rpcs : rpc[r].op = "get")
    /\ Host!Init
    /\ part = "host" \/ (image = <<>> /\ hostRpc["r1"].op = "kill")
    /\ Reb!Init
    /\ part = "reboot" \/ rebootRpc["r1"].op = "CancelReboot"
    /\ Debug!Init
    /\ Oper!Init
    /\ part = "operational" \/ (dir = {} /\ req = <<<<Fs("/m"), Elem("disk-space")>>>>)

MCNext ==
    \/ part = "file" /\ Next /\ UNCHANGED <<part, hostVars, rebootVars, debugVars, getVars>>
    \/ part = "host" /\ Host!Next /\ UNCHANGED <<part, vars, rebootVars, debugVars, getVars>>
    \/ part = "reboot" /\ Reb!Next /\ UNCHANGED <<part, vars, hostVars, debugVars, getVars>>
    \/ part = "debug" /\ Debug!Next /\ UNCHANGED <<part, vars, hostVars, rebootVars, getVars>>
    \/ part = "operational" /\ Oper!Next /\ UNCHANGED <<part, vars, hostVars, rebootVars, debugVars>>

\* The fairness of each component, for the behaviours in which it is used.
HostFair ==
    \A r \in Rpcs : /\ WF_hostVars(part = "host" /\ Host!Server(r) /\ UNCHANGED hostFaults)
                    /\ SF_hostVars(part = "host" /\ Host!ArtifactTimeout(r))
RebootFair ==
    \A r \in Rpcs : WF_rebootVars(/\ part = "reboot" /\ rebootRpc[r].pc # "idle"
                                  /\ Reb!sendRebootReqOnNotifCh(r) /\ UNCHANGED rebootFaults)
DebugFair ==
    /\ WF_debugVars(part = "debug" /\ pc # "idle" /\ Debug!HandleCommandRequest /\ UNCHANGED debugFaults)
    /\ WF_debugVars(part = "debug" /\ ctx = "done" /\ Debug!CommandExits)
    /\ \A s \in {"out", "err"} : /\ WF_debugVars(part = "debug" /\ Debug!outputReaderToChannel(s))
                                 /\ WF_debugVars(part = "debug" /\ Debug!streamDataInChannel(s) /\ UNCHANGED debugFaults)

MCSpec == MCInit /\ [][MCNext]_mcVars /\ HostFair /\ RebootFair /\ DebugFair

\* The states of the five components keep their types.
TypesOK == TypeOK /\ Host!TypeOK /\ Reb!TypeOK /\ Debug!TypeOK /\ Oper!TypeOK
\* Files are written cleanly: the path has no part of a file of Put or Pull, and neither
\* they nor an Install that returned leave a file behind.
CleanWrites == Atomic /\ NoLitter /\ Host!NoImageLeft

\* What is written is what was streamed: by Put, Pull and TransferToRemote, as their answer
\* says, and by Install, whose file no other Install touches.
WrittenWhole == AnswerTrue /\ Host!InstalledWhole /\ Host!ForeignImageKept

\* See GnoiHost: answers are in step with what the host has done.
HostInStep == Host!HostInStep

\* See GnoiReboot: requests and answers on the shared channels match.
AnswersMatch == Reb!AnswersMatch

\* Responses are in their order: nothing follows the result of a Pull, and the status of a
\* debug command follows all its output.
ResponsesInOrder == ResultLast /\ Debug!ResponseOrder

\* See OperationalGet: what a Get tells of a directory is consistent.
ListingsAgree == Oper!ListingsAgree

\* RPCs return: although the host or the reboot backend never answers, and once a debug
\* command has ended.
GnoiReturns == Host!HostRpcReturns /\ Reb!RebootReturns /\ Debug!DebugReturns

=============================================================================
