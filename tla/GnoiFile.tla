------------------------------ MODULE GnoiFile ------------------------------
(***************************************************************************)
(* The RPCs of gNOI File and of ORAS that read and write one path of the   *)
(* host: Put, Get, Stat, Remove, TransferToRemote (to the NPU, or streamed *)
(* to the Put of a DPU) and Pull.  They run concurrently, without a lock,  *)
(* in a process that can be killed.  A file is a directory entry and an    *)
(* inode: a writer keeps its inode when the entry is renamed, replaced or  *)
(* removed.  Contents are sequences of chunks [by, i]: the i-th of an RPC. *)
(***************************************************************************)
EXTENDS Naturals, Sequences, FiniteSets

CONSTANTS Rpcs, Ops,
          MaxSize,     \* maxFileSize, in chunks
          MaxFaults    \* bound: failing system calls, connections and restarts

VARIABLES entry,    \* the inode of each directory entry, 0 for none
          data,     \* the contents of the inodes
          rpc,      \* op, pc, inode and offset of its file, what it sent, ...
          intruded, \* history: RPCs during which another one changed the path
          faults

vars == <<entry, data, rpc, intruded, faults>>

\* The entries: the path, Put's temporary file next to it, and one staging
\* directory for every Pull, named after the RPC.
Entries == {"x", "tmp"} \cup Rpcs
Inodes  == 1 .. (2 * Cardinality(Rpcs) + 1)
Sizes   == 1 .. (MaxSize + 1)
Old     == <<[by |-> "old", i |-> 1]>>
Hole    == [by |-> "hole", i |-> 0]

Whole(r)   == [i \in 1 .. rpc[r].size |-> [by |-> r, i |-> i]]
Content(e) == IF entry[e] = 0 THEN <<>> ELSE data[entry[e]]

Ended == {"ok", "failed", "dead"}
Idle(r) == rpc[r].pc = "idle"
Active  == {r \in Rpcs : rpc[r].pc \notin Ended \cup {"idle"}}
At(r, op, pc) == rpc[r].op = op /\ rpc[r].pc = pc
Go(r, pc) == rpc' = [rpc EXCEPT ![r].pc = pc]
Fault == faults < MaxFaults /\ faults' = faults + 1
NoFault == UNCHANGED faults

\* An inode nobody refers to.
Fresh == CHOOSE i \in Inodes :
            /\ \A e \in Entries : entry[e] # i
            /\ \A r \in Rpcs : rpc[r].fd # i

\* r changes the path, its temporary file or an inode of theirs.
Intrudes(r) == intruded' = intruded \cup (Active \ {r})
Quiet       == UNCHANGED intruded

Init ==
    /\ entry \in [Entries -> {0, 1}]
    /\ \A e \in Entries : e # "x" => entry[e] = 0
    /\ data = [i \in Inodes |-> IF i = 1 THEN Old ELSE <<>>]
    /\ rpc \in [Rpcs -> [op : Ops, pc : {"idle"}, size : Sizes, fd : {0}, off : {0},
                         sent : {<<>>}, saw : {<<>>}, msg : {"none"}]]
    /\ \A r \in Rpcs : rpc[r].op \in {"get", "stat", "remove"} => rpc[r].size = 1
    /\ intruded = {}
    /\ faults = 0

\* Writing a chunk at the offset of r's descriptor; a gap left by another
\* RPC's truncation is a hole.
Write(f, r, off) ==
    [i \in 1 .. (IF Len(f) > off THEN Len(f) ELSE off + 1) |->
       IF i = off + 1 THEN [by |-> r, i |-> i]
       ELSE IF i <= Len(f) THEN f[i] ELSE Hole]

\* OpenFile(e, O_CREATE|O_TRUNC): the entry's inode emptied, or a new one.
OpenTrunc(r, e, pc) ==
    LET i == IF entry[e] = 0 THEN Fresh ELSE entry[e] IN
    /\ entry' = [entry EXCEPT ![e] = i]
    /\ data' = [data EXCEPT ![i] = <<>>]
    /\ rpc' = [rpc EXCEPT ![r].pc = pc, ![r].fd = i, ![r].off = 0,
                          ![r].saw = Content("x")]

\* Mutant: chunks are written after the last one.
MutWriteChunk(r) ==
    /\ data' = [data EXCEPT ![rpc[r].fd] = Write(@, r, rpc[r].off)]
    /\ rpc' = [rpc EXCEPT ![r].off = @ + 1]

WriteChunk(r) ==
    /\ rpc[r].off < rpc[r].size
    /\ data' = [data EXCEPT ![rpc[r].fd] = Write(@, r, rpc[r].off)]
    /\ rpc' = [rpc EXCEPT ![r].off = @ + 1]

\* q is a TransferToRemote for a DPU that streams into the Put r.
Feeds(q, r) == At(q, "dpu", "streaming") /\ rpc[q].msg = r

-----------------------------------------------------------------------------
(* Put.                                                                    *)

\* The first message: not an Open or a path outside the allowed directories
\* is refused before anything is written.
PutRefused(r) ==
    /\ At(r, "put", "idle")
    /\ Go(r, "failed")
    /\ UNCHANGED <<entry, data, faults>> /\ Quiet

\* Mutant: the path itself is written, not a temporary file.
MutPutOpen(r) ==
    /\ At(r, "put", "idle")
    /\ OpenTrunc(r, "x", "recv")
    /\ NoFault /\ Intrudes(r)

PutOpen(r) ==
    /\ At(r, "put", "idle")
    /\ OpenTrunc(r, "tmp", "recv")
    /\ NoFault /\ Intrudes(r)

PutContents(r) ==
    /\ At(r, "put", "recv")
    /\ WriteChunk(r)
    /\ UNCHANGED entry /\ NoFault /\ Intrudes(r)

\* The hash is compared with that of the chunks received, not of the file.
PutHash(r) ==
    /\ At(r, "put", "recv") /\ rpc[r].off = rpc[r].size
    /\ \A q \in Rpcs : Feeds(q, r) => rpc[q].size <= MaxSize
    /\ Go(r, "chmod")
    /\ UNCHANGED <<entry, data>> /\ NoFault /\ Quiet

\* A wrong hash, an unexpected message, a stream that ends, a failing call.
PutFails(r) ==
    /\ rpc[r].op = "put" /\ rpc[r].pc \in {"recv", "chmod", "rename"}
    /\ Fault
    /\ Go(r, "cleanup")
    /\ UNCHANGED <<entry, data>> /\ Quiet

PutChmod(r) ==
    /\ At(r, "put", "chmod")
    /\ Go(r, IF entry["tmp"] = 0 THEN "cleanup" ELSE "rename")
    /\ UNCHANGED <<entry, data>> /\ NoFault /\ Quiet

PutRename(r) ==
    /\ At(r, "put", "rename")
    /\ IF entry["tmp"] = 0
       THEN Go(r, "cleanup") /\ UNCHANGED entry /\ NoFault /\ Quiet
       ELSE /\ entry' = [entry EXCEPT !["x"] = entry["tmp"], !["tmp"] = 0]
            /\ Intrudes(r)
            /\ \/ NoFault /\ rpc' = [rpc EXCEPT ![r].pc = "cleanup", ![r].msg = "done"]
               \/ Fault /\ Go(r, "cleanup")      \* SendAndClose fails
    /\ UNCHANGED data

\* Mutant: the temporary file of a Put that fails stays.
MutPutCleanup(r) ==
    /\ At(r, "put", "cleanup")
    /\ Go(r, IF rpc[r].msg = "done" THEN "ok" ELSE "failed")
    /\ UNCHANGED <<entry, data>> /\ NoFault /\ Quiet

\* The deferred function removes the temporary file if there is one.
PutCleanup(r) ==
    /\ At(r, "put", "cleanup")
    /\ entry' = [entry EXCEPT !["tmp"] = 0]
    /\ Go(r, IF rpc[r].msg = "done" THEN "ok" ELSE "failed")
    /\ UNCHANGED data /\ NoFault
    /\ IF entry["tmp"] # 0 THEN Intrudes(r) ELSE Quiet

HandlePut(r) ==
    \/ PutRefused(r) \/ PutOpen(r) \/ PutContents(r) \/ PutHash(r)
    \/ PutFails(r) \/ PutChmod(r) \/ PutRename(r) \/ PutCleanup(r)

-----------------------------------------------------------------------------
(* TransferToRemote.                                                       *)

\* Refused request, HTTP error, or a Content-Length over the limit.
TransferRefused(r) ==
    /\ At(r, "transfer", "idle")
    /\ Go(r, "failed")
    /\ UNCHANGED <<entry, data>> /\ NoFault /\ Quiet

\* DownloadHTTP: the path itself is created or truncated and written.
TransferCreate(r) ==
    /\ At(r, "transfer", "idle")
    /\ OpenTrunc(r, "x", "copy")
    /\ NoFault /\ Intrudes(r)

TransferCopy(r) ==
    /\ At(r, "transfer", "copy")
    /\ WriteChunk(r)
    /\ UNCHANGED entry /\ NoFault /\ Intrudes(r)

\* The body ends: too long a file is removed.
TransferCopied(r) ==
    /\ At(r, "transfer", "copy") /\ rpc[r].off = rpc[r].size
    /\ IF rpc[r].size > MaxSize
       THEN /\ entry' = [entry EXCEPT !["x"] = 0]
            /\ Go(r, "failed") /\ Intrudes(r)
       ELSE Go(r, "hash") /\ UNCHANGED entry /\ Quiet
    /\ UNCHANGED data /\ NoFault

\* Mutant: a copy that fails leaves what it wrote.
MutTransferFails(r) ==
    /\ rpc[r].op = "transfer" /\ rpc[r].pc \in {"copy", "hash"}
    /\ Fault
    /\ Go(r, "failed")
    /\ UNCHANGED <<entry, data>> /\ Quiet

\* A failing copy removes the path, and so does a failing hash.
TransferFails(r) ==
    /\ rpc[r].op = "transfer" /\ rpc[r].pc \in {"copy", "hash"}
    /\ Fault
    /\ entry' = [entry EXCEPT !["x"] = 0]
    /\ Go(r, "failed")
    /\ UNCHANGED data /\ Intrudes(r)

\* CalculateMD5 of what the path now is; if it is gone the RPC fails.
TransferHash(r) ==
    /\ At(r, "transfer", "hash")
    /\ rpc' = [rpc EXCEPT ![r].pc = IF entry["x"] = 0 THEN "failed" ELSE "ok",
                          ![r].sent = Content("x")]
    /\ UNCHANGED <<entry, data>> /\ NoFault /\ Quiet

TransferToRemote(r) ==
    \/ TransferRefused(r) \/ TransferCreate(r) \/ TransferCopy(r)
    \/ TransferCopied(r) \/ TransferFails(r) \/ TransferHash(r)

\* HandleTransferToRemoteForDPUStreaming: the chunks of the HTTP stream are
\* sent to the Put of another device, q, as they come; the hash is sent last.
\* A source that fails or exceeds the limit cancels the stream, which q sees
\* as a failing Recv.
DpuStart(r, q) ==
    /\ At(r, "dpu", "idle") /\ At(q, "put", "recv") /\ rpc[q].off = 0
    /\ rpc[r].size = rpc[q].size /\ ~ \E p \in Rpcs : Feeds(p, q)
    /\ rpc' = [rpc EXCEPT ![r].pc = "streaming", ![r].msg = q]
DpuDone(r, q) ==
    /\ Feeds(r, q) /\ rpc[q].pc \in Ended
    /\ rpc' = [rpc EXCEPT ![r].pc = IF rpc[q].pc = "ok" THEN "ok" ELSE "failed",
                          ![r].sent = IF rpc[q].pc = "ok" THEN Whole(r) ELSE <<>>]
DpuTooLong(r, q) ==
    /\ Feeds(r, q) /\ At(q, "put", "recv")
    /\ rpc[r].size > MaxSize /\ rpc[q].off = rpc[q].size
    /\ rpc' = [rpc EXCEPT ![r].pc = "failed", ![q].pc = "cleanup"]
TransferToRemoteForDPU(r) ==
    /\ \E q \in Rpcs : DpuStart(r, q) \/ DpuDone(r, q) \/ DpuTooLong(r, q)
    /\ UNCHANGED <<entry, data>> /\ NoFault /\ Quiet

-----------------------------------------------------------------------------
(* ORAS Pull.                                                              *)

\* An invalid request, or a manifest that cannot be had or has not one layer.
PullRefused(r) ==
    /\ At(r, "pull", "idle")
    /\ Go(r, "failed")
    /\ UNCHANGED <<entry, data>> /\ NoFault /\ Quiet

\* PullStarted is sent; the staging directory is next to the path and new.
PullStart(r) ==
    /\ At(r, "pull", "idle")
    /\ entry' = [entry EXCEPT ![r] = Fresh]
    /\ data' = [data EXCEPT ![Fresh] = <<>>]
    /\ rpc' = [rpc EXCEPT ![r].pc = "fetch", ![r].fd = Fresh, ![r].msg = "progress",
                          ![r].saw = Content("x")]
    /\ NoFault /\ Quiet

PullFetch(r) ==
    /\ At(r, "pull", "fetch")
    /\ WriteChunk(r)
    /\ UNCHANGED entry /\ NoFault /\ Quiet

\* Mutant: the progress goroutine goes on until the RPC has returned.
MutPullProgress(r) ==
    /\ rpc[r].op = "pull" /\ r \in Active
    /\ rpc' = [rpc EXCEPT ![r].sent = IF Len(@) < 2 THEN Append(@, "progress") ELSE @]
    /\ UNCHANGED <<entry, data>> /\ NoFault /\ Quiet

\* The progress goroutine sends while it runs; Pull closes its channel and
\* waits for it before it goes on, with or without an error.
PullProgress(r) ==
    /\ rpc[r].op = "pull" /\ rpc[r].msg = "progress" /\ rpc[r].pc \in {"fetch", "wait"}
    /\ rpc' = [rpc EXCEPT ![r].sent = IF Len(@) < 2 THEN Append(@, "progress") ELSE @]
    /\ UNCHANGED <<entry, data>> /\ NoFault /\ Quiet

PullFetched(r) ==
    /\ At(r, "pull", "fetch")
    /\ IF rpc[r].off = rpc[r].size THEN NoFault /\ Go(r, "wait")
       ELSE Fault /\ rpc' = [rpc EXCEPT ![r].pc = "wait", ![r].off = 0]
    /\ UNCHANGED <<entry, data>> /\ Quiet

ProgressExited(r) ==
    /\ At(r, "pull", "wait")
    /\ rpc' = [rpc EXCEPT ![r].pc = IF rpc[r].off = rpc[r].size THEN "rename" ELSE "cleanup",
                          ![r].msg = "exited"]
    /\ UNCHANGED <<entry, data>> /\ NoFault /\ Quiet

PullRename(r) ==
    /\ At(r, "pull", "rename")
    /\ \/ /\ entry' = [entry EXCEPT !["x"] = entry[r], ![r] = 0]
          /\ Go(r, "result") /\ NoFault /\ Intrudes(r) /\ UNCHANGED data
       \/ /\ Fault /\ Go(r, "cleanup") /\ Quiet /\ UNCHANGED <<entry, data>>
       \/ /\ Fault /\ Intrudes(r)       \* EXDEV: copyAndRemove
          /\ OpenTrunc(r, "x", "copy")

\* copyAndRemove writes the path itself and removes it when that fails.
PullCopy(r) ==
    /\ At(r, "pull", "copy")
    /\ Intrudes(r)
    /\ \/ WriteChunk(r) /\ UNCHANGED entry /\ NoFault
       \/ /\ rpc[r].off = rpc[r].size
          /\ Go(r, "result") /\ UNCHANGED <<entry, data>> /\ NoFault
       \/ /\ Fault
          /\ entry' = [entry EXCEPT !["x"] = 0]
          /\ Go(r, "cleanup") /\ UNCHANGED data
       \/ /\ Fault /\ rpc[r].off = rpc[r].size   \* Remove(src) fails
          /\ Go(r, "cleanup") /\ UNCHANGED <<entry, data>>

PullResult(r) ==
    /\ At(r, "pull", "result")
    /\ \/ /\ NoFault
          /\ rpc' = [rpc EXCEPT ![r].pc = "cleanup", ![r].msg = "done",
                                ![r].sent = Append(@, "result")]
       \/ Fault /\ Go(r, "cleanup")
    /\ UNCHANGED <<entry, data>> /\ Quiet

\* The deferred RemoveAll of the staging directory.
PullCleanup(r) ==
    /\ At(r, "pull", "cleanup")
    /\ entry' = [entry EXCEPT ![r] = 0]
    /\ Go(r, IF rpc[r].msg = "done" THEN "ok" ELSE "failed")
    /\ UNCHANGED data /\ NoFault /\ Quiet

HandlePull(r) ==
    \/ PullRefused(r) \/ PullStart(r) \/ PullFetch(r) \/ PullProgress(r)
    \/ PullFetched(r) \/ ProgressExited(r) \/ PullRename(r) \/ PullCopy(r)
    \/ PullResult(r) \/ PullCleanup(r)

-----------------------------------------------------------------------------
(* Get, Stat and Remove.                                                   *)

\* os.Stat: no such file, and one over the limit, are refused.
GetStat(r) ==
    /\ At(r, "get", "idle")
    /\ rpc' = [rpc EXCEPT ![r].saw = Content("x"),
          ![r].pc = IF entry["x"] = 0 \/ Len(Content("x")) > MaxSize THEN "failed" ELSE "open"]
    /\ UNCHANGED <<entry, data>> /\ NoFault /\ Quiet

GetOpen(r) ==
    /\ At(r, "get", "open")
    /\ IF entry["x"] = 0 THEN Go(r, "failed")
       ELSE rpc' = [rpc EXCEPT ![r].pc = "read", ![r].fd = entry["x"]]
    /\ UNCHANGED <<entry, data>> /\ NoFault /\ Quiet

\* Chunks until the end of the file, then the hash of what was sent.
GetRead(r) ==
    /\ At(r, "get", "read")
    /\ IF rpc[r].off < Len(data[rpc[r].fd])
       THEN rpc' = [rpc EXCEPT ![r].off = @ + 1,
                               ![r].sent = Append(@, data[rpc[r].fd][rpc[r].off + 1])]
       ELSE Go(r, "ok")
    /\ UNCHANGED <<entry, data>> /\ NoFault /\ Quiet

GetFails(r) ==
    /\ At(r, "get", "read")
    /\ Fault /\ Go(r, "failed")
    /\ UNCHANGED <<entry, data>> /\ Quiet

HandleGet(r) == GetStat(r) \/ GetOpen(r) \/ GetRead(r) \/ GetFails(r)

HandleStat(r) ==
    /\ At(r, "stat", "idle")
    /\ rpc' = [rpc EXCEPT ![r].pc = IF entry["x"] = 0 THEN "failed" ELSE "ok",
                          ![r].sent = Content("x")]
    /\ UNCHANGED <<entry, data>> /\ NoFault /\ Quiet

HandleFileRemove(r) ==
    /\ At(r, "remove", "idle")
    /\ \/ Fault /\ Go(r, "failed") /\ UNCHANGED entry /\ Quiet
       \/ /\ NoFault
          /\ Go(r, IF entry["x"] = 0 THEN "failed" ELSE "ok")
          /\ entry' = [entry EXCEPT !["x"] = 0]
          /\ IF entry["x"] = 0 THEN Quiet ELSE Intrudes(r)
    /\ UNCHANGED data

-----------------------------------------------------------------------------
\* The process is killed: no deferred function runs.
Crash ==
    /\ Active # {} /\ Fault
    /\ rpc' = [r \in Rpcs |-> IF r \in Active
                          THEN [rpc[r] EXCEPT !.pc = "dead", !.msg = rpc[r].pc] ELSE rpc[r]]
    /\ UNCHANGED <<entry, data>> /\ Quiet

Rpc(r) ==
    \/ HandlePut(r) \/ TransferToRemote(r) \/ TransferToRemoteForDPU(r)
    \/ HandlePull(r) \/ HandleGet(r) \/ HandleStat(r) \/ HandleFileRemove(r)

Next == Crash \/ \E r \in Rpcs : Rpc(r)

Spec == Init /\ [][Next]_vars

-----------------------------------------------------------------------------
\* The state keeps its types and bounds.
TypeOK ==
    /\ entry \in [Entries -> Inodes \cup {0}]
    /\ \A r \in Rpcs :
         /\ rpc[r].op \in Ops /\ rpc[r].fd \in Inodes \cup {0}
         /\ rpc[r].off \in 0 .. (MaxSize + 1)
    /\ \A i \in Inodes : Len(data[i]) <= MaxSize + 1
    /\ intruded \subseteq Rpcs /\ faults \in 0 .. MaxFaults

Ends(r) == rpc[r].pc \notin Ended /\ rpc'[r].pc \in {"ok", "failed"}

\* An RPC that no other one disturbs does what its answer says.  Put and Pull
\* leave the whole new file or, when they fail, the old one, also if Pull had
\* to fall back to copying; TransferToRemote leaves the whole file and
\* answers with its hash, or leaves none; Get sends the file as it was.
AnswerTrue ==
    [][\A r \in Rpcs : (Ends(r) /\ ~Idle(r) /\ r \notin intruded') =>
         LET ok  == rpc'[r].pc = "ok"
             now == Content("x")'
         IN  CASE rpc[r].op \in {"put", "pull"} ->
                    now = Whole(r) \/ (~ok /\ now \in {rpc[r].saw, <<>>})
               [] rpc[r].op = "transfer" ->
                    IF ok THEN now = Whole(r) /\ rpc'[r].sent = Whole(r) /\ Len(now) <= MaxSize
                    ELSE entry'["x"] = 0
               [] rpc[r].op = "get" -> ok => rpc'[r].sent = now
               [] OTHER -> TRUE]_vars

\* Writers of the inode the path has now.
Hands(i) == {r \in Rpcs : \E k \in 1 .. Len(data[i]) : data[i][k].by = r}

\* Put and Pull install files atomically: whatever else runs, and wherever
\* the process is killed, the path never has a part of a file written by one
\* of them alone, except where Pull copies (HandlePut: "Atomic file write (write to temp, then rename)").
Atomic ==
    \A r \in Rpcs :
        (/\ entry["x"] # 0 /\ Hands(entry["x"]) = {r}
         /\ rpc[r].op \in {"put", "pull"} /\ "copy" \notin {rpc[r].pc, rpc[r].msg}
         /\ r \notin intruded) => Content("x") = Whole(r)

\* Nothing is left behind: when all RPCs have returned, Put's temporary file
\* and Pull's staging directories are gone, however the RPCs ended and
\* whichever of them removed the other's file.
NoLitter ==
    (\A r \in Rpcs : rpc[r].pc \in {"idle", "ok", "failed"}) =>
        \A e \in Entries \ {"x"} : entry[e] = 0

\* After its result a Pull sends nothing: the progress goroutine has exited.
ResultLast ==
    \A r \in Rpcs : rpc[r].op = "pull" =>
        \A i \in 1 .. Len(rpc[r].sent) : rpc[r].sent[i] = "result" => i = Len(rpc[r].sent)

=============================================================================
