------------------------------ MODULE GnoiDebug -----------------------------
(***************************************************************************)
(* gNOI Debug: HandleCommandRequest runs a command on the host and streams *)
(* its standard output and standard error to the client.  Per stream, one  *)
(* goroutine of RunCommand reads the pipe into a channel and one of the    *)
(* handler sends what is in the channel; the handler waits for them.       *)
(***************************************************************************)
EXTENDS Naturals, Sequences, FiniteSets

CONSTANTS Cap,       \* capacity of a channel (100 in the code)
          MaxOut,    \* bound: chunks the command writes to a pipe
          MaxFaults  \* bound: broken stream, start failure

VARIABLES pc,      \* of the handler
          cmd,     \* the command: "none", "runs", "exited" or "killed"
          ctx,     \* "live" or "done" (the request's timeout, a cancelled RPC)
          io,      \* per stream: chunks written, read and sent, channel, readers
          log,     \* responses sent
          faults

vars == <<pc, cmd, ctx, io, log, faults>>

S == {"out", "err"}
Fault == faults < MaxFaults /\ faults' = faults + 1
Returned == {"ok", "failed"}

Init ==
    /\ pc = "idle" /\ cmd = "none" /\ ctx = "live"
    /\ io = [s \in S |-> [wrote |-> 0, chan |-> <<>>, closed |-> FALSE,
                          reader |-> "none", held |-> 0, streamer |-> "none", sent |-> 0]]
    /\ log = <<>>
    /\ faults = 0

\* A nil request or command, one ValidateCommand rejects, another mode.
Refused ==
    /\ pc = "idle"
    /\ pc' = "failed"
    /\ UNCHANGED <<cmd, ctx, io, log, faults>>

sendReqInResponse ==
    /\ pc = "idle"
    /\ \/ /\ pc' = "start" /\ log' = Append(log, "request") /\ UNCHANGED faults
          /\ io' = [s \in S |-> [io[s] EXCEPT !.streamer = "select"]]
       \/ Fault /\ pc' = "failed" /\ UNCHANGED <<io, log>>
    /\ UNCHANGED <<cmd, ctx>>

\* RunCommand starts the command and the two readers; its deferred function
\* closes the channels when it returns, also if the command does not start.
Start ==
    /\ pc = "start"
    /\ \/ /\ cmd' = "runs" /\ pc' = "readers"
          /\ io' = [s \in S |-> [io[s] EXCEPT !.reader = "reads"]]
          /\ UNCHANGED faults
       \/ /\ Fault /\ pc' = "failed"
          /\ io' = [s \in S |-> [io[s] EXCEPT !.closed = TRUE]]
          /\ UNCHANGED cmd
    /\ UNCHANGED <<ctx, log>>

\* External: the command writes to its pipes and exits.
CommandWrites(s) ==
    /\ cmd = "runs" /\ io[s].wrote < MaxOut
    /\ io' = [io EXCEPT ![s].wrote = @ + 1]
    /\ UNCHANGED <<pc, cmd, ctx, log, faults>>
CommandExits ==
    /\ cmd = "runs"
    /\ cmd' = IF ctx = "done" THEN "killed" ELSE "exited"
    /\ UNCHANGED <<pc, ctx, io, log, faults>>
\* The request's timeout, or the client goes away.
ContextDone ==
    /\ pc \in {"start", "readers", "streamers"} /\ ctx = "live"
    /\ ctx' = "done"
    /\ UNCHANGED <<pc, cmd, io, log, faults>>

\* outputReaderToChannel: the send to the channel blocks while it is full.
Held(s)  == Len(io[s].chan) + io[s].sent + io[s].held
ReadPipe(s) ==
    /\ io[s].reader = "reads" /\ Held(s) < io[s].wrote
    /\ io' = [io EXCEPT ![s].reader = "writes", ![s].held = 1]
    /\ UNCHANGED <<pc, cmd, ctx, log, faults>>
WriteChannel(s) ==
    /\ io[s].reader = "writes" /\ Len(io[s].chan) < Cap
    /\ io' = [io EXCEPT ![s].reader = "reads", ![s].held = 0, ![s].chan = Append(@, s)]
    /\ UNCHANGED <<pc, cmd, ctx, log, faults>>
PipeClosed(s) ==
    /\ io[s].reader = "reads" /\ cmd \in {"exited", "killed"} /\ Held(s) = io[s].wrote
    /\ io' = [io EXCEPT ![s].reader = "done"]
    /\ UNCHANGED <<pc, cmd, ctx, log, faults>>
outputReaderToChannel(s) == ReadPipe(s) \/ WriteChannel(s) \/ PipeClosed(s)

\* Mutant: the channels are not closed.
MutRunCommand ==
    /\ pc = "readers" /\ \A s \in S : io[s].reader = "done"
    /\ pc' = "streamers"
    /\ UNCHANGED <<cmd, ctx, io, log, faults>>

\* wg.Wait, Wait for the command, and the deferred close of the channels.
RunCommand ==
    /\ pc = "readers" /\ \A s \in S : io[s].reader = "done"
    /\ io' = [s \in S |-> [io[s] EXCEPT !.closed = TRUE]]
    /\ \/ pc' = "streamers" /\ UNCHANGED faults
       \/ pc' = "failed" /\ Fault       \* Wait fails: the streamers are left running
    /\ UNCHANGED <<cmd, ctx, log>>

\* streamDataInChannel: the select may take either ready case.
Take(s) ==
    /\ io[s].streamer = "select" /\ io[s].chan # <<>>
    /\ io' = [io EXCEPT ![s].streamer = "sends", ![s].chan = Tail(@), ![s].sent = @ + 1]
    /\ UNCHANGED <<pc, cmd, ctx, log, faults>>
SendEnds(s) ==
    /\ io[s].streamer = "sends"
    /\ \/ /\ io' = [io EXCEPT ![s].streamer = "select"]
          /\ log' = Append(log, s) /\ UNCHANGED faults
       \/ /\ Fault /\ UNCHANGED log
          /\ io' = [io EXCEPT ![s].streamer = "done"]
    /\ UNCHANGED <<pc, cmd, ctx>>
StreamerEnds(s) ==
    /\ io[s].streamer = "select"
    /\ ctx = "done" \/ (io[s].chan = <<>> /\ io[s].closed)
    /\ io' = [io EXCEPT ![s].streamer = "done"]
    /\ UNCHANGED <<pc, cmd, ctx, log, faults>>
streamDataInChannel(s) == Take(s) \/ SendEnds(s) \/ StreamerEnds(s)

\* Mutant: the streamers are not waited for.
MutSendStatus ==
    /\ pc = "streamers"
    /\ pc' = "ok"
    /\ log' = Append(log, "status")
    /\ UNCHANGED <<cmd, ctx, io, faults>>

sendStatusInResponse ==
    /\ pc = "streamers" /\ \A s \in S : io[s].streamer = "done"
    /\ pc' = "ok"
    /\ \/ log' = Append(log, "status") /\ UNCHANGED faults
       \/ Fault /\ UNCHANGED log
    /\ UNCHANGED <<cmd, ctx, io>>

HandleCommandRequest == Refused \/ sendReqInResponse \/ Start \/ RunCommand \/ sendStatusInResponse
Goroutine(s) == outputReaderToChannel(s) \/ streamDataInChannel(s)
Next == \/ HandleCommandRequest \/ CommandExits \/ ContextDone
        \/ \E s \in S : Goroutine(s) \/ CommandWrites(s)

\* The goroutines run, and a command whose context is done is killed; one
\* without a timeout may run for ever.  No failure is owed.
Spec == /\ Init /\ [][Next]_vars
        /\ WF_vars(pc # "idle" /\ HandleCommandRequest /\ UNCHANGED faults)
        /\ WF_vars(ctx = "done" /\ CommandExits)
        /\ \A s \in S : /\ WF_vars(outputReaderToChannel(s))
                         /\ WF_vars(streamDataInChannel(s) /\ UNCHANGED faults)

-----------------------------------------------------------------------------
\* The state keeps its types and bounds.
TypeOK ==
    /\ \A s \in S : Len(io[s].chan) \in 0 .. Cap /\ io[s].sent \in 0 .. io[s].wrote
    /\ faults \in 0 .. MaxFaults

\* "Request: 1, beginning of execution; Data: 0 - many, during execution;
\* Status: 1, upon completion": the request is first, nothing follows the
\* status, and while the context and the stream last the status is sent only
\* after everything the command wrote.
ResponseOrder ==
    /\ \A i \in 1 .. Len(log) : (log[i] = "request" <=> i = 1)
    /\ \A i \in 1 .. Len(log) : log[i] = "status" => i = Len(log)
    /\ (pc = "ok" /\ ctx = "live" /\ faults = 0) =>
          \A s \in S : Cardinality({i \in 1 .. Len(log) : log[i] = s}) = io[s].wrote

\* Once the command has ended the RPC returns, unless a streamer that left
\* early (its context was done, or its Send failed) leaves a full channel
\* that a reader waits to write to: then nobody takes from it any more.
Stuck(s) == io[s].streamer = "done" /\ Len(io[s].chan) = Cap /\ io[s].reader = "writes"
DebugReturns ==
    <>[](cmd \in {"exited", "killed"} => pc \in Returned \/ \E s \in S : Stuck(s))

=============================================================================
