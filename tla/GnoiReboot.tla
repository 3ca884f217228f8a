----------------------------- MODULE GnoiReboot -----------------------------
(***************************************************************************)
(* gNOI System Reboot, RebootStatus and CancelReboot: each publishes its   *)
(* request on a Redis channel of STATE_DB and waits for an answer on       *)
(* another, to which every waiting RPC is subscribed.  Requests carry no   *)
(* identity: an answer is told apart only by its operation.                *)
(***************************************************************************)
EXTENDS Naturals, Sequences

CONSTANTS Rpcs, Mixes,  \* the operations of the RPCs that run together
          MaxFaults     \* bound: failing Redis calls, malformed answers

VARIABLES rpc,      \* op, pc, messages its subscription has, what it took
          requests, \* published requests the backend has not taken
          open,     \* history: requests published and not answered
          faults

vars == <<rpc, requests, open, faults>>

Go(r, pc) == rpc' = [rpc EXCEPT ![r].pc = pc]
Fault == faults < MaxFaults /\ faults' = faults + 1
\* Mutant: the subscription is closed when the request has been sent.
MutSubscribed == {r \in Rpcs : rpc[r].pc = "send"}

Subscribed == {r \in Rpcs : rpc[r].pc \in {"send", "wait"}}

Init ==
    /\ \E mix \in Mixes :
         rpc = [r \in Rpcs |-> [op |-> mix[r], pc |-> "idle", chan |-> <<>>, got |-> "none",
                                tErr |-> FALSE, overlap |-> {}]]
    /\ requests = <<>>
    /\ open = {}
    /\ faults = 0

SameOp(r) == {q \in Rpcs \ {r} : rpc[q].op = rpc[r].op}

\* ValidateRebootRequest: methods that are not supported and delays.
ValidateRebootRequest(r) ==
    /\ rpc[r].op = "Reboot" /\ rpc[r].pc = "idle"
    /\ Go(r, "failed")
    /\ UNCHANGED <<requests, open, faults>>

\* A Reboot of a DPU, run as a command, or of subcomponents: answered without
\* the backend.
AnsweredHere(r) ==
    /\ rpc[r].op = "Reboot" /\ rpc[r].pc = "idle"
    /\ Go(r, "ok")
    /\ UNCHANGED <<requests, open, faults>>

\* GetRedisDBClient, NewNotificationProducer or the subscription fails, or
\* the publication.
RedisFails(r) ==
    /\ rpc[r].pc \in {"idle", "send"}
    /\ Fault /\ Go(r, "failed")
    /\ UNCHANGED <<requests, open>>

Subscribe(r) ==
    /\ rpc[r].pc = "idle"
    /\ rpc' = [rpc EXCEPT ![r].pc = "send", ![r].overlap = open \cap SameOp(r)]
    /\ UNCHANGED <<requests, open, faults>>

\* NotificationProducer.Send; from here on r's request is one of those that
\* the RPCs now subscribed may mistake for theirs.
Send(r) ==
    /\ rpc[r].pc = "send"
    /\ requests' = Append(requests, r)
    /\ open' = open \cup {r}
    /\ rpc' = [q \in Rpcs |->
                 IF q = r THEN [rpc[r] EXCEPT !.pc = "wait"]
                 ELSE IF q \in SameOp(r) \cap Subscribed
                      THEN [rpc[q] EXCEPT !.overlap = @ \cup {r}] ELSE rpc[q]]
    /\ UNCHANGED faults

\* External: the backend takes the requests in turn and publishes an answer
\* to everyone subscribed at that moment; it may also ignore a request.
Backend ==
    /\ requests # <<>>
    /\ requests' = Tail(requests)
    /\ open' = open \ {Head(requests)}
    /\ LET q == Head(requests)
           m(code) == [op |-> rpc[q].op, for |-> q, code |-> code]
       IN  \/ UNCHANGED <<rpc, faults>>
           \/ \E code \in {"OK", "SwssError"} :
                /\ rpc' = [r \in Rpcs |-> IF r \in Subscribed
                             THEN [rpc[r] EXCEPT !.chan = Append(@, m(code))] ELSE rpc[r]]
                /\ UNCHANGED faults

\* Mutant: the operation of an answer is not compared.
MutReceive(r) ==
    /\ rpc[r].pc = "wait" /\ rpc[r].chan # <<>>
    /\ LET m == Head(rpc[r].chan) IN
         rpc' = [rpc EXCEPT ![r].chan = Tail(@), ![r].got = m.for,
                            ![r].pc = IF m.code = "OK" THEN "ok" ELSE "failed"]
    /\ UNCHANGED <<requests, open, faults>>

\* processMsgPayload, then the operation, then the code of the answer.
Receive(r) ==
    /\ rpc[r].pc = "wait" /\ rpc[r].chan # <<>>
    /\ LET m == Head(rpc[r].chan) IN
         \/ /\ rpc' = [rpc EXCEPT ![r].chan = Tail(@),
               ![r].tErr = @ \/ m.op # rpc[r].op,
               ![r].got = IF m.op = rpc[r].op THEN m.for ELSE @,
               ![r].pc = IF m.op # rpc[r].op THEN "wait"
                         ELSE IF m.code = "OK" THEN "ok" ELSE "failed"]
            /\ UNCHANGED faults
         \/ Fault /\ Go(r, "failed")     \* a payload that is malformed
    /\ UNCHANGED <<requests, open>>

\* Mutant: the timer only runs once a mismatching answer came.
MutTimeout(r) ==
    /\ rpc[r].pc = "wait" /\ rpc[r].tErr
    /\ Go(r, "failed")
    /\ UNCHANGED <<requests, open, faults>>

\* After ten seconds, with the error of a mismatching answer if there was one.
Timeout(r) ==
    /\ rpc[r].pc = "wait"
    /\ Go(r, "failed")
    /\ UNCHANGED <<requests, open, faults>>

sendRebootReqOnNotifCh(r) == Subscribe(r) \/ Send(r) \/ Receive(r) \/ Timeout(r)
Handler(r) == ValidateRebootRequest(r) \/ AnsweredHere(r) \/ RedisFails(r)
Reboot(r)       == rpc[r].op = "Reboot" /\ (Handler(r) \/ sendRebootReqOnNotifCh(r))
RebootStatus(r) == rpc[r].op = "RebootStatus" /\ (RedisFails(r) \/ sendRebootReqOnNotifCh(r))
CancelReboot(r) == rpc[r].op = "CancelReboot" /\ (RedisFails(r) \/ sendRebootReqOnNotifCh(r))

Next == Backend \/ \E r \in Rpcs : Reboot(r) \/ RebootStatus(r) \/ CancelReboot(r)

\* The timer of an RPC that waits runs out; the backend need not answer,
\* and no failure is owed.
Spec == Init /\ [][Next]_vars
             /\ \A r \in Rpcs : WF_vars(rpc[r].pc # "idle" /\ sendRebootReqOnNotifCh(r) /\ UNCHANGED faults)

-----------------------------------------------------------------------------
\* The state keeps its types and bounds.
TypeOK ==
    /\ \A r \in Rpcs : rpc[r].pc \in {"idle", "send", "wait", "ok", "failed"}
    /\ open \subseteq Rpcs /\ faults \in 0 .. MaxFaults

\* An answer that is taken is the answer to the RPC's own request, unless
\* another request of the same operation was open at the same time (a second
\* client, or an earlier RPC that gave up waiting).
AnswerOwn ==
    \A r \in Rpcs : rpc[r].got \notin {"none", r} => rpc[r].got \in rpc[r].overlap

\* No answer is missed: the RPC subscribes before it publishes, so while it
\* waits, the backend's answer to its request is in its queue.
NoAnswerMissed ==
    [][\A r \in Rpcs : (rpc[r].pc = "wait" /\ r \in open /\ r \notin open' /\ rpc' # rpc)
         => \E i \in 1 .. Len(rpc'[r].chan) : rpc'[r].chan[i].for = r]_vars

\* Requests and answers match although the channels are shared: the answer to a waiting
\* RPC reaches it, and it takes no other one but of an RPC it overlaps with.
AnswersMatch == []AnswerOwn /\ NoAnswerMissed

\* Every RPC that subscribed returns, even if no answer ever comes.
RebootReturns == <>[](\A r \in Rpcs : rpc[r].pc \in {"idle", "ok", "failed"})

=============================================================================
