-------------------------- MODULE SubscribeContract --------------------------
(***************************************************************************)
(* What a STREAM or ONCE subscription promises the client, whatever the    *)
(* data client behind it: updates arrive while the RPC is open, and a sync *)
(* response tells that every path that has a value has been received       *)
(* ("Wait until all data values corresponding to the path(s) specified in  *)
(* the SubscriptionList has been transmitted at least once", StreamRun in  *)
(* sonic_data_client/db_client.go).                                        *)
(***************************************************************************)
CONSTANT Paths
VARIABLES
    present,       \* the paths that have a value
    open,          \* the RPC is open
    seen, synced   \* what the client has received
vars == <<present, open, seen, synced>>

Init == present \subseteq Paths /\ open = TRUE /\ seen = {} /\ synced = FALSE

Deliver(p) ==
    /\ open
    /\ seen' = seen \cup {p}
    /\ UNCHANGED <<present, open, synced>>

SyncResponse ==
    /\ open /\ present \subseteq seen
    /\ synced' = TRUE
    /\ UNCHANGED <<present, open, seen>>

End ==
    /\ open
    /\ open' = FALSE
    /\ UNCHANGED <<present, seen, synced>>

Next == SyncResponse \/ End \/ \E p \in Paths : Deliver(p)

Spec == Init /\ [][Next]_vars
=============================================================================
