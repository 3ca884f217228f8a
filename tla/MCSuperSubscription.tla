------------------------- MODULE MCSuperSubscription -------------------------
(* Small instances of SuperSubscription. *)
EXTENDS SuperSubscription

CONSTANTS c1, c2, c3

ThreeClients == {c1, c2, c3}

\* Three clients meet while the device is still, two of them while it changes.
MCNext == Next /\ (changes' # 0 => pc'[c3] = "idle" /\ req[c1] = req[c2])
MCSpec == Init /\ [][MCNext]_vars /\ Fairness
=============================================================================
