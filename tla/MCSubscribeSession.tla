------------------------- MODULE MCSubscribeSession -------------------------
EXTENDS SubscribeSession
CONSTANTS p1, p2

MCPaths == {p1, p2}
AllCombos == (Modes \X Kinds) \ ({"POLL", "ONCE"} \X {"event"})
\* All but the ONCE subscriptions whose OnceRun does nothing.
ServedCombos == AllCombos \ ({"ONCE"} \X {"db", "nondb"})
TranslStream == {<<"STREAM", "transl">>}
=============================================================================
