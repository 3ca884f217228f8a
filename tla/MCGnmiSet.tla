------------------------------ MODULE MCGnmiSet ------------------------------
(* Small instances of GnmiSet, and of the two algorithms a Set relies on that  *)
(* share no state with it: the making of a JSON patch (JsonPatch) and the      *)
(* decision of path authorization (PathzAuthorizer).  A behaviour is of one.   *)
EXTENDS GnmiSet, Sequences, TLC

CONSTANTS r1, r2, r3, MaxOps, MaxRules

VARIABLES part, stage, json, jsonPatch, host, root, policy, newRoot, newRules, inserted

TwoRpcs == {r1, r2}
ThreeRpcs == {r1, r2, r3}
RpcSymmetry == Permutations(Rpcs)

-----------------------------------------------------------------------------
(* One table with two entries that have one field each. *)

Str(s) == [str |-> s]
List(l) == [list |-> l]
NoEntry == [x \in {} |-> ""]
JsonCheckpoints == {NoEntry, [t |-> [k |-> [f |-> Str("a")]]],
                    [t |-> [k |-> [f |-> List(<<"a", "b">>)], l |-> NoEntry]]}
JsonPathsOfT == {<<"t">>, <<"t", "k">>, <<"t", "l">>, <<"t", "k", "f">>, <<"t", "l", "f">>,
                 <<"t", "k", "f", "0">>, <<"t", "k", "f", "1">>}
ValuesOfLength == <<{[k |-> [f |-> Str("b")]]}, {NoEntry, [f |-> List(<<"b">>)]},
                    {Str("b"), List(<<"b", "a">>)}, {Str("c")}>>

Json == INSTANCE JsonPatch
        WITH patch <- jsonPatch, Checkpoints <- JsonCheckpoints, JsonPaths <- JsonPathsOfT, JsonValues <- ValuesOfLength

-----------------------------------------------------------------------------
(* Rules above, at and below a list with two keys, for a user and its groups. *)

Elem(n, keys) == [name |-> n, key |-> keys]
NoKeys == [k \in {} |-> ""]
A == <<Elem("a", NoKeys)>>
RulePaths == {<<>>, A, <<Elem("a", [k |-> "1"])>>, <<Elem("a", [k |-> "*"])>>, <<Elem("a", [l |-> "1"])>>,
              <<Elem("a", [k |-> "*", l |-> "1"])>>, <<Elem("a", [k |-> "*"]), Elem("b", NoKeys)>>}
RequestPaths == {<<>>, A, <<Elem("a", [k |-> "1"])>>, <<Elem("a", [k |-> "1", l |-> "1"])>>,
                 <<Elem("a", [k |-> "1"]), Elem("b", NoKeys)>>, <<Elem("a", [k |-> "2"]), Elem("b", NoKeys)>>}
Actions == {"permit", "deny"}
RulesOfPolicies ==
    [path : RulePaths, principal : {<<"user", "u">>}, mode : {"read"}, action : Actions]
    \cup [path : RulePaths \ {A}, principal : {<<"group", "g">>}, mode : {"read"}, action : {"permit"}]
    \cup [path : {<<>>}, principal : {<<"group", "h">>}, mode : {"read", "write"}, action : Actions]
    \cup [path : {A}, principal : {<<"user", "u">>}, mode : {"read", "unspecified"}, action : {"unspecified"}]
    \cup [path : {A}, principal : {<<"none", "">>}, mode : {"read"}, action : {"deny"}]
GroupsOfPolicies == {[g \in {"g", "h"} |-> {"u", "v"}], [g \in {"g"} |-> {"v"}]}

Pathz == INSTANCE PathzAuthorizer
         WITH KeyOrder <- <<"k", "l">>, Rules <- RulesOfPolicies, Groupings <- GroupsOfPolicies,
              AuthPaths <- RequestPaths, Users <- {"u", "v"}

-----------------------------------------------------------------------------
jsonVars == <<stage, json, jsonPatch, host>>
pathzVars == <<root, policy, newRoot, newRules, inserted>>
compVars == <<part, vars, jsonVars, pathzVars>>

CompInit ==
    /\ part \in {"set", "json", "pathz"} /\ Init /\ Json!Init /\ Pathz!Init
    /\ part # "set" => (\A r \in Rpcs : kind[r] = "patch" /\ dels[r] = {} /\ upds[r] = Keys)
    /\ part # "json" => json = NoEntry

CompNext ==
    \/ part = "set" /\ Next /\ UNCHANGED <<part, jsonVars, pathzVars>>
    \/ part = "json" /\ Json!SetIncrementalConfig /\ UNCHANGED <<part, vars, pathzVars>>
    \/ part = "pathz" /\ Pathz!UpdatePolicyFromProto /\ UNCHANGED <<part, vars, jsonVars>>

CompSpec == CompInit /\ [][CompNext]_compVars

\* The states of a Set, of a patch and of a policy keep their types.
TypesOK == TypeOK /\ (part = "json" => Json!TypeOK) /\ (part = "pathz" => Pathz!TypeOK)
\* JsonClient and the host agree on the patch: its copy has what the host will have, and
\* the host refuses only updates below what is missing and replacements without a value.
PatchFaithful == Json!PatchFaithful

\* A request is decided by the best rules of the policy in force, whatever order they were inserted in.
DecidedByBestRule == part = "pathz" => Pathz!DecidedByBestRule

=============================================================================
