------------------------------ MODULE JsonPatch ------------------------------
(***************************************************************************)
(* The JSON patch of an incremental Set: SetIncrementalConfig takes the    *)
(* deletions, replacements and updates of a request one by one, does each  *)
(* of them to the checkpoint with JsonClient (json_client.go) and, when    *)
(* that succeeds, adds it to the patch the host is asked to apply.         *)
(*                                                                         *)
(* A configuration maps tables to entries, entries to fields and fields to *)
(* a string or a list of strings; a path names a table, an entry of it, a  *)
(* field or an item of a list.                                             *)
(***************************************************************************)
EXTENDS Naturals, Sequences, SequencesExt, FiniteSets

CONSTANTS Checkpoints,   \* the configurations to start from
          JsonPaths,     \* the paths a request may name
          JsonValues,    \* of each length of path, the values it may be given
          MaxOps         \* bound: operations of a request

VARIABLES stage,   \* what the request is at: "delete", "replace", "update", "sent" or "failed"
          json,    \* JsonClient.jsonData
          patch,   \* patchList
          host     \* {} or the configuration the patch makes of the checkpoint on the host

jsonVars == <<stage, json, patch, host>>

Empty == [x \in {} |-> x]
Put(m, x, v) == [y \in DOMAIN m \union {x} |-> IF y = x THEN v ELSE m[y]]
Delete(m, x) == [y \in DOMAIN m \ {x} |-> m[y]]
Str(s) == [str |-> s]
List(l) == [list |-> l]
Atoi == [s \in {"0", "1", "2"} |-> CASE s = "0" -> 0 [] s = "1" -> 1 [] OTHER -> 2]
Index == DOMAIN Atoi             \* the elements that are an index of a list
IsList(v) == DOMAIN v = {"list"}
None == [none |-> TRUE]          \* no value
Invalid == [invalid |-> TRUE]    \* a value that does not parse, or not as the path needs it

\* DecodeJsonTable, DecodeJsonEntry, DecodeJsonField and DecodeJsonListItem: what is there.
RECURSIVE Decode(_, _)
Decode(m, p) ==
    CASE p = <<>>            -> TRUE
      [] Head(p) \in Index     -> IsList(m) /\ Atoi[Head(p)] < Len(m.list)
      [] OTHER               -> Head(p) \in DOMAIN m /\ Decode(m[Head(p)], Tail(p))

-----------------------------------------------------------------------------
(* JsonClient *)

\* What is left empty by a removal is removed with it.
RECURSIVE RemovePath(_, _)
RemovePath(m, p) ==
    LET x == Head(p) IN
    IF Len(p) = 1 THEN Delete(m, x)
    ELSE LET rest == IF Len(p) = 2 /\ p[2] \in Index
                     THEN List(RemoveAt(m[x].list, Atoi[p[2]] + 1))
                     ELSE RemovePath(m[x], Tail(p))
         IN  IF rest \in {Empty, List(<<>>)} THEN Delete(m, x) ELSE Put(m, x, rest)

\* Mutant: an item that is added takes the place of the one that is there.
MutInsert(l, i, v) == IF i < Len(l) THEN ReplaceAt(l, i + 1, v) ELSE Append(l, v)

\* append and the shift of what follows
Insert(l, i, v) == InsertAt(l, i + 1, v)

\* Tables, entries and lists on the way are made; an item follows the last one at most.
RECURSIVE AddPath(_, _, _)
AddPath(m, p, v) ==
    LET x == Head(p) IN
    CASE Len(p) = 1 -> Put(m, x, v)
      [] Len(p) = 2 /\ p[2] \in Index ->
           Put(m, x, List(Insert(IF x \in DOMAIN m THEN m[x].list ELSE <<>>, Atoi[p[2]], v.str)))
      [] OTHER -> Put(m, x, AddPath(IF x \in DOMAIN m THEN m[x] ELSE Empty, Tail(p), v))

Field(m, p) == IF Decode(m, SubSeq(p, 1, 3)) THEN m[p[1]][p[2]][p[3]] ELSE List(<<>>)
CanAdd(m, p, v) ==
    /\ v # Invalid
    /\ Len(p) = 4 => IsList(Field(m, p)) /\ Atoi[p[4]] <= Len(Field(m, p).list)

-----------------------------------------------------------------------------
(* External: a JSON patch as RFC 6902 has it, which the host applies.      *)

RECURSIVE Member(_, _, _)
Member(m, p, op) ==
    LET x == Head(p) IN
    CASE Len(p) = 1 -> IF op.op = "remove" THEN Delete(m, x) ELSE Put(m, x, op.value)
      [] Len(p) = 2 /\ p[2] \in Index ->
           Put(m, x, List(CASE op.op = "remove" -> RemoveAt(m[x].list, Atoi[p[2]] + 1)
                            [] op.op = "replace" -> ReplaceAt(m[x].list, Atoi[p[2]] + 1, op.value.str)
                            [] OTHER -> InsertAt(m[x].list, Atoi[p[2]] + 1, op.value.str)))
      [] OTHER -> Put(m, x, Member(m[x], Tail(p), op))

\* Removing and replacing need the target, adding what contains it.
Applicable(m, op) ==
    IF op.op = "add"
    THEN /\ Decode(m, Front(op.path))
         /\ Len(op.path) = 4 => IsList(Field(m, op.path)) /\ Atoi[Last(op.path)] <= Len(Field(m, op.path).list)
    ELSE Decode(m, op.path) /\ (op.op = "replace" => op.value # None)
Applied(op) == {Member(m, op.path, op) : m \in {n \in host : Applicable(n, op)}}

-----------------------------------------------------------------------------
(* SetIncrementalConfig *)

Init ==
    /\ json \in Checkpoints /\ host = {json}
    /\ stage = "delete" /\ patch = <<>>

Fails == stage' = "failed" /\ UNCHANGED <<json, patch, host>>

\* ConvertToJsonPatch
Convert(o, p, v) ==
    LET op == [op |-> o, path |-> p, value |-> v]
    IN  patch' = Append(patch, op) /\ host' = Applied(op)

At(s) == stage = s /\ Len(patch) < MaxOps

\* Mutant: the deletion of what is not there is sent as well.
MutDeletePath(p) ==
    /\ At("delete") /\ UNCHANGED stage
    /\ json' = IF Decode(json, p) THEN RemovePath(json, p) ELSE json
    /\ Convert("remove", p, None)

\* A deletion that fails is left out.
DeletePath(p) ==
    /\ At("delete") /\ Decode(json, p) /\ UNCHANGED stage
    /\ json' = RemovePath(json, p)
    /\ Convert("remove", p, None)

\* JsonClient.Replace; a replacement without a value removes, but is sent as "replace".
ReplacePath(p, v) ==
    /\ At("replace")
    /\ IF v = None
       THEN /\ Decode(json, p) /\ UNCHANGED stage
            /\ json' = RemovePath(json, p) /\ Convert("replace", p, v)
       ELSE LET r == RemovePath(json, p) IN
            IF Decode(json, p) /\ CanAdd(r, p, v)
            THEN json' = AddPath(r, p, v) /\ UNCHANGED stage /\ Convert("replace", p, v)
            ELSE Fails

UpdatePath(p, v) ==
    /\ At("update")
    /\ IF v # None /\ CanAdd(json, p, v)
       THEN json' = AddPath(json, p, v) /\ UNCHANGED stage /\ Convert("add", p, v)
       ELSE Fails

NextStage ==
    /\ stage' = CASE stage = "delete" -> "replace" [] stage = "replace" -> "update"
                  [] stage = "update" -> "sent" [] OTHER -> stage
    /\ stage \in {"delete", "replace", "update"}
    /\ UNCHANGED <<json, patch, host>>

SetIncrementalConfig ==
    \/ \E p \in JsonPaths : DeletePath(p)
    \/ \E p \in JsonPaths : \E v \in JsonValues[Len(p)] \union {None, Invalid} :
         ReplacePath(p, v) \/ UpdatePath(p, v)
    \/ NextStage

-----------------------------------------------------------------------------
Leaves(m) ==
    UNION {UNION {{<<t, k, f, m[t][k][f]>> : f \in {g \in DOMAIN m[t][k] : m[t][k][g] # List(<<>>)}}
                    : k \in DOMAIN m[t]} : t \in DOMAIN m}

\* The state has its type: entries of tables have fields that are strings or lists.
TypeOK ==
    /\ stage \in {"delete", "replace", "update", "sent", "failed"}
    /\ Len(patch) <= MaxOps /\ Cardinality(host) <= 1
    /\ \A t \in DOMAIN json : \A k \in DOMAIN json[t] : \A f \in DOMAIN json[t][k] :
         DOMAIN json[t][k][f] \in {{"str"}, {"list"}}

\* Later operations of a request are decided on JsonClient's copy: it has, field
\* by field, what the host will have after the operations so far.
MirrorsPatch == \A m \in host : Leaves(m) = Leaves(json)

\* The host refuses a patch made from its own configuration only for an update
\* below a table, an entry or a list that is not there, which JsonClient makes on
\* the way, or for a replacement without a value.
RefusedOnlyIf ==
    [][host # {} /\ host' = {} =>
          \/ Last(patch').op = "add" /\ \A m \in host : ~Decode(m, Front(Last(patch').path))
          \/ Last(patch').op = "replace" /\ Last(patch').value = None]_jsonVars

\* JsonClient and the host agree on a patch: on what it makes of the configuration and,
\* but for the two cases above, on whether it can be applied.
PatchFaithful == []MirrorsPatch /\ RefusedOnlyIf

=============================================================================
