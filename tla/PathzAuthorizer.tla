--------------------------- MODULE PathzAuthorizer ---------------------------
(***************************************************************************)
(* The gNMI path authorization policy (pathz_authorizer.go): rules are     *)
(* inserted into a tree one by one, and a request is decided by a walk     *)
(* down that tree.                                                         *)
(*                                                                         *)
(* A path is a sequence of elements, each a name and a map of keys.  The   *)
(* edges of the tree are labelled by a name, or by the value of the one    *)
(* key its parent is for, so a node is named by its sequence of labels.    *)
(***************************************************************************)
EXTENDS Naturals, Sequences, SequencesExt, FiniteSets

CONSTANTS KeyOrder,    \* the names of keys in alphabetical order
          Rules,       \* rules a policy may have: path, principal, mode and action
          Groupings,   \* group memberships a policy may have
          AuthPaths,   \* paths of requests
          Users,
          MaxRules     \* bound: rules inserted, over all updates

VARIABLES root,       \* the tree of the policy in force: its nodes and their permissions
          policy,     \* the policy in force: its rules and its groups
          newRoot,    \* the tree createPolicies is building
          newRules,   \* the rules that are in it
          inserted

pathzVars == <<root, policy, newRoot, newRules, inserted>>

Modes == {"read", "write"}
Unspecified == "unspecified"
WildCard == "*"

\* The labels on the way of a path: per element its name and its keys in order.
Labels(path) ==
    LET Sorted(e) == SelectSeq(KeyOrder, LAMBDA k : k \in DOMAIN e.key)
        Of(e) == <<[key |-> "", val |-> e.name]>>
                 \o [i \in DOMAIN Sorted(e) |-> [key |-> Sorted(e)[i], val |-> e.key[Sorted(e)[i]]]]
    IN  FlattenSeq([i \in DOMAIN path |-> Of(path[i])])

\* A node without permissions, and the node a tree has at some labels.
NoPermission == [x \in {} |-> Unspecified]
Put(m, x, v) == [y \in DOMAIN m \union {x} |-> IF y = x THEN v ELSE m[y]]
NewTree == [n \in {<<>>} |-> NoPermission]
Permission(node, principal, mode) ==
    IF <<principal, mode>> \in DOMAIN node THEN node[<<principal, mode>>] ELSE Unspecified

-----------------------------------------------------------------------------
(* Building a tree *)

\* Mutant: the last rule for a path wins.
MutUpdatePermission(node, r) ==
    IF Unspecified \in {r.action, r.mode} THEN node ELSE Put(node, <<r.principal, r.mode>>, r.action)

\* "If multiple rules configure the same path with both permit and deny actions,
\* we will honor the deny rule."
updatePermission(node, r) ==
    IF Permission(node, r.principal, r.mode) = "deny" \/ Unspecified \in {r.action, r.mode} THEN node
    ELSE Put(node, <<r.principal, r.mode>>, r.action)

\* A node is for one key: a rule with another one there is an error.
KeyMismatch(tree, labels) ==
    \E i \in DOMAIN labels : \E n \in DOMAIN tree :
        /\ Len(n) = i /\ Front(n) = SubSeq(labels, 1, i - 1)
        /\ labels[i].key # "" /\ Last(n).key \notin {"", labels[i].key}

insertPath(tree, r) ==
    LET labels == Labels(r.path)
        nodes  == DOMAIN tree \union {SubSeq(labels, 1, i) : i \in 0 .. Len(labels)}
        Old(n) == IF n \in DOMAIN tree THEN tree[n] ELSE NoPermission
    IN  [n \in nodes |-> IF n = labels THEN updatePermission(Old(n), r) ELSE Old(n)]

-----------------------------------------------------------------------------
(* Deciding a request *)

\* The permission at a node: the groups count only if the user's own rule does
\* not decide, and among the groups a denial does.
At(node, groups, user, mode) ==
    LET own    == Permission(node, <<"user", user>>, mode)
        others == {Permission(node, <<"group", g>>, mode)
                     : g \in {h \in DOMAIN groups : user \in groups[h]}} \ {Unspecified}
    IN  CASE own # Unspecified -> own
          [] "deny" \in others -> "deny"
          [] others # {} -> "permit"
          [] OTHER -> Unspecified

\* A deeper match first, below the value of a key first by the value and then by "*".
RECURSIVE authorize(_, _, _, _, _, _)
authorize(tree, groups, user, mode, n, rest) ==
    LET own == At(tree[n], groups, user, mode)
        Below(x) == IF Append(n, x) \in DOMAIN tree
                    THEN authorize(tree, groups, user, mode, Append(n, x), Tail(rest))
                    ELSE Unspecified
        wild == [Head(rest) EXCEPT !.val = WildCard]
    IN  CASE rest = <<>> -> own
          [] Below(Head(rest)) # Unspecified -> Below(Head(rest))
          [] Head(rest).key # "" /\ Below(wild) # Unspecified -> Below(wild)
          [] OTHER -> own

\* "The processor will start with an empty policy that denies all access": no root.
Authorize(user, path, mode) ==
    IF root = {} THEN Unspecified
    ELSE LET tree == CHOOSE t \in root : TRUE
         IN  authorize(tree, policy.groups, user, mode, <<>>, Labels(path))

-----------------------------------------------------------------------------
(* UpdatePolicyFromProto *)

Init ==
    /\ root = {} /\ policy = [rules |-> {}, groups |-> [g \in {} |-> {}]]
    /\ newRoot = NewTree /\ newRules = {} /\ inserted = 0

\* createPolicies inserts the next rule; an error gives up the new tree.
Insert(r) ==
    /\ inserted < MaxRules /\ inserted' = inserted + 1
    /\ IF KeyMismatch(newRoot, Labels(r.path)) \/ r.principal[1] \notin {"user", "group"}
       THEN newRoot' = NewTree /\ newRules' = {}
       ELSE newRoot' = insertPath(newRoot, r) /\ newRules' = newRules \union {r}
    /\ UNCHANGED <<root, policy>>

\* All rules are in, at least one: the new policy takes the place of the old one.
Swap(groups) ==
    /\ newRules # {}
    /\ root' = {newRoot} /\ policy' = [rules |-> newRules, groups |-> groups]
    /\ newRoot' = NewTree /\ newRules' = {}
    /\ UNCHANGED inserted

UpdatePolicyFromProto ==
    \/ \E r \in Rules : Insert(r)
    \/ \E g \in Groupings : Swap(g)

-----------------------------------------------------------------------------
\* The state has its type: the nodes of a tree are closed under prefixes.
TypeOK ==
    /\ inserted \in 0 .. MaxRules /\ Cardinality(root) <= 1
    /\ \A t \in root \union {newRoot} : \A n \in DOMAIN t : n = <<>> \/ Front(n) \in DOMAIN t
    /\ newRules \subseteq Rules /\ policy.rules \subseteq Rules

\* A rule covers a request if its labels begin the request's, "*" being any value.
Covers(r, q) ==
    /\ Len(r) <= Len(q)
    /\ \A i \in DOMAIN r : r[i] = q[i] \/ (r[i].key # "" /\ r[i] = [q[i] EXCEPT !.val = WildCard])
\* The preference among the rules that cover a request q: by the first label in
\* which they differ the value before "*", else the longer path.
Before(a, b, q) ==
    \/ \E i \in DOMAIN a \intersect DOMAIN b :
         SubSeq(a, 1, i - 1) = SubSeq(b, 1, i - 1) /\ a[i] # b[i] /\ a[i] = q[i]
    \/ IsStrictPrefix(b, a)
Reference(user, path, mode) ==
    LET q     == Labels(path)
        About(r) == \/ r.principal = <<"user", user>>
                    \/ \E g \in DOMAIN policy.groups :
                         r.principal = <<"group", g>> /\ user \in policy.groups[g]
        found == {r \in policy.rules : r.mode = mode /\ r.action # Unspecified
                                     /\ About(r) /\ Covers(Labels(r.path), q)}
        best  == {r \in found : ~ \E o \in found : Before(Labels(o.path), Labels(r.path), q)}
        own   == {r \in best : r.principal[1] = "user"}
        decide == IF own # {} THEN own ELSE best
    IN  CASE decide = {} -> Unspecified
          [] \E r \in decide : r.action = "deny" -> "deny"
          [] OTHER -> "permit"

\* In whatever order the rules of a policy were inserted, and whatever updates
\* failed before or since, a request is decided by the rules of the policy in
\* force: by the most specific that cover it, the user's own before a group's and
\* a denial before a permission.
DecidedByBestRule ==
    \A u \in Users, p \in AuthPaths, m \in Modes : Authorize(u, p, m) = Reference(u, p, m)
=============================================================================
