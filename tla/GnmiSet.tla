------------------------------- MODULE GnmiSet -------------------------------
(***************************************************************************)
(* gNMI Set (Server.Set, gnmi_server/server.go) with several RPCs at once: *)
(* master arbitration, the bypass of pkg/bypass, the Set of MixedDbClient  *)
(* (sonic_data_client/mixed_db_client.go) by a JSON patch, by a full       *)
(* replacement or entry by entry, the Set of TranslClient, and the saving  *)
(* of the configuration through D-Bus.                                     *)
(*                                                                         *)
(* A request deletes some keys and gives others its own value; the value   *)
(* an RPC writes is its name.                                              *)
(***************************************************************************)
EXTENDS Integers, FiniteSets

CONSTANTS
    Rpcs,          \* the Set RPCs
    Keys,          \* entries of CONFIG_DB and APPL_DB
    Kinds,         \* the ways a Set is done that are looked at
    Arbitration,   \* --with-master-arbitration
    SaveOnSet,     \* --with-save-on-set
    Word,          \* election ids are pairs of words below this bound
    Present,       \* the keys of CONFIG_DB at the start
    Faults         \* TRUE: checks refuse and calls to the host fail

AllKinds == {"bypass", "appl", "patch", "replace", "full", "transl"}

ASSUME SetAssumption ==
    /\ Kinds \subseteq AllKinds /\ Present \subseteq Keys
    /\ Arbitration \in BOOLEAN /\ SaveOnSet \in BOOLEAN /\ Faults \in BOOLEAN
    /\ Word \in Nat \ {0}

Absent == "absent"
Old == "old"

Eids == [high : 0..(Word - 1), low : 0..(Word - 1)]
Config == [Keys -> Rpcs \cup {Absent, Old}]

VARIABLES
    kind, dels, upds,        \* the requests
    eid,                     \* the election id of each, if it has the extension
    pc,                      \* where each RPC is
    res,                     \* what it has answered
    err,                     \* the error its MixedDbClient has met
    master,                  \* Server.masterEID
    admitted,                \* the election ids of the requests let through so far
    running,                 \* CONFIG_DB
    appl,                    \* APPL_DB
    checkpoint,              \* the file config.cp.json, if it exists
    patch,                   \* the operations an RPC has still to do
    wrote,                   \* the keys an RPC has changed or deleted
    ver,                     \* the number of changes of CONFIG_DB
    saved,                   \* the one config_db.json was written at
    late,                    \* the RPCs whose change the host has yet to make, after the timeout
    applied                  \* the one an RPC ended its changes with; 0 if it made none

request == <<kind, eid, dels, upds>>
election == <<master, admitted>>
store == <<running, ver, wrote, applied>>
vars == <<request, pc, res, err, election, store, appl, checkpoint, patch, saved, late>>

Locations == {"idle", "admitted", "ops", "create", "read", "apply", "save", "uncheck", "startup", "done"}

\* Mutant: the low words are compared first.
MutCompare(l, r) ==
    IF l.low > r.low THEN 1 ELSE IF l.low < r.low THEN -1
    ELSE IF l.high > r.high THEN 1 ELSE IF l.high < r.high THEN -1 ELSE 0

\* uint128.Compare
Compare(l, r) ==
    IF l.high > r.high THEN 1 ELSE IF l.high < r.high THEN -1
    ELSE IF l.low > r.low THEN 1 ELSE IF l.low < r.low THEN -1 ELSE 0

Ops(ds, us) == {<<"del", k>> : k \in ds} \cup {<<"upd", k>> : k \in us}

Init ==
    /\ kind \in [Rpcs -> Kinds]
    /\ eid \in [Rpcs -> {{}} \cup IF Arbitration THEN {{e} : e \in Eids} ELSE {}]
    /\ dels \in [Rpcs -> SUBSET Keys] /\ upds \in [Rpcs -> SUBSET Keys]
    /\ \A r \in Rpcs : dels[r] \cup upds[r] # {} /\ (kind[r] = "replace" => dels[r] = {})
    /\ pc = [r \in Rpcs |-> "idle"] /\ res = [r \in Rpcs |-> "none"]
    /\ err = [r \in Rpcs |-> FALSE]
    /\ master = [high |-> 0, low |-> 0] /\ admitted = {}
    /\ running = [k \in Keys |-> IF k \in Present THEN Old ELSE Absent]
    /\ appl = [k \in Keys |-> Absent]
    /\ checkpoint = {}
    /\ patch = [r \in Rpcs |-> {}] /\ wrote = [r \in Rpcs |-> {}]
    /\ ver = 0 /\ saved = 0 /\ late = {} /\ applied = [r \in Rpcs |-> 0]

Go(r, from, to) == pc[r] = from /\ pc' = [pc EXCEPT ![r] = to]
Answer(r, a) == res' = [res EXCEPT ![r] = a]

\* The host may fail a call, whatever its arguments.
Fails == Faults

\* ReqFromMasterEnabledMA, the comparison under maMu, and ReqFromMasterDisabledMA
ArbitrateDeny(r) ==
    /\ \E e \in eid[r] : Compare(master, e) = 1
    /\ Go(r, "idle", "done") /\ Answer(r, "denied")
    /\ UNCHANGED <<request, err, election, store, appl, checkpoint, patch, saved, late>>

ArbitrateAdmit(r) ==
    /\ \A e \in eid[r] : Compare(master, e) # 1
    /\ Go(r, "idle", "admitted")
    /\ (eid[r] = {} /\ master' = master) \/ master' \in eid[r]
    /\ admitted' = admitted \cup eid[r]
    /\ UNCHANGED <<request, res, err, store, appl, checkpoint, patch, saved, late>>

\* Server.Set returns with an error before it has changed anything: writing is disabled,
\* the origin or an extension is invalid, the client cannot be made or is not authenticated,
\* or SetFullConfig finds the configuration invalid.
Refuse(r) ==
    /\ Fails
    /\ \E from \in {"idle", "admitted"} : Go(r, from, "done")
    /\ Answer(r, "error")
    /\ UNCHANGED <<request, err, election, store, appl, checkpoint, patch, saved, late>>

\* TrySet's conditions, MixedDbClient.Set and SetConfigDB; SetFullConfig leaves the
\* configuration alone.
Route(r) ==
    /\ pc[r] = "admitted"
    /\ pc' = [pc EXCEPT ![r] =
         CASE kind[r] \in {"bypass", "appl"} -> "ops"
           [] kind[r] = "patch" -> "create"
           [] kind[r] \in {"replace", "transl"} -> "apply"
           [] OTHER -> "startup"]
    /\ patch' = [patch EXCEPT ![r] = Ops(dels[r], upds[r])]
    /\ UNCHANGED <<request, res, err, election, store, appl, checkpoint, saved, late>>

After(r, op) == IF op[1] = "del" THEN Absent ELSE r

\* What several operations of r make of a configuration, the deletions first.
Patched(c, r, ops) ==
    [k \in Keys |-> IF <<"upd", k>> \in ops THEN r ELSE IF <<"del", k>> \in ops THEN Absent ELSE c[k]]

Written(r, ops) == wrote' = [wrote EXCEPT ![r] = @ \cup {op[2] : op \in ops}]

\* Mutant: the change is lost, and the RPC goes on.
MutCommit(r, c, ops) ==
    /\ running' = running /\ ver' = ver
    /\ applied' = [applied EXCEPT ![r] = ver + 1]
    /\ Written(r, ops)

Commit(r, c, ops) ==
    /\ running' = c /\ ver' = ver + 1
    /\ applied' = [applied EXCEPT ![r] = ver + 1]
    /\ Written(r, ops)

\* Mutant: the operations in any order.
MutFirst(r, op) == op \in patch[r]

\* Deletions come before updates.
First(r, op) ==
    /\ op \in patch[r]
    /\ op[1] = "upd" => \A k \in Keys : <<"del", k>> \notin patch[r]

\* One operation of bypass.Delete or bypass.Apply on CONFIG_DB ...
BypassOp(r, op) ==
    /\ pc[r] = "ops" /\ kind[r] = "bypass" /\ First(r, op)
    /\ Commit(r, [running EXCEPT ![op[2]] = After(r, op)], {op})
    /\ patch' = [patch EXCEPT ![r] = @ \ {op}]
    /\ UNCHANGED <<request, pc, res, err, election, appl, checkpoint, saved, late>>

\* ... or of SetDB and handleTableData on APPL_DB ...
SetDBOp(r, op) ==
    /\ pc[r] = "ops" /\ kind[r] = "appl" /\ First(r, op)
    /\ appl' = [appl EXCEPT ![op[2]] = After(r, op)]
    /\ Written(r, {op})
    /\ patch' = [patch EXCEPT ![r] = @ \ {op}]
    /\ UNCHANGED <<request, pc, res, err, election, running, ver, applied, checkpoint, saved, late>>

\* ... each of which may fail and end the Set ...
OpFail(r) ==
    /\ Fails /\ patch[r] # {}
    /\ Go(r, "ops", "done") /\ Answer(r, "error")
    /\ UNCHANGED <<request, err, election, store, appl, checkpoint, patch, saved, late>>

\* ... until they are done; the bypass answers without saving.
OpsDone(r) ==
    /\ pc[r] = "ops" /\ patch[r] = {}
    /\ IF kind[r] = "bypass"
         THEN Go(r, "ops", "done") /\ Answer(r, "ok")
         ELSE Go(r, "ops", "startup") /\ UNCHANGED res
    /\ UNCHANGED <<request, err, election, store, appl, checkpoint, patch, saved, late>>

\* SetIncrementalConfig: CreateCheckPoint
CreateCheckPoint(r) ==
    /\ Go(r, "create", "read")
    /\ checkpoint' = {running}
    /\ UNCHANGED <<request, res, err, election, store, appl, patch, saved, late>>

CreateFail(r) ==
    /\ Fails
    /\ Go(r, "create", "done") /\ Answer(r, "error")
    /\ checkpoint' \in {checkpoint, {running}}
    /\ UNCHANGED <<request, err, election, store, appl, patch, saved, late>>

\* NewJsonClient reads the file, and the patch is made: a deletion of what the
\* checkpoint does not have is left out, and an empty patch is not applied.
ReadCheckPoint(r) ==
    /\ pc[r] = "read"
    /\ \E c \in checkpoint :
          LET ops == Ops({k \in dels[r] : c[k] # Absent}, upds[r])
          IN  /\ patch' = [patch EXCEPT ![r] = ops]
              /\ pc' = [pc EXCEPT ![r] = IF ops = {} THEN "uncheck" ELSE "apply"]
    /\ UNCHANGED <<request, res, err, election, store, appl, checkpoint, saved, late>>

\* Mutant: a missing file is waited for.
MutReadFail(r) ==
    /\ Fails
    /\ Go(r, "read", "uncheck")
    /\ err' = [err EXCEPT ![r] = TRUE]
    /\ UNCHANGED <<request, res, election, store, appl, checkpoint, patch, saved, late>>

ReadFail(r) ==
    /\ checkpoint = {} \/ Fails
    /\ Go(r, "read", "uncheck")
    /\ err' = [err EXCEPT ![r] = TRUE]
    /\ UNCHANGED <<request, res, election, store, appl, checkpoint, patch, saved, late>>

Removable(r) == \A k \in Keys : <<"del", k>> \in patch[r] => running[k] # Absent

\* What the host makes of CONFIG_DB for ApplyPatchDb, which removes only what is there, ...
HostPatch(r) == Removable(r) /\ Commit(r, Patched(running, r, patch[r]), patch[r])

\* ... and for ConfigReplace.
HostReplace(r) == Commit(r, [k \in Keys |-> IF k \in upds[r] THEN r ELSE Absent], Ops(Keys, {}))

ApplyPatch(r) ==
    /\ kind[r] = "patch" /\ Go(r, "apply", "save") /\ HostPatch(r)
    /\ UNCHANGED <<request, res, err, election, appl, checkpoint, patch, saved, late>>

\* ReplaceFullConfig
ConfigReplace(r) ==
    /\ kind[r] = "replace" /\ Go(r, "apply", "save") /\ HostReplace(r)
    /\ UNCHANGED <<request, res, err, election, appl, checkpoint, patch, saved, late>>

\* The host comes to a change nobody waits for any more.
HostLate(r) ==
    /\ r \in late /\ late' = late \ {r}
    /\ \/ kind[r] = "patch" /\ HostPatch(r)
       \/ kind[r] = "patch" /\ ~Removable(r) /\ UNCHANGED store
       \/ kind[r] = "replace" /\ HostReplace(r)
    /\ UNCHANGED <<request, pc, res, err, election, appl, checkpoint, patch, saved>>

\* TranslClient.Set: one transaction of translib
TranslSet(r) ==
    /\ kind[r] = "transl" /\ Go(r, "apply", "startup")
    /\ Commit(r, Patched(running, r, patch[r]), patch[r])
    /\ UNCHANGED <<request, res, err, election, appl, checkpoint, patch, saved, late>>

\* The call fails, or DbusApi gives up waiting for the answer.
Unapplied(r) ==
    /\ IF kind[r] = "patch"
         THEN /\ Go(r, "apply", "uncheck") /\ err' = [err EXCEPT ![r] = TRUE]
              /\ UNCHANGED res
         ELSE Go(r, "apply", "done") /\ Answer(r, "error") /\ UNCHANGED err
    /\ UNCHANGED <<request, election, store, appl, checkpoint, patch, saved>>

ApplyFail(r) ==
    /\ Fails \/ (kind[r] = "patch" /\ ~Removable(r))
    /\ Unapplied(r) /\ UNCHANGED late

ApplyTimeout(r) ==
    /\ Fails /\ kind[r] \in {"patch", "replace"}
    /\ Unapplied(r) /\ late' = late \cup {r}

\* ConfigSave after the patch or the replacement
Save(r) ==
    /\ pc[r] = "save"
    /\ pc' = [pc EXCEPT ![r] = IF kind[r] = "patch" THEN "uncheck" ELSE "startup"]
    /\ saved' = ver
    /\ UNCHANGED <<request, res, err, election, store, appl, checkpoint, patch, late>>

\* Mutant: an error of ConfigSave is only logged.
MutSaveFail(r) ==
    /\ Fails /\ pc[r] = "save"
    /\ pc' = [pc EXCEPT ![r] = IF kind[r] = "patch" THEN "uncheck" ELSE "startup"]
    /\ UNCHANGED <<request, res, err, election, store, appl, checkpoint, patch, saved, late>>

SaveFail(r) ==
    /\ Fails /\ saved' \in {saved, ver}
    /\ IF kind[r] = "patch"
         THEN /\ Go(r, "save", "uncheck") /\ err' = [err EXCEPT ![r] = TRUE]
              /\ UNCHANGED res
         ELSE Go(r, "save", "done") /\ Answer(r, "error") /\ UNCHANGED err
    /\ UNCHANGED <<request, election, store, appl, checkpoint, patch, late>>

\* Mutant: the checkpoint is deleted only by a Set that has succeeded.
MutDeleteCheckPoint(r) ==
    /\ pc[r] = "uncheck"
    /\ checkpoint' = IF err[r] THEN checkpoint ELSE {}
    /\ IF err[r] THEN Go(r, "uncheck", "done") /\ Answer(r, "error")
       ELSE Go(r, "uncheck", "startup") /\ UNCHANGED res
    /\ UNCHANGED <<request, err, election, store, appl, patch, saved, late>>

\* The deferred DeleteCheckPoint, and the return of SetIncrementalConfig
DeleteCheckPoint(r) ==
    /\ pc[r] = "uncheck"
    /\ checkpoint' = {} \/ (Fails /\ checkpoint' = checkpoint)
    /\ IF err[r] THEN Go(r, "uncheck", "done") /\ Answer(r, "error")
       ELSE Go(r, "uncheck", "startup") /\ UNCHANGED res
    /\ UNCHANGED <<request, err, election, store, appl, patch, saved, late>>

\* Server.Set after dc.Set: SaveStartupConfig, whose error is not looked at
SaveStartupConfig(r) ==
    /\ Go(r, "startup", "done") /\ Answer(r, "ok")
    /\ \/ saved' = IF SaveOnSet THEN ver ELSE saved
       \/ Fails /\ saved' = saved
    /\ UNCHANGED <<request, err, election, store, appl, checkpoint, patch, late>>

Rpc(r) ==
    \/ ArbitrateDeny(r) \/ ArbitrateAdmit(r) \/ Refuse(r) \/ Route(r)
    \/ (\E op \in patch[r] : BypassOp(r, op) \/ SetDBOp(r, op)) \/ OpFail(r) \/ OpsDone(r)
    \/ CreateCheckPoint(r) \/ CreateFail(r) \/ ReadCheckPoint(r) \/ ReadFail(r)
    \/ ApplyPatch(r) \/ ConfigReplace(r) \/ TranslSet(r) \/ ApplyFail(r) \/ ApplyTimeout(r)
    \/ Save(r) \/ SaveFail(r) \/ DeleteCheckPoint(r) \/ SaveStartupConfig(r)

Next == \E r \in Rpcs : Rpc(r) \/ HostLate(r)

Spec == Init /\ [][Next]_vars
FairSpec == Spec /\ \A r \in Rpcs : WF_vars(Rpc(r))

-----------------------------------------------------------------------------
(* Properties *)

\* The variables have their types.
TypeOK ==
    /\ pc \in [Rpcs -> Locations] /\ res \in [Rpcs -> {"none", "ok", "error", "denied"}]
    /\ err \in [Rpcs -> BOOLEAN]
    /\ master \in Eids /\ admitted \subseteq Eids
    /\ running \in Config /\ appl \in Config /\ checkpoint \subseteq Config
    /\ patch \in [Rpcs -> SUBSET ({"del", "upd"} \X Keys)] /\ wrote \in [Rpcs -> SUBSET Keys]
    /\ late \subseteq Rpcs /\ ver \in Nat /\ saved \in 0..ver /\ applied \in [Rpcs -> 0..ver]

\* The number an election id stands for.
Number(e) == e.high * Word + e.low

\* Elections only move forward: a request let through by the master arbitration has an
\* election id no smaller, as a number of two words, than any let through before it.
ElectionOrder ==
    [][\A r \in Rpcs : pc[r] = "idle" /\ pc'[r] = "admitted" =>
          \A e \in eid[r], f \in admitted : Number(f) <= Number(e)]_vars

\* The updates of an acknowledged Set are there, also of keys it deletes too, unless
\* another Set has changed the key.
AckedUpdatesHold ==
    \A r \in Rpcs : res[r] = "ok" /\ kind[r] # "full" =>
        \A k \in upds[r] :
            \/ (IF kind[r] = "appl" THEN appl ELSE running)[k] = r
            \/ \E o \in Rpcs \ {r} : k \in wrote[o]

\* An acknowledged change that went through D-Bus is in config_db.json.
AckedIsSaved ==
    \A r \in Rpcs : res[r] = "ok" /\ kind[r] \in {"patch", "replace"} => applied[r] <= saved

\* What Set acknowledges is so: the updates are in the database and, through D-Bus, in
\* config_db.json too.
AckedHolds == AckedUpdatesHold /\ AckedIsSaved

\* Sets share one checkpoint file; when all are over, also with an error because one has
\* deleted what another needed, and the host has not failed, it is gone.
NoCheckpointLeft ==
    (\A r \in Rpcs : pc[r] \in {"idle", "done"}) => checkpoint = {}

\* Every Set is answered.
Answered == \A r \in Rpcs : <>(res[r] # "none")

=============================================================================
