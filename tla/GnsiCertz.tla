------------------------------ MODULE GnsiCertz ------------------------------
(***************************************************************************)
(* gNSI Certz.Rotate (gnmi_server/gnsi_certz.go): a client uploads a       *)
(* server certificate with its key, a trust bundle, a bundle of revocation *)
(* lists or an authentication policy, which are in force at once, and      *)
(* finalizes; if it goes away first everything is taken back.  TLS reads   *)
(* certificate, key and trust bundle through symbolic links for every      *)
(* connection, under muPath (SrvAdvConfig in gnmi_server/server.go).       *)
(*                                                                         *)
(* A handler is turned into the sequence of its effects, todo, one of      *)
(* which is a step, so that the process can be killed, and an effect can   *)
(* fail, between any two.  Every upload has a number of its own, that of   *)
(* its files and of its date; 0 is what was provisioned.                   *)
(***************************************************************************)
EXTENDS Integers, Sequences, FiniteSets

CONSTANTS
    Rpcs,          \* the Rotate RPCs
    Versions,      \* the versions clients use
    MaxUploads,    \* bound on the entities uploaded
    MaxFaults      \* bound on the effects that fail and the restarts

Types == {"cert", "tb", "crl", "ap"}
Ids == 0..MaxUploads
None == -1                        \* no such file; an empty path
Empty == -2                       \* a policy that was cut short
Lists == <<"x", "y">>             \* names of revocation lists

VARIABLES
    files,            \* the certificate, key and trust bundle files there are
    link,             \* SrvCertLnk, SrvKeyLnk and CaCertLnk
    crl,              \* the directory of lists and the one to go back to
    policy,           \* FedPolicyFile and its .bak
    active, last,     \* ActiveEntities and LastEntities of the default profile
    generatedKey,     \* the key of a CSR is there
    metaFile, db,     \* CertzMetaFile; the columns of STATE_DB
    rpc, phase, todo, \* the RPCs; what the open one, or the starting server, does
    force,            \* ForceOverwrite of the request
    uploads, faults,  \* counts
    adv,              \* the server was given the TLS options of SrvAdvConfig
    before, lost      \* history: the state at TryLock; what went wrong since

store == <<files, link, crl, policy>>
profile == <<active, last, generatedKey>>
vars == <<store, profile, metaFile, db, rpc, phase, todo, force, uploads, faults, adv, before, lost>>

Entities == [cert : Ids \cup {None}, key : Ids \cup {None}, date : Ids, version : Versions \cup {"V1", ""}, final : BOOLEAN]
Groups == [Types -> Entities]
Dir == [{"x", "y"} -> Ids \cup {None}]
EmptyDir == [l \in {"x", "y"} |-> None]
Phases == {"up", "first", "recv", "upload", "send", "revert", "finalize", "boot", "down"}

\* The state keeps its types and bounds.
TypeOK ==
    /\ files \subseteq {"cert", "key", "tb"} \X Ids
    /\ link \in [{"cert", "key", "tb"} -> Ids \cup {None}]
    /\ crl \in [{"dir", "flush"} -> Dir]
    /\ policy \in [{"file", "bak"} -> Ids \cup {None, Empty}]
    /\ active \in Groups /\ last \in Groups
    /\ generatedKey \in BOOLEAN /\ force \in BOOLEAN /\ adv \in BOOLEAN
    /\ metaFile \in [whole : BOOLEAN, active : Groups, last : Groups]
    /\ db \in [created : [Types -> Ids], version : [Types -> Versions \cup {"V1", ""}]]
    /\ rpc \in [Rpcs -> {"idle", "open", "ok", "aborted"}]
    /\ phase \in Phases /\ uploads \in 0..MaxUploads /\ faults \in 0..MaxFaults
    /\ lost \subseteq {"link", "file", "crl", "db", "crash"}
-----------------------------------------------------------------------------
Exists(k, i) == <<k, i>> \in files
Has(k, i) == i # None /\ Exists(k, i)

\* restoreFromFile: what the link points to, else the file of the configuration.
RestoreFromFile(k) == IF Has(k, link[k]) THEN link[k] ELSE IF Exists(k, 0) THEN 0 ELSE None

Bootstrapped(c, k) == [cert |-> c, key |-> k, date |-> 0, version |-> "V1", final |-> TRUE]
EmptyEntity == [cert |-> None, key |-> None, date |-> 0, version |-> "", final |-> FALSE]

BootstrapDefaultProfile ==
    [t \in Types |-> CASE t = "cert" -> Bootstrapped(RestoreFromFile("cert"), RestoreFromFile("key"))
                       [] t = "tb"   -> Bootstrapped(RestoreFromFile("tb"), None)
                       [] OTHER      -> Bootstrapped(0, None)]

\* writeEntityFreshness, whose failures are only logged.
WriteEntityFreshness(t, e) ==
    <<[op |-> "created", t |-> t, date |-> e.date], [op |-> "version", t |-> t, version |-> e.version]>>

FreshnessOf(group) ==
    WriteEntityFreshness("cert", group["cert"]) \o WriteEntityFreshness("tb", group["tb"])
        \o WriteEntityFreshness("crl", group["crl"]) \o WriteEntityFreshness("ap", group["ap"])

\* saveCertzMetadata: os.WriteFile truncates the file and then writes it.
SaveCertzMetadata == <<[op |-> "truncate"], [op |-> "save"]>>

\* atomicSetSrvCertKeyPair and atomicSetCACert; "old" is what a failure restores.
Unlink(l) == [op |-> "unlink", l |-> l, old |-> link]
Relink(l, i) == [op |-> "link", l |-> l, to |-> i, old |-> link]
AtomicSetSrvCertKeyPair(c, k) == <<Unlink("cert"), Unlink("key"), Relink("cert", c), Relink("key", k)>>
AtomicSetCACert(c) == <<Unlink("tb"), Relink("tb", c)>>

\* removeEntityFiles: lists and policies have no files of their own.
RemoveEntityFiles(t, e) ==
    CASE t = "cert" -> <<[op |-> "remove", f |-> <<"cert", e.cert>>], [op |-> "remove", f |-> <<"key", e.key>>]>>
      [] t = "tb"   -> <<[op |-> "remove", f |-> <<"tb", e.cert>>]>>
      [] OTHER      -> <<>>

\* The names of a directory that are taken, in the order of os.ReadDir.
Taken(d) == SelectSeq(Lists, LAMBDA l : d[l] # None)
Removals(where, d) == [i \in 1..Len(Taken(d)) |-> [op |-> "list", dir |-> where, l |-> Taken(d)[i], to |-> None]]

CopyCRLBundle(from, to) ==
    Removals(to, crl[to]) \o [i \in 1..Len(Taken(crl[from])) |->
        [op |-> "list", dir |-> to, l |-> Taken(crl[from])[i], to |-> crl[from][Taken(crl[from])[i]]]]

\* rotateCRLBundle: lists are written as they are validated; if the last is bad, so is the bundle.
Bundle(two) == IF two THEN Lists ELSE <<"x">>
ListWrites(ls, i) == [j \in 1..Len(ls) |-> [op |-> "list", dir |-> "dir", l |-> ls[j], to |-> i]]
RotateCRLBundle(i, two, bad) ==
    LET ls == Bundle(two)
        written == [l \in {"x", "y"} |-> IF l = "x" \/ two THEN i ELSE crl["dir"][l]]
    IN  IF bad THEN ListWrites(SubSeq(ls, 1, Len(ls) - 1), i) \o <<[op |-> "refuse", wrote |-> two]>>
        ELSE ListWrites(ls, i) \o Removals("dir", written) \o ListWrites(ls, i)

\* saveEntities; what is bad in a certificate or a trust bundle is found before a write.
SaveEntities(t, i, two, bad) ==
    CASE t = "cert" -> <<[op |-> "write", f |-> <<"key", i>>], [op |-> "write", f |-> <<"cert", i>>]>>
      [] t = "tb"   -> <<[op |-> "write", f |-> <<"tb", i>>]>>
      [] t = "crl"  -> RotateCRLBundle(i, two, bad)
      [] t = "ap"   -> (IF policy["bak"] = None THEN <<[op |-> "backup"]>> ELSE <<>>)
                       \o <<[op |-> "policy", to |-> Empty], [op |-> "policy", to |-> i]>>

ActivateEntity(t, e) ==
    (CASE t = "cert" -> AtomicSetSrvCertKeyPair(e.cert, e.key)
       [] t = "tb"   -> AtomicSetCACert(e.cert)
       [] OTHER      -> <<>>)
    \o <<[op |-> "activate", t |-> t, e |-> e]>> \o WriteEntityFreshness(t, e)

NewGenericEntity(t, i, v) ==
    [cert |-> i, key |-> IF t = "cert" THEN i ELSE None, date |-> i, version |-> v, final |-> FALSE]

Back(t) == WriteEntityFreshness(t, last[t]) \o RemoveEntityFiles(t, active[t]) \o <<[op |-> "back", t |-> t]>>
\* Mutant: the links are left alone.
MutRevertOf(t) == IF active[t].final THEN <<>> ELSE Back(t)

RevertOf(t) ==
    IF active[t].final THEN <<>>
    ELSE CASE t = "cert" -> AtomicSetSrvCertKeyPair(last[t].cert, last[t].key) \o Back(t)
           [] t = "tb"   -> AtomicSetCACert(last[t].cert) \o Back(t)
           [] t = "crl"  -> CopyCRLBundle("flush", "dir") \o Back(t)
           [] t = "ap"   -> <<[op |-> "restore"]>> \o Back(t)

RevertProfile == RevertOf("cert") \o RevertOf("tb") \o RevertOf("crl") \o RevertOf("ap")

\* Mutant: the lists to go back to are not replaced.
MutFinalOf(t) ==
    (IF ~active[t].final /\ t \in {"cert", "tb"} THEN RemoveEntityFiles(t, last[t]) ELSE <<>>)
    \o <<[op |-> "final", t |-> t]>>

FinalOf(t) ==
    (IF active[t].final THEN <<>>
     ELSE CASE t \in {"cert", "tb"} -> RemoveEntityFiles(t, last[t])
            [] t = "crl" -> CopyCRLBundle("dir", "flush")
            [] t = "ap"  -> <<[op |-> "drop"]>>)
    \o (IF t = "crl" /\ active[t].final THEN <<>> ELSE <<[op |-> "final", t |-> t]>>)

FinalizeProfile == FinalOf("cert") \o FinalOf("tb") \o FinalOf("crl") \o FinalOf("ap") \o SaveCertzMetadata

\* Mutant: only the trust bundle is looked for.
MutValidateProfileExists(g) == Has("tb", g["tb"].cert)

\* validateProfileExists and loadCertzMetadata: what was saved, unless its files are gone.
ValidateProfileExists(g) ==
    Has("cert", g["cert"].cert) /\ Has("key", g["cert"].key) /\ Has("tb", g["tb"].cert)
Loaded == metaFile.whole /\ ValidateProfileExists(metaFile.active)

\* SrvAdvConfig: the links are set to the files of the configuration if they lead nowhere.
LinksValid == Has("cert", link["cert"]) /\ Has("key", link["key"])
SrvAdvConfig ==
    (IF Has("tb", link["tb"]) THEN <<>> ELSE AtomicSetCACert(0))
    \o (IF LinksValid THEN <<>> ELSE AtomicSetSrvCertKeyPair(0, 0))
SrvAdvConfigOk == Exists("tb", 0) /\ (LinksValid \/ (Exists("cert", 0) /\ Exists("key", 0)))

\* A server that has been provisioned and has started for the first time.
Init ==
    /\ files = {"cert", "key", "tb"} \X {0}
    /\ adv \in BOOLEAN /\ link = [l \in {"cert", "key", "tb"} |-> IF adv THEN 0 ELSE None]
    /\ crl \in {[d \in {"dir", "flush"} |-> EmptyDir]} \cup
               {[d \in {"dir", "flush"} |-> IF d = "dir" THEN [EmptyDir EXCEPT !["y"] = 0] ELSE EmptyDir]}
    /\ policy = [p \in {"file", "bak"} |-> IF p = "file" THEN 0 ELSE None]
    /\ active = BootstrapDefaultProfile /\ last = [t \in Types |-> EmptyEntity] /\ generatedKey = FALSE
    /\ metaFile = [whole |-> TRUE, active |-> active, last |-> last]
    /\ db = [created |-> [t \in Types |-> 0], version |-> [t \in Types |-> "V1"]]
    /\ rpc = [r \in Rpcs |-> "idle"] /\ phase = "up" /\ todo = <<>> /\ force = FALSE
    /\ uploads = 0 /\ faults = 0
    /\ before = [link |-> link, crl |-> crl, policy |-> policy, active |-> active, db |-> db] /\ lost = {}
-----------------------------------------------------------------------------

\* TryLock; a second rotation is refused.
Rotate(r) ==
    /\ rpc[r] = "idle" /\ phase # "down"
    /\ IF phase = "up"
       THEN /\ rpc' = [rpc EXCEPT ![r] = "open"] /\ phase' = "first" /\ lost' = lost \cap {"link"}
            /\ before' = [link |-> link, crl |-> crl, policy |-> policy, active |-> active, db |-> db]
       ELSE /\ phase # "boot" /\ rpc' = [rpc EXCEPT ![r] = "aborted"]
            /\ UNCHANGED <<phase, before, lost>>
    /\ UNCHANGED <<store, profile, metaFile, db, todo, force, uploads, faults, adv>>

Begin(ph, ops) == phase' = ph /\ todo' = ops
Receiving == phase \in {"first", "recv"}

\* The stream ends or fails, or the request is none, is for an unknown profile or is refused,
\* or the first one is Finalize, of no profile.
Interrupted ==
    /\ Receiving /\ Begin("revert", RevertProfile)
    /\ UNCHANGED <<store, profile, metaFile, db, rpc, force, uploads, faults, adv, before, lost>>

\* doGenerateCsr; the suites that are not supported are refused.
DoGenerateCsr ==
    /\ Receiving /\ generatedKey' = TRUE /\ phase' = "send"
    /\ UNCHANGED <<store, active, last, metaFile, db, rpc, todo, force, uploads, faults, adv, before, lost>>

Refused(t, v, own, bad, overwrite) ==
    \/ ~overwrite /\ v = active[t].version          \* entityAlreadyActive
    \/ bad /\ t \in {"cert", "tb"}
    \/ t = "cert" /\ ~own /\ ~generatedKey

\* doUpload, of the first entity of a request or of one more.
DoUpload(t, v, own, two, bad) ==
    /\ uploads < MaxUploads
    /\ \/ Receiving /\ force' \in BOOLEAN
       \/ phase = "upload" /\ todo = <<>> /\ force' = force
    /\ IF Refused(t, v, own, bad, force')
       THEN Begin("revert", RevertProfile) /\ UNCHANGED uploads
       ELSE LET i == uploads + 1
            IN  /\ uploads' = i
                /\ Begin("upload", SaveEntities(t, i, two, bad) \o ActivateEntity(t, NewGenericEntity(t, i, v)))
    /\ UNCHANGED <<store, profile, metaFile, db, rpc, faults, adv, before, lost>>

\* The request is done and muPath free again.
Uploaded ==
    /\ phase = "upload" /\ todo = <<>> /\ phase' = "send"
    /\ UNCHANGED <<store, profile, metaFile, db, rpc, todo, force, uploads, faults, adv, before, lost>>

Send ==
    /\ phase = "send"
    /\ (phase' = "recv" /\ UNCHANGED todo) \/ Begin("revert", RevertProfile)
    /\ UNCHANGED <<store, profile, metaFile, db, rpc, force, uploads, faults, adv, before, lost>>

Finalize ==
    /\ phase = "recv" /\ Begin("finalize", FinalizeProfile)
    /\ UNCHANGED <<store, profile, metaFile, db, rpc, force, uploads, faults, adv, before, lost>>

\* The open RPC returns, or the server has started.
Return ==
    /\ phase \in {"revert", "finalize", "boot"} /\ todo = <<>> /\ phase' = "up"
    /\ rpc' = [r \in Rpcs |-> IF rpc[r] = "open" THEN IF phase = "finalize" /\ metaFile.whole THEN "ok" ELSE "aborted"
                              ELSE rpc[r]]
    /\ UNCHANGED <<store, profile, metaFile, db, todo, force, uploads, faults, adv, before, lost>>
-----------------------------------------------------------------------------
\* The effects.
Op(k) == todo # <<>> /\ Head(todo).op = k
Arg == Head(todo)
Unchanged == UNCHANGED <<generatedKey, rpc, force, uploads, adv, before>>

Done == todo' = Tail(todo) /\ UNCHANGED <<phase, lost, faults>>
Fault == faults < MaxFaults /\ faults' = faults + 1
\* An upload is given up and reverted; reverting, finalizing and starting go on.
Failed(what, rest) ==
    /\ lost' = lost \cup what
    /\ IF phase = "upload" THEN Begin("revert", RevertProfile) ELSE todo' = rest /\ UNCHANGED phase

\* attemptWrite of a certificate, key or trust bundle; os.Remove.
SetFile ==
    /\ \/ Op("write") /\ files' = files \cup {Arg.f} /\ Done
       \/ Op("remove") /\ files' = files \ {Arg.f} /\ Done
       \/ (Op("write") \/ Op("remove")) /\ Fault /\ UNCHANGED files /\ Failed({}, Tail(todo))
    /\ UNCHANGED <<link, crl, policy, active, last, db, metaFile>> /\ Unchanged

\* What remains once the rest of a change of links is given up.
AfterLinks ==
    LET isLink(i) == todo[i].op \in {"unlink", "link"}
        n == CHOOSE i \in 0..Len(todo) : (\A j \in 1..i : isLink(j)) /\ (i = Len(todo) \/ ~isLink(i + 1))
    IN  SubSeq(todo, n + 1, Len(todo))

\* restoreSymlink: only to a target that is there.
Restored(l) == IF Has(l, Arg.old[l]) THEN Arg.old[l] ELSE link[l]

\* rmSymlink or os.Symlink; if it fails the old links are restored as far as that works.
SetLink ==
    /\ Op("unlink") \/ Op("link")
    /\ \/ link' = [link EXCEPT ![Arg.l] = IF Arg.op = "link" THEN Arg.to ELSE None] /\ Done
       \/ /\ Fault
          /\ link' \in {link, [l \in DOMAIN link |-> Restored(l)]}
          /\ Failed(IF phase = "upload" /\ link' = Arg.old THEN {} ELSE {"link"}, AfterLinks)
    /\ UNCHANGED <<files, crl, policy, active, last, db, metaFile>> /\ Unchanged

\* A list is written or removed; what fails while copying or removing is only logged.
SetList ==
    /\ Op("list")
    /\ \/ crl' = [crl EXCEPT ![Arg.dir][Arg.l] = Arg.to] /\ Done
       \/ /\ Fault /\ crl' \in {crl, [crl EXCEPT ![Arg.dir][Arg.l] = None]}
          /\ IF Arg.to = None THEN lost' = lost \cup {"crl"} /\ todo' = Tail(todo) /\ UNCHANGED phase
             ELSE Failed({"crl"}, Tail(todo))
    /\ UNCHANGED <<files, link, policy, active, last, db, metaFile>> /\ Unchanged

\* A bad list in the bundle: the lists before it stay.
RefuseList ==
    /\ Op("refuse") /\ UNCHANGED faults /\ Failed(IF Arg.wrote THEN {"crl"} ELSE {}, <<>>)
    /\ UNCHANGED <<store, active, last, db, metaFile>> /\ Unchanged

\* os.Rename of the policy to its backup; there has to be one.
BackupPolicy ==
    /\ Op("backup")
    /\ \/ policy["file"] # None /\ policy' = [file |-> None, bak |-> policy["file"]] /\ Done
       \/ (Fault \/ (policy["file"] = None /\ UNCHANGED faults)) /\ UNCHANGED policy /\ Failed({}, Tail(todo))
    /\ UNCHANGED <<files, link, crl, active, last, db, metaFile>> /\ Unchanged

\* A policy that cannot be written is removed and the backup renamed, if that works.
WritePolicy ==
    /\ Op("policy")
    /\ \/ policy' = [policy EXCEPT !["file"] = Arg.to] /\ Done
       \/ Fault /\ policy' = [file |-> policy["bak"], bak |-> None] /\ Failed({}, Tail(todo))
       \/ Fault /\ policy' = [policy EXCEPT !["file"] = None] /\ Failed({"file"}, Tail(todo))
    /\ UNCHANGED <<files, link, crl, active, last, db, metaFile>> /\ Unchanged

RestorePolicy ==
    /\ Op("restore")
    /\ IF policy["bak"] = None THEN UNCHANGED policy /\ Done
       ELSE \/ policy' = [file |-> policy["bak"], bak |-> None] /\ Done
            \/ Fault /\ UNCHANGED policy /\ Failed({"file"}, Tail(todo))
    /\ UNCHANGED <<files, link, crl, active, last, db, metaFile>> /\ Unchanged

DropPolicyBackup ==
    /\ Op("drop")
    /\ \/ policy' = [policy EXCEPT !["bak"] = None] /\ Done
       \/ Fault /\ UNCHANGED policy /\ Failed({"file"}, Tail(todo))
    /\ UNCHANGED <<files, link, crl, active, last, db, metaFile>> /\ Unchanged

\* Mutant: what to go back to is always the entity before this one.
MutActivate ==
    /\ Op("activate") /\ Done
    /\ last' = [last EXCEPT ![Arg.t] = active[Arg.t]]
    /\ active' = [active EXCEPT ![Arg.t] = Arg.e]
    /\ UNCHANGED <<store, db, metaFile>> /\ Unchanged

\* The profile: only what is final becomes what to go back to.
Activate ==
    /\ Op("activate") /\ Done
    /\ last' = IF active[Arg.t].final THEN [last EXCEPT ![Arg.t] = active[Arg.t]] ELSE last
    /\ active' = [active EXCEPT ![Arg.t] = Arg.e]
    /\ UNCHANGED <<store, db, metaFile>> /\ Unchanged

GoBack ==
    /\ Op("back") /\ Done /\ active' = [active EXCEPT ![Arg.t] = last[Arg.t]]
    /\ UNCHANGED <<store, last, db, metaFile>> /\ Unchanged

MakeFinal ==
    /\ Op("final") /\ Done /\ active' = [active EXCEPT ![Arg.t].final = TRUE]
    /\ last' = [last EXCEPT ![Arg.t] = active'[Arg.t]]
    /\ UNCHANGED <<store, db, metaFile>> /\ Unchanged

\* writeCredentialsMetadataToDB; Redis may fail, or its answer be lost.
WriteDb ==
    /\ Op("created") \/ Op("version")
    /\ LET put == IF Arg.op = "created" THEN [db EXCEPT !.created[Arg.t] = Arg.date]
                  ELSE [db EXCEPT !.version[Arg.t] = Arg.version]
       IN  \/ db' = put /\ Done
           \/ /\ Fault /\ db' \in {db, put} /\ lost' = lost \cup {"db"}
              /\ todo' = Tail(todo) /\ UNCHANGED phase
    /\ UNCHANGED <<store, active, last, metaFile>> /\ Unchanged

\* A metadata file that cannot be written is removed.
SaveMeta ==
    /\ \/ Op("truncate") /\ metaFile' = [metaFile EXCEPT !.whole = FALSE] /\ Done
       \/ Op("save") /\ metaFile' = [whole |-> TRUE, active |-> active, last |-> last] /\ Done
       \/ /\ (Op("truncate") \/ Op("save")) /\ Fault /\ metaFile' = [metaFile EXCEPT !.whole = FALSE]
          /\ lost' = lost \cup {"file"} /\ todo' = <<>> /\ UNCHANGED phase
    /\ UNCHANGED <<store, active, last, db>> /\ Unchanged

\* NewGNSICertzServer.
Load ==
    /\ Op("load")
    /\ active' = IF Loaded THEN metaFile.active ELSE BootstrapDefaultProfile
    /\ last' = IF Loaded THEN metaFile.last ELSE [t \in Types |-> EmptyEntity]
    /\ todo' = FreshnessOf(active') \o SaveCertzMetadata
    /\ UNCHANGED <<store, db, phase, lost, faults, metaFile>> /\ Unchanged

\* The process is killed and starts again.
Crash ==
    /\ phase # "down" /\ Fault
    /\ rpc' = [r \in Rpcs |-> IF rpc[r] = "open" THEN "aborted" ELSE rpc[r]]
    /\ generatedKey' = FALSE
    /\ IF adv /\ ~SrvAdvConfigOk THEN Begin("down", <<>>)
       ELSE Begin("boot", (IF adv THEN SrvAdvConfig ELSE <<>>) \o <<[op |-> "load"]>>)
    /\ lost' = lost \cup {"crash"} \cup (IF Op("unlink") \/ Op("link") THEN {"link"} ELSE {})
    /\ UNCHANGED <<store, active, last, metaFile, db, force, uploads, adv, before>>

Effect ==
    \/ SetFile \/ SetLink \/ SetList \/ RefuseList \/ BackupPolicy \/ WritePolicy \/ RestorePolicy
    \/ DropPolicyBackup \/ Activate \/ GoBack \/ MakeFinal \/ WriteDb \/ SaveMeta \/ Load

Next ==
    \/ \E r \in Rpcs : Rotate(r)
    \/ Interrupted \/ DoGenerateCsr \/ Uploaded \/ Send \/ Finalize \/ Return \/ Effect \/ Crash
    \/ \E t \in Types, v \in Versions, own, two, bad \in BOOLEAN : DoUpload(t, v, own, two, bad)

Spec == Init /\ [][Next]_vars
-----------------------------------------------------------------------------
(* Whenever a connection may read them, outside of an upload, a revert and  *)
(* a start, the links lead to files that are there, and certificate and key *)
(* are those of one upload: no rotation, aborted, finalized or cut short by *)
(* a restart removes a file that is in use.  Replacing a link that fails or *)
(* is cut short in the middle is the exception.                             *)
LinksServe ==
    phase \in {"up", "first", "recv", "send", "finalize"} /\ "link" \notin lost =>
        /\ \A l \in DOMAIN link : link[l] = None \/ Exists(l, link[l])
        /\ link["cert"] = link["key"]

(* As long as the client may still go away, what is to be restored is       *)
(* there: the files of the last certificate and trust bundle and the backup *)
(* of the policy, however many entities of a kind a rotation uploads and    *)
(* whatever earlier rotations and restarts left behind.                     *)
RevertPossible ==
    phase \in {"first", "recv", "upload", "send"} /\ "link" \notin lost =>
        /\ ~active["cert"].final => Has("cert", last["cert"].cert) /\ Has("key", last["cert"].key)
        /\ ~active["tb"].final => Has("tb", last["tb"].cert)
        /\ ~active["ap"].final => policy["bak"] # None

(* No file is removed too early: neither one the links lead to nor one that  *)
(* a revert of the open rotation would need.                                *)
FilesKept == LinksServe /\ RevertPossible

\* Nothing of an earlier rotation was in force or to be restored at TryLock.
SettledBefore ==
    /\ before.link["cert"] \in {None, before.active["cert"].cert}
    /\ before.link["key"] \in {None, before.active["cert"].key}
    /\ before.link["tb"] \in {None, before.active["tb"].cert}
    /\ before.crl["dir"] = before.crl["flush"] /\ before.policy["bak"] = None
    /\ before.db = [created |-> [t \in Types |-> before.active[t].date],
                    version |-> [t \in Types |-> before.active[t].version]]

SameLink(l, i) == link'[l] = before.link[l] \/ (before.link[l] = None /\ link'[l] = i)

(* "Revert all changes made until now.": a rotation the client leaves       *)
(* without Finalize, or that is refused or fails at any point, leaves       *)
(* links, lists, policy, profile and STATE_DB as they were when it took the *)
(* mutex, unless an effect of the revert fails or a bundle is refused       *)
(* after its first list was written.                                        *)
AbortRestores ==
    [][\A r \in Rpcs : rpc[r] = "open" /\ rpc'[r] = "aborted" /\ phase' = "up" /\ lost = {} /\ SettledBefore =>
         /\ active' = before.active /\ crl' = before.crl /\ policy' = before.policy /\ db' = before.db
         /\ SameLink("cert", before.active["cert"].cert) /\ SameLink("key", before.active["cert"].key)
         /\ SameLink("tb", before.active["tb"].cert)]_vars

InForce(t) ==
    /\ active[t].final /\ last[t] = active[t] /\ metaFile.active[t] = active[t]
    /\ t = "cert" => LinksValid /\ link["cert"] = active[t].cert /\ link["key"] = active[t].key
    /\ t = "tb" => Exists("tb", active[t].cert) /\ link["tb"] = active[t].cert
    /\ t = "crl" /\ "crl" \notin lost =>
        crl["flush"] = crl["dir"] /\ \A l \in {"x", "y"} : crl["dir"][l] \in {None, active[t].date}
    /\ t = "ap" /\ "file" \notin lost => policy["file"] = active[t].date /\ policy["bak"] = None
    /\ "db" \notin lost => db.created[t] = active[t].date /\ db.version[t] = active[t].version

(* What a rotation that returns success has uploaded is in force on every   *)
(* side: links, files, lists and policy, the profile in memory, the one a   *)
(* restart loads, and STATE_DB.                                             *)
FinalizedInForce ==
    [][\A r \in Rpcs : rpc[r] = "open" /\ rpc'[r] = "ok" =>
         \A t \in Types : active[t].date # before.active[t].date => InForce(t)]_vars
=============================================================================
