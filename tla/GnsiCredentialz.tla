--------------------------- MODULE GnsiCredentialz ---------------------------
(***************************************************************************)
(* gNSI Credentialz (gnmi_server/gnsi_credentialz.go): the rotation of an  *)
(* account's SSH keys, SSH principals and console password, and of the     *)
(* host's SSH CA keys and GLOME configuration.  The host service applies   *)
(* them and keeps the checkpoints (D-Bus, external); the server keeps      *)
(* versions and dates in memory, in STATE_DB and in files.                 *)
(*                                                                         *)
(* As in GnsiCertz a handler is the sequence of its effects, todo, each of *)
(* which can fail, and the process can be killed between any two.  A       *)
(* credential is the number of its upload, which is its version and date.  *)
(***************************************************************************)
EXTENDS Naturals, Sequences, FiniteSets

CONSTANTS
    Rpcs,          \* the Rotate RPCs
    MaxUploads,    \* bound on the credentials uploaded
    MaxFaults      \* bound on the effects that fail and the restarts

Account == {"keys", "users", "password"}        \* RotateAccountCredentials
HostParams == {"ca", "glome"}                   \* RotateHostParameters
Kinds == Account \cup HostParams
Versioned == Kinds \ {"glome"}
Sources == {"ssh", "console", "glome"}          \* what the host service checkpoints
SourceOf(k) == CASE k = "password" -> "console" [] k = "glome" -> "glome" [] OTHER -> "ssh"
Of(s) == {k \in Kinds : SourceOf(k) = s}
Ids == 0..MaxUploads

VARIABLES
    host, saved,      \* what the host uses; its checkpoint of every source
    db,               \* STATE_DB: version and date
    meta, copyCa,     \* sshCredMetadata and consoleCredMetadata; the copy of the host's part
    glome,            \* glomeConfigMetadata, to roll STATE_DB back to
    file,             \* the metadata files
    rpc, phase, todo, \* the RPCs and what the open one, or the starting server, does
    backups,          \* the sources the open RPC has checkpointed
    onHost,           \* it is a RotateHostParameters
    uploads, faults,  \* counts
    before, lost      \* history: the state at TryLock; what went wrong since

vars == <<host, saved, db, meta, copyCa, glome, file, rpc, phase, todo, backups, onHost, uploads, faults, before, lost>>

Fresh == [version : Ids, created : Ids]
Dated(i) == [version |-> i, created |-> i]

\* The state keeps its types and bounds.
TypeOK ==
    /\ host \in [Kinds -> Ids]
    /\ \A s \in Sources : saved[s] \subseteq [Of(s) -> Ids]
    /\ db \in [Kinds -> Fresh] /\ meta \in [Versioned -> Fresh] /\ file \in [Versioned -> Fresh]
    /\ copyCa \in Fresh /\ glome \in Fresh
    /\ rpc \in [Rpcs -> {"idle", "open", "ok", "aborted"}]
    /\ phase \in {"up", "recv", "process", "send", "restore", "end", "boot"}
    /\ backups \subseteq Sources /\ onHost \in BOOLEAN
    /\ uploads \in Ids /\ faults \in 0..MaxFaults
    /\ lost \subseteq {"host", "db", "file", "unknown", "create", "crash", "staleGlome"}

\* A switch with its first credentials, on which the server has started.
Init ==
    /\ host = [k \in Kinds |-> 0] /\ saved = [s \in Sources |-> {}]
    /\ db = [k \in Kinds |-> Dated(0)] /\ meta = [k \in Versioned |-> Dated(0)] /\ file = meta
    /\ copyCa = Dated(0) /\ glome = Dated(0)
    /\ rpc = [r \in Rpcs |-> "idle"] /\ phase = "up" /\ todo = <<>> /\ backups = {} /\ onHost = FALSE
    /\ uploads = 0 /\ faults = 0 /\ before = [host |-> host, db |-> db, meta |-> meta] /\ lost = {}
-----------------------------------------------------------------------------
\* Effects; the columns of one credential are written one after the other.
HostSet(k, i) == [op |-> "set", k |-> k, i |-> i]
HostCp(s, what) == [op |-> what, s |-> s]
WriteMetadata(k, m) == <<[op |-> "db", k |-> k, col |-> "version", i |-> m.version],
                         [op |-> "db", k |-> k, col |-> "created", i |-> m.created]>>
SaveFreshness(s) == [op |-> "save", s |-> s]

\* Mutant: only the metadata of SSH are saved.
MutDeferred(B) == IF "ssh" \in B THEN <<SaveFreshness("ssh")>> ELSE <<>>

\* The deferred saves run when the handler returns; those of GLOME do not exist.
Deferred(B) == (IF "console" \in B THEN <<SaveFreshness("console")>> ELSE <<>>)
               \o (IF "ssh" \in B THEN <<SaveFreshness("ssh")>> ELSE <<>>)

\* Mutant: the CA keys' version is not written back.
MutRevertFreshness(s) ==
    CASE s = "ssh" -> WriteMetadata("keys", meta["keys"]) \o WriteMetadata("users", meta["users"])
      [] s = "console" -> WriteMetadata("password", meta["password"])
      [] s = "glome" -> <<[op |-> "glomeDb"]>>

\* The copy of the accounts is the same map, so what is written back is what is there.
RevertFreshness(s) ==
    CASE s = "ssh" -> WriteMetadata("ca", copyCa) \o WriteMetadata("keys", meta["keys"]) \o WriteMetadata("users", meta["users"])
      [] s = "console" -> WriteMetadata("password", meta["password"])
      [] s = "glome" -> <<[op |-> "glomeDb"]>>

CheckpointRestore(s) == <<HostCp(s, "restore")>> \o RevertFreshness(s)
CheckpointDelete(s) == <<HostCp(s, "delete")>>

ForAll(B, f(_)) == (IF "ssh" \in B THEN f("ssh") ELSE <<>>) \o (IF "console" \in B THEN f("console") ELSE <<>>)
                   \o (IF "glome" \in B THEN f("glome") ELSE <<>>)

\* Each is told to the host, then its version and date are written.
ProcessSshCred(i) == <<HostSet("keys", i)>> \o WriteMetadata("keys", Dated(i))
ProcessSshUser(i) == <<HostSet("users", i)>> \o WriteMetadata("users", Dated(i))
ProcessConsolePassword(i) == <<HostSet("password", i)>> \o WriteMetadata("password", Dated(i))
ProcessSshCaPublicKey(i) == <<HostSet("ca", i)>> \o WriteMetadata("ca", Dated(i))
ProcessGlomeConfig(i) == <<HostSet("glome", i), [op |-> "updateGlomeState", m |-> Dated(i)]>>

\* checkpointCreate comes first when the source has none yet in this RPC; GLOME is checkpointed by the host.
Process(k, i) ==
    (IF SourceOf(k) \in backups \/ k = "glome" THEN <<>> ELSE <<HostCp(SourceOf(k), "create")>>)
    \o (CASE k = "keys" -> ProcessSshCred(i) [] k = "users" -> ProcessSshUser(i)
          [] k = "password" -> ProcessConsolePassword(i) [] k = "ca" -> ProcessSshCaPublicKey(i)
          [] k = "glome" -> ProcessGlomeConfig(i))
-----------------------------------------------------------------------------
Begin(ph, ops) == phase' = ph /\ todo' = ops
stores == <<host, saved, db, meta, copyCa, glome, file>>

\* TryLock; a second rotation of either kind is refused.
Rotate(r) ==
    /\ rpc[r] = "idle"
    /\ IF phase = "up"
       THEN /\ rpc' = [rpc EXCEPT ![r] = "open"] /\ phase' = "recv" /\ onHost' \in BOOLEAN
            /\ backups' = {} /\ before' = [host |-> host, db |-> db, meta |-> meta] /\ lost' = {}
       ELSE /\ phase # "boot" /\ rpc' = [rpc EXCEPT ![r] = "aborted"]
            /\ UNCHANGED <<phase, onHost, backups, before, lost>>
    /\ UNCHANGED <<stores, todo, uploads, faults>>

Restore == Begin("restore", ForAll(backups, CheckpointRestore) \o Deferred(backups))

\* The stream ends or fails.
Interrupted ==
    /\ phase = "recv" /\ Restore
    /\ UNCHANGED <<stores, rpc, backups, onHost, uploads, faults, before, lost>>

\* A request of no known kind, or of one that is not implemented, ends the RPC as it is.
UnknownRequest ==
    /\ phase = "recv" /\ (onHost => backups = {})
    /\ Begin("restore", Deferred(backups)) /\ lost' = lost \cup {"unknown"}
    /\ UNCHANGED <<stores, rpc, backups, onHost, uploads, faults, before>>

\* A credential that lacks something, after the checkpoint that its handler makes first.
RefuseUpload(k) ==
    /\ phase = "recv" /\ (onHost <=> k \in HostParams) /\ (onHost => backups = {})
    /\ LET s == SourceOf(k)
       IN  IF s \in backups \/ s = "glome"
           THEN /\ backups' = backups \cup {s} /\ phase' = "restore"
                /\ todo' = ForAll(backups', CheckpointRestore) \o Deferred(backups')
                /\ lost' = IF s = "glome" THEN lost \cup {"staleGlome"} ELSE lost
           ELSE Begin("process", <<HostCp(s, "create"), [op |-> "refuse"]>>) /\ UNCHANGED <<backups, lost>>
    /\ UNCHANGED <<stores, rpc, onHost, uploads, faults, before>>

\* A credential of a RotateAccountCredentials, which takes any number of them.
Upload(k) ==
    /\ phase = "recv" /\ ~onHost /\ k \in Account /\ uploads < MaxUploads
    /\ uploads' = uploads + 1 /\ Begin("process", Process(k, uploads'))
    /\ UNCHANGED <<stores, rpc, backups, onHost, faults, before, lost>>

\* A RotateHostParameters takes one.
HandleSshCaPublicKey ==
    /\ phase = "recv" /\ onHost /\ backups = {} /\ uploads < MaxUploads
    /\ uploads' = uploads + 1 /\ Begin("process", Process("ca", uploads'))
    /\ UNCHANGED <<stores, rpc, backups, onHost, faults, before, lost>>

\* Mutant: the source is named after the kind of request.
MutHandleGlome ==
    /\ phase = "recv" /\ onHost /\ backups = {} /\ uploads < MaxUploads
    /\ uploads' = uploads + 1 /\ Begin("process", Process("glome", uploads')) /\ backups' = {"host"}
    /\ UNCHANGED <<stores, rpc, onHost, faults, before, lost>>

HandleGlome ==
    /\ phase = "recv" /\ onHost /\ backups = {} /\ uploads < MaxUploads
    /\ uploads' = uploads + 1 /\ Begin("process", Process("glome", uploads')) /\ backups' = {"glome"}
    /\ UNCHANGED <<stores, rpc, onHost, faults, before, lost>>

Processed ==
    /\ phase = "process" /\ todo = <<>> /\ phase' = "send"
    /\ UNCHANGED <<stores, rpc, todo, backups, onHost, uploads, faults, before, lost>>

Send ==
    /\ phase = "send" /\ ((phase' = "recv" /\ UNCHANGED todo) \/ Restore)
    /\ UNCHANGED <<stores, rpc, backups, onHost, uploads, faults, before, lost>>

\* As the first message of a RotateHostParameters it is refused, which changes nothing.
Finalize ==
    /\ phase = "recv" /\ (onHost => backups # {})
    /\ Begin("end", ForAll(backups \ {"glome"}, CheckpointDelete) \o Deferred(backups))
    /\ UNCHANGED <<stores, rpc, backups, onHost, uploads, faults, before, lost>>

Return ==
    /\ phase \in {"restore", "end", "boot"} /\ todo = <<>> /\ phase' = "up"
    /\ rpc' = [r \in Rpcs |-> IF rpc[r] = "open" THEN IF phase = "end" THEN "ok" ELSE "aborted" ELSE rpc[r]]
    /\ UNCHANGED <<stores, todo, backups, onHost, uploads, faults, before, lost>>
-----------------------------------------------------------------------------
Op(k) == todo # <<>> /\ Head(todo).op = k
Arg == Head(todo)
Unchanged == UNCHANGED <<rpc, onHost, uploads, before>>
Fault == faults < MaxFaults /\ faults' = faults + 1

Done == todo' = Tail(todo) /\ UNCHANGED <<phase, lost, faults>>
\* An error while a credential is applied is followed by the restore; later ones are only logged.
Failed(what) ==
    /\ lost' = lost \cup what
    /\ IF phase = "process" THEN Restore ELSE todo' = Tail(todo) /\ UNCHANGED phase

Snapshot(s) == [k \in Of(s) |-> host[k]]

\* A D-Bus call that times out may have been carried out.
SetOnHost ==
    /\ Op("set")
    /\ LET done == /\ host' = [host EXCEPT ![Arg.k] = Arg.i]
                   /\ saved' = IF Arg.k = "glome" THEN [saved EXCEPT !["glome"] = {Snapshot("glome")}] ELSE saved
       IN  \/ done /\ Done
           \/ Fault /\ (done \/ UNCHANGED <<host, saved>>)
              /\ Failed(IF Arg.k = "glome" THEN {"staleGlome"} ELSE {})
    /\ UNCHANGED <<db, meta, copyCa, glome, file, backups>> /\ Unchanged

\* checkpointCreate; if it fails the RPC returns, and only what is deferred so far runs.
CheckpointCreate ==
    /\ Op("create")
    /\ LET made == [saved EXCEPT ![Arg.s] = {Snapshot(Arg.s)}]
       IN  \/ /\ saved' = made /\ backups' = backups \cup {Arg.s} /\ Done
              /\ copyCa' = IF Arg.s = "ssh" THEN meta["ca"] ELSE copyCa
           \/ /\ Fault /\ saved' \in {saved, made} /\ UNCHANGED <<backups, copyCa>>
              /\ lost' = lost \cup {"create"} /\ Begin("restore", Deferred(backups))
    /\ UNCHANGED <<host, db, meta, glome, file>> /\ Unchanged

Refuse ==
    /\ Op("refuse") /\ Restore
    /\ UNCHANGED <<stores, backups, lost, faults>> /\ Unchanged

\* write...MetadataToDB: STATE_DB first, then memory.
WriteMetadataToDB ==
    /\ Op("db")
    /\ LET put == [db EXCEPT ![Arg.k][Arg.col] = Arg.i]
       IN  \/ db' = put /\ meta' = [meta EXCEPT ![Arg.k][Arg.col] = Arg.i] /\ Done
           \/ Fault /\ db' \in {db, put} /\ UNCHANGED meta /\ Failed(IF phase = "process" THEN {} ELSE {"db"})
    /\ UNCHANGED <<host, saved, copyCa, glome, file, backups>> /\ Unchanged

\* The configuration in STATE_DB becomes the one to roll back to, then the new one is written.
UpdateGlomeState ==
    /\ Op("updateGlomeState")
    /\ \/ db' = [db EXCEPT !["glome"] = Arg.m] /\ glome' = db["glome"] /\ Done
       \/ Fault /\ UNCHANGED <<db, glome>> /\ Failed({"db"})
       \/ Fault /\ db' \in {db, [db EXCEPT !["glome"] = Arg.m]} /\ glome' = db["glome"] /\ Failed({})
    /\ UNCHANGED <<host, saved, meta, copyCa, file, backups>> /\ Unchanged

RollBackGlomeDb ==
    /\ Op("glomeDb")
    /\ \/ db' = [db EXCEPT !["glome"] = glome] /\ Done
       \/ Fault /\ UNCHANGED db /\ Failed({"db"})
    /\ UNCHANGED <<host, saved, meta, copyCa, glome, file, backups>> /\ Unchanged

RestoreOnHost ==
    /\ Op("restore")
    /\ LET back == [k \in Kinds |-> IF SourceOf(k) = Arg.s THEN (CHOOSE c \in saved[Arg.s] : TRUE)[k] ELSE host[k]]
       IN  \/ saved[Arg.s] # {} /\ host' = back /\ Done
           \/ saved[Arg.s] = {} /\ UNCHANGED host /\ Done
           \/ Fault /\ host' \in {host} \cup (IF saved[Arg.s] # {} THEN {back} ELSE {}) /\ Failed({"host"})
    /\ UNCHANGED <<saved, db, meta, copyCa, glome, file, backups>> /\ Unchanged

DeleteOnHost ==
    /\ Op("delete")
    /\ \/ saved' = [saved EXCEPT ![Arg.s] = {}] /\ Done
       \/ Fault /\ UNCHANGED saved /\ Failed({"host"})
    /\ UNCHANGED <<host, db, meta, copyCa, glome, file, backups>> /\ Unchanged

\* os.WriteFile; a file that was cut short is not loaded.
SaveFile ==
    /\ Op("save")
    /\ LET with(m) == [k \in Versioned |-> IF SourceOf(k) = Arg.s THEN m[k] ELSE file[k]]
       IN  \/ file' = with(meta) /\ Done
           \/ Fault /\ file' \in {file, with([k \in Versioned |-> Dated(0)])} /\ Failed({"file"})
    /\ UNCHANGED <<host, saved, db, meta, copyCa, glome, backups>> /\ Unchanged

\* The process is killed and starts again: NewGNSICredentialzServer.
Crash ==
    /\ Fault /\ rpc' = [r \in Rpcs |-> IF rpc[r] = "open" THEN "aborted" ELSE rpc[r]]
    /\ meta' = file /\ copyCa' = file["ca"] /\ glome' = db["glome"]
    /\ Begin("boot", WriteMetadata("ca", file["ca"]) \o WriteMetadata("keys", file["keys"])
                     \o WriteMetadata("users", file["users"]) \o WriteMetadata("password", file["password"]))
    /\ lost' = lost \cup {"crash"} /\ backups' = {}
    /\ UNCHANGED <<host, saved, db, file, onHost, uploads, before>>

Next ==
    \/ \E r \in Rpcs : Rotate(r)
    \/ \E k \in Kinds : RefuseUpload(k) \/ Upload(k)
    \/ HandleSshCaPublicKey \/ HandleGlome
    \/ Interrupted \/ UnknownRequest \/ Processed \/ Send \/ Finalize \/ Return
    \/ SetOnHost \/ CheckpointCreate \/ Refuse \/ WriteMetadataToDB \/ UpdateGlomeState \/ RollBackGlomeDb
    \/ RestoreOnHost \/ DeleteOnHost \/ SaveFile \/ Crash

Spec == Init /\ [][Next]_vars
-----------------------------------------------------------------------------
Aborted(r) == rpc[r] = "open" /\ rpc'[r] = "aborted" /\ phase' = "up"

(* A rotation that the client leaves, that is refused or that fails leaves  *)
(* the host with the credentials it had at TryLock, for every kind it had   *)
(* changed, and the CA keys and the GLOME configuration with their version  *)
(* and date in STATE_DB.  Requests of an unknown kind, a checkpoint that    *)
(* cannot be made and a GLOME configuration that is refused before STATE_DB *)
(* is written are the cases the code does not restore; the versions of      *)
(* accounts are not restored at all.                                        *)
AbortRestores ==
    [][\A r \in Rpcs : Aborted(r) /\ lost = {} =>
         /\ host' = before.host /\ meta'["ca"] = before.meta["ca"]
         /\ "ssh" \in backups => db'["ca"] = before.meta["ca"]
         /\ db'["glome"] = before.db["glome"]]_vars

(* What a finalized rotation has changed on the host has its version and    *)
(* date in STATE_DB, in memory and in the file a restart loads, and the     *)
(* host keeps no checkpoint of it.                                          *)
FinalizedAgree ==
    [][\A r \in Rpcs : rpc[r] = "open" /\ rpc'[r] = "ok" /\ lost = {} =>
         /\ \A k \in Kinds : host[k] # before.host[k] =>
              db[k] = Dated(host[k]) /\ (k \in Versioned => meta[k] = db[k] /\ file[k] = db[k])
         /\ \A s \in backups \ {"glome"} : saved[s] = {}]_vars

(* "rollbacks the STATE_DB to the checkpoint state": a GLOME request that   *)
(* is refused leaves the configuration in STATE_DB that was finalized last. *)
(* It does not hold: what the code writes back is what was there at the     *)
(* start of the process, and no finalized rotation changes that.            *)
GlomeKept ==
    [][\A r \in Rpcs : Aborted(r) /\ lost \subseteq {"staleGlome"} => db'["glome"] = before.db["glome"]]_vars
=============================================================================
