----------------------------- MODULE GnsiRotate -----------------------------
(***************************************************************************)
(* The rotation of an authorization policy by gNSI: Authz.Rotate           *)
(* (gnmi_server/gnsi_authz.go) and Pathz.Rotate (gnsi_pathz.go).  A client *)
(* uploads policies and finalizes, or goes away and everything is          *)
(* reverted.  A step is one write to a file or to Redis, so that the       *)
(* process can be killed, and a write can fail, between any two.           *)
(*                                                                         *)
(* A policy stands for its text and for its date of creation; several may  *)
(* have the same version.                                                  *)
(***************************************************************************)
EXTENDS Naturals, Sequences

CONSTANTS
    Rpcs,          \* the Rotate RPCs
    Policies,      \* what clients upload
    VersionOf,     \* the version each is uploaded with
    Invalid,       \* the policies a service refuses for what they say
    First,         \* the one in use at the start
    Services,      \* the services that are looked at
    PathzPolicy,   \* --with-pathz-policy: the pathz policy is loaded at the start
    Faults         \* what can go wrong: "db", "file", "crash"

ASSUME RotateAssumption ==
    /\ Invalid \subseteq Policies /\ First \in Policies \ Invalid
    /\ Services \subseteq {"authz", "pathz"} /\ PathzPolicy \in BOOLEAN
    /\ "missing" \notin Policies /\ "broken" \notin Policies

Missing == "missing"      \* no such file; no policy
Broken == "broken"        \* a file that was cut short

Meta(p) == [version |-> VersionOf[p], createdOn |-> p]
Unknown == [version |-> "unknown", createdOn |-> "0"]
Unreadable == [version |-> Broken, createdOn |-> Broken]

VARIABLES
    service,               \* the one looked at; they share nothing
    file, backup,          \* the policy file and its copy
    metaFile,              \* the file of version and date
    db,                    \* the columns written to STATE_DB, in the order they are written
    meta,                  \* authzMetadata or pathzMetadata
    copy,                  \* authzMetadataCopy; pathzMetadataCopy is pathzMetadata itself
    processor,             \* the policy of pathzProcessor
    policyCopy, updated,   \* GNSIPathzServer.policyCopy and policyUpdated
    rpc,                   \* the RPCs; the open one holds the mutex
    phase, column,         \* what the open one, or the starting server, does next
    req,                   \* the policy it was sent last
    before, uploaded, lost, settled   \* history, see below

files == <<file, backup, metaFile>>
memory == <<meta, copy, processor, policyCopy, updated>>
(* before: what was in use at TryLock.  uploaded: the rotation has uploaded *)
(* a policy.  lost: what it could not do and went on without.  settled:     *)
(* file and metadata should agree when no rotation is open.                 *)
history == <<before, uploaded, lost, settled>>
vars == <<service, files, db, memory, rpc, phase, column, req, history>>

Versioned == {VersionOf[p] : p \in Policies} \cup {"unknown"}
Dates == Policies \cup {"0"}
Metas == [version : Versioned, createdOn : Dates]

\* writeAuthzMetadataToDB writes a value to two tables, writePathzMetadataToDB to one.
Columns(s) == IF s = "authz" THEN <<"version", "version", "createdOn", "createdOn">>
              ELSE <<"version", "createdOn">>
Cols == Columns(service)
Stored(s, m) == [i \in 1..Len(Columns(s)) |-> m[Columns(s)[i]]]

Phases == {"up", "boot", "checkpoint", "recv", "upload", "save", "write", "update", "send",
           "revert", "revertDb", "commit", "commitDb", "saveMeta", "writeMeta", "remove"}

\* The state keeps its types and bounds.
TypeOK ==
    /\ service \in Services
    /\ file \in Policies \cup {Missing, Broken} /\ backup \in Policies \cup {Missing, Broken}
    /\ metaFile \in Metas \cup {Unreadable}
    /\ db \in [1..Len(Cols) -> Versioned \cup Dates]
    /\ meta \in Metas /\ copy \in Metas
    /\ processor \in Policies \cup {Missing} /\ policyCopy \in Policies \cup {Missing}
    /\ updated \in BOOLEAN /\ uploaded \in BOOLEAN /\ settled \in BOOLEAN
    /\ rpc \in [Rpcs -> {"idle", "open", "ok", "aborted"}]
    /\ phase \in Phases /\ column \in 1..Len(Cols)
    /\ req \in Policies
    /\ before \in [file : Policies \cup {Missing, Broken}, meta : Metas, processor : Policies \cup {Missing}]
    /\ lost \subseteq {"checkpoint", "restore", "commit", "meta"}

\* A server that has been provisioned with First and has started.
Init ==
    /\ service \in Services
    /\ file = First /\ backup = Missing /\ metaFile = Meta(First)
    /\ db = Stored(service, Meta(First)) /\ meta = Meta(First) /\ copy = Meta(First)
    /\ processor = IF service = "pathz" /\ PathzPolicy THEN First ELSE Missing
    /\ policyCopy = Missing /\ updated = FALSE
    /\ rpc = [r \in Rpcs |-> "idle"] /\ phase = "up" /\ column = 1 /\ req = First
    /\ before = [file |-> file, meta |-> meta, processor |-> processor]
    /\ uploaded = FALSE /\ lost = {} /\ settled = TRUE
-----------------------------------------------------------------------------
\* The open RPC returns: it was finalized, or not.
Settles(res, gone) ==
    IF res = "ok" THEN "meta" \notin gone /\ (uploaded \/ settled)
    ELSE gone = {} /\ settled

End(res, gone) ==
    /\ rpc' = [r \in Rpcs |-> IF rpc[r] = "open" THEN res ELSE rpc[r]]
    /\ phase' = "up" /\ lost' = gone /\ settled' = Settles(res, gone)
    /\ UNCHANGED <<before, uploaded>>

Go(to) == phase' = to /\ UNCHANGED <<rpc, history>>
Lose(what, to) ==
    /\ phase' = to /\ lost' = lost \cup {what}
    /\ UNCHANGED <<rpc, before, uploaded, settled>>

InRotation == phase \notin {"up", "boot"}
FileFault == "file" \in Faults
-----------------------------------------------------------------------------
\* Rotate up to the checkpoint: TryLock, and for pathz the check of the file.
Begin(r) ==
    /\ rpc[r] = "idle" /\ phase = "up"
    /\ service = "pathz" => file # Missing
    /\ rpc' = [rpc EXCEPT ![r] = "open"] /\ phase' = "checkpoint"
    /\ copy' = IF service = "authz" THEN meta ELSE copy
    /\ updated' = FALSE /\ policyCopy' = IF service = "pathz" THEN processor ELSE policyCopy
    /\ before' = [file |-> file, meta |-> meta, processor |-> processor]
    /\ uploaded' = FALSE /\ lost' = {}
    /\ UNCHANGED <<service, files, db, meta, processor, column, req, settled>>

\* Another rotation holds the mutex, or there is no pathz policy file.
Refuse(r) ==
    /\ rpc[r] = "idle"
    /\ InRotation \/ (phase = "up" /\ service = "pathz" /\ file = Missing)
    /\ rpc' = [rpc EXCEPT ![r] = "aborted"]
    /\ UNCHANGED <<service, files, db, memory, phase, column, req, history>>

Checkpoint ==
    /\ phase = "checkpoint" /\ file # Missing
    /\ backup' = file /\ Go("recv")
    /\ UNCHANGED <<service, file, metaFile, db, memory, column, req>>

\* copyFile fails; if it is in its last call, Chmod, the copy is there.
CheckpointFail ==
    /\ phase = "checkpoint" /\ (FileFault \/ file = Missing)
    /\ backup' \in {backup} \cup ({file} \ {Missing})
    /\ IF service = "authz" THEN Lose("checkpoint", "recv") ELSE End("aborted", lost)
    /\ UNCHANGED <<service, file, metaFile, db, memory, column, req>>

\* The stream ends or fails, or the request is none or lacks a policy or version.
Interrupted ==
    /\ phase = "recv" /\ Go("revert")
    /\ UNCHANGED <<service, files, db, memory, column, req>>

Refused(p, force) ==
    \/ service = "authz" /\ (p \in Invalid \/ file = Missing)
    \/ meta.version = VersionOf[p] /\ ~force

\* processRotateRequest up to its first write.
Upload(p, force) ==
    /\ phase = "recv"
    /\ IF Refused(p, force)
       THEN Go("revert") /\ UNCHANGED <<meta, req>>
       ELSE /\ req' = p
            /\ IF service = "authz" THEN Go("upload") /\ UNCHANGED meta
               ELSE Go("save") /\ meta' = Meta(p)
    /\ UNCHANGED <<service, files, db, copy, processor, policyCopy, updated, column>>

Finalize ==
    /\ phase = "recv"
    /\ Go(IF service = "authz" THEN "commit" ELSE IF updated THEN "commitDb" ELSE "revert")
    /\ UNCHANGED <<service, files, db, memory, column, req>>

\* On to column c, or past the last one.
Proceed(c, gone) ==
    IF c <= Len(Cols)
    THEN /\ column' = c /\ lost' = gone
         /\ UNCHANGED <<rpc, phase, before, uploaded, settled>>
    ELSE /\ column' = 1
         /\ CASE phase = "upload" -> Go("save")
              [] phase = "commitDb" -> Go("saveMeta")
              [] phase = "boot" -> Go("up")
              [] phase = "revertDb" -> End("aborted", gone)

DbPhases == {"upload", "revertDb", "commitDb", "boot"}

Written == CASE phase = "upload" -> Meta(req) [] phase = "revertDb" -> copy [] OTHER -> meta

\* The other columns with the name of column i come right before it.
LastOfName(i) == i = Len(Cols) \/ Cols[i + 1] # Cols[i]

Put == [db EXCEPT ![column] = Written[Cols[column]]]

\* writeCredentialsMetadataToDB; authz takes the value once all tables have it.
WriteDb ==
    /\ phase \in DbPhases
    /\ db' = Put
    /\ meta' = IF service = "authz" /\ LastOfName(column)
               THEN [meta EXCEPT ![Cols[column]] = Written[Cols[column]]] ELSE meta
    /\ Proceed(column + 1, lost)
    /\ UNCHANGED <<service, files, copy, processor, policyCopy, updated, req>>

\* Redis fails, or its answer is lost: an upload is reverted, a commit given up;
\* reverting and starting go on.
WriteDbFail ==
    /\ phase \in DbPhases /\ "db" \in Faults
    /\ db' \in {db, Put}
    /\ CASE phase = "upload" -> Go("revert") /\ column' = 1
         [] phase = "commitDb" -> End("aborted", lost \cup {"commit"}) /\ column' = 1
         [] phase = "boot" /\ service = "pathz" -> Go("up") /\ column' = 1
         [] phase = "boot" /\ service = "authz" -> Proceed(IF column <= 2 THEN 3 ELSE 5, lost)
         [] phase = "revertDb" -> Proceed(IF column <= 2 THEN 3 ELSE 5, lost \cup {"restore"})
    /\ UNCHANGED <<service, files, memory, req>>
-----------------------------------------------------------------------------
\* authz renames a finished file into place; pathz writes over the old one.
SaveFile ==
    /\ phase = "save"
    /\ IF service = "authz"
       THEN /\ file' = req /\ phase' = "send" /\ uploaded' = TRUE
            /\ UNCHANGED <<rpc, before, lost, settled>>
       ELSE file' = Broken /\ Go("write")
    /\ UNCHANGED <<service, backup, metaFile, db, memory, column, req>>

\* A failed authz save may be that of Chmod; a failed pathz save removes the file if it can.
SaveFileFail ==
    /\ phase = "save" /\ FileFault
    /\ file' \in {file, IF service = "authz" THEN req ELSE Missing}
    /\ Go("revert")
    /\ UNCHANGED <<service, backup, metaFile, db, memory, column, req>>

\* The rest of os.WriteFile, and verifyPathzFile.
WriteFile ==
    /\ phase = "write"
    /\ \/ file' = req /\ Go("update")
       \/ FileFault /\ file' \in {Missing, Broken, req} /\ Go("revert")
    /\ UNCHANGED <<service, backup, metaFile, db, memory, column, req>>

\* Mutant: policyUpdated is not set.
MutUpdateProcessor ==
    /\ phase = "update"
    /\ IF req \in Invalid THEN Go("revert") /\ UNCHANGED <<processor, updated>>
       ELSE /\ processor' = req /\ updated' = FALSE /\ uploaded' = TRUE /\ phase' = "send"
            /\ UNCHANGED <<rpc, before, lost, settled>>
    /\ UNCHANGED <<service, files, db, meta, copy, policyCopy, column, req>>

\* UpdatePolicyFromProto refuses a policy without rules, and so no policy.
UpdateProcessor ==
    /\ phase = "update"
    /\ IF req \in Invalid THEN Go("revert") /\ UNCHANGED <<processor, updated>>
       ELSE /\ processor' = req /\ updated' = TRUE /\ uploaded' = TRUE /\ phase' = "send"
            /\ UNCHANGED <<rpc, before, lost, settled>>
    /\ UNCHANGED <<service, files, db, meta, copy, policyCopy, column, req>>

\* Mutant: every confirmed upload is a new checkpoint.
MutSend ==
    /\ phase = "send" /\ (Go("recv") \/ Go("revert"))
    /\ backup' = file
    /\ UNCHANGED <<service, file, metaFile, db, memory, column, req>>

Send ==
    /\ phase = "send" /\ (Go("recv") \/ Go("revert"))
    /\ UNCHANGED <<service, files, db, memory, column, req>>

\* Mutant: the metadata is not reverted.
MutRevertAuthzFile ==
    /\ phase = "revert" /\ service = "authz"
    /\ backup # Missing /\ file' = backup /\ End("aborted", lost)
    /\ UNCHANGED <<service, backup, metaFile, db, memory, column, req>>

\* authz: copyFile from the backup, which stays; what fails is logged.
RevertAuthzFile ==
    /\ phase = "revert" /\ service = "authz"
    /\ \/ backup # Missing /\ file' = backup /\ Go("revertDb")
       \/ (FileFault \/ backup = Missing) /\ file' \in {file} \cup ({backup} \ {Missing})
          /\ Lose("restore", "revertDb")
    /\ UNCHANGED <<service, backup, metaFile, db, memory, column, req>>

\* revertPolicy when the processor had a policy, or was not changed.
RevertPathz ==
    /\ phase = "revert" /\ service = "pathz" /\ (updated => policyCopy # Missing)
    /\ updated' = FALSE /\ processor' = IF updated THEN policyCopy ELSE processor
    /\ \/ file' = backup /\ backup' = Missing /\ End("aborted", lost)
       \/ FileFault /\ UNCHANGED <<file, backup>> /\ End("aborted", lost \cup {"restore"})
    /\ UNCHANGED <<service, metaFile, db, meta, copy, policyCopy, column, req>>

\* revertPolicy when it had none: UpdatePolicyFromProto fails and the backup is removed.
RevertPathzFail ==
    /\ phase = "revert" /\ service = "pathz" /\ updated /\ policyCopy = Missing
    /\ updated' = FALSE /\ backup' \in {Missing} \cup (IF FileFault THEN {backup} ELSE {})
    /\ End("aborted", lost \cup {"restore"})
    /\ UNCHANGED <<service, file, metaFile, db, meta, copy, processor, policyCopy, column, req>>
-----------------------------------------------------------------------------
\* commitAuthzFileChanges, whose result is ignored.
CommitAuthzFile ==
    /\ phase = "commit"
    /\ backup' \in (IF file = Missing \/ FileFault THEN {backup} ELSE {}) \cup (IF file # Missing THEN {Missing} ELSE {})
    /\ Go("saveMeta")
    /\ UNCHANGED <<service, file, metaFile, db, memory, column, req>>

\* The metadata cannot be saved: authz does not look, pathz aborts without reverting.
MetaFail == IF service = "authz" THEN End("ok", lost \cup {"meta"}) ELSE End("aborted", lost \cup {"commit"})

\* os.WriteFile truncates the file, then writes it; a file that could not be written is removed.
SaveMeta ==
    /\ phase = "saveMeta"
    /\ \/ metaFile' = Unreadable /\ Go("writeMeta")
       \/ FileFault /\ metaFile' \in {metaFile, Unreadable} /\ MetaFail
    /\ UNCHANGED <<service, file, backup, db, memory, column, req>>

WriteMeta ==
    /\ phase = "writeMeta"
    /\ \/ metaFile' = meta /\ (IF service = "authz" THEN End("ok", lost) ELSE Go("remove"))
       \/ FileFault /\ metaFile' = Unreadable /\ MetaFail
    /\ UNCHANGED <<service, file, backup, db, memory, column, req>>

RemoveBackup ==
    /\ phase = "remove"
    /\ backup' \in {Missing} \cup (IF FileFault THEN {backup} ELSE {})
    /\ End("ok", lost)
    /\ UNCHANGED <<service, file, metaFile, db, memory, column, req>>
-----------------------------------------------------------------------------
\* loadAuthzFreshness and loadPathzFreshness, into metadata made by New...Metadata.
Load == IF metaFile = Unreadable THEN Unknown ELSE metaFile

\* The process is killed and starts again: NewGNSIAuthzServer, NewGNSIPathzServer.
Crash ==
    /\ "crash" \in Faults
    /\ rpc' = [r \in Rpcs |-> IF rpc[r] = "open" THEN "aborted" ELSE rpc[r]]
    /\ phase' = "boot" /\ column' = 1
    /\ meta' = Load /\ copy' = Load /\ policyCopy' = Missing /\ updated' = FALSE
    /\ processor' = IF service = "pathz" /\ PathzPolicy /\ file \in Policies \ Invalid THEN file ELSE Missing
    /\ lost' = {} /\ uploaded' = FALSE
    /\ settled' = (settled /\ (phase \in {"up", "boot", "checkpoint"} \/ (phase = "recv" /\ ~uploaded)))
    /\ UNCHANGED <<service, files, db, req, before>>

Next ==
    \/ \E r \in Rpcs : Begin(r) \/ Refuse(r)
    \/ Checkpoint \/ CheckpointFail \/ Interrupted \/ Finalize
    \/ \E p \in Policies, force \in BOOLEAN : Upload(p, force)
    \/ WriteDb \/ WriteDbFail \/ SaveFile \/ SaveFileFail \/ WriteFile \/ UpdateProcessor \/ Send
    \/ RevertAuthzFile \/ RevertPathz \/ RevertPathzFail
    \/ CommitAuthzFile \/ SaveMeta \/ WriteMeta \/ RemoveBackup \/ Crash

Spec == Init /\ [][Next]_vars
-----------------------------------------------------------------------------
(* What is in use is what the metadata says, once no rotation is open: the  *)
(* policy file, the metadata file, every column of STATE_DB and the policy  *)
(* pathz enforces are those of one upload.  It is so after every finalized  *)
(* upload, whatever failed or crashed before, and stays so across           *)
(* rotations that are aborted and restarts, unless something the code goes  *)
(* on without was lost on the way.                                          *)
SettledAgree ==
    phase = "up" /\ settled =>
        /\ file \in Policies /\ metaFile = Meta(file) /\ db = Stored(service, Meta(file))
        /\ service = "authz" => meta = Meta(file)
        /\ service = "pathz" /\ PathzPolicy => processor = file

(* As long as a rotation can be reverted the backup is the policy that was  *)
(* in use when it began, however many policies it has uploaded and however  *)
(* many rotations have left a backup behind.                                *)
BackupKept ==
    phase \in {"recv", "upload", "save", "write", "update", "send", "revert"} /\ "checkpoint" \notin lost =>
        backup = before.file

\* What a step that aborts a rotation has restored.
Restores ==
    \A r \in Rpcs : rpc[r] = "open" /\ rpc'[r] = "aborted" /\ phase' = "up" /\ lost' = {} =>
        /\ file' = before.file /\ processor' = before.processor
        /\ service = "authz" => meta' = before.meta /\ db' = Stored(service, before.meta)

(* A rotation that returns an error without having lost anything leaves the *)
(* policy file, the enforced policy and, for authz, the metadata in memory  *)
(* and in STATE_DB as they were when it took the mutex.                     *)
AbortRestores == [][Restores]_vars

(* "Revert all changes made until now.": a rotation the client leaves       *)
(* without Finalize changes neither the policy file nor the version the     *)
(* server takes for the installed one.                                      *)
RevertsAll ==
    [][\A r \in Rpcs : rpc[r] = "open" /\ rpc'[r] = "aborted" =>
         file' = before.file /\ meta' = before.meta]_vars
=============================================================================
