-------------------------- MODULE MCGnsiCredentials --------------------------
(* Small instances of GnsiCertz and GnsiCredentialz, which share no state:   *)
(* one of the two services is used in a behaviour.                           *)
EXTENDS Integers, Sequences, FiniteSets, TLC

CONSTANTS Rpcs, Versions, MaxUploads, MaxFaults, r1, r2

VARIABLES part,
    files, link, crl, policy, active, last, generatedKey, metaFile, db, rpc, phase, todo, force, uploads, faults,
    adv, before, lost,
    host, saved, cdDb, meta, copyCa, glome, file, cdRpc, cdPhase, cdTodo, backups, onHost, cdUploads, cdFaults,
    cdBefore, cdLost

Certz == INSTANCE GnsiCertz
Credz == INSTANCE GnsiCredentialz
         WITH db <- cdDb, rpc <- cdRpc, phase <- cdPhase, todo <- cdTodo, uploads <- cdUploads, faults <- cdFaults,
              before <- cdBefore, lost <- cdLost

certzVars == <<files, link, crl, policy, active, last, generatedKey, metaFile, db, rpc, phase, todo, force, uploads,
               faults, adv, before, lost>>
credzVars == <<host, saved, cdDb, meta, copyCa, glome, file, cdRpc, cdPhase, cdTodo, backups, onHost, cdUploads,
               cdFaults, cdBefore, cdLost>>
vars == <<part, certzVars, credzVars>>

TwoRpcs == {r1, r2}
RpcSymmetry == Permutations(Rpcs)

Init ==
    /\ part \in {"certz", "credz"} /\ Certz!Init /\ Credz!Init
    /\ adv <=> crl["dir"] = Certz!EmptyDir
    /\ part = "credz" => adv

Next ==
    \/ part = "certz" /\ Certz!Next /\ UNCHANGED <<part, credzVars>>
    \/ part = "credz" /\ Credz!Next /\ UNCHANGED <<part, certzVars>>

Spec == Init /\ [][Next]_vars

\* The states of both services keep their types.
TypeOK == Certz!TypeOK /\ Credz!TypeOK
\* TLS finds a certificate with its key and a trust bundle, and a revert what it needs.
FilesKept == Certz!FilesKept

\* A rotation of either service that is not finalized leaves everything as it was.
AbortsRestore == Certz!AbortRestores /\ Credz!AbortRestores

\* What a finalized rotation of either service changed is in force in every store.
FinalizedAgree == Certz!FinalizedInForce /\ Credz!FinalizedAgree

\* A refused GLOME request leaves the configuration that was finalized last in STATE_DB;
\* this does not hold (see GnsiCredentialz), and no configuration here checks it.
CredzGlomeKept == Credz!GlomeKept

=============================================================================
