-------------------------- MODULE GnsiRotateProofs --------------------------
(* Proofs about GnsiRotate. *)
EXTENDS GnsiRotate, TLAPS

(* The columns of the two services: what writeAuthzMetadataToDB and         *)
(* writePathzMetadataToDB write, in their order.                            *)
LEMMA AuthzColumns ==
    /\ Len(Columns("authz")) = 4
    /\ Columns("authz")[1] = "version" /\ Columns("authz")[2] = "version"
    /\ Columns("authz")[3] = "createdOn" /\ Columns("authz")[4] = "createdOn"
BY DEF Columns

LEMMA PathzColumns ==
    /\ Len(Columns("pathz")) = 2
    /\ Columns("pathz")[1] = "version" /\ Columns("pathz")[2] = "createdOn"
BY DEF Columns

LEMMA ColumnNames ==
    ASSUME NEW s \in {"authz", "pathz"}
    PROVE  /\ Len(Columns(s)) \in {2, 4}
           /\ \A i \in 1..Len(Columns(s)) : Columns(s)[i] \in {"version", "createdOn"}
<1>1. CASE s = "authz"
  BY <1>1, AuthzColumns
<1>2. CASE s = "pathz"
  BY <1>2, PathzColumns
<1> QED
  BY <1>1, <1>2

(* Metadata made from an upload, read from a file or built by the           *)
(* constructors is of the one type.                                         *)
LEMMA MetaType ==
    ASSUME NEW p \in Policies
    PROVE  Meta(p) \in Metas
BY DEF Meta, Metas, Versioned, Dates

LEMMA UnknownType == Unknown \in Metas
BY DEF Unknown, Metas, Versioned, Dates

LEMMA StoredType ==
    ASSUME NEW s \in {"authz", "pathz"}, NEW m \in Metas
    PROVE  Stored(s, m) \in [1..Len(Columns(s)) -> Versioned \cup Dates]
<1>1. \A i \in 1..Len(Columns(s)) : m[Columns(s)[i]] \in Versioned \cup Dates
  BY ColumnNames DEF Metas
<1> QED
  BY <1>1 DEF Stored

LEMMA InitType == Init => TypeOK
<1> SUFFICES ASSUME Init PROVE TypeOK
  OBVIOUS
<1>1. service \in Services /\ service \in {"authz", "pathz"}
  BY RotateAssumption DEF Init
<1>2. First \in Policies /\ Meta(First) \in Metas
  BY RotateAssumption, MetaType
<1>3. db \in [1..Len(Cols) -> Versioned \cup Dates]
  BY <1>1, <1>2, StoredType DEF Init, Cols
<1>4. column \in 1..Len(Cols)
  <2>1. Len(Cols) \in {2, 4}
    BY <1>1, ColumnNames DEF Cols
  <2>2. column = 1
    BY DEF Init
  <2> QED
    BY <2>1, <2>2
<1>5. /\ rpc \in [Rpcs -> {"idle", "open", "ok", "aborted"}]
      /\ phase \in Phases /\ lost \subseteq {"checkpoint", "restore", "commit", "meta"}
  BY DEF Init, Phases
<1>6. processor \in Policies \cup {Missing} /\ policyCopy \in Policies \cup {Missing}
  BY <1>2 DEF Init
<1>7. before \in [file : Policies \cup {Missing, Broken}, meta : Metas, processor : Policies \cup {Missing}]
  BY <1>2, <1>6 DEF Init
<1>8. updated \in BOOLEAN
  BY DEF Init
<1>9. uploaded \in BOOLEAN
  BY DEF Init
<1>10. settled \in BOOLEAN
  BY DEF Init
<1>11. file \in Policies /\ backup = Missing /\ metaFile \in Metas /\ meta \in Metas /\ copy \in Metas /\ req \in Policies
  BY <1>2 DEF Init
<1> QED
  BY <1>1, <1>3, <1>4, <1>5, <1>6, <1>7, <1>8, <1>9, <1>10, <1>11 DEF TypeOK
-----------------------------------------------------------------------------
(* The type invariant in two parts: the flags of the handlers, which are    *)
(* Boolean, and the rest.                                                   *)
Control ==
    /\ rpc \in [Rpcs -> {"idle", "open", "ok", "aborted"}] /\ phase \in Phases
    /\ before \in [file : Policies \cup {Missing, Broken}, meta : Metas, processor : Policies \cup {Missing}]
    /\ lost \in SUBSET {"checkpoint", "restore", "commit", "meta"}
Flags == updated \in BOOLEAN /\ uploaded \in BOOLEAN /\ settled \in BOOLEAN
Data ==
    /\ service \in Services /\ service \in {"authz", "pathz"}
    /\ file \in Policies \cup {Missing, Broken} /\ backup \in Policies \cup {Missing, Broken}
    /\ metaFile \in Metas \cup {Unreadable}
    /\ db \in [1..Len(Cols) -> Versioned \cup Dates]
    /\ meta \in Metas /\ copy \in Metas
    /\ processor \in Policies \cup {Missing} /\ policyCopy \in Policies \cup {Missing}
    /\ column \in 1..Len(Cols) /\ req \in Policies

LEMMA TypeParts == TypeOK <=> Control /\ Flags /\ Data
<1>1. TypeOK => Control /\ Data
  BY RotateAssumption DEF TypeOK, Control, Data
<1>2. TypeOK => Flags
  BY DEF TypeOK, Flags
<1>3. Control /\ Flags /\ Data => TypeOK
  BY DEF TypeOK, Control, Flags, Data
<1> QED
  BY <1>1, <1>2, <1>3

(* What the steps have in common: going on, going on without something,     *)
(* and returning keep the RPCs and the history in their types.              *)
LEMMA GoType ==
    ASSUME Control, NEW to \in Phases, Go(to)
    PROVE  Control'
BY DEF Control, Go, history

LEMMA LoseType ==
    ASSUME Control, NEW to \in Phases, NEW what \in {"checkpoint", "restore"}, Lose(what, to)
    PROVE  Control'
BY DEF Control, Lose

LEMMA EndType ==
    ASSUME Control, NEW res \in {"ok", "aborted"},
           NEW gone \in SUBSET {"checkpoint", "restore", "commit", "meta"}, End(res, gone)
    PROVE  Control'
BY DEF Control, End, Phases

LEMMA ProceedType ==
    ASSUME Control, Data, phase \in DbPhases, NEW c \in Nat,
           NEW gone \in SUBSET {"checkpoint", "restore", "commit", "meta"}, Proceed(c, gone), c > 0
    PROVE  Control' /\ column' \in 1..Len(Cols)
<1>0. Len(Cols) \in {2, 4}
  BY ColumnNames DEF Data, Cols
<1>1. CASE c <= Len(Cols)
  BY <1>0, <1>1 DEF Proceed, Control
<1>2. CASE ~(c <= Len(Cols))
  <2>1. column' = 1
    BY <1>2 DEF Proceed
  <2>2. ASSUME phase = "upload" PROVE Control'
    BY <1>2, <2>2, GoType DEF Proceed, Phases
  <2>3. ASSUME phase = "commitDb" PROVE Control'
    BY <1>2, <2>3, GoType DEF Proceed, Phases
  <2>4. ASSUME phase = "boot" PROVE Control'
    BY <1>2, <2>4, GoType DEF Proceed, Phases
  <2>5. ASSUME phase = "revertDb" PROVE Control'
    BY <1>2, <2>5, EndType DEF Proceed
  <2> QED
    BY <1>0, <2>1, <2>2, <2>3, <2>4, <2>5 DEF DbPhases
<1> QED
  BY <1>1, <1>2

LEMMA MetaFailType ==
    ASSUME Control, MetaFail
    PROVE  Control'
<1>1. /\ lost \cup {"meta"} \in SUBSET {"checkpoint", "restore", "commit", "meta"}
      /\ lost \cup {"commit"} \in SUBSET {"checkpoint", "restore", "commit", "meta"}
  BY DEF Control
<1> QED
  BY <1>1, EndType DEF MetaFail
-----------------------------------------------------------------------------
\* Every step keeps the RPCs, the phase and the history in their types.
LEMMA StepControl ==
    ASSUME Control, Data, Next
    PROVE  Control'
<1>1. ASSUME NEW r \in Rpcs, Begin(r) PROVE Control'
  BY <1>1 DEF Begin, Control, Data, Phases
<1>2. ASSUME NEW r \in Rpcs, Refuse(r) PROVE Control'
  BY <1>2 DEF Refuse, Control, history
<1>3. CASE Checkpoint
  BY <1>3, GoType DEF Checkpoint, Phases
<1>4. CASE CheckpointFail
  <2>1. CASE service = "authz"
    BY <1>4, <2>1, LoseType DEF CheckpointFail, Phases
  <2>2. CASE service # "authz"
    BY <1>4, <2>2, EndType DEF CheckpointFail, Control
  <2> QED
    BY <2>1, <2>2
<1>5. CASE Interrupted
  BY <1>5, GoType DEF Interrupted, Phases
<1>6. CASE Finalize
  BY <1>6, GoType DEF Finalize, Phases
<1>7. ASSUME NEW p \in Policies, NEW force \in BOOLEAN, Upload(p, force) PROVE Control'
  <2>1. CASE Refused(p, force)
    BY <1>7, <2>1, GoType DEF Upload, Phases
  <2>2. CASE ~Refused(p, force) /\ service = "authz"
    BY <1>7, <2>2, GoType DEF Upload, Phases
  <2>3. CASE ~Refused(p, force) /\ service # "authz"
    BY <1>7, <2>3, GoType DEF Upload, Phases
  <2> QED
    BY <2>1, <2>2, <2>3
<1>8. CASE WriteDb
  <2>1. column + 1 \in Nat /\ column + 1 > 0 /\ phase \in DbPhases /\ Proceed(column + 1, lost)
    BY <1>8, ColumnNames DEF WriteDb, Data, Cols
  <2> QED
    BY <2>1, ProceedType DEF Control
<1>9. CASE WriteDbFail
  <2>0. phase \in DbPhases
    BY <1>9 DEF WriteDbFail
  <2>1. CASE phase = "upload"
    BY <1>9, <2>1, GoType DEF WriteDbFail, Phases
  <2>2. CASE phase = "commitDb"
    <3>1. lost \cup {"commit"} \in SUBSET {"checkpoint", "restore", "commit", "meta"}
      BY DEF Control
    <3> QED
      BY <1>9, <2>2, <3>1, EndType DEF WriteDbFail
  <2>3. CASE phase = "boot" /\ service = "pathz"
    BY <1>9, <2>3, GoType DEF WriteDbFail, Phases
  <2>4. CASE phase = "boot" /\ service = "authz"
    <3> DEFINE c == IF column <= 2 THEN 3 ELSE 5
    <3>1. Proceed(c, lost) /\ c \in Nat /\ c > 0
      BY <1>9, <2>4 DEF WriteDbFail
    <3> HIDE DEF c
    <3> QED
      BY <2>0, <3>1, ProceedType DEF Control
  <2>5. CASE phase = "revertDb"
    <3> DEFINE c == IF column <= 2 THEN 3 ELSE 5
    <3>1. Proceed(c, lost \cup {"restore"}) /\ c \in Nat /\ c > 0
      BY <1>9, <2>5 DEF WriteDbFail
    <3>2. lost \cup {"restore"} \in SUBSET {"checkpoint", "restore", "commit", "meta"}
      BY DEF Control
    <3> HIDE DEF c
    <3> QED
      BY <2>0, <3>1, <3>2, ProceedType
  <2> QED
    BY <2>0, <2>1, <2>2, <2>3, <2>4, <2>5 DEF DbPhases, Data
<1>10. CASE SaveFile
  <2>1. CASE service = "authz"
    BY <1>10, <2>1 DEF SaveFile, Control, Phases
  <2>2. CASE service # "authz"
    BY <1>10, <2>2, GoType DEF SaveFile, Phases
  <2> QED
    BY <2>1, <2>2
<1>11. CASE SaveFileFail
  BY <1>11, GoType DEF SaveFileFail, Phases
<1>12. CASE WriteFile
  BY <1>12, GoType DEF WriteFile, Phases
<1>13. CASE UpdateProcessor
  <2>1. CASE req \in Invalid
    BY <1>13, <2>1, GoType DEF UpdateProcessor, Phases
  <2>2. CASE req \notin Invalid
    BY <1>13, <2>2 DEF UpdateProcessor, Control, Phases
  <2> QED
    BY <2>1, <2>2
<1>14. CASE Send
  BY <1>14, GoType DEF Send, Phases
<1>15. CASE RevertAuthzFile
  BY <1>15, GoType, LoseType DEF RevertAuthzFile, Phases
<1>16. lost \cup {"restore"} \in SUBSET {"checkpoint", "restore", "commit", "meta"}
  BY DEF Control
<1>17. CASE RevertPathz
  BY <1>16, <1>17, EndType DEF RevertPathz, Control
<1>18. CASE RevertPathzFail
  BY <1>16, <1>18, EndType DEF RevertPathzFail
<1>19. CASE CommitAuthzFile
  BY <1>19, GoType DEF CommitAuthzFile, Phases
<1>20. CASE SaveMeta
  BY <1>20, GoType, MetaFailType DEF SaveMeta, Phases
<1>21. CASE WriteMeta
  <2>1. CASE MetaFail
    BY <2>1, MetaFailType
  <2>2. CASE End("ok", lost)
    BY <2>2, EndType DEF Control
  <2>3. CASE Go("remove")
    BY <2>3, GoType DEF Phases
  <2> QED
    BY <1>21, <2>1, <2>2, <2>3 DEF WriteMeta
<1>22. CASE RemoveBackup
  BY <1>22, EndType DEF RemoveBackup, Control
<1>23. CASE Crash
  BY <1>23 DEF Crash, Control, Phases
<1> QED
  BY <1>1, <1>2, <1>3, <1>4, <1>5, <1>6, <1>7, <1>8, <1>9, <1>10, <1>11, <1>12, <1>13, <1>14,
     <1>15, <1>17, <1>18, <1>19, <1>20, <1>21, <1>22, <1>23 DEF Next

\* Every step keeps the files, the columns and the memory in their types.
LEMMA StepData ==
    ASSUME Control, Data, Next
    PROVE  Data'
<1>0. Len(Cols) \in {2, 4} /\ \A i \in 1..Len(Cols) : Cols[i] \in {"version", "createdOn"}
  BY ColumnNames DEF Data, Cols
<1>00. /\ Written \in Metas /\ Cols[column] \in {"version", "createdOn"}
       /\ Put \in [1..Len(Cols) -> Versioned \cup Dates]
  <2>1. Written \in Metas
    BY MetaType DEF Written, Data
  <2>2. Cols[column] \in {"version", "createdOn"}
    BY <1>0 DEF Data
  <2>3. Written[Cols[column]] \in Versioned \cup Dates
    BY <2>1, <2>2 DEF Metas
  <2> QED
    BY <2>1, <2>2, <2>3 DEF Put, Data
<1>1. ASSUME NEW r \in Rpcs, Begin(r) PROVE Data'
  BY <1>1 DEF Begin, Data, files, Cols
<1>2. ASSUME NEW r \in Rpcs, Refuse(r) PROVE Data'
  BY <1>2 DEF Refuse, Data, files, memory, Cols
<1>3. ASSUME NEW p \in Policies, NEW force \in BOOLEAN, Upload(p, force) PROVE Data'
  BY <1>3, MetaType DEF Upload, Data, files, Cols
<1>4. CASE Checkpoint
  BY <1>4 DEF Checkpoint, Data, files, memory, Cols
<1>5. CASE CheckpointFail
  BY <1>5 DEF CheckpointFail, Data, files, memory, Cols
<1>6. CASE Interrupted
  BY <1>6 DEF Interrupted, Data, files, memory, Cols
<1>7. CASE Finalize
  BY <1>7 DEF Finalize, Data, files, memory, Cols
<1>8. CASE SaveFile
  BY <1>8, RotateAssumption DEF SaveFile, Data, files, memory, Cols
<1>9. CASE SaveFileFail
  BY <1>9 DEF SaveFileFail, Data, files, memory, Cols
<1>10. CASE WriteFile
  BY <1>10 DEF WriteFile, Data, files, memory, Cols
<1>11. CASE UpdateProcessor
  BY <1>11 DEF UpdateProcessor, Data, files, memory, Cols
<1>12. CASE Send
  BY <1>12 DEF Send, Data, files, memory, Cols
<1>13. CASE RevertAuthzFile
  BY <1>13 DEF RevertAuthzFile, Data, files, memory, Cols
<1>14. CASE RevertPathz
  BY <1>14 DEF RevertPathz, Data, files, memory, Cols
<1>15. CASE RevertPathzFail
  BY <1>15 DEF RevertPathzFail, Data, files, memory, Cols
<1>16. CASE CommitAuthzFile
  BY <1>16 DEF CommitAuthzFile, Data, files, memory, Cols
<1>17. CASE SaveMeta
  BY <1>17 DEF SaveMeta, Data, files, memory, Cols
<1>18. CASE WriteMeta
  BY <1>18 DEF WriteMeta, Data, files, memory, Cols
<1>19. CASE RemoveBackup
  BY <1>19 DEF RemoveBackup, Data, files, memory, Cols
<1>20. CASE WriteDb
  <2>0. phase \in DbPhases /\ Proceed(column + 1, lost) /\ service' = service
    BY <1>20 DEF WriteDb
  <2>1. Control' /\ column' \in 1..Len(Cols)
    <3>1. column + 1 \in Nat /\ column + 1 > 0
      BY <1>0 DEF Data
    <3> QED
      BY <2>0, <3>1, ProceedType DEF Control
  <2>2. Written \in Metas /\ Cols[column] \in {"version", "createdOn"}
    BY <1>00
  <2>3. Cols[column] \in {"version", "createdOn"}
    BY <2>2
  <2>5. db' \in [1..Len(Cols) -> Versioned \cup Dates]
    BY <1>20, <1>00 DEF WriteDb
  <2>6. meta' \in Metas
    <3>1. CASE meta' = meta
      BY <3>1 DEF Data
    <3>2. CASE meta' = [meta EXCEPT ![Cols[column]] = Written[Cols[column]]]
      <4>1. CASE Cols[column] = "version"
        BY <2>2, <3>2, <4>1 DEF Data, Metas
      <4>2. CASE Cols[column] = "createdOn"
        BY <2>2, <3>2, <4>2 DEF Data, Metas
      <4> QED
        BY <2>3, <4>1, <4>2
    <3> QED
      BY <1>20, <3>1, <3>2 DEF WriteDb
  <2> QED
    BY <1>20, <2>0, <2>1, <2>5, <2>6 DEF WriteDb, Data, files, Cols
<1>21. CASE WriteDbFail
  <2>0. phase \in DbPhases
    BY <1>21 DEF WriteDbFail
  <2>1. column' \in 1..Len(Cols)
    <3>1. CASE column' = 1
      BY <1>0, <3>1
    <3> DEFINE c == IF column <= 2 THEN 3 ELSE 5
    <3>2. CASE \E gone : Proceed(c, gone)
      <4>1. c \in Nat /\ c > 0
        OBVIOUS
      <4> HIDE DEF c
      <4>2. PICK gone : Proceed(c, gone)
        BY <3>2
      <4>3. (column' = c /\ c <= Len(Cols)) \/ column' = 1
        BY <4>2 DEF Proceed
      <4> QED
        BY <1>0, <4>1, <4>3
    <3>3. column' = 1 \/ \E gone : Proceed(c, gone)
      BY <1>21, <2>0 DEF WriteDbFail, DbPhases, Data
    <3> QED
      BY <3>1, <3>2, <3>3
  <2>2. db' \in [1..Len(Cols) -> Versioned \cup Dates]
    BY <1>00, <1>21 DEF WriteDbFail, Data
  <2> QED
    BY <1>21, <2>1, <2>2 DEF WriteDbFail, Data, files, memory, Cols
<1>22. CASE Crash
  BY <1>0, <1>22, UnknownType DEF Crash, Data, files, Cols, Load
<1> QED
  BY <1>1, <1>2, <1>3, <1>4, <1>5, <1>6, <1>7, <1>8, <1>9, <1>10, <1>11, <1>12, <1>13, <1>14, <1>15, <1>16, <1>17, <1>18, <1>19, <1>20, <1>21, <1>22 DEF Next

\* policyUpdated is a flag: every step sets it, resets it or leaves it.
LEMMA UpdatedSet ==
    ASSUME Next
    PROVE  updated' \in {TRUE, FALSE, updated}
BY DEF Next, Begin, Refuse, Upload, memory, Checkpoint, CheckpointFail, Interrupted, Finalize, WriteDb, WriteDbFail, SaveFile, SaveFileFail, WriteFile, UpdateProcessor, Send, RevertAuthzFile, RevertPathz, RevertPathzFail, CommitAuthzFile, SaveMeta, WriteMeta, RemoveBackup, Crash

\* Returning leaves settled Boolean; going on leaves it alone.
LEMMA EndFlags ==
    ASSUME NEW res, NEW gone, End(res, gone), Flags
    PROVE  uploaded' = uploaded /\ settled' \in BOOLEAN
<1>1. uploaded' = uploaded
  BY DEF End
<1>2. settled' = Settles(res, gone)
  BY DEF End
<1>3. Settles(res, gone) \in BOOLEAN
  <2>1. CASE res = "ok"
    BY <2>1 DEF Settles
  <2>2. CASE res # "ok"
    BY <2>2 DEF Settles
  <2> QED
    BY <2>1, <2>2
<1> QED
  BY <1>1, <1>2, <1>3

LEMMA GoFlags ==
    ASSUME NEW to, Go(to), Flags
    PROVE  uploaded' = uploaded /\ settled' \in BOOLEAN
<1>1. uploaded' = uploaded /\ settled' = settled
  BY DEF Go, history
<1> QED
  BY <1>1 DEF Flags

LEMMA LoseFlags ==
    ASSUME NEW what, NEW to, Lose(what, to), Flags
    PROVE  uploaded' = uploaded /\ settled' \in BOOLEAN
<1>1. uploaded' = uploaded /\ settled' = settled
  BY DEF Lose
<1> QED
  BY <1>1 DEF Flags

LEMMA ProceedFlags ==
    ASSUME NEW c, NEW gone, Proceed(c, gone), phase \in DbPhases, Flags
    PROVE  uploaded' = uploaded /\ settled' \in BOOLEAN
<1>1. CASE c <= Len(Cols)
  <2>1. uploaded' = uploaded /\ settled' = settled
    BY <1>1 DEF Proceed
  <2> QED
    BY <2>1 DEF Flags
<1>2. CASE ~(c <= Len(Cols))
  <2>1. \/ \E to : Go(to)
        \/ End("aborted", gone)
    BY <1>2 DEF Proceed, DbPhases
  <2> QED
    BY <2>1, GoFlags, EndFlags
<1> QED
  BY <1>1, <1>2

LEMMA MetaFailFlags ==
    ASSUME MetaFail, Flags
    PROVE  uploaded' = uploaded /\ settled' \in BOOLEAN
BY EndFlags DEF MetaFail

\* Every step keeps the flags Boolean.
LEMMA StepFlags ==
    ASSUME Flags, Data, Next
    PROVE  Flags'
<1>0. updated' \in BOOLEAN
  BY UpdatedSet DEF Flags
<1> DEFINE Kept == uploaded' \in BOOLEAN /\ settled' \in BOOLEAN
<1>a. ASSUME uploaded' = uploaded /\ settled' \in BOOLEAN PROVE Kept
  BY <1>a DEF Flags
<1>b. ASSUME settled' = settled, uploaded' = TRUE \/ uploaded' = FALSE PROVE Kept
  BY <1>b DEF Flags
<1>c. ASSUME uploaded' = uploaded /\ settled' = settled PROVE Kept
  BY <1>c DEF Flags
<1> HIDE DEF Kept
<1>1. ASSUME NEW r \in Rpcs, Begin(r) PROVE Kept
  BY <1>1, <1>b DEF Begin
<1>2. ASSUME NEW r \in Rpcs, Refuse(r) PROVE Kept
  BY <1>2, <1>c DEF Refuse, history
<1>3. ASSUME \E to : Go(to) PROVE Kept
  BY <1>3, <1>a, GoFlags
<1>4. ASSUME \E res, gone : End(res, gone) PROVE Kept
  BY <1>4, <1>a, EndFlags
<1>5. ASSUME \E what, to : Lose(what, to) PROVE Kept
  BY <1>5, <1>a, LoseFlags
<1>6. ASSUME MetaFail PROVE Kept
  BY <1>6, <1>a, MetaFailFlags
<1>7. ASSUME WriteDb PROVE Kept
  BY <1>7, <1>a, ProceedFlags DEF WriteDb
<1>8. ASSUME WriteDbFail PROVE Kept
  <2>1. phase \in DbPhases
    BY <1>8 DEF WriteDbFail
  <2>2. (\E to : Go(to)) \/ (\E res, gone : End(res, gone)) \/ (\E c, gone : Proceed(c, gone))
    BY <1>8, <2>1 DEF WriteDbFail, DbPhases, Data
  <2> QED
    BY <1>3, <1>4, <1>a, <2>1, <2>2, ProceedFlags
<1>9. ASSUME SaveFile PROVE Kept
  <2>1. CASE service = "authz"
    BY <1>9, <2>1, <1>b DEF SaveFile
  <2>2. CASE service # "authz"
    BY <1>9, <2>2, <1>3 DEF SaveFile
  <2> QED
    BY <2>1, <2>2
<1>10. ASSUME UpdateProcessor PROVE Kept
  <2>1. CASE req \in Invalid
    BY <1>10, <2>1, <1>3 DEF UpdateProcessor
  <2>2. CASE req \notin Invalid
    BY <1>10, <2>2, <1>b DEF UpdateProcessor
  <2> QED
    BY <2>1, <2>2
<1>11. ASSUME Crash PROVE Kept
  <2>1. uploaded' = FALSE
    BY <1>11 DEF Crash
  <2>2. settled' \in BOOLEAN
    BY <1>11 DEF Crash
  <2>3. uploaded' \in BOOLEAN
    BY <2>1
  <2> QED
    BY <2>2, <2>3 DEF Kept
<1>12. ASSUME Checkpoint \/ Interrupted \/ Finalize \/ SaveFileFail \/ WriteFile \/ Send \/ CommitAuthzFile PROVE Kept
  BY <1>12, <1>3 DEF Checkpoint, Interrupted, Finalize, SaveFileFail, WriteFile, Send, CommitAuthzFile
<1>13. ASSUME CheckpointFail \/ RevertAuthzFile PROVE Kept
  BY <1>13, <1>3, <1>4, <1>5 DEF CheckpointFail, RevertAuthzFile
<1>14. ASSUME RevertPathz \/ RevertPathzFail \/ RemoveBackup PROVE Kept
  BY <1>14, <1>4 DEF RevertPathz, RevertPathzFail, RemoveBackup
<1>15. ASSUME SaveMeta \/ WriteMeta PROVE Kept
  BY <1>15, <1>3, <1>4, <1>6 DEF SaveMeta, WriteMeta
<1>16. ASSUME NEW p \in Policies, NEW force \in BOOLEAN, Upload(p, force) PROVE Kept
  BY <1>16, <1>3 DEF Upload
<1>17. Kept
  BY <1>1, <1>2, <1>7, <1>8, <1>9, <1>10, <1>11, <1>12, <1>13, <1>14, <1>15, <1>16 DEF Next
<1> QED
  BY <1>0, <1>17 DEF Flags, Kept

LEMMA NextType ==
    ASSUME TypeOK, [Next]_vars
    PROVE  TypeOK'
<1>0. Control /\ Flags /\ Data
  BY TypeParts
<1>1. CASE Next
  <2>1. Control' /\ Flags' /\ Data'
    BY <1>0, <1>1, StepControl, StepFlags, StepData
  <2>2. (TypeOK <=> Control /\ Flags /\ Data)'
    BY TypeParts, PTL
  <2> QED
    BY <2>1, <2>2
<1>2. CASE UNCHANGED vars
  <2>1. Control' /\ Data'
    BY <1>0, <1>2 DEF vars, files, memory, history, Control, Data, Cols
  <2>2. updated' = updated /\ uploaded' = uploaded /\ settled' = settled
    BY <1>2 DEF vars, memory, history
  <2>3. Flags'
    BY <1>0, <2>2 DEF Flags
  <2>4. (TypeOK <=> Control /\ Flags /\ Data)'
    BY TypeParts, PTL
  <2> QED
    BY <2>1, <2>3, <2>4
<1> QED
  BY <1>1, <1>2

(* The state of a rotation, of a restart and of what they have stored keeps *)
(* its type in every behaviour of the two Rotate handlers.                  *)
THEOREM RotateTypeCorrect == Spec => []TypeOK
BY InitType, NextType, PTL DEF Spec
-----------------------------------------------------------------------------
(* What makes a rotation revertible: the backup, the copies the handlers    *)
(* made at the start, and, while authz writes the old metadata back, the    *)
(* columns it has written.                                                  *)
ColumnReset == phase \notin DbPhases => column = 1
Fresh == phase = "checkpoint" => file = before.file /\ ~updated
AuthzKept == InRotation /\ service = "authz" => processor = before.processor /\ copy = before.meta
PathzKept == InRotation /\ service = "pathz" =>
                policyCopy = before.processor /\ (updated \/ processor = before.processor)
Unwinding == phase = "revertDb" => service = "authz" /\ (lost = {} =>
                /\ file = before.file
                /\ \A i \in 1..(column - 1) : db[i] = before.meta[Cols[i]]
                /\ column > 2 => meta.version = before.meta.version)
PathzSteps == phase \in {"write", "update"} => service = "pathz"
Restorable == PathzSteps /\ BackupKept /\ ColumnReset /\ Fresh /\ AuthzKept /\ PathzKept /\ Unwinding

LEMMA InitRestorable == Init => Restorable
BY DEF Init, Restorable, PathzSteps, BackupKept, ColumnReset, Fresh, AuthzKept, PathzKept, Unwinding, InRotation, DbPhases

LEMMA StepRestorable ==
    ASSUME TypeOK, Restorable, Next
    PROVE  Restorable'
<1>1. ASSUME NEW r \in Rpcs, Begin(r) PROVE Restorable'
  BY <1>1 DEF TypeOK, Begin, Restorable, PathzSteps, BackupKept, ColumnReset, Fresh, AuthzKept, PathzKept, Unwinding, InRotation, DbPhases, files, memory, history, Go, Lose, End, Cols
<1>2. ASSUME NEW r \in Rpcs, Refuse(r) PROVE Restorable'
  BY <1>2 DEF TypeOK, Refuse, Restorable, PathzSteps, BackupKept, ColumnReset, Fresh, AuthzKept, PathzKept, Unwinding, InRotation, DbPhases, files, memory, history, Go, Lose, End, Cols
<1>3. ASSUME NEW p \in Policies, NEW force \in BOOLEAN, Upload(p, force) PROVE Restorable'
  BY <1>3 DEF TypeOK, Upload, Restorable, PathzSteps, BackupKept, ColumnReset, Fresh, AuthzKept, PathzKept, Unwinding, InRotation, DbPhases, files, memory, history, Go, Lose, End, Cols
<1>4. CASE Checkpoint
  BY <1>4 DEF TypeOK, Checkpoint, Restorable, PathzSteps, BackupKept, ColumnReset, Fresh, AuthzKept, PathzKept, Unwinding, InRotation, DbPhases, files, memory, history, Go, Lose, End, Cols
<1>5. CASE CheckpointFail
  <2>1. phase = "checkpoint" /\ UNCHANGED <<service, file, metaFile, db, memory, column, req, before>>
    BY <1>5 DEF CheckpointFail, Lose, End
  <2>2. (service = "authz" /\ phase' = "recv" /\ "checkpoint" \in lost') \/ (service # "authz" /\ phase' = "up")
    BY <1>5 DEF CheckpointFail, Lose, End
  <2>3. PathzSteps' /\ BackupKept' /\ Fresh' /\ Unwinding'
    BY <2>2 DEF PathzSteps, BackupKept, Fresh, Unwinding
  <2>4. ColumnReset'
    BY <2>1, <2>2 DEF Restorable, ColumnReset, DbPhases
  <2>5. AuthzKept' /\ PathzKept'
    BY <2>1, <2>2 DEF Restorable, AuthzKept, PathzKept, InRotation, memory
  <2> QED
    BY <2>3, <2>4, <2>5 DEF Restorable
<1>6. CASE Interrupted
  BY <1>6 DEF TypeOK, Interrupted, Restorable, PathzSteps, BackupKept, ColumnReset, Fresh, AuthzKept, PathzKept, Unwinding, InRotation, DbPhases, files, memory, history, Go, Lose, End, Cols
<1>7. CASE Finalize
  BY <1>7 DEF TypeOK, Finalize, Restorable, PathzSteps, BackupKept, ColumnReset, Fresh, AuthzKept, PathzKept, Unwinding, InRotation, DbPhases, files, memory, history, Go, Lose, End, Cols
<1>8. CASE SaveFile
  BY <1>8, RotateAssumption DEF TypeOK, SaveFile, Restorable, PathzSteps, BackupKept, ColumnReset, Fresh, AuthzKept, PathzKept, Unwinding, InRotation, DbPhases, files, memory, history, Go, Lose, End, Cols
<1>9. CASE SaveFileFail
  BY <1>9 DEF TypeOK, SaveFileFail, Restorable, PathzSteps, BackupKept, ColumnReset, Fresh, AuthzKept, PathzKept, Unwinding, InRotation, DbPhases, files, memory, history, Go, Lose, End, Cols
<1>10. CASE WriteFile
  BY <1>10 DEF TypeOK, WriteFile, Restorable, PathzSteps, BackupKept, ColumnReset, Fresh, AuthzKept, PathzKept, Unwinding, InRotation, DbPhases, files, memory, history, Go, Lose, End, Cols
<1>11. CASE UpdateProcessor
  <2>1. CASE req \in Invalid
    BY <1>11, <2>1 DEF TypeOK, UpdateProcessor, Restorable, PathzSteps, BackupKept, ColumnReset, Fresh, AuthzKept, PathzKept, Unwinding, InRotation, DbPhases, files, memory, history, Go, Lose, End, Cols
  <2>2. CASE req \notin Invalid
    <3>1. phase = "update" /\ phase' = "send" /\ service \in {"authz", "pathz"}
      BY <1>11, <2>2, RotateAssumption DEF UpdateProcessor, TypeOK
    <3>2. PathzSteps' /\ BackupKept' /\ ColumnReset' /\ Unwinding'
      BY <1>11, <2>2, <3>1 DEF TypeOK, UpdateProcessor, Restorable, PathzSteps, BackupKept, ColumnReset, Fresh, AuthzKept, PathzKept, Unwinding, InRotation, DbPhases, files, memory, history, Go, Lose, End, Cols
    <3>3. Fresh'
      BY <3>1 DEF Fresh
    <3>4. PathzKept'
      BY <1>11, <2>2, <3>1 DEF UpdateProcessor, Restorable, PathzSteps, BackupKept, ColumnReset, Fresh, AuthzKept, PathzKept, Unwinding, InRotation, DbPhases, files, memory, history, Go, Lose, End, Cols
    <3>5. AuthzKept'
      BY <1>11, <2>2, <3>1 DEF UpdateProcessor, Restorable, PathzSteps, BackupKept, ColumnReset, Fresh, AuthzKept, PathzKept, Unwinding, InRotation, DbPhases, files, memory, history, Go, Lose, End, Cols
    <3> QED
      BY <3>2, <3>3, <3>4, <3>5 DEF Restorable
  <2> QED
    BY <2>1, <2>2
<1>12. CASE Send
  BY <1>12 DEF TypeOK, Send, Restorable, PathzSteps, BackupKept, ColumnReset, Fresh, AuthzKept, PathzKept, Unwinding, InRotation, DbPhases, files, memory, history, Go, Lose, End, Cols
<1>13. CASE RevertAuthzFile
  <2>1. phase = "revert" /\ phase' = "revertDb" /\ service = "authz" /\ service' = service /\ column = 1 /\ column' = 1
    BY <1>13 DEF RevertAuthzFile, Restorable, ColumnReset, DbPhases, Go, Lose
  <2>2. lost' = {} => file' = before'.file
    <3>1. CASE backup # Missing /\ file' = backup /\ Go("revertDb")
      BY <2>1, <3>1 DEF Restorable, BackupKept, Go, history
    <3>2. CASE Lose("restore", "revertDb")
      BY <3>2 DEF Lose
    <3> QED
      BY <1>13, <3>1, <3>2 DEF RevertAuthzFile
  <2>3. Unwinding'
    BY <2>1, <2>2 DEF Unwinding
  <2>4. PathzSteps' /\ BackupKept' /\ ColumnReset' /\ Fresh' /\ AuthzKept' /\ PathzKept'
    BY <1>13, <2>1 DEF RevertAuthzFile, Restorable, PathzSteps, BackupKept, ColumnReset, Fresh, AuthzKept, PathzKept, Unwinding, InRotation, DbPhases, files, memory, history, Go, Lose, End, Cols
  <2> QED
    BY <2>3, <2>4 DEF Restorable
<1>14. CASE RevertPathz
  BY <1>14 DEF TypeOK, RevertPathz, Restorable, PathzSteps, BackupKept, ColumnReset, Fresh, AuthzKept, PathzKept, Unwinding, InRotation, DbPhases, files, memory, history, Go, Lose, End, Cols
<1>15. CASE RevertPathzFail
  BY <1>15 DEF TypeOK, RevertPathzFail, Restorable, PathzSteps, BackupKept, ColumnReset, Fresh, AuthzKept, PathzKept, Unwinding, InRotation, DbPhases, files, memory, history, Go, Lose, End, Cols
<1>16. CASE CommitAuthzFile
  BY <1>16 DEF TypeOK, CommitAuthzFile, Restorable, PathzSteps, BackupKept, ColumnReset, Fresh, AuthzKept, PathzKept, Unwinding, InRotation, DbPhases, files, memory, history, Go, Lose, End, Cols
<1>17. CASE SaveMeta
  BY <1>17 DEF TypeOK, SaveMeta, Restorable, PathzSteps, BackupKept, ColumnReset, Fresh, AuthzKept, PathzKept, Unwinding, InRotation, DbPhases, files, memory, history, Go, Lose, End, Cols, MetaFail
<1>18. CASE WriteMeta
  BY <1>18 DEF TypeOK, WriteMeta, Restorable, PathzSteps, BackupKept, ColumnReset, Fresh, AuthzKept, PathzKept, Unwinding, InRotation, DbPhases, files, memory, history, Go, Lose, End, Cols, MetaFail
<1>19. CASE RemoveBackup
  BY <1>19 DEF TypeOK, RemoveBackup, Restorable, PathzSteps, BackupKept, ColumnReset, Fresh, AuthzKept, PathzKept, Unwinding, InRotation, DbPhases, files, memory, history, Go, Lose, End, Cols
<1>20. CASE Crash
  BY <1>20 DEF TypeOK, Crash, Restorable, PathzSteps, BackupKept, ColumnReset, Fresh, AuthzKept, PathzKept, Unwinding, InRotation, DbPhases, files, memory, history, Go, Lose, End, Cols
<1>21. Len(Cols) \in {2, 4} /\ service \in {"authz", "pathz"} /\ column \in 1..Len(Cols)
  BY RotateAssumption, ColumnNames DEF TypeOK, Cols
<1>22. CASE WriteDb
  <2>1. phase \in DbPhases /\ Proceed(column + 1, lost)
    BY <1>22 DEF WriteDb
  <2>2. CASE phase # "revertDb"
    BY <1>21, <1>22, <2>1, <2>2 DEF WriteDb, Proceed, Restorable, PathzSteps, BackupKept, ColumnReset, Fresh, AuthzKept, PathzKept, Unwinding, InRotation, DbPhases, files, memory, history, Go, Lose, End, Cols
  <2>3. CASE phase = "revertDb" /\ column = 4
    <3>0. ~(column + 1 <= Len(Cols))
      <4>1. Len(Cols) = 4
        BY <2>3, AuthzColumns DEF Restorable, Unwinding, Cols
      <4> QED
        BY <2>3, <4>1
    <3>1. phase' = "up" /\ column' = 1
      BY <2>1, <2>3, <3>0 DEF Proceed, End
    <3> QED
      BY <1>22, <3>1 DEF WriteDb, Proceed, Restorable, PathzSteps, BackupKept, ColumnReset, Fresh, AuthzKept, PathzKept, Unwinding, InRotation, DbPhases, files, memory, history, Go, Lose, End, Cols
  <2>4. CASE phase = "revertDb" /\ column \in 1..3
    <3>1. service = "authz" /\ service' = service /\ Len(Cols) = 4 /\ copy = before.meta
      BY <1>22, <2>4, AuthzColumns DEF WriteDb, Restorable, Unwinding, AuthzKept, InRotation, Cols
    <3>2. column' = column + 1 /\ UNCHANGED <<rpc, phase, lost, before>>
      BY <2>1, <2>4, <3>1 DEF Proceed
    <3>3. db' = [db EXCEPT ![column] = before.meta[Cols[column]]]
      BY <1>22, <2>4, <3>1 DEF WriteDb, Put, Written
    <3>4. \A i \in 1..(column' - 1) : lost = {} => db'[i] = before.meta[Cols[i]]
      BY <2>4, <3>1, <3>2, <3>3 DEF TypeOK, Restorable, Unwinding
    <3>5. column' > 2 /\ lost = {} => meta'.version = before.meta.version
      <4>1. CASE column = 1
        BY <3>2, <4>1
      <4>2. CASE column = 2
        <5>1. Cols[2] = "version" /\ Cols[3] = "createdOn"
          BY <3>1, AuthzColumns DEF Cols
        <5>2. meta' = [meta EXCEPT !["version"] = before.meta["version"]]
          BY <1>22, <2>4, <3>1, <4>2, <5>1 DEF WriteDb, Put, Written, LastOfName
        <5> QED
          BY <5>2 DEF TypeOK, Metas
      <4>3. CASE column = 3
        <5>1. Cols[3] = "createdOn" /\ Cols[4] = "createdOn"
          BY <3>1, AuthzColumns DEF Cols
        <5>2. meta' = meta
          BY <1>22, <3>1, <4>3, <5>1 DEF WriteDb, LastOfName
        <5> QED
          BY <2>4, <4>3, <5>2 DEF Restorable, Unwinding
      <4> QED
        BY <2>4, <4>1, <4>2, <4>3
    <3>6. Unwinding'
      BY <1>22, <2>4, <3>1, <3>2, <3>4, <3>5 DEF WriteDb, files, Restorable, Unwinding, Cols
    <3>7. PathzSteps' /\ BackupKept' /\ ColumnReset' /\ Fresh' /\ AuthzKept' /\ PathzKept'
      BY <1>22, <2>4, <3>1, <3>2 DEF WriteDb, Restorable, PathzSteps, BackupKept, ColumnReset, Fresh, AuthzKept, PathzKept, Unwinding, InRotation, DbPhases, files, memory, history, Go, Lose, End, Cols
    <3> QED
      BY <3>6, <3>7 DEF Restorable
  <2> QED
    <3>1. phase = "revertDb" => Len(Cols) = 4
      BY AuthzColumns DEF Restorable, Unwinding, Cols
    <3>2. ASSUME phase = "revertDb" PROVE column = 4 \/ column \in 1..3
      <4>1. column \in 1..4
        BY <1>21, <3>1, <3>2
      <4> QED
        BY <4>1
    <3> QED
      BY <2>2, <2>3, <2>4, <3>2
<1>23. CASE WriteDbFail
  <2>1. phase \in DbPhases
    BY <1>23 DEF WriteDbFail
  <2>2. CASE phase = "revertDb"
    <3>1. lost' # {} /\ (phase' = "up" \/ phase' = "revertDb") /\ service' = service
      BY <1>23, <2>2 DEF WriteDbFail, Proceed, End
    <3> QED
      BY <1>21, <1>23, <2>2, <3>1 DEF WriteDbFail, Proceed, Restorable, PathzSteps, BackupKept, ColumnReset, Fresh, AuthzKept, PathzKept, Unwinding, InRotation, DbPhases, files, memory, history, Go, Lose, End, Cols
  <2>3. CASE phase = "boot" /\ service = "authz"
    BY <1>21, <1>23, <2>3 DEF WriteDbFail, Proceed, Restorable, PathzSteps, BackupKept, ColumnReset, Fresh, AuthzKept, PathzKept, Unwinding, InRotation, DbPhases, files, memory, history, Go, Lose, End, Cols
  <2>4. CASE phase = "upload" \/ phase = "commitDb" \/ (phase = "boot" /\ service = "pathz")
    BY <1>21, <1>23, <2>4 DEF WriteDbFail, Restorable, PathzSteps, BackupKept, ColumnReset, Fresh, AuthzKept, PathzKept, Unwinding, InRotation, DbPhases, files, memory, history, Go, Lose, End, Cols
  <2> QED
    BY <1>21, <2>1, <2>2, <2>3, <2>4 DEF DbPhases
<1> QED
  BY <1>1, <1>2, <1>3, <1>4, <1>5, <1>6, <1>7, <1>8, <1>9, <1>10, <1>11, <1>12, <1>13, <1>14, <1>15, <1>16, <1>17, <1>18, <1>19, <1>20, <1>22, <1>23 DEF Next

LEMMA NextRestorable ==
    ASSUME TypeOK, Restorable, [Next]_vars
    PROVE  Restorable'
<1>1. CASE Next
  BY <1>1, StepRestorable
<1>2. CASE UNCHANGED vars
  BY <1>2 DEF vars, files, memory, history, Restorable, PathzSteps, BackupKept, ColumnReset, Fresh, AuthzKept,
     PathzKept, Unwinding, InRotation, Cols
<1> QED
  BY <1>1, <1>2

(* For any policies, number of RPCs and faults: whenever checkpointAuthzFile *)
(* or createCheckpoint has succeeded and the rotation can still be reverted, *)
(* the backup file is the policy that was in use when it began.              *)
THEOREM BackupIsKept == Spec => []BackupKept
<1>1. Init => TypeOK /\ Restorable
  BY InitType, InitRestorable
<1>2. TypeOK /\ Restorable /\ [Next]_vars => TypeOK' /\ Restorable'
  BY NextType, NextRestorable
<1>3. Restorable => BackupKept
  BY DEF Restorable
<1> QED
  BY <1>1, <1>2, <1>3, PTL DEF Spec

\* A step that leaves the RPCs alone, or goes on, aborts nothing.
LEMMA GoesOn ==
    ASSUME UNCHANGED rpc
    PROVE  Restores
BY DEF Restores

\* The last of the columns is written: STATE_DB has all of m.
LEMMA AllWritten ==
    ASSUME TypeOK, NEW m, column = Len(Cols),
           \A i \in 1..(column - 1) : db[i] = m[Cols[i]],
           db' = [db EXCEPT ![column] = m[Cols[column]]]
    PROVE  db' = Stored(service, m)
<1>1. Len(Cols) \in {2, 4}
  BY RotateAssumption, ColumnNames DEF TypeOK, Cols
<1>2. db' = [i \in 1..Len(Cols) |-> db'[i]]
  BY DEF TypeOK
<1>3. \A i \in 1..Len(Cols) : db'[i] = m[Cols[i]]
  BY <1>1 DEF TypeOK
<1>4. Stored(service, m) = [i \in 1..Len(Cols) |-> m[Cols[i]]]
  BY DEF Stored, Cols
<1> QED
  BY <1>2, <1>3, <1>4

\* ... and authz has taken both values.
LEMMA BothTaken ==
    ASSUME NEW m \in Metas, meta \in Metas, meta.version = m.version,
           meta' = [meta EXCEPT !["createdOn"] = m["createdOn"]]
    PROVE  meta' = m
BY DEF Metas

\* revertAuthzFileChanges has written the last column.
LEMMA DbReverted ==
    ASSUME TypeOK, Restorable, WriteDb, phase = "revertDb", ~(column + 1 <= Len(Cols))
    PROVE  /\ service = "authz" /\ lost' = lost /\ phase' = "up" /\ settled' = (lost = {} /\ settled)
           /\ processor' = before.processor
           /\ lost = {} => /\ file' = before.file /\ meta' = before.meta
                          /\ db' = Stored(service, before.meta)
<1>1. service = "authz" /\ copy = before.meta /\ processor = before.processor
  BY DEF Restorable, Unwinding, AuthzKept, InRotation
<1>2. Len(Cols) = 4
  BY <1>1, AuthzColumns DEF Cols
<1>3. column = 4
  BY <1>2 DEF TypeOK
<1>4. lost' = lost /\ phase' = "up" /\ settled' = (lost = {} /\ settled)
  BY DEF WriteDb, Proceed, End, Settles
<1>5. lost = {} => /\ file = before.file /\ meta.version = before.meta.version
                  /\ \A i \in 1..(column - 1) : db[i] = before.meta[Cols[i]]
  BY <1>3 DEF Restorable, Unwinding
<1>6. Cols[4] = "createdOn"
  BY <1>1, AuthzColumns DEF Cols
<1>7. db' = [db EXCEPT ![column] = before.meta[Cols[column]]]
  BY <1>1 DEF WriteDb, Put, Written
<1>8. meta' = [meta EXCEPT !["createdOn"] = before.meta["createdOn"]]
  BY <1>1, <1>2, <1>3, <1>6 DEF WriteDb, Put, Written, LastOfName
<1>9. lost = {} => meta' = before.meta
  BY <1>5, <1>8, BothTaken DEF TypeOK
<1>10. lost = {} => db' = Stored(service, before.meta)
  BY <1>2, <1>3, <1>5, <1>7, AllWritten
<1>11. file' = file /\ processor' = processor
  BY DEF WriteDb, files
<1> QED
  BY <1>1, <1>4, <1>5, <1>9, <1>10, <1>11

LEMMA StepRestores ==
    ASSUME TypeOK, Restorable, Next
    PROVE  Restores
<1>0. service \in {"authz", "pathz"}
  BY RotateAssumption DEF TypeOK
<1>1. ASSUME NEW r \in Rpcs, Begin(r) PROVE Restores
  BY <1>1 DEF Begin, Restores, TypeOK
<1>2. ASSUME NEW r \in Rpcs, Refuse(r) PROVE Restores
  BY <1>2 DEF Refuse, Restores, TypeOK
<1>3. ASSUME NEW p \in Policies, NEW force \in BOOLEAN, Upload(p, force) PROVE Restores
  BY <1>3, GoesOn DEF Upload, Go
<1>4. CASE Checkpoint \/ Interrupted \/ Finalize \/ SaveFile \/ SaveFileFail \/ WriteFile \/ UpdateProcessor
           \/ Send \/ RevertAuthzFile \/ CommitAuthzFile
  BY <1>4, GoesOn DEF Checkpoint, Interrupted, Finalize, SaveFile, SaveFileFail, WriteFile, UpdateProcessor, Send,
     RevertAuthzFile, CommitAuthzFile, Go, Lose
<1>5. CASE CheckpointFail
  <2>1. CASE service = "authz"
    BY <1>5, <2>1, GoesOn DEF CheckpointFail, Lose
  <2>2. CASE service = "pathz"
    BY <1>5, <2>2 DEF CheckpointFail, End, Restores, Restorable, Fresh, PathzKept, InRotation, memory
  <2> QED
    BY <1>0, <2>1, <2>2
<1>6. CASE RevertPathz
  <2>1. (service = "pathz" /\ file' = backup) \/ lost' # {}
    BY <1>6 DEF RevertPathz, End
  <2>2. lost' = {} => backup = before.file
    BY <1>6 DEF RevertPathz, End, Restorable, BackupKept
  <2>3. processor' = before.processor
    BY <1>6 DEF RevertPathz, Restorable, PathzKept, InRotation
  <2>4. service = "pathz"
    BY <1>6 DEF RevertPathz
  <2> QED
    BY <2>1, <2>2, <2>3, <2>4 DEF Restores
<1>7. CASE RevertPathzFail
  BY <1>7 DEF RevertPathzFail, End, Restores
<1>8. CASE SaveMeta \/ WriteMeta \/ RemoveBackup
  BY <1>8 DEF SaveMeta, WriteMeta, RemoveBackup, MetaFail, End, Go, Restores, TypeOK
<1>9. CASE Crash
  BY <1>9 DEF Crash, Restores
<1>10. CASE WriteDbFail
  BY <1>0, <1>10 DEF WriteDbFail, DbPhases, Proceed, Go, End, Restores
<1>11. CASE WriteDb
  <2>1. phase \in DbPhases /\ Proceed(column + 1, lost)
    BY <1>11 DEF WriteDb
  <2>2. CASE phase # "revertDb" \/ column + 1 <= Len(Cols)
    <3>1. UNCHANGED rpc
      BY <2>1, <2>2 DEF Proceed, DbPhases, Go
    <3> QED
      BY <3>1, GoesOn
  <2>3. CASE phase = "revertDb" /\ ~(column + 1 <= Len(Cols))
    BY <1>11, <2>3, DbReverted DEF Restores
  <2> QED
    BY <2>2, <2>3
<1> QED
  BY <1>1, <1>2, <1>3, <1>4, <1>5, <1>6, <1>7, <1>8, <1>9, <1>10, <1>11 DEF Next

(* For any policies, number of RPCs and faults: a Rotate that returns an     *)
(* error and has lost nothing has put back the policy file, the policy pathz *)
(* enforces and the metadata authz keeps in memory and in STATE_DB.          *)
THEOREM AbortsRestore == Spec => AbortRestores
<1>1. Init => TypeOK /\ Restorable
  BY InitType, InitRestorable
<1>2. TypeOK /\ Restorable /\ [Next]_vars => TypeOK' /\ Restorable'
  BY NextType, NextRestorable
<1>3. TypeOK /\ Restorable /\ [Next]_vars => [Restores]_vars
  BY StepRestores
<1> QED
  BY <1>1, <1>2, <1>3, PTL DEF Spec, AbortRestores
-----------------------------------------------------------------------------
(* What makes SettledAgree inductive: what agrees while nothing is open,    *)
(* what a rotation can go back to, and how much of an upload, of a commit   *)
(* and of a restart has been done.                                          *)
Sound == Policies \ Invalid

\* No rotation is under way: everything is that of the policy file.
Standing == phase \in {"up", "boot", "checkpoint"} /\ settled =>
    /\ file \in Sound /\ metaFile = Meta(file) /\ db = Stored(service, Meta(file))
    /\ service = "authz" \/ phase = "boot" => meta = Meta(file)
    /\ service = "pathz" /\ PathzPolicy => processor = file

\* What a rotation can go back to.
Past == InRotation /\ settled =>
    /\ before.file \in Sound
    /\ service = "authz" => before.meta = Meta(before.file)
    /\ service = "pathz" /\ PathzPolicy => before.processor = before.file
    /\ phase \notin {"writeMeta", "remove"} => metaFile = Meta(before.file)
    /\ service = "pathz" /\ phase \notin {"commitDb", "saveMeta", "writeMeta", "remove"} =>
          db = Stored(service, Meta(before.file))

Untouched ==
    /\ phase = "checkpoint" => ~uploaded
    /\ phase = "recv" /\ ~uploaded => file = before.file /\ ~updated
    /\ phase = "send" \/ updated => uploaded

\* authz: the columns of an upload, and where all of it is there.
AuthzUpload == phase = "upload" =>
    /\ service = "authz" /\ req \notin Invalid
    /\ \A i \in 1..(column - 1) : db[i] = Meta(req)[Cols[i]]
    /\ column > 2 => meta.version = Meta(req).version
AuthzSave == phase = "save" /\ service = "authz" =>
    req \notin Invalid /\ meta = Meta(req) /\ db = Stored(service, Meta(req))
AuthzDone ==
    service = "authz" /\ phase \in {"recv", "send", "commit", "saveMeta", "writeMeta"} /\ (uploaded \/ settled) =>
        file \in Sound /\ meta = Meta(file) /\ db = Stored(service, Meta(file))

\* pathz: an upload, and the columns of a commit.
PathzUpload ==
    /\ phase \in {"save", "write", "update"} /\ service = "pathz" => meta = Meta(req)
    /\ phase = "update" => file = req
PathzDone ==
    service = "pathz" /\ updated /\ phase \in {"recv", "send", "commitDb", "saveMeta", "writeMeta", "remove"} =>
        file \in Sound /\ meta = Meta(file) /\ processor = file
PathzCommit ==
    /\ phase = "commit" => service = "authz"
    /\ phase \in {"commitDb", "remove"} => service = "pathz"
    /\ service = "pathz" /\ phase \in {"commitDb", "saveMeta", "writeMeta", "remove"} => updated
    /\ phase = "commitDb" => \A i \in 1..(column - 1) : db[i] = meta[Cols[i]]
    /\ service = "pathz" /\ phase \in {"saveMeta", "writeMeta", "remove"} => db = Stored(service, meta)
    /\ phase = "remove" => metaFile = meta

Agreeing ==
    /\ Standing /\ Past /\ Untouched /\ AuthzUpload /\ AuthzSave /\ AuthzDone
    /\ PathzUpload /\ PathzDone /\ PathzCommit

LEMMA InitAgreeing == Init => Agreeing
<1> SUFFICES ASSUME Init PROVE Agreeing
  OBVIOUS
<1> QED
  BY RotateAssumption DEF Init, Sound, InRotation, Agreeing, Standing, Past, Untouched, AuthzUpload, AuthzSave, AuthzDone, PathzUpload, PathzDone, PathzCommit

\* The steps that write no column.
LEMMA StepAgreeing ==
    ASSUME TypeOK, Restorable, Agreeing, Next, ~WriteDb, ~WriteDbFail
    PROVE  Agreeing'
<1>0. service \in {"authz", "pathz"}
  BY RotateAssumption DEF TypeOK
<1>t. settled \in BOOLEAN /\ uploaded \in BOOLEAN /\ updated \in BOOLEAN /\ req \in Policies
  BY DEF TypeOK
<1>c. column = 1 \/ phase \in DbPhases
  BY DEF Restorable, ColumnReset
<1>e. /\ phase = "checkpoint" => file = before.file /\ ~updated
      /\ phase = "recv" \/ phase = "revert" => (lost = {} => backup = before.file)
      /\ InRotation /\ service = "pathz" => policyCopy = before.processor /\ (updated \/ processor = before.processor)
      /\ phase \in {"write", "update"} => service = "pathz"
  BY DEF Restorable, Fresh, BackupKept, PathzKept, PathzSteps
<1> USE DEF Sound, InRotation, Agreeing, Go, Lose, End, Settles, files, memory, history, DbPhases
<1>1. ASSUME NEW r \in Rpcs, Begin(r) PROVE Agreeing'
  BY <1>0, <1>t, <1>c, <1>e, <1>1 DEF Begin, Cols, Standing, Past, Untouched, AuthzUpload, AuthzSave, AuthzDone, PathzUpload, PathzDone, PathzCommit
<1>2. ASSUME NEW r \in Rpcs, Refuse(r) PROVE Agreeing'
  <2>1. Standing' /\ Past' /\ Untouched'
    BY <1>0, <1>t, <1>c, <1>e, <1>2 DEF Refuse, Cols, Standing, Past, Untouched
  <2>2. AuthzUpload' /\ AuthzSave' /\ AuthzDone'
    BY <1>0, <1>t, <1>c, <1>e, <1>2 DEF Refuse, Cols, AuthzUpload, AuthzSave, AuthzDone
  <2>3. PathzUpload' /\ PathzDone' /\ PathzCommit'
    BY <1>0, <1>t, <1>c, <1>e, <1>2 DEF Refuse, Cols, PathzUpload, PathzDone, PathzCommit
  <2> QED
    BY <2>1, <2>2, <2>3
<1>3. ASSUME NEW p \in Policies, NEW force \in BOOLEAN, Upload(p, force) PROVE Agreeing'
  <2>1. Standing' /\ Past' /\ Untouched'
    BY <1>0, <1>t, <1>c, <1>e, <1>3 DEF Upload, Refused, Cols, Standing, Past, Untouched
  <2>2. AuthzUpload' /\ AuthzSave' /\ AuthzDone'
    <3>1. AuthzUpload'
      BY <1>0, <1>c, <1>3 DEF Upload, Refused, AuthzUpload
    <3>2. AuthzSave' /\ AuthzDone'
      BY <1>3 DEF Upload, AuthzSave, AuthzDone
    <3> QED
      BY <3>1, <3>2
  <2>3. PathzUpload' /\ PathzDone' /\ PathzCommit'
    BY <1>0, <1>t, <1>c, <1>e, <1>3 DEF Upload, Refused, Cols, PathzUpload, PathzDone, PathzCommit
  <2> QED
    BY <2>1, <2>2, <2>3
<1>4. ASSUME Checkpoint PROVE Agreeing'
  BY <1>0, <1>t, <1>c, <1>e, <1>4 DEF Checkpoint, Cols, Standing, Past, Untouched, AuthzUpload, AuthzSave, AuthzDone, PathzUpload, PathzDone, PathzCommit
<1>5. ASSUME CheckpointFail PROVE Agreeing'
  BY <1>0, <1>t, <1>c, <1>e, <1>5 DEF CheckpointFail, Cols, Standing, Past, Untouched, AuthzUpload, AuthzSave, AuthzDone, PathzUpload, PathzDone, PathzCommit
<1>6. ASSUME Interrupted PROVE Agreeing'
  <2>1. Standing' /\ Past' /\ Untouched'
    BY <1>0, <1>t, <1>c, <1>e, <1>6 DEF Interrupted, Cols, Standing, Past, Untouched
  <2>2. AuthzUpload' /\ AuthzSave' /\ AuthzDone'
    BY <1>0, <1>t, <1>c, <1>e, <1>6 DEF Interrupted, Cols, AuthzUpload, AuthzSave, AuthzDone
  <2>3. PathzUpload' /\ PathzDone' /\ PathzCommit'
    BY <1>0, <1>t, <1>c, <1>e, <1>6 DEF Interrupted, Cols, PathzUpload, PathzDone, PathzCommit
  <2> QED
    BY <2>1, <2>2, <2>3
<1>7. ASSUME Finalize PROVE Agreeing'
  <2>1. Standing' /\ Past' /\ Untouched'
    BY <1>0, <1>t, <1>c, <1>e, <1>7 DEF Finalize, Cols, Standing, Past, Untouched
  <2>2. AuthzUpload' /\ AuthzSave' /\ AuthzDone'
    BY <1>0, <1>t, <1>c, <1>e, <1>7 DEF Finalize, Cols, AuthzUpload, AuthzSave, AuthzDone
  <2>3. PathzUpload' /\ PathzDone' /\ PathzCommit'
    <3>1. /\ phase = "recv" /\ UNCHANGED <<service, file, db, meta, processor, updated, column>>
          /\ (service = "authz" /\ phase' = "commit") \/ (service = "pathz" /\ updated /\ phase' = "commitDb") \/ phase' = "revert"
      BY <1>0, <1>7 DEF Finalize
    <3>2. PathzUpload' /\ PathzDone'
      BY <3>1 DEF PathzUpload, PathzDone
    <3>3. PathzCommit'
      BY <1>c, <3>1 DEF PathzCommit
    <3> QED
      BY <3>2, <3>3
  <2> QED
    BY <2>1, <2>2, <2>3
<1>8. ASSUME SaveFile PROVE Agreeing'
  <2>1. Standing' /\ Past' /\ Untouched'
    BY <1>0, <1>t, <1>c, <1>e, <1>8 DEF SaveFile, Cols, Standing, Past, Untouched
  <2>2. AuthzUpload' /\ AuthzSave' /\ AuthzDone'
    BY <1>0, <1>t, <1>c, <1>e, <1>8 DEF SaveFile, Cols, AuthzUpload, AuthzSave, AuthzDone
  <2>3. PathzUpload' /\ PathzDone' /\ PathzCommit'
    BY <1>0, <1>t, <1>c, <1>e, <1>8 DEF SaveFile, Cols, PathzUpload, PathzDone, PathzCommit
  <2> QED
    BY <2>1, <2>2, <2>3
<1>9. ASSUME SaveFileFail PROVE Agreeing'
  <2>1. Standing' /\ Past' /\ Untouched'
    BY <1>0, <1>t, <1>c, <1>e, <1>9 DEF SaveFileFail, Cols, Standing, Past, Untouched
  <2>2. AuthzUpload' /\ AuthzSave' /\ AuthzDone'
    BY <1>0, <1>t, <1>c, <1>e, <1>9 DEF SaveFileFail, Cols, AuthzUpload, AuthzSave, AuthzDone
  <2>3. PathzUpload' /\ PathzDone' /\ PathzCommit'
    BY <1>0, <1>t, <1>c, <1>e, <1>9 DEF SaveFileFail, Cols, PathzUpload, PathzDone, PathzCommit
  <2> QED
    BY <2>1, <2>2, <2>3
<1>10. ASSUME WriteFile PROVE Agreeing'
  <2>1. Standing' /\ Past' /\ Untouched'
    <3>1. /\ phase = "write" /\ phase' \in {"update", "revert"}
          /\ UNCHANGED <<service, metaFile, db, updated, before, uploaded, settled>>
      BY <1>10 DEF WriteFile
    <3>2. Standing' /\ Untouched'
      BY <3>1 DEF Standing, Untouched
    <3>3. Past'
      BY <3>1 DEF Past
    <3> QED
      BY <3>2, <3>3
  <2>2. AuthzUpload' /\ AuthzSave' /\ AuthzDone'
    BY <1>0, <1>t, <1>c, <1>e, <1>10 DEF WriteFile, Cols, AuthzUpload, AuthzSave, AuthzDone
  <2>3. PathzUpload' /\ PathzDone' /\ PathzCommit'
    BY <1>0, <1>t, <1>c, <1>e, <1>10 DEF WriteFile, Cols, PathzUpload, PathzDone, PathzCommit
  <2> QED
    BY <2>1, <2>2, <2>3
<1>11. ASSUME UpdateProcessor PROVE Agreeing'
  <2>1. Standing' /\ Past' /\ Untouched'
    BY <1>0, <1>t, <1>c, <1>e, <1>11 DEF UpdateProcessor, Cols, Standing, Past, Untouched
  <2>2. AuthzUpload' /\ AuthzSave' /\ AuthzDone'
    BY <1>0, <1>t, <1>c, <1>e, <1>11 DEF UpdateProcessor, Cols, AuthzUpload, AuthzSave, AuthzDone
  <2>3. PathzUpload' /\ PathzDone' /\ PathzCommit'
    BY <1>0, <1>t, <1>c, <1>e, <1>11 DEF UpdateProcessor, Cols, PathzUpload, PathzDone, PathzCommit
  <2> QED
    BY <2>1, <2>2, <2>3
<1>12. ASSUME Send PROVE Agreeing'
  <2>1. phase = "send" /\ phase' \in {"recv", "revert"} /\ UNCHANGED <<service, files, db, memory, column, req, history>>
    BY <1>12 DEF Send
  <2>2. Standing' /\ Past' /\ Untouched'
    BY <1>t, <2>1 DEF Standing, Past, Untouched
  <2>3. AuthzUpload' /\ AuthzSave' /\ AuthzDone'
    BY <1>t, <2>1 DEF AuthzUpload, AuthzSave, AuthzDone
  <2>4. PathzUpload' /\ PathzDone' /\ PathzCommit'
    BY <1>t, <2>1 DEF PathzUpload, PathzDone, PathzCommit
  <2> QED
    BY <2>2, <2>3, <2>4
<1>13. ASSUME RevertAuthzFile PROVE Agreeing'
  <2>1. Standing' /\ Past' /\ Untouched'
    <3>1. /\ phase = "revert" /\ service = "authz" /\ phase' \in {"revertDb"}
          /\ UNCHANGED <<service, metaFile, db, updated, before, uploaded, settled>>
      BY <1>13 DEF RevertAuthzFile
    <3>2. Standing' /\ Untouched'
      BY <3>1 DEF Standing, Untouched
    <3>3. Past'
      BY <3>1 DEF Past
    <3> QED
      BY <3>2, <3>3
  <2>2. AuthzUpload' /\ AuthzSave' /\ AuthzDone'
    BY <1>0, <1>t, <1>c, <1>e, <1>13 DEF RevertAuthzFile, Cols, AuthzUpload, AuthzSave, AuthzDone
  <2>3. PathzUpload' /\ PathzDone' /\ PathzCommit'
    BY <1>0, <1>t, <1>c, <1>e, <1>13 DEF RevertAuthzFile, Cols, PathzUpload, PathzDone, PathzCommit
  <2> QED
    BY <2>1, <2>2, <2>3
<1>14. ASSUME RevertPathz PROVE Agreeing'
  <2>1. Standing' /\ Past' /\ Untouched'
    BY <1>0, <1>t, <1>c, <1>e, <1>14 DEF RevertPathz, Cols, Standing, Past, Untouched, AuthzUpload, AuthzSave, AuthzDone, PathzUpload, PathzDone, PathzCommit
  <2>2. AuthzUpload' /\ AuthzSave' /\ AuthzDone'
    BY <1>0, <1>t, <1>c, <1>e, <1>14 DEF RevertPathz, Cols, Standing, Past, Untouched, AuthzUpload, AuthzSave, AuthzDone, PathzUpload, PathzDone, PathzCommit
  <2>3. PathzUpload' /\ PathzDone' /\ PathzCommit'
    BY <1>0, <1>t, <1>c, <1>e, <1>14 DEF RevertPathz, Cols, Standing, Past, Untouched, AuthzUpload, AuthzSave, AuthzDone, PathzUpload, PathzDone, PathzCommit
  <2> QED
    BY <2>1, <2>2, <2>3
<1>15. ASSUME RevertPathzFail PROVE Agreeing'
  BY <1>0, <1>t, <1>c, <1>e, <1>15 DEF RevertPathzFail, Cols, Standing, Past, Untouched, AuthzUpload, AuthzSave, AuthzDone, PathzUpload, PathzDone, PathzCommit
<1>16. ASSUME CommitAuthzFile PROVE Agreeing'
  <2>1. Standing' /\ Past' /\ Untouched'
    BY <1>0, <1>t, <1>c, <1>e, <1>16 DEF CommitAuthzFile, Cols, Standing, Past, Untouched
  <2>2. AuthzUpload' /\ AuthzSave' /\ AuthzDone'
    BY <1>0, <1>t, <1>c, <1>e, <1>16 DEF CommitAuthzFile, Cols, AuthzUpload, AuthzSave, AuthzDone
  <2>3. PathzUpload' /\ PathzDone' /\ PathzCommit'
    BY <1>0, <1>t, <1>c, <1>e, <1>16 DEF CommitAuthzFile, Cols, PathzUpload, PathzDone, PathzCommit
  <2> QED
    BY <2>1, <2>2, <2>3
<1>17. ASSUME SaveMeta PROVE Agreeing'
  <2>1. phase = "saveMeta" /\ UNCHANGED <<service, file, backup, db, memory, column, req, before, uploaded>>
    BY <1>17 DEF SaveMeta, MetaFail
  <2>2. CASE metaFile' = Unreadable /\ Go("writeMeta")
    <3>1. Standing' /\ Past' /\ Untouched'
      <4>1. Standing' /\ Untouched'
        BY <2>1, <2>2 DEF Standing, Untouched
      <4>2. Past'
        BY <2>1, <2>2 DEF Past
      <4> QED
        BY <4>1, <4>2
    <3>2. AuthzUpload' /\ AuthzSave' /\ AuthzDone'
      <4>1. AuthzUpload' /\ AuthzSave'
        BY <2>1, <2>2 DEF AuthzUpload, AuthzSave
      <4>2. AuthzDone'
        BY <2>1, <2>2 DEF AuthzDone
      <4> QED
        BY <4>1, <4>2
    <3>3. PathzUpload' /\ PathzDone' /\ PathzCommit'
      BY <1>0, <1>t, <2>1, <2>2 DEF PathzUpload, PathzDone, PathzCommit
    <3> QED
      BY <3>1, <3>2, <3>3
  <2>3. CASE MetaFail
    <3>1. phase' = "up" /\ ~settled'
      BY <1>0, <2>3 DEF MetaFail
    <3> QED
      BY <1>0, <1>t, <2>1, <3>1 DEF Standing, Past, Untouched, AuthzUpload, AuthzSave, AuthzDone, PathzUpload, PathzDone, PathzCommit
  <2> QED
    BY <1>17, <2>2, <2>3 DEF SaveMeta
<1>18. ASSUME WriteMeta PROVE Agreeing'
  <2>1. Standing' /\ Past' /\ Untouched'
    BY <1>0, <1>t, <1>c, <1>e, <1>18 DEF WriteMeta, MetaFail, Cols, Standing, Past, Untouched, AuthzUpload, AuthzSave, AuthzDone, PathzUpload, PathzDone, PathzCommit
  <2>2. AuthzUpload' /\ AuthzSave' /\ AuthzDone'
    BY <1>0, <1>t, <1>c, <1>e, <1>18 DEF WriteMeta, MetaFail, Cols, Standing, Past, Untouched, AuthzUpload, AuthzSave, AuthzDone, PathzUpload, PathzDone, PathzCommit
  <2>3. PathzUpload' /\ PathzDone' /\ PathzCommit'
    BY <1>0, <1>t, <1>c, <1>e, <1>18 DEF WriteMeta, MetaFail, Cols, Standing, Past, Untouched, AuthzUpload, AuthzSave, AuthzDone, PathzUpload, PathzDone, PathzCommit
  <2> QED
    BY <2>1, <2>2, <2>3
<1>19. ASSUME RemoveBackup PROVE Agreeing'
  <2>1. Standing' /\ Past' /\ Untouched'
    BY <1>0, <1>t, <1>c, <1>e, <1>19 DEF RemoveBackup, Cols, Standing, Past, Untouched, AuthzUpload, AuthzSave, AuthzDone, PathzUpload, PathzDone, PathzCommit
  <2>2. AuthzUpload' /\ AuthzSave' /\ AuthzDone'
    BY <1>0, <1>t, <1>c, <1>e, <1>19 DEF RemoveBackup, Cols, Standing, Past, Untouched, AuthzUpload, AuthzSave, AuthzDone, PathzUpload, PathzDone, PathzCommit
  <2>3. PathzUpload' /\ PathzDone' /\ PathzCommit'
    BY <1>0, <1>t, <1>c, <1>e, <1>19 DEF RemoveBackup, Cols, Standing, Past, Untouched, AuthzUpload, AuthzSave, AuthzDone, PathzUpload, PathzDone, PathzCommit
  <2> QED
    BY <2>1, <2>2, <2>3
<1>20. ASSUME Crash PROVE Agreeing'
  <2>1. \A p \in Policies : Meta(p) # Unreadable
    BY RotateAssumption DEF Meta, Unreadable, Broken
  <2> QED
    BY <1>0, <1>t, <1>e, <1>20, <2>1 DEF Crash, Load, Cols, Standing, Past, Untouched, AuthzUpload, AuthzSave, AuthzDone, PathzUpload, PathzDone, PathzCommit
<1> QED
  BY <1>1, <1>2, <1>3, <1>4, <1>5, <1>6, <1>7, <1>8, <1>9, <1>10, <1>11, <1>12, <1>13, <1>14, <1>15, <1>16, <1>17, <1>18, <1>19, <1>20 DEF Next

\* Writing again what is there changes nothing.
LEMMA WrittenAgain ==
    ASSUME TypeOK, NEW m \in Metas, db = Stored(service, m)
    PROVE  /\ [db EXCEPT ![column] = m[Cols[column]]] = db
           /\ \A c \in {"version", "createdOn"} : [m EXCEPT ![c] = m[c]] = m
<1>1. db[column] = m[Cols[column]]
  BY DEF TypeOK, Stored, Cols
<1>2. [db EXCEPT ![column] = db[column]] = db
  BY DEF TypeOK
<1>3. \A c \in {"version", "createdOn"} : [m EXCEPT ![c] = m[c]] = m
  BY DEF Metas
<1> QED
  BY <1>1, <1>2, <1>3

\* The steps that write a column of STATE_DB.
LEMMA WriteAgreeing ==
    ASSUME TypeOK, Restorable, Agreeing, WriteDb \/ WriteDbFail
    PROVE  Agreeing'
<1>0. service \in {"authz", "pathz"} /\ phase \in DbPhases /\ column \in 1..Len(Cols) /\ Len(Cols) \in {2, 4}
  BY RotateAssumption, ColumnNames DEF TypeOK, WriteDb, WriteDbFail, Cols
<1>t. settled \in BOOLEAN /\ uploaded \in BOOLEAN /\ updated \in BOOLEAN
  BY DEF TypeOK
<1>u. UNCHANGED <<service, files, req, processor, updated, before, uploaded>>
  BY <1>0 DEF WriteDb, WriteDbFail, DbPhases, Proceed, Go, End, memory, history
<1>n. Cols[column] \in {"version", "createdOn"} /\ (service = "authz" => Len(Cols) = 4) /\ (service = "pathz" => Len(Cols) = 2)
  BY <1>0, ColumnNames, AuthzColumns, PathzColumns DEF Cols
<1>1. CASE phase = "boot"
  <2>1. phase' \in {"boot", "up"} /\ settled' = settled
    BY <1>0, <1>1 DEF WriteDb, WriteDbFail, Proceed, Go, history
  <2>2. ASSUME settled PROVE db' = db /\ meta' = meta
    <3>1. meta = Meta(file) /\ db = Stored(service, meta) /\ meta \in Metas
      BY <1>1, <2>2 DEF Agreeing, Standing, TypeOK
    <3>2. Put = db /\ [meta EXCEPT ![Cols[column]] = meta[Cols[column]]] = meta
      BY <1>1, <1>n, <3>1, WrittenAgain DEF Put, Written
    <3> QED
      BY <1>1, <3>2 DEF WriteDb, WriteDbFail, Written, memory
  <2>3. Standing'
    BY <1>1, <1>u, <1>t, <2>1, <2>2 DEF Agreeing, Standing, files
  <2> QED
    BY <1>u, <2>1, <2>3 DEF InRotation, Agreeing, Past, Untouched, AuthzUpload, AuthzSave, AuthzDone, PathzUpload, PathzDone, PathzCommit
<1>2. CASE phase = "revertDb"
  <2>0. service = "authz"
    BY <1>2 DEF Restorable, Unwinding
  <2>1. CASE phase' = "revertDb"
    <3>1. settled' = settled
      BY <1>0, <1>2, <2>1 DEF WriteDb, WriteDbFail, Proceed, End
    <3> QED
      BY <1>2, <1>u, <1>t, <2>0, <2>1, <3>1 DEF files, InRotation, Agreeing, Standing, Past, Untouched, AuthzUpload, AuthzSave, AuthzDone, PathzUpload, PathzDone, PathzCommit
  <2>2. CASE phase' # "revertDb"
    <3>1. phase' = "up"
      BY <1>0, <1>2, <2>2 DEF WriteDb, WriteDbFail, Proceed, End
    <3>2. ASSUME settled' PROVE /\ settled /\ file' = before.file /\ meta' = before.meta
                               /\ db' = Stored(service, before.meta)
      <4>1. CASE WriteDbFail
        BY <1>2, <2>2, <3>2, <4>1 DEF WriteDbFail, Proceed, End, Settles
      <4>2. CASE WriteDb
        <5>1. ~(column + 1 <= Len(Cols))
          BY <1>2, <2>2, <4>2 DEF WriteDb, Proceed
        <5> QED
          BY <1>2, <3>2, <4>2, <5>1, DbReverted
      <4> QED
        BY <4>1, <4>2
    <3>3. Standing'
      BY <1>2, <1>u, <2>0, <3>1, <3>2 DEF Agreeing, Standing, Past, InRotation, files
    <3> QED
      BY <1>u, <3>1, <3>3 DEF InRotation, Agreeing, Past, Untouched, AuthzUpload, AuthzSave, AuthzDone, PathzUpload, PathzDone, PathzCommit
  <2> QED
    BY <2>1, <2>2
<1>3. CASE WriteDbFail /\ phase \in {"upload", "commitDb"}
  <2>1. (phase = "upload" /\ phase' = "revert" /\ settled' = settled) \/ (phase' = "up" /\ ~settled')
    BY <1>3 DEF WriteDbFail, Go, End, Settles, history
  <2>2. phase = "upload" => service = "authz"
    BY DEF Agreeing, AuthzUpload
  <2>3. Standing' /\ Past' /\ Untouched'
    <3>1. Standing' /\ Untouched'
      BY <1>3, <1>u, <1>t, <2>1 DEF Agreeing, Standing, Untouched
    <3>2. Past'
      BY <1>3, <1>u, <1>t, <2>1, <2>2 DEF files, InRotation, Agreeing, Past
    <3> QED
      BY <3>1, <3>2
  <2>4. AuthzUpload' /\ AuthzSave' /\ AuthzDone'
    BY <1>u, <1>t, <2>1, <2>2 DEF AuthzUpload, AuthzSave, AuthzDone
  <2>5. PathzUpload' /\ PathzDone' /\ PathzCommit'
    BY <1>u, <1>t, <2>1, <2>2 DEF PathzUpload, PathzDone, PathzCommit
  <2> QED
    BY <2>3, <2>4, <2>5 DEF Agreeing
<1>4. CASE WriteDb /\ phase = "upload"
  <2>0. service = "authz" /\ req \notin Invalid /\ Len(Cols) = 4 /\ Meta(req) \in Metas /\ column \in 1..4
    BY <1>0, <1>4, <1>n, MetaType DEF Agreeing, AuthzUpload, TypeOK
  <2>1. Cols[1] = "version" /\ Cols[2] = "version" /\ Cols[3] = "createdOn" /\ Cols[4] = "createdOn"
    BY <2>0, AuthzColumns DEF Cols
  <2>2. /\ db' = [db EXCEPT ![column] = Meta(req)[Cols[column]]]
        /\ meta' = IF LastOfName(column) THEN [meta EXCEPT ![Cols[column]] = Meta(req)[Cols[column]]] ELSE meta
    BY <1>4, <2>0 DEF WriteDb, Put, Written
  <2>3. settled' = settled
    BY <1>4 DEF WriteDb, Proceed, Go, history
  <2>4. CASE column = 4
    <3>1. phase' = "save"
      BY <1>4, <2>0, <2>4 DEF WriteDb, Proceed, Go
    <3>2. meta' = [meta EXCEPT !["createdOn"] = Meta(req)["createdOn"]]
      BY <2>0, <2>1, <2>2, <2>4 DEF LastOfName
    <3>3. meta.version = Meta(req).version /\ \A i \in 1..(column - 1) : db[i] = Meta(req)[Cols[i]]
      BY <1>4, <2>4 DEF Agreeing, AuthzUpload
    <3>4. meta' = Meta(req)
      BY <2>0, <3>2, <3>3, BothTaken DEF TypeOK
    <3>5. db' = Stored(service, Meta(req))
      BY <2>0, <2>2, <2>4, <3>3, AllWritten
    <3>6. AuthzSave'
      BY <1>u, <2>0, <3>4, <3>5 DEF AuthzSave
    <3> QED
      BY <1>4, <1>u, <1>t, <2>0, <2>3, <3>1, <3>6 DEF files, InRotation, Agreeing, Standing, Past, Untouched, AuthzUpload, AuthzDone, PathzUpload, PathzDone, PathzCommit
  <2>5. CASE column \in 1..3
    <3>1. phase' = "upload" /\ column' = column + 1
      BY <1>4, <2>0, <2>5 DEF WriteDb, Proceed
    <3>2. \A i \in 1..(column' - 1) : db'[i] = Meta(req)[Cols[i]]
      BY <1>4, <2>0, <2>2, <2>5, <3>1 DEF TypeOK, Agreeing, AuthzUpload
    <3>3. column' > 2 => meta'.version = Meta(req).version
      <4>1. CASE column = 1
        BY <3>1, <4>1
      <4>2. CASE column = 2
        <5>0. LastOfName(column) /\ Cols[column] = "version"
          BY <2>1, <4>2 DEF LastOfName
        <5>1. meta' = [meta EXCEPT !["version"] = Meta(req)["version"]]
          BY <2>2, <5>0
        <5> QED
          BY <5>1 DEF TypeOK, Metas
      <4>3. CASE column = 3
        <5>1. meta' = meta
          BY <2>0, <2>1, <2>2, <4>3 DEF LastOfName
        <5> QED
          BY <1>4, <4>3, <5>1 DEF Agreeing, AuthzUpload
      <4> QED
        BY <2>5, <4>1, <4>2, <4>3
    <3>4. AuthzUpload'
      BY <1>u, <2>0, <3>2, <3>3 DEF AuthzUpload, Cols
    <3> QED
      BY <1>4, <1>u, <1>t, <2>0, <2>3, <3>1, <3>4 DEF files, InRotation, Agreeing, Standing, Past, Untouched, AuthzSave, AuthzDone, PathzUpload, PathzDone, PathzCommit
  <2> QED
    BY <2>0, <2>4, <2>5
<1>5. CASE WriteDb /\ phase = "commitDb"
  <2>0. service = "pathz" /\ Len(Cols) = 2 /\ column \in 1..2
    BY <1>0, <1>5, <1>n DEF Agreeing, PathzCommit
  <2>1. meta' = meta /\ settled' = settled /\ db' = [db EXCEPT ![column] = meta[Cols[column]]]
    BY <1>5, <2>0 DEF WriteDb, Put, Written, Proceed, Go, history
  <2>2. CASE column = 1
    <3>1. phase' = "commitDb" /\ column' = 2
      BY <1>5, <2>0, <2>2 DEF WriteDb, Proceed
    <3>2. \A i \in 1..(column' - 1) : db'[i] = meta'[Cols[i]]
      <4>1. db'[1] = meta[Cols[1]]
        BY <1>0, <2>1, <2>2 DEF TypeOK
      <4>2. \A i \in 1..(column' - 1) : i = 1
        BY <3>1
      <4> QED
        BY <2>1, <4>1, <4>2
    <3>3. PathzCommit'
      BY <1>5, <1>u, <2>0, <3>1, <3>2 DEF Agreeing, PathzCommit, Cols
    <3> QED
      BY <1>5, <1>u, <1>t, <2>0, <2>1, <3>1, <3>3 DEF files, InRotation, Agreeing, Standing, Past, Untouched, AuthzUpload, AuthzSave, AuthzDone, PathzUpload, PathzDone
  <2>3. CASE column = 2
    <3>1. phase' = "saveMeta"
      BY <1>5, <2>0, <2>3 DEF WriteDb, Proceed, Go
    <3>2. db' = Stored(service, meta)
      <4>1. \A i \in 1..(column - 1) : db[i] = meta[Cols[i]]
        BY <1>5 DEF Agreeing, PathzCommit
      <4> QED
        BY <2>0, <2>1, <2>3, <4>1, AllWritten
    <3>3. PathzCommit'
      BY <1>5, <1>u, <2>0, <2>1, <3>1, <3>2 DEF Agreeing, PathzCommit
    <3> QED
      BY <1>5, <1>u, <1>t, <2>0, <2>1, <3>1, <3>3 DEF files, InRotation, Agreeing, Standing, Past, Untouched, AuthzUpload, AuthzSave, AuthzDone, PathzUpload, PathzDone
  <2> QED
    BY <2>0, <2>2, <2>3
<1> QED
  BY <1>0, <1>1, <1>2, <1>3, <1>4, <1>5 DEF DbPhases

LEMMA NextAgreeing ==
    ASSUME TypeOK, Restorable, Agreeing, [Next]_vars
    PROVE  Agreeing'
<1>1. CASE Next
  BY <1>1, StepAgreeing, WriteAgreeing
<1>2. CASE UNCHANGED vars
  <2>1. Standing' /\ Past' /\ Untouched'
    BY <1>2 DEF vars, files, memory, history, InRotation, Sound, Agreeing, Standing, Past, Untouched
  <2>2. AuthzUpload' /\ AuthzSave' /\ AuthzDone'
    BY <1>2 DEF vars, files, memory, history, Cols, Sound, Agreeing, AuthzUpload, AuthzSave, AuthzDone
  <2>3. PathzUpload' /\ PathzDone' /\ PathzCommit'
    BY <1>2 DEF vars, files, memory, history, Cols, Sound, Agreeing, PathzUpload, PathzDone, PathzCommit
  <2> QED
    BY <2>1, <2>2, <2>3 DEF Agreeing
<1> QED
  BY <1>1, <1>2

(* For any policies, versions, number of RPCs and faults: once no rotation   *)
(* is open, the policy file, the metadata file, every column of STATE_DB and *)
(* what the server enforces are those of one upload, unless the code went on *)
(* without something it lost.                                                *)
THEOREM SettledStateAgrees == Spec => []SettledAgree
<1>1. Init => TypeOK /\ Restorable /\ Agreeing
  BY InitType, InitRestorable, InitAgreeing
<1>2. TypeOK /\ Restorable /\ Agreeing /\ [Next]_vars => TypeOK' /\ Restorable' /\ Agreeing'
  BY NextType, NextRestorable, NextAgreeing
<1>3. Agreeing => SettledAgree
  BY DEF Agreeing, Standing, SettledAgree, Sound
<1> QED
  BY <1>1, <1>2, <1>3, PTL DEF Spec
=============================================================================
