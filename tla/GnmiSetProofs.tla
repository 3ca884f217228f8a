---------------------------- MODULE GnmiSetProofs ----------------------------
(***************************************************************************)
(* Proofs about gNMI Set for any number of Sets, any keys and requests and *)
(* words of any width: the ids of the requests that master arbitration     *)
(* lets through never decrease, an acknowledged change is there and is     *)
(* saved, and the checkpoint file does not outlive the Sets.               *)
(***************************************************************************)
EXTENDS GnmiSet, TLAPS

\* What arbitration keeps: no id let through is above the master's, as numbers.
Arbitrated ==
    /\ pc \in [Rpcs -> Locations]
    /\ master \in Eids
    /\ eid \in [Rpcs -> SUBSET Eids]
    /\ \A r \in Rpcs : \A e, f \in eid[r] : e = f
    /\ admitted \subseteq Eids
    /\ \A f \in admitted : Number(f) <= Number(master)

\* A larger high word decides, whatever the low words are.
LEMMA HighWordDecides ==
    ASSUME NEW h \in Nat, NEW g \in Nat, g < h, NEW w \in Nat,
           NEW l \in 0..(w - 1), NEW m \in 0..(w - 1)
    PROVE  g * w + m < h * w + l
<1>1. PICK d \in Nat : h = g + 1 + d
  <2>1. h - g - 1 \in Nat /\ h = g + 1 + (h - g - 1)
    OBVIOUS
  <2> QED BY <2>1
<1>2. h * w = g * w + w + d * w
  BY <1>1
<1>3. d * w \in Nat /\ g * w \in Nat /\ h * w \in Nat
  BY <1>1
<1> QED BY <1>2, <1>3

\* uint128.Compare says 1 exactly when its left side is the larger number.
LEMMA CompareIsNumeric ==
    ASSUME NEW a \in Eids, NEW b \in Eids
    PROVE  /\ Number(a) \in Nat
           /\ Compare(a, b) = 1 <=> Number(b) < Number(a)
<1>w. Word \in Nat
  BY SetAssumption
<1>t. /\ a.high \in Nat /\ b.high \in Nat
      /\ a.low \in 0..(Word - 1) /\ b.low \in 0..(Word - 1)
  BY <1>w DEF Eids
<1>n. a.high * Word \in Nat /\ b.high * Word \in Nat
  BY <1>w, <1>t
<1>1. CASE a.high > b.high
  <2>1. b.high * Word + b.low < a.high * Word + a.low
    BY <1>1, <1>w, <1>t, HighWordDecides
  <2> QED BY <1>1, <2>1, <1>t, <1>n DEF Compare, Number
<1>2. CASE a.high < b.high
  <2>1. a.high * Word + a.low < b.high * Word + b.low
    BY <1>2, <1>w, <1>t, HighWordDecides
  <2> QED BY <1>2, <2>1, <1>t, <1>n DEF Compare, Number
<1>3. CASE a.high = b.high
  BY <1>3, <1>t, <1>n DEF Compare, Number
<1> QED BY <1>1, <1>2, <1>3, <1>t

LEMMA InitArbitrated == Init => Arbitrated
<1> SUFFICES ASSUME Init PROVE Arbitrated
  OBVIOUS
<1>1. master \in Eids /\ admitted = {}
  BY SetAssumption DEF Init, Eids
<1>2. eid \in [Rpcs -> SUBSET Eids] /\ \A r \in Rpcs : \A e, f \in eid[r] : e = f
  <2>1. eid \in [Rpcs -> {{}} \cup {{e} : e \in Eids}]
    BY DEF Init
  <2> QED BY <2>1
<1>3. pc \in [Rpcs -> Locations]
  BY DEF Init, Locations
<1> QED BY <1>1, <1>2, <1>3 DEF Arbitrated

\* A step of an RPC that leaves the election alone and admits nobody.
Elsewhere(r) ==
    /\ UNCHANGED <<master, admitted, eid>>
    /\ \E x \in Locations \ {"idle", "admitted"} : pc' = pc \/ pc' = [pc EXCEPT ![r] = x]

\* Every step of Set but an admission is one.
LEMMA OnlyAdmissionElects ==
    ASSUME NEW r \in Rpcs, Rpc(r) \/ HostLate(r)
    PROVE  ArbitrateAdmit(r) \/ Elsewhere(r)
<1> USE DEF Elsewhere, Locations, Go, request, election
<1>1. CASE ArbitrateDeny(r)
  BY <1>1 DEF ArbitrateDeny
<1>2. CASE Refuse(r)
  BY <1>2 DEF Refuse
<1>3. CASE OpFail(r)
  BY <1>3 DEF OpFail
<1>4. CASE CreateCheckPoint(r)
  BY <1>4 DEF CreateCheckPoint
<1>5. CASE CreateFail(r)
  BY <1>5 DEF CreateFail
<1>6. CASE ReadFail(r)
  BY <1>6 DEF ReadFail
<1>7. CASE SaveStartupConfig(r)
  BY <1>7 DEF SaveStartupConfig
<1>8. CASE ApplyPatch(r)
  BY <1>8 DEF ApplyPatch
<1>9. CASE ConfigReplace(r)
  BY <1>9 DEF ConfigReplace
<1>10. CASE TranslSet(r)
  BY <1>10 DEF TranslSet
<1>11. CASE Route(r)
  <2>1. CASE kind[r] \in {"bypass", "appl"}
    <3>1. pc' = [pc EXCEPT ![r] = "ops"]
      BY <1>11, <2>1 DEF Route
    <3> QED BY <1>11, <3>1 DEF Route
  <2>2. CASE kind[r] = "patch"
    <3>1. pc' = [pc EXCEPT ![r] = "create"]
      BY <1>11, <2>2 DEF Route
    <3> QED BY <1>11, <3>1 DEF Route
  <2>3. CASE kind[r] \in {"replace", "transl"}
    <3>1. pc' = [pc EXCEPT ![r] = "apply"]
      BY <1>11, <2>3 DEF Route
    <3> QED BY <1>11, <3>1 DEF Route
  <2>4. CASE kind[r] \notin {"bypass", "appl", "patch", "replace", "transl"}
    <3>1. pc' = [pc EXCEPT ![r] = "startup"]
      BY <1>11, <2>4 DEF Route
    <3> QED BY <1>11, <3>1 DEF Route
  <2> QED BY <2>1, <2>2, <2>3, <2>4
<1>12. CASE \E op \in patch[r] : BypassOp(r, op) \/ SetDBOp(r, op)
  BY <1>12 DEF BypassOp, SetDBOp
<1>13. CASE OpsDone(r)
  BY <1>13 DEF OpsDone
<1>14. CASE ReadCheckPoint(r)
  BY <1>14 DEF ReadCheckPoint
<1>15. CASE ApplyFail(r)
  BY <1>15 DEF ApplyFail, Unapplied
<1>16. CASE ApplyTimeout(r)
  BY <1>16 DEF ApplyTimeout, Unapplied
<1>17. CASE Save(r)
  BY <1>17 DEF Save
<1>18. CASE SaveFail(r)
  BY <1>18 DEF SaveFail
<1>19. CASE DeleteCheckPoint(r)
  BY <1>19 DEF DeleteCheckPoint
<1>20. CASE HostLate(r)
  BY <1>20 DEF HostLate
<1> QED BY <1>1, <1>2, <1>3, <1>4, <1>5, <1>6, <1>7, <1>8, <1>9, <1>10, <1>11, <1>12, <1>13, <1>14, <1>15, <1>16, <1>17, <1>18, <1>19, <1>20 DEF Rpc

\* An admission is of an id no smaller than the master's, which it becomes.
LEMMA AdmissionElects ==
    ASSUME Arbitrated, NEW r \in Rpcs, ArbitrateAdmit(r)
    PROVE  /\ Arbitrated'
           /\ \A e \in eid[r], f \in admitted : Number(f) <= Number(e)
           /\ \A q \in Rpcs \ {r} : pc'[q] = pc[q]
<1>1. pc' \in [Rpcs -> Locations] /\ eid' = eid /\ \A q \in Rpcs \ {r} : pc'[q] = pc[q]
  BY DEF ArbitrateAdmit, Go, Arbitrated, Locations, request
<1>2. \A e \in eid[r] : e \in Eids /\ Number(master) <= Number(e)
  <2> TAKE e \in eid[r]
  <2>1. e \in Eids /\ master \in Eids /\ Compare(master, e) # 1
    BY DEF Arbitrated, ArbitrateAdmit
  <2> QED BY <2>1, CompareIsNumeric
<1>3. \A e \in Eids : Number(e) \in Nat
  BY CompareIsNumeric
<1>4. \A e \in eid[r], f \in admitted : Number(f) <= Number(e)
  BY <1>2, <1>3 DEF Arbitrated
<1>5. CASE eid[r] = {}
  <2>1. master' = master /\ admitted' = admitted
    BY <1>5 DEF ArbitrateAdmit
  <2> QED BY <1>1, <1>4, <2>1 DEF Arbitrated, Number
<1>6. CASE eid[r] # {}
  <2>1. PICK e \in eid[r] : master' = e
    BY <1>6 DEF ArbitrateAdmit
  <2>2. eid[r] = {e}
    BY DEF Arbitrated
  <2>3. admitted' = admitted \cup {e}
    BY <2>2 DEF ArbitrateAdmit
  <2>4. \A f \in admitted' : Number(f) <= Number(e)
    BY <1>2, <1>3, <1>4, <2>3
  <2> QED BY <1>1, <1>2, <1>4, <2>1, <2>3, <2>4 DEF Arbitrated, Number
<1> QED BY <1>5, <1>6

\* Elections only move forward: ReqFromMasterEnabledMA lets no request through whose
\* election id is below that of one it has let through before.
THEOREM ElectionsMoveForward == Spec => ElectionOrder
<1> DEFINE Forward ==
      \A r \in Rpcs : pc[r] = "idle" /\ pc'[r] = "admitted" =>
          \A e \in eid[r], f \in admitted : Number(f) <= Number(e)
<1>1. Arbitrated /\ [Next]_vars => Arbitrated' /\ (Forward \/ UNCHANGED vars)
  <2> SUFFICES ASSUME Arbitrated, [Next]_vars PROVE Arbitrated' /\ (Forward \/ UNCHANGED vars)
    OBVIOUS
  <2>1. CASE UNCHANGED vars
    BY <2>1 DEF vars, request, election, Arbitrated, Number
  <2>2. CASE Next
    <3>1. PICK r \in Rpcs : Rpc(r) \/ HostLate(r)
      BY <2>2 DEF Next
    <3>2. CASE ArbitrateAdmit(r)
      BY <3>2, AdmissionElects
    <3>3. CASE Elsewhere(r)
      <4>1. pc' \in [Rpcs -> Locations] /\ \A q \in Rpcs : pc'[q] = "admitted" => pc[q] = "admitted"
        BY <3>3 DEF Elsewhere, Arbitrated, Locations
      <4>2. Forward
        BY <4>1
      <4> QED BY <3>3, <4>1, <4>2 DEF Elsewhere, Arbitrated, Number
    <3> QED BY <3>1, <3>2, <3>3, OnlyAdmissionElects
  <2> QED BY <2>1, <2>2
<1>2. (Forward \/ UNCHANGED vars) <=> [Forward]_vars
  OBVIOUS
<1> QED BY InitArbitrated, <1>1, <1>2, PTL DEF Spec, ElectionOrder

-----------------------------------------------------------------------------
(* Types *)

\* The types of the state together with those of the requests, which never change.
Typed ==
    /\ TypeOK
    /\ kind \in [Rpcs -> AllKinds] /\ eid \in [Rpcs -> SUBSET Eids]
    /\ dels \in [Rpcs -> SUBSET Keys] /\ upds \in [Rpcs -> SUBSET Keys]

LEMMA OpsTyped ==
    ASSUME NEW ds \in SUBSET Keys, NEW us \in SUBSET Keys
    PROVE  Ops(ds, us) \in SUBSET ({"del", "upd"} \X Keys)
BY DEF Ops

LEMMA InitTyped == Init => Typed
<1> SUFFICES ASSUME Init PROVE Typed
  OBVIOUS
<1>1. running \in Config /\ appl \in Config
  BY DEF Init, Config
<1>2. eid \in [Rpcs -> SUBSET Eids] /\ master \in Eids /\ admitted \subseteq Eids /\ pc \in [Rpcs -> Locations]
  BY InitArbitrated DEF Arbitrated
<1>3. kind \in [Rpcs -> AllKinds] /\ dels \in [Rpcs -> SUBSET Keys] /\ upds \in [Rpcs -> SUBSET Keys]
  BY SetAssumption DEF Init
<1>4. /\ res \in [Rpcs -> {"none", "ok", "error", "denied"}] /\ err \in [Rpcs -> BOOLEAN]
      /\ checkpoint \subseteq Config /\ patch \in [Rpcs -> SUBSET ({"del", "upd"} \X Keys)]
      /\ wrote \in [Rpcs -> SUBSET Keys] /\ late \subseteq Rpcs
  BY DEF Init
<1>5. ver \in Nat /\ saved \in 0..ver /\ applied \in [Rpcs -> 0..ver]
  BY DEF Init
<1> QED BY <1>1, <1>2, <1>3, <1>4, <1>5 DEF Typed, TypeOK

\* What a change of CONFIG_DB by the host or the bypass keeps.
StoreTyped ==
    /\ running \in Config /\ ver \in Nat /\ applied \in [Rpcs -> 0..ver] /\ wrote \in [Rpcs -> SUBSET Keys]

LEMMA CommitTyped ==
    ASSUME StoreTyped, NEW r \in Rpcs, NEW c \in Config,
           NEW ops \in SUBSET ({"del", "upd"} \X Keys), Commit(r, c, ops)
    PROVE  StoreTyped' /\ ver' = ver + 1
<1>1. running' \in Config /\ ver' \in Nat /\ ver' = ver + 1
  BY DEF Commit, StoreTyped
<1>2. applied' \in [Rpcs -> 0..(ver + 1)]
  BY DEF Commit, StoreTyped
<1>3. {op[2] : op \in ops} \in SUBSET Keys
  OBVIOUS
<1>4. wrote' \in [Rpcs -> SUBSET Keys]
  BY <1>3 DEF Commit, StoreTyped, Written
<1> QED BY <1>1, <1>2, <1>4 DEF StoreTyped

\* Every step of a Set keeps the types.
LEMMA StepTyped ==
    ASSUME Typed, NEW r \in Rpcs, Rpc(r) \/ HostLate(r)
    PROVE  Typed'
<1> USE DEF Typed, TypeOK, Locations, Go, Answer, request, election, store
<1>s. StoreTyped
  BY DEF StoreTyped
<1>p. Patched(running, r, patch[r]) \in Config
  BY DEF Patched, Config
<1>o. patch[r] \in SUBSET ({"del", "upd"} \X Keys)
  OBVIOUS
<1>1. ASSUME ArbitrateDeny(r) PROVE Typed'
  BY <1>1 DEF ArbitrateDeny
<1>2. ASSUME Refuse(r) PROVE Typed'
  BY <1>2 DEF Refuse
<1>3. ASSUME OpFail(r) PROVE Typed'
  BY <1>3 DEF OpFail
<1>4. ASSUME CreateCheckPoint(r) PROVE Typed'
  BY <1>4 DEF CreateCheckPoint
<1>5. ASSUME CreateFail(r) PROVE Typed'
  BY <1>5 DEF CreateFail
<1>6. ASSUME ReadFail(r) PROVE Typed'
  BY <1>6 DEF ReadFail
<1>7. ASSUME Save(r) PROVE Typed'
  BY <1>7 DEF Save
<1>8. ASSUME SaveFail(r) PROVE Typed'
  <2>1. saved' \in 0..ver'
    BY <1>8 DEF SaveFail
  <2>2. pc' \in [Rpcs -> Locations] /\ err' \in [Rpcs -> BOOLEAN]
        /\ res' \in [Rpcs -> {"none", "ok", "error", "denied"}]
    BY <1>8 DEF SaveFail
  <2> QED BY <1>8, <2>1, <2>2 DEF SaveFail
<1>9. ASSUME DeleteCheckPoint(r) PROVE Typed'
  BY <1>9 DEF DeleteCheckPoint
<1>10. ASSUME SaveStartupConfig(r) PROVE Typed'
  BY <1>10 DEF SaveStartupConfig
<1>11. ASSUME OpsDone(r) PROVE Typed'
  BY <1>11 DEF OpsDone
<1>12. ASSUME ArbitrateAdmit(r) PROVE Typed'
  BY <1>12 DEF ArbitrateAdmit
<1>13. ASSUME Route(r) PROVE Typed'
  <2>1. Ops(dels[r], upds[r]) \in SUBSET ({"del", "upd"} \X Keys)
    BY OpsTyped
  <2>2. patch' \in [Rpcs -> SUBSET ({"del", "upd"} \X Keys)]
    BY <1>13, <2>1 DEF Route
  <2>3. pc' \in [Rpcs -> Locations]
    BY <1>13 DEF Route
  <2> QED BY <1>13, <2>2, <2>3 DEF Route
<1>14. ASSUME \E op \in patch[r] : BypassOp(r, op) PROVE Typed'
  <2>1. PICK op \in patch[r] : BypassOp(r, op)
    BY <1>14
  <2>2. op \in {"del", "upd"} \X Keys /\ op[2] \in Keys /\ {op} \in SUBSET ({"del", "upd"} \X Keys)
    OBVIOUS
  <2>3. [running EXCEPT ![op[2]] = After(r, op)] \in Config
    BY <2>2 DEF Config, After
  <2>4. StoreTyped' /\ ver' = ver + 1
    BY <1>s, <2>1, <2>2, <2>3, CommitTyped DEF BypassOp
  <2>8. running' \in Config /\ ver' \in Nat /\ applied' \in [Rpcs -> 0..ver'] /\ wrote' \in [Rpcs -> SUBSET Keys]
    BY <2>4 DEF StoreTyped
  <2>9. saved' \in 0..ver'
    <3>1. saved' = saved
      BY <2>1 DEF BypassOp
    <3> QED BY <3>1, <2>4
  <2> HIDE DEF Locations, store
  <2> QED BY <2>1, <2>8, <2>9 DEF BypassOp
<1>15. ASSUME \E op \in patch[r] : SetDBOp(r, op) PROVE Typed'
  <2>1. PICK op \in patch[r] : SetDBOp(r, op)
    BY <1>15
  <2>2. op[2] \in Keys
    OBVIOUS
  <2>3. appl' \in Config
    BY <2>1, <2>2 DEF SetDBOp, Config, After
  <2>4. wrote' \in [Rpcs -> SUBSET Keys]
    BY <2>1, <2>2 DEF SetDBOp, Written
  <2> QED BY <2>1, <2>3, <2>4 DEF SetDBOp
<1>16. ASSUME ReadCheckPoint(r) PROVE Typed'
  <2>1. PICK c \in checkpoint :
          LET ops == Ops({k \in dels[r] : c[k] # Absent}, upds[r])
          IN  /\ patch' = [patch EXCEPT ![r] = ops]
              /\ pc' = [pc EXCEPT ![r] = IF ops = {} THEN "uncheck" ELSE "apply"]
    BY <1>16 DEF ReadCheckPoint
  <2>2. {k \in dels[r] : c[k] # Absent} \in SUBSET Keys
    OBVIOUS
  <2>3. Ops({k \in dels[r] : c[k] # Absent}, upds[r]) \in SUBSET ({"del", "upd"} \X Keys)
    BY <2>2, OpsTyped
  <2>4. patch' \in [Rpcs -> SUBSET ({"del", "upd"} \X Keys)] /\ pc' \in [Rpcs -> Locations]
    BY <2>1, <2>3
  <2> QED BY <1>16, <2>4 DEF ReadCheckPoint
<1>17. ASSUME ApplyPatch(r) PROVE Typed'
  <2>1. StoreTyped' /\ ver' = ver + 1
    BY <1>17, <1>s, <1>p, <1>o, CommitTyped DEF ApplyPatch, HostPatch
  <2>8. running' \in Config /\ ver' \in Nat /\ applied' \in [Rpcs -> 0..ver'] /\ wrote' \in [Rpcs -> SUBSET Keys]
    BY <2>1 DEF StoreTyped
  <2>9. saved' \in 0..ver'
    <3>1. saved' = saved
      BY <1>17 DEF ApplyPatch
    <3> QED BY <3>1, <2>1
  <2>10. pc' \in [Rpcs -> Locations]
    BY <1>17 DEF ApplyPatch
  <2> HIDE DEF Locations, store
  <2> QED BY <1>17, <2>8, <2>9, <2>10 DEF ApplyPatch
<1>18. ASSUME ConfigReplace(r) PROVE Typed'
  <2>0. Ops(Keys, {}) \in SUBSET ({"del", "upd"} \X Keys)
    BY OpsTyped
  <2>1. [k \in Keys |-> IF k \in upds[r] THEN r ELSE Absent] \in Config
    BY DEF Config
  <2>2. StoreTyped' /\ ver' = ver + 1
    BY <1>18, <1>s, <2>0, <2>1, CommitTyped DEF ConfigReplace, HostReplace
  <2>8. running' \in Config /\ ver' \in Nat /\ applied' \in [Rpcs -> 0..ver'] /\ wrote' \in [Rpcs -> SUBSET Keys]
    BY <2>2 DEF StoreTyped
  <2>9. saved' \in 0..ver'
    <3>1. saved' = saved
      BY <1>18 DEF ConfigReplace
    <3> QED BY <3>1, <2>2
  <2>10. pc' \in [Rpcs -> Locations]
    BY <1>18 DEF ConfigReplace
  <2> HIDE DEF Locations, store
  <2> QED BY <1>18, <2>8, <2>9, <2>10 DEF ConfigReplace
<1>19. ASSUME TranslSet(r) PROVE Typed'
  <2>1. StoreTyped' /\ ver' = ver + 1
    BY <1>19, <1>s, <1>p, <1>o, CommitTyped DEF TranslSet
  <2>8. running' \in Config /\ ver' \in Nat /\ applied' \in [Rpcs -> 0..ver'] /\ wrote' \in [Rpcs -> SUBSET Keys]
    BY <2>1 DEF StoreTyped
  <2>9. saved' \in 0..ver'
    <3>1. saved' = saved
      BY <1>19 DEF TranslSet
    <3> QED BY <3>1, <2>1
  <2>10. pc' \in [Rpcs -> Locations]
    BY <1>19 DEF TranslSet
  <2> HIDE DEF Locations, store
  <2> QED BY <1>19, <2>8, <2>9, <2>10 DEF TranslSet
<1>20. ASSUME ApplyFail(r) PROVE Typed'
  BY <1>20 DEF ApplyFail, Unapplied
<1>21. ASSUME ApplyTimeout(r) PROVE Typed'
  BY <1>21 DEF ApplyTimeout, Unapplied
<1>22. ASSUME HostLate(r) PROVE Typed'
  <2>0. Ops(Keys, {}) \in SUBSET ({"del", "upd"} \X Keys)
    BY OpsTyped
  <2>1. [k \in Keys |-> IF k \in upds[r] THEN r ELSE Absent] \in Config
    BY DEF Config
  <2>2. (StoreTyped' /\ ver' = ver + 1) \/ UNCHANGED store
    BY <1>22, <1>s, <1>p, <1>o, <2>0, <2>1, CommitTyped DEF HostLate, HostPatch, HostReplace
  <2> QED BY <1>22, <2>2 DEF HostLate, StoreTyped
<1> QED BY <1>1, <1>2, <1>3, <1>4, <1>5, <1>6, <1>7, <1>8, <1>9, <1>10, <1>11, <1>12, <1>13, <1>14, <1>15, <1>16, <1>17, <1>18, <1>19, <1>20, <1>21, <1>22 DEF Rpc

\* The state of the Sets, the databases and the checkpoint file keeps its type, for any
\* requests, keys, election ids and faults.
THEOREM SetTypeCorrect == Spec => []TypeOK
<1>1. Typed /\ [Next]_vars => Typed'
  <2> SUFFICES ASSUME Typed, [Next]_vars PROVE Typed'
    OBVIOUS
  <2>1. CASE UNCHANGED vars
    BY <2>1 DEF vars, request, election, store, Typed, TypeOK
  <2>2. CASE Next
    BY <2>2, StepTyped DEF Next
  <2> QED BY <2>1, <2>2
<1>2. Typed => TypeOK
  BY DEF Typed
<1> QED BY InitTyped, <1>1, <1>2, PTL DEF Spec

-----------------------------------------------------------------------------
(* Saving *)

\* Where a Set through D-Bus stands with its change: none is made before it is applied,
\* past the saving it is saved, and one the host makes late is of a Set that fails.
Progress(r) ==
    /\ pc[r] # "ops"
    /\ pc[r] \in {"idle", "admitted", "create", "read", "apply"} => applied[r] = 0
    /\ pc[r] = "uncheck" /\ ~err[r] => applied[r] <= saved
    /\ pc[r] = "startup" => applied[r] <= saved
    /\ res[r] = "ok" => pc[r] = "done" /\ applied[r] <= saved
    /\ r \in late => (pc[r] = "uncheck" /\ err[r]) \/ (pc[r] = "done" /\ res[r] # "ok")

ViaDbus == {r \in Rpcs : kind[r] \in {"patch", "replace"}}

Saving == Typed /\ (\A r \in ViaDbus : Progress(r))

\* A step of one RPC leaves the others where they are, and what is saved stays saved.
LEMMA OthersKeepProgress ==
    ASSUME Typed, NEW r \in Rpcs, Rpc(r) \/ HostLate(r), NEW q \in Rpcs \ {r}
    PROVE  /\ pc'[q] = pc[q] /\ res'[q] = res[q] /\ err'[q] = err[q] /\ applied'[q] = applied[q]
           /\ (q \in late' => q \in late)
<1> USE DEF Typed, TypeOK, Go, Answer, request, election, store
<1> DEFINE Same == pc'[q] = pc[q] /\ res'[q] = res[q] /\ err'[q] = err[q] /\ applied'[q] = applied[q] /\ (q \in late' => q \in late)
<1>1. ASSUME ArbitrateDeny(r) PROVE Same
  BY <1>1 DEF ArbitrateDeny
<1>2. ASSUME ArbitrateAdmit(r) PROVE Same
  BY <1>2 DEF ArbitrateAdmit
<1>3. ASSUME Refuse(r) PROVE Same
  BY <1>3 DEF Refuse
<1>4. ASSUME Route(r) PROVE Same
  BY <1>4 DEF Route
<1>5. ASSUME OpFail(r) PROVE Same
  BY <1>5 DEF OpFail
<1>6. ASSUME OpsDone(r) PROVE Same
  BY <1>6 DEF OpsDone
<1>7. ASSUME CreateCheckPoint(r) PROVE Same
  BY <1>7 DEF CreateCheckPoint
<1>8. ASSUME CreateFail(r) PROVE Same
  BY <1>8 DEF CreateFail
<1>9. ASSUME ReadCheckPoint(r) PROVE Same
  BY <1>9 DEF ReadCheckPoint
<1>10. ASSUME ReadFail(r) PROVE Same
  BY <1>10 DEF ReadFail
<1>11. ASSUME Save(r) PROVE Same
  BY <1>11 DEF Save
<1>12. ASSUME SaveFail(r) PROVE Same
  BY <1>12 DEF SaveFail
<1>13. ASSUME DeleteCheckPoint(r) PROVE Same
  BY <1>13 DEF DeleteCheckPoint
<1>14. ASSUME SaveStartupConfig(r) PROVE Same
  BY <1>14 DEF SaveStartupConfig
<1>15. ASSUME \E op \in patch[r] : BypassOp(r, op) \/ SetDBOp(r, op) PROVE Same
  BY <1>15 DEF BypassOp, SetDBOp, Commit
<1>16. ASSUME ApplyPatch(r) PROVE Same
  BY <1>16 DEF ApplyPatch, HostPatch, Commit
<1>17. ASSUME ConfigReplace(r) PROVE Same
  BY <1>17 DEF ConfigReplace, HostReplace, Commit
<1>18. ASSUME TranslSet(r) PROVE Same
  BY <1>18 DEF TranslSet, Commit
<1>19. ASSUME ApplyFail(r) PROVE Same
  BY <1>19 DEF ApplyFail, Unapplied
<1>20. ASSUME ApplyTimeout(r) PROVE Same
  BY <1>20 DEF ApplyTimeout, Unapplied
<1>21. ASSUME HostLate(r) PROVE Same
  BY <1>21 DEF HostLate, HostPatch, HostReplace, Commit
<1> QED BY <1>1, <1>2, <1>3, <1>4, <1>5, <1>6, <1>7, <1>8, <1>9, <1>10, <1>11, <1>12, <1>13, <1>14, <1>15, <1>16, <1>17, <1>18, <1>19, <1>20, <1>21 DEF Rpc

LEMMA SavedGrows ==
    ASSUME Typed, NEW r \in Rpcs, Rpc(r) \/ HostLate(r)
    PROVE  saved <= saved' /\ kind' = kind
<1> USE DEF Typed, TypeOK, request
<1>1. ASSUME ArbitrateDeny(r) PROVE saved <= saved' /\ kind' = kind
  BY <1>1 DEF ArbitrateDeny
<1>2. ASSUME ArbitrateAdmit(r) PROVE saved <= saved' /\ kind' = kind
  BY <1>2 DEF ArbitrateAdmit
<1>3. ASSUME Refuse(r) PROVE saved <= saved' /\ kind' = kind
  BY <1>3 DEF Refuse
<1>4. ASSUME Route(r) PROVE saved <= saved' /\ kind' = kind
  BY <1>4 DEF Route
<1>5. ASSUME OpFail(r) PROVE saved <= saved' /\ kind' = kind
  BY <1>5 DEF OpFail
<1>6. ASSUME OpsDone(r) PROVE saved <= saved' /\ kind' = kind
  BY <1>6 DEF OpsDone
<1>7. ASSUME CreateCheckPoint(r) PROVE saved <= saved' /\ kind' = kind
  BY <1>7 DEF CreateCheckPoint
<1>8. ASSUME CreateFail(r) PROVE saved <= saved' /\ kind' = kind
  BY <1>8 DEF CreateFail
<1>9. ASSUME ReadCheckPoint(r) PROVE saved <= saved' /\ kind' = kind
  BY <1>9 DEF ReadCheckPoint
<1>10. ASSUME ReadFail(r) PROVE saved <= saved' /\ kind' = kind
  BY <1>10 DEF ReadFail
<1>11. ASSUME Save(r) PROVE saved <= saved' /\ kind' = kind
  BY <1>11 DEF Save
<1>12. ASSUME SaveFail(r) PROVE saved <= saved' /\ kind' = kind
  BY <1>12 DEF SaveFail
<1>13. ASSUME DeleteCheckPoint(r) PROVE saved <= saved' /\ kind' = kind
  BY <1>13 DEF DeleteCheckPoint
<1>14. ASSUME SaveStartupConfig(r) PROVE saved <= saved' /\ kind' = kind
  BY <1>14 DEF SaveStartupConfig
<1>15. ASSUME \E op \in patch[r] : BypassOp(r, op) \/ SetDBOp(r, op) PROVE saved <= saved' /\ kind' = kind
  BY <1>15 DEF BypassOp, SetDBOp
<1>16. ASSUME ApplyPatch(r) PROVE saved <= saved' /\ kind' = kind
  BY <1>16 DEF ApplyPatch
<1>17. ASSUME ConfigReplace(r) PROVE saved <= saved' /\ kind' = kind
  BY <1>17 DEF ConfigReplace
<1>18. ASSUME TranslSet(r) PROVE saved <= saved' /\ kind' = kind
  BY <1>18 DEF TranslSet
<1>19. ASSUME HostLate(r) PROVE saved <= saved' /\ kind' = kind
  BY <1>19 DEF HostLate
<1>20. ASSUME ApplyFail(r) PROVE saved <= saved' /\ kind' = kind
  BY <1>20 DEF ApplyFail, Unapplied
<1>21. ASSUME ApplyTimeout(r) PROVE saved <= saved' /\ kind' = kind
  BY <1>21 DEF ApplyTimeout, Unapplied
<1> QED BY <1>1, <1>2, <1>3, <1>4, <1>5, <1>6, <1>7, <1>8, <1>9, <1>10, <1>11, <1>12, <1>13, <1>14, <1>15, <1>16, <1>17, <1>18, <1>19, <1>20, <1>21 DEF Rpc

\* The step an RPC through D-Bus takes itself.
LEMMA OwnProgress ==
    ASSUME Typed, NEW r \in Rpcs, kind[r] \in {"patch", "replace"}, Progress(r), Rpc(r) \/ HostLate(r)
    PROVE  Progress(r)'
<1> USE DEF Typed, TypeOK, Progress, Go, Answer, request, election, store
<1>1. ASSUME ArbitrateDeny(r) PROVE Progress(r)'
  BY <1>1 DEF ArbitrateDeny
<1>2. ASSUME ArbitrateAdmit(r) PROVE Progress(r)'
  BY <1>2 DEF ArbitrateAdmit
<1>3. ASSUME Refuse(r) PROVE Progress(r)'
  BY <1>3 DEF Refuse
<1>4. ASSUME Route(r) PROVE Progress(r)'
  BY <1>4 DEF Route
<1>5. ASSUME OpFail(r) PROVE Progress(r)'
  BY <1>5 DEF OpFail
<1>6. ASSUME OpsDone(r) PROVE Progress(r)'
  BY <1>6 DEF OpsDone
<1>7. ASSUME CreateCheckPoint(r) PROVE Progress(r)'
  BY <1>7 DEF CreateCheckPoint
<1>8. ASSUME CreateFail(r) PROVE Progress(r)'
  BY <1>8 DEF CreateFail
<1>9. ASSUME ReadCheckPoint(r) PROVE Progress(r)'
  BY SMTT(30), <1>9 DEF ReadCheckPoint
<1>10. ASSUME ReadFail(r) PROVE Progress(r)'
  BY <1>10 DEF ReadFail
<1>11. ASSUME Save(r) PROVE Progress(r)'
  BY SMTT(30), <1>11 DEF Save
<1>12. ASSUME SaveFail(r) PROVE Progress(r)'
  BY ZenonT(60), <1>12 DEF SaveFail
<1>13. ASSUME DeleteCheckPoint(r) PROVE Progress(r)'
  BY <1>13 DEF DeleteCheckPoint
<1>14. ASSUME SaveStartupConfig(r) PROVE Progress(r)'
  BY SMTT(30), <1>14 DEF SaveStartupConfig
<1>15. ASSUME \E op \in patch[r] : BypassOp(r, op) \/ SetDBOp(r, op) PROVE Progress(r)'
  BY <1>15 DEF BypassOp, SetDBOp
<1>16. ASSUME ApplyPatch(r) PROVE Progress(r)'
  BY <1>16 DEF ApplyPatch
<1>17. ASSUME ConfigReplace(r) PROVE Progress(r)'
  BY <1>17 DEF ConfigReplace
<1>18. ASSUME TranslSet(r) PROVE Progress(r)'
  BY <1>18 DEF TranslSet
<1>19. ASSUME ApplyFail(r) PROVE Progress(r)'
  BY <1>19 DEF ApplyFail, Unapplied
<1>20. ASSUME ApplyTimeout(r) PROVE Progress(r)'
  BY <1>20 DEF ApplyTimeout, Unapplied
<1>21. ASSUME HostLate(r) PROVE Progress(r)'
  BY <1>21 DEF HostLate
<1> QED BY <1>1, <1>2, <1>3, <1>4, <1>5, <1>6, <1>7, <1>8, <1>9, <1>10, <1>11, <1>12, <1>13, <1>14, <1>15, <1>16, <1>17, <1>18, <1>19, <1>20, <1>21 DEF Rpc

\* A Set that answers ok after a patch or a replacement was applied through D-Bus has
\* saved a configuration no older than its change: ConfigSave's error fails the Set,
\* and a change the host makes after the timeout belongs to a Set that has failed.
THEOREM AcknowledgedIsSaved == Spec => []AckedIsSaved
<1>1. Init => Saving
  <2> SUFFICES ASSUME Init PROVE \A r \in ViaDbus : Progress(r)
    BY InitTyped DEF Saving
  <2> QED BY DEF Init, ViaDbus, Progress
<1>2. Saving /\ [Next]_vars => Saving'
  <2> SUFFICES ASSUME Saving, [Next]_vars PROVE Saving'
    OBVIOUS
  <2>1. CASE UNCHANGED vars
    BY <2>1 DEF vars, request, election, store, Saving, Typed, TypeOK, ViaDbus, Progress
  <2>2. CASE Next
    <3>1. PICK r \in Rpcs : Rpc(r) \/ HostLate(r)
      BY <2>2 DEF Next
    <3>2. Typed' /\ saved <= saved' /\ kind' = kind
      BY <3>1, StepTyped, SavedGrows DEF Saving
    <3>3. ASSUME NEW q \in ViaDbus' PROVE Progress(q)'
      <4>1. q \in Rpcs /\ kind[q] \in {"patch", "replace"} /\ Progress(q)
        BY <3>2 DEF ViaDbus, Saving
      <4>2. CASE q = r
        BY <3>1, <4>1, <4>2, OwnProgress DEF Saving
      <4>3. CASE q # r
        <5>1. /\ pc'[q] = pc[q] /\ res'[q] = res[q] /\ err'[q] = err[q] /\ applied'[q] = applied[q]
              /\ (q \in late' => q \in late)
          BY <3>1, <4>1, <4>3, OthersKeepProgress DEF Saving
        <5>2. ver \in Nat /\ saved \in 0..ver /\ applied[q] \in 0..ver
          BY <4>1 DEF Saving, Typed, TypeOK
        <5>3. ver' \in Nat /\ saved' \in 0..ver'
          BY <3>2 DEF Typed, TypeOK
        <5>4. applied[q] \in Int /\ saved \in Int /\ saved' \in Int
          BY <5>2, <5>3
        <5> QED BY SMTT(30), <3>2, <4>1, <5>1, <5>4 DEF Progress
      <4> QED BY <4>2, <4>3
    <3> QED BY <3>2, <3>3 DEF Saving
  <2> QED BY <2>1, <2>2
<1>3. Saving => AckedIsSaved
  BY DEF Saving, AckedIsSaved, Progress, ViaDbus
<1> QED BY <1>1, <1>2, <1>3, PTL DEF Spec

-----------------------------------------------------------------------------
(* The kinds of Sets *)

\* Each kind of Set passes through its own places.
Placed(r) ==
    /\ pc[r] = "ops" => kind[r] \in {"bypass", "appl"}
    /\ pc[r] \in {"create", "read", "uncheck"} => kind[r] = "patch"
    /\ pc[r] = "apply" => kind[r] \in {"patch", "replace", "transl"}
    /\ pc[r] = "save" => kind[r] \in {"patch", "replace"}

Placing == Typed /\ \A r \in Rpcs : Placed(r)

LEMMA OwnPlace ==
    ASSUME Typed, NEW r \in Rpcs, Placed(r), Rpc(r) \/ HostLate(r)
    PROVE  Placed(r)'
<1> USE DEF Typed, TypeOK, Placed, Go, Answer, request, election, store
<1>1. ASSUME ArbitrateDeny(r) PROVE Placed(r)'
  BY <1>1 DEF ArbitrateDeny
<1>2. ASSUME ArbitrateAdmit(r) PROVE Placed(r)'
  BY <1>2 DEF ArbitrateAdmit
<1>3. ASSUME Refuse(r) PROVE Placed(r)'
  BY <1>3 DEF Refuse
<1>4. ASSUME Route(r) PROVE Placed(r)'
  BY <1>4 DEF Route
<1>5. ASSUME OpFail(r) PROVE Placed(r)'
  BY <1>5 DEF OpFail
<1>6. ASSUME OpsDone(r) PROVE Placed(r)'
  BY <1>6 DEF OpsDone
<1>7. ASSUME CreateCheckPoint(r) PROVE Placed(r)'
  BY <1>7 DEF CreateCheckPoint
<1>8. ASSUME CreateFail(r) PROVE Placed(r)'
  BY <1>8 DEF CreateFail
<1>9. ASSUME ReadCheckPoint(r) PROVE Placed(r)'
  BY <1>9 DEF ReadCheckPoint
<1>10. ASSUME ReadFail(r) PROVE Placed(r)'
  BY <1>10 DEF ReadFail
<1>11. ASSUME Save(r) PROVE Placed(r)'
  BY <1>11 DEF Save
<1>12. ASSUME SaveFail(r) PROVE Placed(r)'
  BY <1>12 DEF SaveFail
<1>13. ASSUME DeleteCheckPoint(r) PROVE Placed(r)'
  BY <1>13 DEF DeleteCheckPoint
<1>14. ASSUME SaveStartupConfig(r) PROVE Placed(r)'
  BY <1>14 DEF SaveStartupConfig
<1>15. ASSUME \E op \in patch[r] : BypassOp(r, op) \/ SetDBOp(r, op) PROVE Placed(r)'
  BY <1>15 DEF BypassOp, SetDBOp
<1>16. ASSUME ApplyPatch(r) PROVE Placed(r)'
  BY <1>16 DEF ApplyPatch
<1>17. ASSUME ConfigReplace(r) PROVE Placed(r)'
  BY <1>17 DEF ConfigReplace
<1>18. ASSUME TranslSet(r) PROVE Placed(r)'
  BY <1>18 DEF TranslSet
<1>19. ASSUME ApplyFail(r) PROVE Placed(r)'
  BY SMTT(30), <1>19 DEF ApplyFail, Unapplied
<1>20. ASSUME ApplyTimeout(r) PROVE Placed(r)'
  BY <1>20 DEF ApplyTimeout, Unapplied
<1>21. ASSUME HostLate(r) PROVE Placed(r)'
  BY <1>21 DEF HostLate
<1> QED BY <1>1, <1>2, <1>3, <1>4, <1>5, <1>6, <1>7, <1>8, <1>9, <1>10, <1>11, <1>12, <1>13, <1>14, <1>15, <1>16, <1>17, <1>18, <1>19, <1>20, <1>21 DEF Rpc

LEMMA StepPlacing ==
    ASSUME Placing, NEW r \in Rpcs, Rpc(r) \/ HostLate(r)
    PROVE  Placing' /\ kind' = kind
<1>1. Typed' /\ kind' = kind
  BY StepTyped, SavedGrows DEF Placing
<1>2. ASSUME NEW q \in Rpcs PROVE Placed(q)'
  <2>1. CASE q = r
    BY <2>1, OwnPlace DEF Placing
  <2>2. CASE q # r
    <3>1. pc'[q] = pc[q]
      BY <2>2, OthersKeepProgress DEF Placing
    <3> QED BY <1>1, <3>1 DEF Placing, Placed
  <2> QED BY <2>1, <2>2
<1> QED BY <1>1, <1>2 DEF Placing

LEMMA InitPlacing == Init => Placing
<1> SUFFICES ASSUME Init PROVE \A r \in Rpcs : Placed(r)
  BY InitTyped DEF Placing
<1> QED BY DEF Init, Placed

-----------------------------------------------------------------------------
(* The checkpoint file *)

\* An RPC that will still delete the checkpoint.
Holder(r) ==
    \/ pc[r] \in {"read", "uncheck"}
    \/ pc[r] \in {"apply", "save"} /\ kind[r] = "patch"

Held == Placing /\ (checkpoint = {} \/ \E r \in Rpcs : Holder(r))

\* Only an RPC that holds the checkpoint makes it, and it ceases to hold it by deleting it.
LEMMA HolderDeletes ==
    ASSUME ~Faults, Typed, NEW r \in Rpcs, Placed(r), Rpc(r) \/ HostLate(r)
    PROVE  /\ checkpoint' = checkpoint \/ checkpoint' = {} \/ Holder(r)'
           /\ Holder(r) => Holder(r)' \/ checkpoint' = {}
<1> USE ~Faults DEF Typed, TypeOK, Holder, Placed, Go, Answer, Fails, request, election, store
<1> DEFINE Kept == /\ checkpoint' = checkpoint \/ checkpoint' = {} \/ Holder(r)'
                   /\ Holder(r) => Holder(r)' \/ checkpoint' = {}
<1>1. ASSUME ArbitrateDeny(r) PROVE Kept
  BY <1>1 DEF ArbitrateDeny
<1>2. ASSUME ArbitrateAdmit(r) PROVE Kept
  BY <1>2 DEF ArbitrateAdmit
<1>3. ASSUME Refuse(r) PROVE Kept
  BY <1>3 DEF Refuse
<1>4. ASSUME Route(r) PROVE Kept
  BY <1>4 DEF Route
<1>5. ASSUME OpFail(r) PROVE Kept
  BY <1>5 DEF OpFail
<1>6. ASSUME OpsDone(r) PROVE Kept
  BY <1>6 DEF OpsDone
<1>7. ASSUME CreateCheckPoint(r) PROVE Kept
  BY <1>7 DEF CreateCheckPoint
<1>8. ASSUME CreateFail(r) PROVE Kept
  BY <1>8 DEF CreateFail
<1>9. ASSUME ReadCheckPoint(r) PROVE Kept
  BY <1>9 DEF ReadCheckPoint
<1>10. ASSUME ReadFail(r) PROVE Kept
  BY <1>10 DEF ReadFail
<1>11. ASSUME Save(r) PROVE Kept
  BY <1>11 DEF Save
<1>12. ASSUME SaveFail(r) PROVE Kept
  BY <1>12 DEF SaveFail
<1>13. ASSUME DeleteCheckPoint(r) PROVE Kept
  BY <1>13 DEF DeleteCheckPoint
<1>14. ASSUME SaveStartupConfig(r) PROVE Kept
  BY <1>14 DEF SaveStartupConfig
<1>15. ASSUME \E op \in patch[r] : BypassOp(r, op) \/ SetDBOp(r, op) PROVE Kept
  BY <1>15 DEF BypassOp, SetDBOp
<1>16. ASSUME ApplyPatch(r) PROVE Kept
  BY <1>16 DEF ApplyPatch
<1>17. ASSUME ConfigReplace(r) PROVE Kept
  BY <1>17 DEF ConfigReplace
<1>18. ASSUME TranslSet(r) PROVE Kept
  BY <1>18 DEF TranslSet
<1>19. ASSUME ApplyFail(r) PROVE Kept
  BY <1>19 DEF ApplyFail, Unapplied
<1>20. ASSUME ApplyTimeout(r) PROVE Kept
  BY <1>20 DEF ApplyTimeout, Unapplied
<1>21. ASSUME HostLate(r) PROVE Kept
  BY <1>21 DEF HostLate
<1> QED BY <1>1, <1>2, <1>3, <1>4, <1>5, <1>6, <1>7, <1>8, <1>9, <1>10, <1>11, <1>12, <1>13, <1>14, <1>15, <1>16, <1>17, <1>18, <1>19, <1>20, <1>21 DEF Rpc

\* While the host does not fail, no checkpoint file outlives the Sets that share it,
\* however many there are and in whatever order they make, overwrite and delete it.
THEOREM CheckpointsEnd == ASSUME ~Faults PROVE Spec => []NoCheckpointLeft
<1>1. Init => Held
  BY InitPlacing DEF Held, Init
<1>2. Held /\ [Next]_vars => Held'
  <2> SUFFICES ASSUME Held, [Next]_vars PROVE Held'
    OBVIOUS
  <2>1. CASE UNCHANGED vars
    BY <2>1 DEF vars, request, election, store, Held, Placing, Placed, Typed, TypeOK, Holder
  <2>2. CASE Next
    <3>1. PICK r \in Rpcs : Rpc(r) \/ HostLate(r)
      BY <2>2 DEF Next
    <3>2. Placing' /\ kind' = kind
      BY <3>1, StepPlacing DEF Held
    <3>3. /\ checkpoint' = checkpoint \/ checkpoint' = {} \/ Holder(r)'
          /\ Holder(r) => Holder(r)' \/ checkpoint' = {}
      BY <3>1, HolderDeletes DEF Held, Placing
    <3>4. ASSUME NEW q \in Rpcs \ {r}, Holder(q) PROVE Holder(q)'
      <4>1. pc'[q] = pc[q]
        BY <3>1, OthersKeepProgress DEF Held, Placing
      <4> QED BY <3>2, <3>4, <4>1 DEF Holder
    <3> QED BY <3>2, <3>3, <3>4 DEF Held
  <2> QED BY <2>1, <2>2
<1>3. Held => NoCheckpointLeft
  BY DEF Held, Holder, NoCheckpointLeft
<1> QED BY <1>1, <1>2, <1>3, PTL DEF Spec

-----------------------------------------------------------------------------
(* The updates of a Set *)

\* An update of r is in the database, or another Set has changed its key.
Shown(r, k) ==
    \/ (IF kind[r] = "appl" THEN appl ELSE running)[k] = r
    \/ \E o \in Rpcs \ {r} : k \in wrote[o]

\* What has become of the updates of a Set: while it works entry by entry one that is
\* not shown is still to be made, and none is made before the last deletion; a patch
\* holds them all until it is applied; from then on they are shown.
Effect(r) ==
    /\ pc[r] = "ops" => \A k \in upds[r] :
          \/ <<"upd", k>> \in patch[r]
          \/ Shown(r, k) /\ \A j \in Keys : <<"del", j>> \notin patch[r]
    /\ pc[r] = "apply" /\ kind[r] \in {"patch", "transl"} => \A k \in upds[r] : <<"upd", k>> \in patch[r]
    /\ pc[r] \in {"save", "startup"} => \A k \in upds[r] : Shown(r, k)
    /\ pc[r] = "uncheck" /\ ~err[r] => \A k \in upds[r] : Shown(r, k)
    /\ res[r] = "ok" => pc[r] = "done" /\ \A k \in upds[r] : Shown(r, k)
    /\ r \in late => (pc[r] = "uncheck" /\ err[r]) \/ (pc[r] = "done" /\ res[r] # "ok")

Partial == {r \in Rpcs : kind[r] # "full"}

Effective == Placing /\ \A r \in Partial : Effect(r)

\* The steps of r that change neither database.
Quiet(r) ==
    /\ UNCHANGED <<running, appl, wrote, kind, upds>>
    /\ \A q \in Rpcs \ {r} : patch'[q] = patch[q]

\* Its other steps.
Loud(r) ==
    \/ \E op \in patch[r] : BypassOp(r, op) \/ SetDBOp(r, op)
    \/ ApplyPatch(r) \/ ConfigReplace(r) \/ TranslSet(r) \/ HostLate(r)

LEMMA QuietOrLoud ==
    ASSUME Typed, NEW r \in Rpcs, Rpc(r) \/ HostLate(r)
    PROVE  Quiet(r) \/ Loud(r)
<1> USE DEF Typed, TypeOK, Quiet, request, store
<1>1. ASSUME ArbitrateDeny(r) PROVE Quiet(r)
  BY <1>1 DEF ArbitrateDeny
<1>2. ASSUME ArbitrateAdmit(r) PROVE Quiet(r)
  BY <1>2 DEF ArbitrateAdmit
<1>3. ASSUME Refuse(r) PROVE Quiet(r)
  BY <1>3 DEF Refuse
<1>4. ASSUME Route(r) PROVE Quiet(r)
  BY <1>4 DEF Route
<1>5. ASSUME OpFail(r) PROVE Quiet(r)
  BY <1>5 DEF OpFail
<1>6. ASSUME OpsDone(r) PROVE Quiet(r)
  BY <1>6 DEF OpsDone
<1>7. ASSUME CreateCheckPoint(r) PROVE Quiet(r)
  BY <1>7 DEF CreateCheckPoint
<1>8. ASSUME CreateFail(r) PROVE Quiet(r)
  BY <1>8 DEF CreateFail
<1>9. ASSUME ReadCheckPoint(r) PROVE Quiet(r)
  BY <1>9 DEF ReadCheckPoint
<1>10. ASSUME ReadFail(r) PROVE Quiet(r)
  BY <1>10 DEF ReadFail
<1>11. ASSUME Save(r) PROVE Quiet(r)
  BY <1>11 DEF Save
<1>12. ASSUME SaveFail(r) PROVE Quiet(r)
  BY <1>12 DEF SaveFail
<1>13. ASSUME DeleteCheckPoint(r) PROVE Quiet(r)
  BY <1>13 DEF DeleteCheckPoint
<1>14. ASSUME SaveStartupConfig(r) PROVE Quiet(r)
  BY <1>14 DEF SaveStartupConfig
<1>15. ASSUME ApplyFail(r) PROVE Quiet(r)
  BY <1>15 DEF ApplyFail, Unapplied
<1>16. ASSUME ApplyTimeout(r) PROVE Quiet(r)
  BY <1>16 DEF ApplyTimeout, Unapplied
<1> QED BY <1>1, <1>2, <1>3, <1>4, <1>5, <1>6, <1>7, <1>8, <1>9, <1>10, <1>11, <1>12, <1>13, <1>14, <1>15, <1>16 DEF Rpc, Loud

\* A key that a change of CONFIG_DB does not put on record keeps its value.
LEMMA CommitRecords ==
    ASSUME StoreTyped, NEW r \in Rpcs, NEW c \in Config,
           NEW ops \in SUBSET ({"del", "upd"} \X Keys), Commit(r, c, ops)
    PROVE  /\ running' = c
           /\ \A op \in ops : op[2] \in wrote'[r]
           /\ \A o \in Rpcs : wrote[o] \subseteq wrote'[o]
BY DEF Commit, Written, StoreTyped

\* What a step of r changes is on the record of r, and records only grow.
LEMMA ChangesAreWritten ==
    ASSUME Typed, NEW r \in Rpcs, Rpc(r) \/ HostLate(r)
    PROVE  /\ kind' = kind /\ upds' = upds
           /\ \A q \in Rpcs \ {r} : patch'[q] = patch[q]
           /\ \A o \in Rpcs : wrote[o] \subseteq wrote'[o]
           /\ \A k \in Keys : k \in wrote'[r] \/ (running'[k] = running[k] /\ appl'[k] = appl[k])
<1> DEFINE Recorded ==
      /\ kind' = kind /\ upds' = upds
      /\ \A q \in Rpcs \ {r} : patch'[q] = patch[q]
      /\ \A o \in Rpcs : wrote[o] \subseteq wrote'[o]
      /\ \A k \in Keys : k \in wrote'[r] \/ (running'[k] = running[k] /\ appl'[k] = appl[k])
<1>s. StoreTyped /\ patch[r] \in SUBSET ({"del", "upd"} \X Keys)
  BY DEF StoreTyped, Typed, TypeOK
<1>t. /\ \A k \in Keys : <<"del", k>>[2] = k /\ <<"upd", k>>[2] = k
      /\ Ops(Keys, {}) \in SUBSET ({"del", "upd"} \X Keys)
      /\ \A k \in Keys : <<"del", k>> \in Ops(Keys, {})
  <2>1. \A k \in Keys : <<"del", k>>[2] = k /\ <<"upd", k>>[2] = k
    OBVIOUS
  <2>2. Ops(Keys, {}) \in SUBSET ({"del", "upd"} \X Keys)
    BY OpsTyped
  <2>3. \A k \in Keys : <<"del", k>> \in Ops(Keys, {})
    BY DEF Ops
  <2> QED
    BY <2>1, <2>2, <2>3
<1>p. /\ Patched(running, r, patch[r]) \in Config
      /\ \A k \in Keys : \/ Patched(running, r, patch[r])[k] = running[k]
                        \/ <<"upd", k>> \in patch[r] \/ <<"del", k>> \in patch[r]
  BY DEF Patched, Config, Typed, TypeOK
<1>r. [k \in Keys |-> IF k \in upds[r] THEN r ELSE Absent] \in Config
  BY DEF Config
<1>1. ASSUME Quiet(r) PROVE Recorded
  BY <1>1 DEF Quiet
<1>2. ASSUME HostPatch(r) PROVE /\ \A o \in Rpcs : wrote[o] \subseteq wrote'[o]
                              /\ \A k \in Keys : k \in wrote'[r] \/ running'[k] = running[k]
  <2>1. /\ running' = Patched(running, r, patch[r])
        /\ \A op \in patch[r] : op[2] \in wrote'[r]
        /\ \A o \in Rpcs : wrote[o] \subseteq wrote'[o]
    BY <1>2, <1>s, <1>p, CommitRecords DEF HostPatch
  <2>2. ASSUME NEW k \in Keys, k \notin wrote'[r] PROVE running'[k] = running[k]
    <3>1. <<"upd", k>> \notin patch[r] /\ <<"del", k>> \notin patch[r]
      BY <2>1, <2>2, <1>t
    <3> QED BY <2>1, <3>1, <1>p
  <2> QED BY <2>1, <2>2
<1>3. ASSUME HostReplace(r) PROVE /\ \A o \in Rpcs : wrote[o] \subseteq wrote'[o]
                                /\ \A k \in Keys : k \in wrote'[r]
  <2>1. /\ \A op \in Ops(Keys, {}) : op[2] \in wrote'[r]
        /\ \A o \in Rpcs : wrote[o] \subseteq wrote'[o]
    BY <1>3, <1>s, <1>t, <1>r, CommitRecords DEF HostReplace
  <2>2. ASSUME NEW k \in Keys PROVE k \in wrote'[r]
    <3>1. <<"del", k>> \in Ops(Keys, {}) /\ <<"del", k>>[2] = k
      BY <1>t
    <3> QED BY <2>1, <3>1
  <2> QED BY <2>1, <2>2
<1>4. ASSUME NEW op \in patch[r], BypassOp(r, op) PROVE Recorded
  <2>1. op[2] \in Keys /\ {op} \in SUBSET ({"del", "upd"} \X Keys)
    BY <1>s
  <2>2. /\ [running EXCEPT ![op[2]] = After(r, op)] \in Config
        /\ \A k \in Keys \ {op[2]} : [running EXCEPT ![op[2]] = After(r, op)][k] = running[k]
    BY <2>1 DEF Config, After, Typed, TypeOK
  <2>3. /\ \A o \in Rpcs : wrote[o] \subseteq wrote'[o]
        /\ \A k \in Keys : k \in wrote'[r] \/ running'[k] = running[k]
    BY <1>4, <1>s, <2>1, <2>2, CommitRecords DEF BypassOp
  <2> QED BY <1>4, <2>3 DEF BypassOp, request, Typed, TypeOK
<1>5. ASSUME NEW op \in patch[r], SetDBOp(r, op) PROVE Recorded
  <2>1. op[2] \in Keys
    BY <1>s
  <2>2. \A o \in Rpcs : wrote[o] \subseteq wrote'[o]
    BY <1>5 DEF SetDBOp, Written, Typed, TypeOK
  <2>3. op[2] \in wrote'[r]
    BY <1>5 DEF SetDBOp, Written, Typed, TypeOK
  <2>4. \A k \in Keys : k \in wrote'[r] \/ appl'[k] = appl[k]
    BY <1>5, <2>1, <2>3 DEF SetDBOp, Typed, TypeOK, Config
  <2> QED BY <1>5, <2>2, <2>4 DEF SetDBOp, request, Typed, TypeOK
<1>6. ASSUME ApplyPatch(r) PROVE Recorded
  BY <1>6, <1>2 DEF ApplyPatch, request
<1>7. ASSUME ConfigReplace(r) PROVE Recorded
  BY <1>7, <1>3 DEF ConfigReplace, request
<1>8. ASSUME TranslSet(r) PROVE Recorded
  <2>1. /\ running' = Patched(running, r, patch[r])
        /\ \A op \in patch[r] : op[2] \in wrote'[r]
        /\ \A o \in Rpcs : wrote[o] \subseteq wrote'[o]
    BY <1>8, <1>s, <1>p, CommitRecords DEF TranslSet
  <2>2. ASSUME NEW k \in Keys, k \notin wrote'[r] PROVE running'[k] = running[k]
    <3>1. <<"upd", k>> \notin patch[r] /\ <<"del", k>> \notin patch[r]
      BY <2>1, <2>2, <1>t
    <3> QED BY <2>1, <3>1, <1>p
  <2> QED BY <1>8, <2>1, <2>2 DEF TranslSet, request
<1>9. ASSUME HostLate(r) PROVE Recorded
  BY <1>9, <1>2, <1>3 DEF HostLate, request, store
<1> QED BY <1>1, <1>4, <1>5, <1>6, <1>7, <1>8, <1>9, QuietOrLoud DEF Loud

\* What another RPC does hides an update only by putting its key on record.
LEMMA OthersShow ==
    ASSUME Typed, NEW r \in Rpcs, Rpc(r) \/ HostLate(r), NEW q \in Rpcs \ {r}, NEW k \in Keys, Shown(q, k)
    PROVE  Shown(q, k)'
<1>1. /\ kind' = kind
      /\ \A o \in Rpcs : wrote[o] \subseteq wrote'[o]
      /\ k \in wrote'[r] \/ (running'[k] = running[k] /\ appl'[k] = appl[k])
  BY ChangesAreWritten
<1>2. CASE \E o \in Rpcs \ {q} : k \in wrote[o]
  BY <1>1, <1>2 DEF Shown
<1>3. CASE k \in wrote'[r]
  BY <1>3 DEF Shown
<1>4. CASE /\ running'[k] = running[k] /\ appl'[k] = appl[k]
           /\ (IF kind[q] = "appl" THEN appl ELSE running)[k] = q
  BY <1>1, <1>4 DEF Shown
<1> QED BY <1>1, <1>2, <1>3, <1>4 DEF Shown

\* An operation the Set makes itself.
LEMMA OwnOperation ==
    ASSUME Typed, NEW r \in Rpcs, Placed(r), Effect(r),
           NEW op \in patch[r], BypassOp(r, op) \/ SetDBOp(r, op)
    PROVE  Effect(r)'
<1> DEFINE Now == IF kind[r] = "appl" THEN appl ELSE running
<1>1. /\ pc[r] = "ops" /\ pc' = pc /\ res' = res /\ late' = late /\ kind' = kind /\ upds' = upds
      /\ patch'[r] = patch[r] \ {op} /\ First(r, op)
  BY DEF BypassOp, SetDBOp, request, Typed, TypeOK
<1>2. op \in {"del", "upd"} \X Keys /\ op = <<op[1], op[2]>> /\ op[2] \in Keys /\ op[1] \in {"del", "upd"}
  BY DEF Typed, TypeOK
<1>3. Now' = [Now EXCEPT ![op[2]] = After(r, op)]
  <2>1. CASE BypassOp(r, op)
    BY <2>1, <1>1 DEF BypassOp, Commit
  <2>2. CASE SetDBOp(r, op)
    BY <2>2, <1>1 DEF SetDBOp
  <2> QED BY <2>1, <2>2
<1>4. \A o \in Rpcs : wrote[o] \subseteq wrote'[o]
  BY ChangesAreWritten DEF Rpc
<1>5. ASSUME NEW k \in upds[r]
      PROVE  <<"upd", k>> \in patch'[r] \/ (Shown(r, k)' /\ \A j \in Keys : <<"del", j>> \notin patch'[r])
  <2>0. k \in Keys
    BY DEF Typed
  <2>1. CASE op = <<"upd", k>>
    <3>1. op[1] = "upd" /\ op[2] = k
      BY <2>1
    <3>2. \A j \in Keys : <<"del", j>> \notin patch'[r]
      BY <1>1, <3>1 DEF First
    <3>3. Now'[k] = r
      BY <1>3, <2>0, <3>1 DEF After, Typed, TypeOK, Config
    <3> QED BY <3>2, <3>3 DEF Shown
  <2>2. CASE op # <<"upd", k>> /\ <<"upd", k>> \in patch[r]
    BY <1>1, <2>2
  <2>3. CASE <<"upd", k>> \notin patch[r]
    <3>1. Shown(r, k) /\ \A j \in Keys : <<"del", j>> \notin patch[r]
      BY <1>1, <2>3 DEF Effect
    <3>2. op[2] # k
      BY <1>2, <2>3, <3>1
    <3>3. Now'[k] = Now[k]
      BY SMTT(30), <1>3, <2>0, <3>2 DEF Typed, TypeOK, Config
    <3>4. Shown(r, k)'
      BY <3>1, <3>3, <1>4 DEF Shown
    <3> QED BY <1>1, <3>1, <3>4
  <2> QED BY <2>1, <2>2, <2>3
<1>6. res[r] # "ok" /\ r \notin late
  BY <1>1 DEF Effect
<1> QED BY <1>1, <1>5, <1>6 DEF Effect

\* The steps of a Set that change no database keep what is shown of its updates.
LEMMA QuietShows ==
    ASSUME NEW r \in Rpcs, Quiet(r), NEW k
    PROVE  Shown(r, k)' <=> Shown(r, k)
BY DEF Quiet, Shown

\* Once the host, or translib, has made the change, the updates are shown.
LEMMA CommitShows ==
    ASSUME Typed, NEW r \in Rpcs, kind[r] # "appl", kind' = kind,
           \/ HostReplace(r)
           \/ /\ Commit(r, Patched(running, r, patch[r]), patch[r])
              /\ \A k \in upds[r] : <<"upd", k>> \in patch[r]
    PROVE  \A k \in upds[r] : Shown(r, k)'
<1> SUFFICES ASSUME NEW k \in upds[r] PROVE running'[k] = r
  BY DEF Shown
<1>1. k \in Keys
  BY DEF Typed
<1> QED BY <1>1 DEF HostReplace, Commit, Patched

\* The other steps of a Set.
LEMMA OwnEffect ==
    ASSUME Typed, NEW r \in Rpcs, kind[r] # "full", Placed(r), Effect(r), Rpc(r) \/ HostLate(r)
    PROVE  Effect(r)'
<1>u. upds' = upds /\ kind' = kind
  BY ChangesAreWritten
<1> USE DEF Typed, TypeOK, Go, Answer
<1>1. ASSUME ArbitrateDeny(r) PROVE Effect(r)'
  <2>1. Quiet(r) /\ patch' = patch
    BY <1>1 DEF ArbitrateDeny, Quiet, request, store
  <2> QED BY <1>1, <1>u, <2>1, QuietShows DEF ArbitrateDeny, Effect, Placed
<1>2. ASSUME ArbitrateAdmit(r) PROVE Effect(r)'
  <2>1. Quiet(r) /\ patch' = patch
    BY <1>2 DEF ArbitrateAdmit, Quiet, request, store
  <2> QED BY <1>2, <1>u, <2>1, QuietShows DEF ArbitrateAdmit, Effect, Placed
<1>3. ASSUME Refuse(r) PROVE Effect(r)'
  <2>1. Quiet(r) /\ patch' = patch
    BY <1>3 DEF Refuse, Quiet, request, store
  <2> QED BY <1>3, <1>u, <2>1, QuietShows DEF Refuse, Effect, Placed
<1>4. ASSUME OpFail(r) PROVE Effect(r)'
  <2>1. Quiet(r) /\ patch' = patch
    BY <1>4 DEF OpFail, Quiet, request, store
  <2> QED BY <1>4, <1>u, <2>1, QuietShows DEF OpFail, Effect, Placed
<1>5. ASSUME CreateCheckPoint(r) PROVE Effect(r)'
  <2>1. Quiet(r) /\ patch' = patch
    BY <1>5 DEF CreateCheckPoint, Quiet, request, store
  <2> QED BY <1>5, <1>u, <2>1, QuietShows DEF CreateCheckPoint, Effect, Placed
<1>6. ASSUME CreateFail(r) PROVE Effect(r)'
  <2>1. Quiet(r) /\ patch' = patch
    BY <1>6 DEF CreateFail, Quiet, request, store
  <2> QED BY <1>6, <1>u, <2>1, QuietShows DEF CreateFail, Effect, Placed
<1>7. ASSUME ReadFail(r) PROVE Effect(r)'
  <2>1. Quiet(r) /\ patch' = patch
    BY <1>7 DEF ReadFail, Quiet, request, store
  <2> QED BY <1>7, <1>u, <2>1, QuietShows DEF ReadFail, Effect, Placed
<1>8. ASSUME Save(r) PROVE Effect(r)'
  <2>1. Quiet(r) /\ patch' = patch
    BY <1>8 DEF Save, Quiet, request, store
  <2> QED BY <1>8, <1>u, <2>1, QuietShows DEF Save, Effect, Placed
<1>9. ASSUME SaveFail(r) PROVE Effect(r)'
  <2>1. Quiet(r) /\ patch' = patch
    BY <1>9 DEF SaveFail, Quiet, request, store
  <2> QED BY <1>9, <1>u, <2>1, QuietShows DEF SaveFail, Effect, Placed
<1>10. ASSUME DeleteCheckPoint(r) PROVE Effect(r)'
  <2>1. Quiet(r) /\ patch' = patch
    BY <1>10 DEF DeleteCheckPoint, Quiet, request, store
  <2>2. /\ pc[r] = "uncheck" /\ pc'[r] = IF err[r] THEN "done" ELSE "startup"
        /\ res'[r] = IF err[r] THEN "error" ELSE res[r]
        /\ late' = late /\ err' = err
    BY <1>10 DEF DeleteCheckPoint
  <2> HIDE DEF Typed
  <2> QED BY <1>u, <2>1, <2>2, QuietShows DEF Effect
<1>11. ASSUME SaveStartupConfig(r) PROVE Effect(r)'
  <2>1. Quiet(r) /\ patch' = patch
    BY <1>11 DEF SaveStartupConfig, Quiet, request, store
  <2> QED BY <1>11, <1>u, <2>1, QuietShows DEF SaveStartupConfig, Effect, Placed
<1>12. ASSUME OpsDone(r) PROVE Effect(r)'
  <2>1. Quiet(r) /\ patch' = patch
    BY <1>12 DEF OpsDone, Quiet, request, store
  <2> QED BY <1>12, <1>u, <2>1, QuietShows DEF OpsDone, Effect, Placed
<1>13. ASSUME ApplyFail(r) PROVE Effect(r)'
  <2>1. Quiet(r) /\ patch' = patch
    BY <1>13 DEF ApplyFail, Quiet, request, store, Unapplied
  <2>2. /\ pc[r] = "apply" /\ late' \subseteq late \cup {r}
        /\ \/ pc'[r] = "uncheck" /\ err'[r] /\ res'[r] = res[r]
           \/ pc'[r] = "done" /\ res'[r] = "error"
    BY <1>13 DEF ApplyFail, Unapplied
  <2> HIDE DEF Typed
  <2> QED BY <2>2 DEF Effect
<1>14. ASSUME ApplyTimeout(r) PROVE Effect(r)'
  <2>1. Quiet(r) /\ patch' = patch
    BY <1>14 DEF ApplyTimeout, Quiet, request, store, Unapplied
  <2>2. /\ pc[r] = "apply" /\ late' \subseteq late \cup {r}
        /\ \/ pc'[r] = "uncheck" /\ err'[r] /\ res'[r] = res[r]
           \/ pc'[r] = "done" /\ res'[r] = "error"
    BY <1>14 DEF ApplyTimeout, Unapplied
  <2> HIDE DEF Typed
  <2> QED BY <2>2 DEF Effect
<1>15. ASSUME Route(r) PROVE Effect(r)'
  <2>1. Quiet(r)
    BY <1>15 DEF Route, Quiet, request, store
  <2>2. patch'[r] = Ops(dels[r], upds[r])
    BY <1>15 DEF Route
  <2>3. \A k \in upds[r] : <<"upd", k>> \in patch'[r]
    BY <2>2 DEF Ops
  <2>4. pc[r] = "admitted" /\ pc'[r] \in {"ops", "create", "apply"} /\ res' = res /\ late' = late
    BY <1>15 DEF Route, AllKinds
  <2> QED BY <1>u, <2>1, <2>3, <2>4, QuietShows DEF Effect
<1>16. ASSUME ReadCheckPoint(r) PROVE Effect(r)'
  <2>1. Quiet(r)
    BY <1>16 DEF ReadCheckPoint, Quiet, request, store
  <2>2. PICK c \in checkpoint :
          LET ops == Ops({k \in dels[r] : c[k] # Absent}, upds[r])
          IN  /\ patch' = [patch EXCEPT ![r] = ops]
              /\ pc' = [pc EXCEPT ![r] = IF ops = {} THEN "uncheck" ELSE "apply"]
    BY <1>16 DEF ReadCheckPoint
  <2>3. \A k \in upds[r] : <<"upd", k>> \in patch'[r]
    BY <2>2 DEF Ops
  <2>4. pc'[r] = "apply" \/ (pc'[r] = "uncheck" /\ patch'[r] = {})
    BY <2>2
  <2>5. pc[r] = "read" /\ res' = res /\ late' = late
    BY <1>16 DEF ReadCheckPoint
  <2> QED BY <1>u, <2>1, <2>3, <2>4, <2>5 DEF Effect
<1>17. ASSUME \E op \in patch[r] : BypassOp(r, op) \/ SetDBOp(r, op) PROVE Effect(r)'
  BY <1>17, OwnOperation
<1>18. ASSUME ApplyPatch(r) PROVE Effect(r)'
  <2>1. \A k \in upds[r] : Shown(r, k)'
    BY <1>18, <1>u, CommitShows DEF ApplyPatch, HostPatch, Effect
  <2>2. pc[r] = "apply" /\ pc'[r] = "save" /\ res' = res /\ late' = late
    BY <1>18 DEF ApplyPatch
  <2> QED BY <1>u, <2>1, <2>2 DEF Effect
<1>19. ASSUME ConfigReplace(r) PROVE Effect(r)'
  <2>1. \A k \in upds[r] : Shown(r, k)'
    BY <1>19, <1>u, CommitShows DEF ConfigReplace
  <2>2. pc[r] = "apply" /\ pc'[r] = "save" /\ res' = res /\ late' = late
    BY <1>19 DEF ConfigReplace
  <2> QED BY <1>u, <2>1, <2>2 DEF Effect
<1>20. ASSUME TranslSet(r) PROVE Effect(r)'
  <2>1. \A k \in upds[r] : Shown(r, k)'
    BY <1>20, <1>u, CommitShows DEF TranslSet, Effect
  <2>2. pc[r] = "apply" /\ pc'[r] = "startup" /\ res' = res /\ late' = late
    BY <1>20 DEF TranslSet
  <2> QED BY <1>u, <2>1, <2>2 DEF Effect
<1>21. ASSUME HostLate(r) PROVE Effect(r)'
  <2>1. r \in late /\ pc' = pc /\ res' = res /\ err' = err
    BY <1>21 DEF HostLate
  <2> QED BY <2>1 DEF Effect
<1> QED BY <1>1, <1>2, <1>3, <1>4, <1>5, <1>6, <1>7, <1>8, <1>9, <1>10, <1>11, <1>12, <1>13, <1>14, <1>15, <1>16, <1>17, <1>18, <1>19, <1>20, <1>21 DEF Rpc

\* When a Set answers ok, every update it asked for is in the database it was for,
\* unless another Set has changed the key: bypass and APPL_DB work makes the updates after
\* the deletions, a patch and a replacement are applied whole, and a change the host makes
\* after the timeout belongs to a Set that has failed.
THEOREM AcknowledgedUpdatesHold == Spec => []AckedUpdatesHold
<1>1. Init => Effective
  <2> SUFFICES ASSUME Init PROVE \A r \in Partial : Effect(r)
    BY InitPlacing DEF Effective
  <2> QED BY DEF Init, Partial, Effect
<1>2. Effective /\ [Next]_vars => Effective'
  <2> SUFFICES ASSUME Effective, [Next]_vars PROVE Effective'
    OBVIOUS
  <2>1. CASE UNCHANGED vars
    BY <2>1 DEF vars, request, election, store, Effective, Placing, Typed, TypeOK, Placed, Partial, Effect, Shown
  <2>2. CASE Next
    <3>1. PICK r \in Rpcs : Rpc(r) \/ HostLate(r)
      BY <2>2 DEF Next
    <3>2. Typed /\ Placing' /\ kind' = kind
      BY <3>1, StepPlacing DEF Effective, Placing
    <3>3. ASSUME NEW q \in Partial' PROVE Effect(q)'
      <4>1. q \in Rpcs /\ kind[q] # "full" /\ Effect(q) /\ Placed(q)
        BY <3>2 DEF Partial, Effective, Placing
      <4>2. CASE q = r
        BY <3>1, <3>2, <4>1, <4>2, OwnEffect
      <4>3. CASE q # r
        <5>1. /\ pc'[q] = pc[q] /\ res'[q] = res[q] /\ err'[q] = err[q]
              /\ (q \in late' => q \in late)
          BY <3>1, <3>2, <4>1, <4>3, OthersKeepProgress
        <5>2. patch'[q] = patch[q] /\ upds' = upds
          BY <3>1, <3>2, <4>1, <4>3, ChangesAreWritten
        <5>3. \A k \in upds[q] : Shown(q, k) => Shown(q, k)'
          BY <3>1, <3>2, <4>1, <4>3, OthersShow DEF Typed
        <5> QED BY <3>2, <4>1, <5>1, <5>2, <5>3 DEF Effect
      <4> QED BY <4>2, <4>3
    <3> QED BY <3>2, <3>3 DEF Effective
  <2> QED BY <2>1, <2>2
<1>3. Effective => AckedUpdatesHold
  BY DEF Effective, AckedUpdatesHold, Effect, Shown, Partial
<1> QED BY <1>1, <1>2, <1>3, PTL DEF Spec

\* What Set acknowledges is in the database and, through D-Bus, in config_db.json.
THEOREM AcknowledgedHolds == Spec => []AckedHolds
<1> QED
  BY AcknowledgedUpdatesHold, AcknowledgedIsSaved, PTL DEF AckedHolds

=============================================================================
