------------------------- MODULE LiveWorkers_proofs -------------------------
(***************************************************************************)
(* Theorems about the worker pods, for every set of pods, shards, symbols  *)
(* and contracts: type correctness, the bound on acquisitions after the    *)
(* kill switch, an owner for every lease and, with one pod per shard,      *)
(* exclusive ownership.                                                    *)
(***************************************************************************)
EXTENDS LiveOwnership, TLAPS

-----------------------------------------------------------------------------
(* Dicts of contracts.                                                     *)

\* What membership in ContractMap means.
LEMMA ContractMapElim ==
    ASSUME NEW f \in ContractMap
    PROVE  /\ DOMAIN f \subseteq Contract
           /\ f \in [DOMAIN f -> Symbol]
BY DEF ContractMap

\* How membership in ContractMap is shown.
LEMMA ContractMapIntro ==
    ASSUME NEW D \in SUBSET Contract, NEW f \in [D -> Symbol]
    PROVE  f \in ContractMap
BY DEF ContractMap

\* A dict comprehension over some of a dict's keys.
LEMMA KeepType ==
    ASSUME NEW f \in ContractMap, NEW D \in SUBSET DOMAIN f
    PROVE  Keep(f, D) \in ContractMap
<1>1. D \in SUBSET Contract
  BY ContractMapElim
<1>2. Keep(f, D) \in [D -> Symbol]
  BY ContractMapElim DEF Keep
<1> QED
  BY <1>1, <1>2, ContractMapIntro

\* An assignment to a dict's key.
LEMMA PutType ==
    ASSUME NEW f \in ContractMap, NEW c \in Contract, NEW s \in Symbol
    PROVE  [d \in DOMAIN f \cup {c} |-> IF d = c THEN s ELSE f[d]] \in ContractMap
<1> DEFINE g == [d \in DOMAIN f \cup {c} |-> IF d = c THEN s ELSE f[d]]
<1>1. DOMAIN f \cup {c} \in SUBSET Contract
  BY ContractMapElim
<1>2. g \in [DOMAIN f \cup {c} -> Symbol]
  BY ContractMapElim
<1> QED
  BY <1>1, <1>2, ContractMapIntro

\* The empty dict.
LEMMA NoContractsType == NoContracts \in ContractMap
<1>1. NoContracts \in [{} -> Symbol]
  BY DEF NoContracts
<1> QED
  BY <1>1, ContractMapIntro

-----------------------------------------------------------------------------
(* Type correctness.                                                       *)

LEMMA InitTypeOK == Init => TypeOK
<1> SUFFICES ASSUME Init PROVE TypeOK
  OBVIOUS
<1>1. lag \in [Pod -> 0..MaxLag] /\ late \in [Pod -> Nat] /\ crashes \in 0..MaxCrashes
  BY LiveWorkersAssumption DEF Init
<1>2. /\ active \in ContractMap
      /\ ownedContracts \in [Pod -> ContractMap]
      /\ fetched \in [Pod -> ContractMap]
      /\ kept \in [Pod -> ContractMap]
  BY NoContractsType DEF Init
<1>3. stage \in [Pod -> Stage] /\ heartbeat \in [Worker -> Heartbeat]
  BY DEF Init, Stage, Heartbeat
<1>4. /\ assignments \in [Shard -> SUBSET Symbol]
      /\ assigned \in [Pod -> SUBSET Symbol]
      /\ owned \in [Pod -> SUBSET Symbol]
      /\ todo \in [Pod -> SUBSET Symbol]
      /\ lease \in [Symbol -> LeaseRecord \cup {NoLease}]
  BY DEF Init
<1> QED
  BY <1>1, <1>2, <1>3, <1>4 DEF Init, TypeOK

\* A lease record keeps its type and its worker as time passes.
LEMMA AgedType ==
    ASSUME NEW r \in LeaseRecord \cup {NoLease}
    PROVE  /\ Aged(r) \in LeaseRecord \cup {NoLease}
           /\ Aged(r) = NoLease <=> r = NoLease
           /\ r # NoLease => Aged(r).worker = r.worker
<1>1. CASE r = NoLease \/ r.left = -MaxLag
  BY <1>1 DEF Aged
<1>2. CASE r # NoLease /\ r.left # -MaxLag
  <2>1. r \in LeaseRecord
    BY <1>2
  <2>2. Aged(r) = [r EXCEPT !.left = @ - 1]
    BY <1>2 DEF Aged
  <2>3. r.left - 1 \in (-MaxLag)..TTL
    BY <2>1, <1>2, LiveWorkersAssumption DEF LeaseRecord
  <2>4. Aged(r) \in LeaseRecord /\ Aged(r).worker = r.worker
    BY <2>1, <2>2, <2>3 DEF LeaseRecord
  <2> QED
    BY <2>4, <1>2, LiveWorkersAssumption
<1> QED
  BY <1>1, <1>2

LEMMA NextTypeOK == TypeOK /\ [Next]_vars => TypeOK'
<1> SUFFICES ASSUME TypeOK, [Next]_vars PROVE TypeOK'
  OBVIOUS
<1> USE DEF TypeOK, envVars, flagVars, loopVars, histVars, podVars
<1>1. CASE UNCHANGED vars
  BY <1>1 DEF vars
<1>2. CASE Tick
  <2>1. lease' \in [Symbol -> LeaseRecord \cup {NoLease}]
    BY <1>2, AgedType DEF Tick
  <2>2. lag' \in [Pod -> 0..MaxLag]
    BY <1>2, LiveWorkersAssumption DEF Tick, Acquiring
  <2> QED
    BY <1>2, <2>1, <2>2 DEF Tick
<1>3. CASE Environment
  <2>1. ASSUME NEW h \in Shard, NEW S \in SUBSET Symbol, Publish(h, S) PROVE TypeOK'
    BY <2>1 DEF Publish
  <2>2. ASSUME NEW a \in ContractMap, SetActive(a) PROVE TypeOK'
    BY <2>2 DEF SetActive
  <2>3. ASSUME NEW c \in Contract, Revoke(c) PROVE TypeOK'
    BY <2>3 DEF Revoke
  <2>4. ASSUME NEW b \in BOOLEAN, SetKillSwitch(b) PROVE TypeOK'
    BY <2>4 DEF SetKillSwitch
  <2>5. ASSUME NEW S \in SUBSET Symbol, NEW C \in SUBSET Contract, SetPauses(S, C) PROVE TypeOK'
    BY <2>5 DEF SetPauses
  <2> QED
    BY <1>3, <2>1, <2>2, <2>3, <2>4, <2>5 DEF Environment
<1>4. ASSUME NEW p \in Pod, Start(p) \/ Crash(p) PROVE TypeOK'
  <2>1. CASE Start(p)
    BY <2>1, LiveWorkersAssumption DEF Start, SetHeartbeat, Heartbeat, Stage
  <2>2. CASE Crash(p)
    BY <2>2, LiveWorkersAssumption, NoContractsType DEF Crash, Stage
  <2> QED
    BY <1>4, <2>1, <2>2
<1>5. ASSUME NEW p \in Pod, PodStep(p) PROVE TypeOK'
  <2>1. CASE Refresh(p)
    BY <2>1, LiveWorkersAssumption DEF Refresh, Stage
  <2>2. CASE SyncFetch(p)
    <3>1. fetched' \in [Pod -> ContractMap]
      BY <2>2, KeepType DEF SyncFetch
    <3> QED
      BY <2>2, <3>1, NoContractsType DEF SyncFetch, Stage
  <2>3. CASE SyncDone(p)
    <3>1. ownedContracts' \in [Pod -> ContractMap] /\ kept' \in [Pod -> ContractMap]
      BY <2>3, NoContractsType DEF SyncDone
    <3>2. todo' \in [Pod -> SUBSET Symbol] /\ lag' \in [Pod -> 0..MaxLag]
      BY <2>3, LiveWorkersAssumption DEF SyncDone
    <3> QED
      BY <2>3, <3>1, <3>2 DEF SyncDone, Stage
  <2>4. CASE FinishPass(p)
    <3>1. heartbeat' \in [Worker -> Heartbeat]
      BY <2>4, LiveWorkersAssumption DEF FinishPass, SetHeartbeat, Heartbeat
    <3>2. lag' \in [Pod -> 0..MaxLag] /\ stage' \in [Pod -> Stage]
      BY <2>4, LiveWorkersAssumption DEF FinishPass, Stage
    <3> QED
      BY <2>4, <3>1, <3>2 DEF FinishPass
  <2>5. CASE BeginDrain(p)
    BY <2>5, LiveWorkersAssumption DEF BeginDrain, SetHeartbeat, Heartbeat, Stage
  <2>6. CASE FinishDrain(p)
    BY <2>6, LiveWorkersAssumption, NoContractsType DEF FinishDrain, SetHeartbeat, Heartbeat, Stage
  <2>7. ASSUME NEW s \in Symbol, Forget(p, s)
        PROVE  /\ owned' \in [Pod -> SUBSET Symbol]
               /\ todo' \in [Pod -> SUBSET Symbol]
               /\ ownedContracts' \in [Pod -> ContractMap]
    BY <2>7, KeepType DEF Forget
  <2>8. ASSUME NEW s \in Symbol, ReleaseForeign(p, s) PROVE TypeOK'
    BY <2>7, <2>8 DEF ReleaseForeign
  <2>9. ASSUME NEW s \in Symbol, ReleaseLookup(p, s) PROVE TypeOK'
    BY <2>9 DEF ReleaseLookup, Stage
  <2>10. ASSUME NEW s \in Symbol, ReleaseDelete(p, s) PROVE TypeOK'
    BY <2>7, <2>10 DEF ReleaseDelete, Stage
  <2>11. ASSUME NEW s \in Symbol, AcquireSkip(p, s) PROVE TypeOK'
    BY <2>11 DEF AcquireSkip
  <2>12. ASSUME NEW s \in Symbol, AcquireLookup(p, s) PROVE TypeOK'
    BY <2>12 DEF AcquireLookup, Stage
  <2>13. ASSUME NEW s \in Symbol, AcquireSet(p, s) PROVE TypeOK'
    <3>1. TTL - lag[p] \in (-MaxLag)..TTL
      BY LiveWorkersAssumption
    <3>2. [worker |-> PodWorker[p], left |-> TTL - lag[p]] \in LeaseRecord
      BY <3>1, LiveWorkersAssumption DEF LeaseRecord
    <3>3. lease' \in [Symbol -> LeaseRecord \cup {NoLease}]
      BY <2>13, <3>2 DEF AcquireSet
    <3>4. late' \in [Pod -> Nat]
      BY <2>13 DEF AcquireSet
    <3> QED
      BY <2>13, <3>3, <3>4 DEF AcquireSet, Stage
  <2>14. ASSUME NEW c \in Contract, SyncCheck(p, c) PROVE TypeOK'
    <3>1. fetched[p] \in ContractMap /\ kept[p] \in ContractMap
      OBVIOUS
    <3>2. c \in DOMAIN fetched[p] /\ fetched[p][c] \in Symbol
      BY <2>14, <3>1, ContractMapElim DEF SyncCheck
    <3>3. fetched' \in [Pod -> ContractMap]
      BY <2>14, <3>1, KeepType DEF SyncCheck
    <3>4. [d \in DOMAIN kept[p] \cup {c} |-> IF d = c THEN fetched[p][c] ELSE kept[p][d]] \in ContractMap
      <4>1. ASSUME NEW f \in ContractMap, NEW t \in Symbol
            PROVE  [d \in DOMAIN f \cup {c} |-> IF d = c THEN t ELSE f[d]] \in ContractMap
        BY PutType
      <4> QED
        BY <3>1, <3>2, <4>1, Zenon
    <3>5. kept' \in [Pod -> ContractMap]
      BY <2>14, <3>1, <3>4 DEF SyncCheck
    <3> QED
      BY <2>14, <3>3, <3>5 DEF SyncCheck
  <2> QED
    BY <1>5, <2>1, <2>2, <2>3, <2>4, <2>5, <2>6, <2>8, <2>9, <2>10, <2>11, <2>12, <2>13, <2>14
    DEF PodStep
<1> QED
  BY <1>1, <1>2, <1>3, <1>4, <1>5 DEF Next

\* Every variable keeps its type, among them that a stored lease never lasts
\* longer than TTL.
THEOREM TypeCorrect == Spec => []TypeOK
<1>1. Init => TypeOK
  BY InitTypeOK
<1>2. TypeOK /\ [Next]_vars => TypeOK'
  BY NextTypeOK
<1> QED
  BY <1>1, <1>2, PTL DEF Spec

-----------------------------------------------------------------------------
(* The kill switch.                                                        *)

\* While the switch is on, a pod that still has an acquisition under way has
\* made none since the switch came on.
KillSwitchInv ==
    killSwitch => \A p \in Pod : /\ late[p] <= 1
                                 /\ stage[p] = "acquiring" => late[p] = 0

LEMMA NextKillSwitchInv ==
    TypeOK /\ KillSwitchInv /\ [Next]_vars => KillSwitchInv'
<1> SUFFICES ASSUME TypeOK, KillSwitchInv, [Next]_vars, killSwitch', NEW q \in Pod
             PROVE  late'[q] <= 1 /\ (stage'[q] = "acquiring" => late'[q] = 0)
  BY DEF KillSwitchInv
<1> USE DEF KillSwitchInv, envVars, flagVars, loopVars, histVars, podVars
<1>0. stage \in [Pod -> Stage] /\ late \in [Pod -> Nat]
  BY DEF TypeOK
<1>1. CASE UNCHANGED vars
  BY <1>1, <1>0 DEF vars
<1>2. CASE Tick
  BY <1>2, <1>0 DEF Tick
<1>3. CASE Environment
  <2>1. ASSUME NEW b \in BOOLEAN, SetKillSwitch(b)
        PROVE  late'[q] <= 1 /\ (stage'[q] = "acquiring" => late'[q] = 0)
    <3>1. late'[q] = 0
      BY <2>1 DEF SetKillSwitch
    <3> QED
      BY <3>1
  <2>2. CASE UNCHANGED <<killSwitch, podVars, histVars>>
    BY <2>2, <1>0
  <2> QED
    BY <1>3, <2>1, <2>2 DEF Environment, Publish, SetActive, Revoke, SetPauses
<1>4. ASSUME NEW p \in Pod, Start(p) \/ Crash(p)
      PROVE  late'[q] <= 1 /\ (stage'[q] = "acquiring" => late'[q] = 0)
  BY <1>4, <1>0 DEF Start, Crash
<1>5. ASSUME NEW p \in Pod, PodStep(p)
      PROVE  late'[q] <= 1 /\ (stage'[q] = "acquiring" => late'[q] = 0)
  <2>1. CASE Refresh(p) \/ SyncFetch(p) \/ SyncDone(p) \/ FinishPass(p) \/ BeginDrain(p) \/ FinishDrain(p)
    BY <2>1, <1>0 DEF Refresh, SyncFetch, SyncDone, FinishPass, BeginDrain, FinishDrain
  <2>2. ASSUME NEW s \in Symbol, ReleaseForeign(p, s) \/ ReleaseLookup(p, s) \/ ReleaseDelete(p, s)
        PROVE  late'[q] <= 1 /\ (stage'[q] = "acquiring" => late'[q] = 0)
    BY <2>2, <1>0 DEF ReleaseForeign, ReleaseLookup, ReleaseDelete
  <2>3. ASSUME NEW s \in Symbol, AcquireSkip(p, s) \/ AcquireLookup(p, s)
        PROVE  late'[q] <= 1 /\ (stage'[q] = "acquiring" => late'[q] = 0)
    BY <2>3, <1>0 DEF AcquireSkip, AcquireLookup, Blocked
  <2>4. ASSUME NEW s \in Symbol, AcquireSet(p, s)
        PROVE  late'[q] <= 1 /\ (stage'[q] = "acquiring" => late'[q] = 0)
    BY <2>4, <1>0 DEF AcquireSet
  <2>5. ASSUME NEW c \in Contract, SyncCheck(p, c)
        PROVE  late'[q] <= 1 /\ (stage'[q] = "acquiring" => late'[q] = 0)
    BY <2>5, <1>0 DEF SyncCheck
  <2> QED
    BY <1>5, <2>1, <2>2, <2>3, <2>4, <2>5 DEF PodStep
<1> QED
  BY <1>1, <1>2, <1>3, <1>4, <1>5 DEF Next

\* However long the loop and however late the switch comes on, a pod leases
\* at most one more symbol: the switch is read again for every symbol.
THEOREM KillSwitchHolds == Spec => []KillSwitchLeak
<1>1. Init => TypeOK /\ KillSwitchInv
  BY InitTypeOK DEF Init, KillSwitchInv
<1>2. TypeOK /\ KillSwitchInv /\ [Next]_vars => TypeOK' /\ KillSwitchInv'
  BY NextTypeOK, NextKillSwitchInv
<1>3. KillSwitchInv => KillSwitchLeak
  BY DEF KillSwitchInv, KillSwitchLeak
<1> QED
  BY <1>1, <1>2, <1>3, PTL DEF Spec

-----------------------------------------------------------------------------
(* Exclusive ownership.                                                    *)

\* A symbol never reaches a pod of a shard it does not hash to.
ShardInv ==
    /\ \A h \in Shard : \A s \in assignments[h] : ShardOf[s] = h
    /\ \A p \in Pod : \A s \in assigned[p] \cup owned[p] \cup todo[p] : ShardOf[s] = PodShard[p]

LEMMA InitShardInv == Init => ShardInv
BY DEF Init, ShardInv

LEMMA NextShardInv == TypeOK /\ ShardInv /\ [Next]_vars => ShardInv'
<1> SUFFICES ASSUME TypeOK, ShardInv, [Next]_vars PROVE ShardInv'
  OBVIOUS
<1> USE DEF ShardInv, envVars, flagVars, loopVars, histVars, podVars
<1>0. /\ assignments \in [Shard -> SUBSET Symbol]
      /\ assigned \in [Pod -> SUBSET Symbol]
      /\ owned \in [Pod -> SUBSET Symbol]
      /\ todo \in [Pod -> SUBSET Symbol]
  BY DEF TypeOK
<1>1. CASE UNCHANGED <<assignments, assigned, owned, todo>>
  BY <1>1
<1>2. CASE Environment
  <2>1. ASSUME NEW h \in Shard, NEW S \in SUBSET Symbol, Publish(h, S) PROVE ShardInv'
    BY <2>1, <1>0 DEF Publish
  <2> QED
    BY <1>1, <1>2, <2>1 DEF Environment, SetActive, Revoke, SetKillSwitch, SetPauses
<1>3. ASSUME NEW p \in Pod, Start(p) \/ Crash(p) PROVE ShardInv'
  <2>1. CASE Start(p)
    BY <1>1, <2>1 DEF Start
  <2>2. CASE Crash(p)
    BY <2>2, <1>0 DEF Crash
  <2> QED
    BY <1>3, <2>1, <2>2
<1>4. ASSUME NEW p \in Pod, PodStep(p) PROVE ShardInv'
  <2>1. CASE Refresh(p)
    BY <2>1, <1>0, LiveWorkersAssumption DEF Refresh
  <2>2. CASE SyncDone(p)
    BY <2>2, <1>0 DEF SyncDone
  <2>3. CASE BeginDrain(p)
    BY <2>3, <1>0 DEF BeginDrain
  <2>4. CASE FinishDrain(p)
    BY <2>4, <1>0 DEF FinishDrain
  <2>5. CASE SyncFetch(p) \/ FinishPass(p)
    BY <1>1, <2>5 DEF SyncFetch, FinishPass
  <2>6. ASSUME NEW s \in Symbol, ReleaseForeign(p, s) \/ ReleaseDelete(p, s) PROVE ShardInv'
    BY <2>6, <1>0 DEF ReleaseForeign, ReleaseDelete, Forget
  <2>7. ASSUME NEW s \in Symbol, ReleaseLookup(p, s) \/ AcquireLookup(p, s) PROVE ShardInv'
    BY <1>1, <2>7 DEF ReleaseLookup, AcquireLookup
  <2>8. ASSUME NEW s \in Symbol, AcquireSkip(p, s) PROVE ShardInv'
    BY <2>8, <1>0 DEF AcquireSkip
  <2>9. ASSUME NEW s \in Symbol, AcquireSet(p, s) PROVE ShardInv'
    BY <2>9, <1>0 DEF AcquireSet, IsNext
  <2>10. ASSUME NEW c \in Contract, SyncCheck(p, c) PROVE ShardInv'
    BY <1>1, <2>10 DEF SyncCheck
  <2> QED
    BY <1>4, <2>1, <2>2, <2>3, <2>4, <2>5, <2>6, <2>7, <2>8, <2>9, <2>10 DEF PodStep
<1> QED
  BY <1>1, <1>2, <1>3, <1>4 DEF Next, Tick, vars

LEMMA ShardInvOneOwner == ShardInv /\ OnePodPerShard => OneOwner
BY DEF ShardInv, OnePodPerShard, OneOwner

\* With one pod per shard no symbol is owned twice, whatever the leases do.
THEOREM OwnershipExclusive ==
    ASSUME OnePodPerShard
    PROVE  Spec => []OneOwner
<1>1. Init => TypeOK /\ ShardInv
  BY InitTypeOK, InitShardInv
<1>2. TypeOK /\ ShardInv /\ [Next]_vars => TypeOK' /\ ShardInv'
  BY NextTypeOK, NextShardInv
<1>3. ShardInv => OneOwner
  BY ShardInvOneOwner
<1> QED
  BY <1>1, <1>2, <1>3, PTL DEF Spec

\* Two pods never have the same symbol in hand.
LEMMA InHandUnique ==
    ASSUME OnePodPerShard, ShardInv, NEW p \in Pod, NEW q \in Pod,
           NEW s \in (owned[p] \cup todo[p]) \cap (owned[q] \cup todo[q])
    PROVE  p = q
BY DEF OnePodPerShard, ShardInv

LEMMA NextOwnerIsOnRecord ==
    ASSUME OnePodPerShard
    PROVE  TypeOK /\ ShardInv /\ OwnerIsOnRecord /\ [Next]_vars => OwnerIsOnRecord'
<1> SUFFICES ASSUME TypeOK, ShardInv, OwnerIsOnRecord, [Next]_vars,
                    NEW q \in Pod, NEW t \in owned'[q]
             PROVE  NamesPod(q, t)'
  BY DEF OwnerIsOnRecord
<1> USE DEF NamesPod, envVars, flagVars, loopVars, histVars, podVars
<1>0. /\ lease \in [Symbol -> LeaseRecord \cup {NoLease}]
      /\ owned \in [Pod -> SUBSET Symbol]
      /\ owned' \in [Pod -> SUBSET Symbol]
      /\ t \in Symbol
  BY NextTypeOK DEF TypeOK
<1>1. CASE UNCHANGED <<lease, owned>>
  BY <1>0, <1>1 DEF OwnerIsOnRecord
<1>2. CASE Tick
  <2>1. t \in owned[q] /\ lease'[t] = Aged(lease[t])
    BY <1>2, <1>0 DEF Tick
  <2>2. lease[t] # NoLease /\ lease[t].worker = PodWorker[q]
    BY <2>1 DEF OwnerIsOnRecord
  <2> QED
    BY <1>0, <2>1, <2>2, AgedType
<1>3. ASSUME NEW p \in Pod, Crash(p) PROVE NamesPod(q, t)'
  <2>1. t \in owned[q] /\ lease' = lease
    BY <1>3, <1>0 DEF Crash
  <2> QED
    BY <2>1 DEF OwnerIsOnRecord
<1>4. ASSUME NEW p \in Pod, NEW s \in Symbol, Forget(p, s)
      PROVE  t \in owned[q] /\ ~(p = q /\ s = t)
  BY <1>4, <1>0 DEF Forget
<1>5. ASSUME NEW p \in Pod, NEW s \in Symbol, ReleaseForeign(p, s) PROVE NamesPod(q, t)'
  BY <1>4, <1>5 DEF ReleaseForeign, OwnerIsOnRecord
<1>6. ASSUME NEW p \in Pod, NEW s \in Symbol, ReleaseDelete(p, s) PROVE NamesPod(q, t)'
  <2>1. t \in owned[q] /\ ~(p = q /\ s = t) /\ s \in todo[p]
    BY <1>4, <1>6 DEF ReleaseDelete, IsNext
  <2>2. s # t
    BY <2>1, InHandUnique
  <2>3. lease'[t] = lease[t]
    BY <1>0, <1>6, <2>2 DEF ReleaseDelete
  <2> QED
    BY <2>1, <2>3 DEF OwnerIsOnRecord
<1>7. ASSUME NEW p \in Pod, NEW s \in Symbol, AcquireSet(p, s) PROVE NamesPod(q, t)'
  <2>1. s \in todo[p]
    BY <1>7 DEF AcquireSet, IsNext
  <2>2. CASE p = q /\ s = t
    <3>1. lease'[t] = [worker |-> PodWorker[q], left |-> TTL - lag[q]]
      BY <1>0, <1>7, <2>2 DEF AcquireSet
    <3>2. TTL - lag[q] \in (-MaxLag)..TTL
      BY LiveWorkersAssumption DEF TypeOK
    <3>3. lease'[t] \in LeaseRecord
      BY <3>1, <3>2, LiveWorkersAssumption DEF LeaseRecord
    <3> QED
      BY <3>1, <3>3, LiveWorkersAssumption
  <2>3. CASE ~(p = q /\ s = t)
    <3>1. t \in owned[q]
      BY <1>0, <1>7, <2>3 DEF AcquireSet
    <3>2. s # t
      BY <2>1, <2>3, <3>1, InHandUnique
    <3>3. lease'[t] = lease[t]
      BY <1>0, <1>7, <3>2 DEF AcquireSet
    <3> QED
      BY <3>1, <3>3 DEF OwnerIsOnRecord
  <2> QED
    BY <2>2, <2>3
<1>8. ASSUME NEW p \in Pod, PodStep(p) PROVE NamesPod(q, t)'
  <2>1. CASE Refresh(p) \/ SyncFetch(p) \/ SyncDone(p) \/ FinishPass(p) \/ BeginDrain(p) \/ FinishDrain(p)
    BY <1>1, <2>1 DEF Refresh, SyncFetch, SyncDone, FinishPass, BeginDrain, FinishDrain
  <2>2. ASSUME NEW s \in Symbol, ReleaseLookup(p, s) \/ AcquireSkip(p, s) \/ AcquireLookup(p, s)
        PROVE  NamesPod(q, t)'
    BY <1>1, <2>2 DEF ReleaseLookup, AcquireSkip, AcquireLookup
  <2>3. ASSUME NEW c \in Contract, SyncCheck(p, c) PROVE NamesPod(q, t)'
    BY <1>1, <2>3 DEF SyncCheck
  <2> QED
    BY <1>5, <1>6, <1>7, <1>8, <2>1, <2>2, <2>3 DEF PodStep
<1>9. CASE Environment \/ \E p \in Pod : Start(p)
  BY <1>1, <1>9 DEF Environment, Publish, SetActive, Revoke, SetKillSwitch, SetPauses, Start
<1> QED
  BY <1>1, <1>2, <1>3, <1>8, <1>9 DEF Next, vars

\* With one pod per shard the stored record, live or expired, always names
\* the worker that owns the symbol.
THEOREM OwnerOnRecord ==
    ASSUME OnePodPerShard
    PROVE  Spec => []OwnerIsOnRecord
<1>1. Init => TypeOK /\ ShardInv /\ OwnerIsOnRecord
  BY InitTypeOK, InitShardInv DEF Init, OwnerIsOnRecord
<1>2. TypeOK /\ ShardInv /\ OwnerIsOnRecord /\ [Next]_vars => TypeOK' /\ ShardInv' /\ OwnerIsOnRecord'
  BY NextTypeOK, NextShardInv, NextOwnerIsOnRecord
<1> QED
  BY <1>1, <1>2, PTL DEF Spec

-----------------------------------------------------------------------------
(* No lease without an owner.                                              *)

\* No step but a crash takes a symbol from the pod its record names and
\* leaves the record: a release forgets a symbol only when the record names
\* somebody else, or is deleted with it.
LEMMA NextLeaseHasOwner == TypeOK /\ LeaseHasOwner /\ [Next]_vars => LeaseHasOwner'
<1> SUFFICES ASSUME TypeOK, LeaseHasOwner, [Next]_vars,
                    crashes' = 0, NEW t \in Symbol, lease'[t] # NoLease
             PROVE  \E q \in Pod : PodWorker[q] = lease'[t].worker /\ t \in owned'[q]
  BY DEF LeaseHasOwner
<1> DEFINE Goal == \E q \in Pod : PodWorker[q] = lease'[t].worker /\ t \in owned'[q]
<1> USE DEF envVars, flagVars, loopVars, histVars, podVars
<1>0. /\ lease \in [Symbol -> LeaseRecord \cup {NoLease}]
      /\ owned \in [Pod -> SUBSET Symbol]
      /\ crashes \in Nat
  BY LiveWorkersAssumption DEF TypeOK
<1>1. ASSUME crashes = 0, lease[t] # NoLease
      PROVE  \E q \in Pod : PodWorker[q] = lease[t].worker /\ t \in owned[q]
  BY <1>1 DEF LeaseHasOwner
<1>2. CASE UNCHANGED <<lease, owned, crashes>>
  BY <1>1, <1>2
<1>3. CASE Tick
  <2>1. owned' = owned /\ crashes' = crashes /\ lease'[t] = Aged(lease[t])
    BY <1>3 DEF Tick
  <2>2. lease[t] # NoLease /\ lease'[t].worker = lease[t].worker
    BY <1>0, <2>1, AgedType
  <2> QED
    BY <1>1, <2>1, <2>2
<1>4. ASSUME NEW p \in Pod, Crash(p) PROVE FALSE
  BY <1>0, <1>4 DEF Crash
<1>5. ASSUME NEW p \in Pod, NEW s \in Symbol, ReleaseForeign(p, s) PROVE Goal
  <2>1. lease' = lease /\ crashes' = crashes
    BY <1>5 DEF ReleaseForeign
  <2>2. PICK q \in Pod : PodWorker[q] = lease[t].worker /\ t \in owned[q]
    BY <1>1, <2>1
  <2>3. s = t => q # p
    BY <1>5, <2>1, <2>2 DEF ReleaseForeign, NamesPod
  <2>4. t \in owned'[q]
    BY <1>0, <1>5, <2>2, <2>3 DEF ReleaseForeign, Forget
  <2> QED
    BY <2>1, <2>2, <2>4
<1>6. ASSUME NEW p \in Pod, NEW s \in Symbol, ReleaseDelete(p, s) PROVE Goal
  <2>1. s # t /\ lease'[t] = lease[t] /\ crashes' = crashes
    BY <1>0, <1>6 DEF ReleaseDelete
  <2>2. PICK q \in Pod : PodWorker[q] = lease[t].worker /\ t \in owned[q]
    BY <1>1, <2>1
  <2>3. t \in owned'[q]
    BY <1>0, <1>6, <2>1, <2>2 DEF ReleaseDelete, Forget
  <2> QED
    BY <2>1, <2>2, <2>3
<1>7. ASSUME NEW p \in Pod, NEW s \in Symbol, AcquireSet(p, s) PROVE Goal
  <2>1. crashes' = crashes /\ owned' = [owned EXCEPT ![p] = owned[p] \cup {s}]
    BY <1>7 DEF AcquireSet
  <2>2. CASE s = t
    <3>1. lease'[t].worker = PodWorker[p] /\ t \in owned'[p]
      BY <1>0, <1>7, <2>1, <2>2 DEF AcquireSet
    <3> QED
      BY <3>1
  <2>3. CASE s # t
    <3>1. lease'[t] = lease[t] /\ \A q \in Pod : t \in owned[q] => t \in owned'[q]
      BY <1>0, <1>7, <2>1, <2>3 DEF AcquireSet
    <3> QED
      BY <1>1, <2>1, <3>1
  <2> QED
    BY <2>2, <2>3
<1>8. ASSUME NEW p \in Pod, PodStep(p) PROVE Goal
  <2>1. CASE Refresh(p) \/ SyncFetch(p) \/ SyncDone(p) \/ FinishPass(p) \/ BeginDrain(p) \/ FinishDrain(p)
    BY <1>2, <2>1 DEF Refresh, SyncFetch, SyncDone, FinishPass, BeginDrain, FinishDrain
  <2>2. ASSUME NEW s \in Symbol, ReleaseLookup(p, s) \/ AcquireSkip(p, s) \/ AcquireLookup(p, s)
        PROVE  Goal
    BY <1>2, <2>2 DEF ReleaseLookup, AcquireSkip, AcquireLookup
  <2>3. ASSUME NEW c \in Contract, SyncCheck(p, c) PROVE Goal
    BY <1>2, <2>3 DEF SyncCheck
  <2> QED
    BY <1>5, <1>6, <1>7, <1>8, <2>1, <2>2, <2>3 DEF PodStep
<1>9. CASE Environment \/ UNCHANGED vars \/ \E p \in Pod : Start(p)
  BY <1>2, <1>9 DEF Environment, Publish, SetActive, Revoke, SetKillSwitch, SetPauses, Start, vars
<1> QED
  BY <1>3, <1>4, <1>8, <1>9 DEF Next

\* As long as no process dies every stored lease, live or expired, belongs to
\* a pod that owns its symbol: with any number of pods to a shard, worker ids
\* shared or not, however releases and acquisitions of one symbol interleave.
THEOREM LeasesOwned == Spec => []LeaseHasOwner
<1>1. Init => TypeOK /\ LeaseHasOwner
  BY InitTypeOK DEF Init, LeaseHasOwner
<1>2. TypeOK /\ LeaseHasOwner /\ [Next]_vars => TypeOK' /\ LeaseHasOwner'
  BY NextTypeOK, NextLeaseHasOwner
<1> QED
  BY <1>1, <1>2, PTL DEF Spec

-----------------------------------------------------------------------------
(* The pods implement SymbolOwnership.                                     *)

\* The owner of a symbol, when at most one pod has it.
LEMMA OwnerOf ==
    ASSUME NEW o, NEW s, NEW p \in Pod, s \in o[p],
           \A q \in Pod : s \in o[q] => q = p
    PROVE  (IF \E q \in Pod : s \in o[q] THEN CHOOSE q \in Pod : s \in o[q] ELSE Nobody) = p
OBVIOUS

\* A step that leaves owned_symbols alone leaves the owners alone.
LEMMA OwnedSame == owned' = owned => UNCHANGED [s \in Symbol |-> Owner(s)]
BY DEF Owner

LEMMA InitOwnership == Init => Ownership!Init
BY DEF Init, Owner, Ownership!Init

LEMMA NextOwnership ==
    ASSUME OnePodPerShard
    PROVE  TypeOK /\ ShardInv /\ [Next]_vars => [Ownership!Next]_([s \in Symbol |-> Owner(s)])
<1> SUFFICES ASSUME TypeOK, ShardInv, [Next]_vars
             PROVE  [Ownership!Next]_([s \in Symbol |-> Owner(s)])
  OBVIOUS
<1> USE DEF envVars, flagVars, loopVars, histVars, podVars
<1> DEFINE owner == [s \in Symbol |-> Owner(s)]
<1>0. /\ owned \in [Pod -> SUBSET Symbol]
      /\ todo \in [Pod -> SUBSET Symbol]
      /\ ShardInv'
      /\ owned' \in [Pod -> SUBSET Symbol]
  BY NextTypeOK, NextShardInv DEF TypeOK
<1>1. ASSUME NEW p \in Pod, NEW s \in owned[p] PROVE s \in Symbol /\ Owner(s) = p
  <2>1. \A q \in Pod : s \in owned[q] => q = p
    BY InHandUnique
  <2>2. s \in Symbol
    BY <1>0
  <2> QED
    BY <2>1, <2>2, OwnerOf DEF Owner
<1>2. ASSUME NEW p \in Pod, NEW s \in owned'[p] PROVE s \in Symbol /\ Owner(s)' = p
  <2>1. \A q \in Pod : s \in owned'[q] => q = p
    BY <1>0 DEF ShardInv, OnePodPerShard
  <2>2. s \in Symbol
    BY <1>0
  <2> QED
    BY <2>1, <2>2, OwnerOf DEF Owner
<1>3. ASSUME NEW s \in Symbol, \A p \in Pod : s \notin owned[p] PROVE Owner(s) = Nobody
  BY <1>3 DEF Owner
<1>4. ASSUME NEW s \in Symbol, \A p \in Pod : s \notin owned'[p] PROVE Owner(s)' = Nobody
  BY <1>4 DEF Owner
\* A symbol whose holders do not change keeps its owner.
<1>5. ASSUME NEW s \in Symbol, \A p \in Pod : s \in owned'[p] <=> s \in owned[p]
      PROVE  Owner(s)' = Owner(s)
  <2>1. CASE \E p \in Pod : s \in owned[p]
    BY <1>1, <1>2, <1>5, <2>1
  <2>2. CASE \A p \in Pod : s \notin owned[p]
    BY <1>3, <1>4, <1>5, <2>2
  <2> QED
    BY <2>1, <2>2
<1>6. CASE owned' = owned
  BY <1>6, OwnedSame
<1>7. ASSUME NEW p \in Pod, NEW s \in Symbol, Forget(p, s)
      PROVE  [Ownership!Next]_owner
  <2>1. owned' = [owned EXCEPT ![p] = owned[p] \ {s}]
    BY <1>7 DEF Forget
  <2>2. CASE s \notin owned[p]
    <3>1. owned' = owned
      BY <1>0, <2>1, <2>2
    <3> QED
      BY <1>6, <3>1
  <2>3. CASE s \in owned[p]
    <3>1. owner[s] = p
      BY <1>1, <2>3
    <3>2. \A q \in Pod : s \notin owned'[q]
      BY <1>0, <2>1, <2>3, InHandUnique
    <3>3. Owner(s)' = Nobody
      BY <1>4, <3>2
    <3>4. ASSUME NEW t \in Symbol, t # s PROVE Owner(t)' = Owner(t)
      BY <1>0, <1>5, <2>1, <3>4
    <3>5. owner' = [owner EXCEPT ![s] = Nobody]
      BY <3>3, <3>4
    <3>6. Ownership!GiveUp(p, s)
      BY <3>1, <3>5 DEF Ownership!GiveUp
    <3> QED
      BY <3>6 DEF Ownership!Next
  <2> QED
    BY <2>2, <2>3
<1>8. ASSUME NEW p \in Pod, NEW s \in Symbol, AcquireSet(p, s)
      PROVE  [Ownership!Next]_owner
  <2>1. owned' = [owned EXCEPT ![p] = owned[p] \cup {s}] /\ s \in todo[p]
    BY <1>8 DEF AcquireSet, IsNext
  <2>2. CASE s \in owned[p]
    <3>1. owned' = owned
      BY <1>0, <2>1, <2>2
    <3> QED
      BY <1>6, <3>1
  <2>3. CASE s \notin owned[p]
    <3>1. \A q \in Pod : s \notin owned[q]
      BY <2>1, <2>3, InHandUnique
    <3>2. owner[s] = Nobody
      BY <1>3, <3>1
    <3>3. Owner(s)' = p
      BY <1>0, <1>2, <2>1
    <3>4. ASSUME NEW t \in Symbol, t # s PROVE Owner(t)' = Owner(t)
      BY <1>0, <1>5, <2>1, <3>4
    <3>5. owner' = [owner EXCEPT ![s] = p]
      BY <3>3, <3>4
    <3>6. Ownership!Take(p, s)
      BY <3>2, <3>5 DEF Ownership!Take
    <3> QED
      BY <3>6 DEF Ownership!Next
  <2> QED
    BY <2>2, <2>3
<1>9. ASSUME NEW p \in Pod, Crash(p) PROVE [Ownership!Next]_owner
  <2>1. owned' = [owned EXCEPT ![p] = {}]
    BY <1>9 DEF Crash
  <2>2. ASSUME NEW s \in Symbol PROVE Owner(s)' = IF Owner(s) = p THEN Nobody ELSE Owner(s)
    <3>1. CASE s \in owned[p]
      <4>1. Owner(s) = p
        BY <1>1, <3>1
      <4>2. \A q \in Pod : s \notin owned'[q]
        BY <1>0, <2>1, <3>1, InHandUnique
      <4> QED
        BY <1>4, <4>1, <4>2
    <3>2. CASE s \notin owned[p]
      <4>1. Owner(s)' = Owner(s)
        BY <1>0, <1>5, <2>1, <3>2
      <4>2. Owner(s) # p
        BY <1>1, <1>3, <3>2, LiveOwnershipAssumption
      <4> QED
        BY <4>1, <4>2
    <3> QED
      BY <3>1, <3>2
  <2>3. Ownership!Die(p)
    BY <2>2 DEF Ownership!Die
  <2> QED
    BY <2>3 DEF Ownership!Next
<1>10. ASSUME NEW p \in Pod, PodStep(p) PROVE [Ownership!Next]_owner
  <2>1. CASE Refresh(p) \/ SyncFetch(p) \/ SyncDone(p) \/ FinishPass(p) \/ BeginDrain(p) \/ FinishDrain(p)
    BY <1>6, <2>1 DEF Refresh, SyncFetch, SyncDone, FinishPass, BeginDrain, FinishDrain
  <2>2. ASSUME NEW s \in Symbol, ReleaseForeign(p, s) \/ ReleaseDelete(p, s)
        PROVE  [Ownership!Next]_owner
    BY <1>7, <2>2 DEF ReleaseForeign, ReleaseDelete
  <2>3. ASSUME NEW s \in Symbol, ReleaseLookup(p, s) \/ AcquireSkip(p, s) \/ AcquireLookup(p, s)
        PROVE  [Ownership!Next]_owner
    BY <1>6, <2>3 DEF ReleaseLookup, AcquireSkip, AcquireLookup
  <2>4. ASSUME NEW c \in Contract, SyncCheck(p, c) PROVE [Ownership!Next]_owner
    BY <1>6, <2>4 DEF SyncCheck
  <2> QED
    BY <1>8, <1>10, <2>1, <2>2, <2>3, <2>4 DEF PodStep
<1>11. CASE Tick \/ Environment \/ UNCHANGED vars \/ \E p \in Pod : Start(p)
  BY <1>6, <1>11 DEF Tick, Environment, Publish, SetActive, Revoke, SetKillSwitch, SetPauses, Start, vars
<1> QED
  BY <1>9, <1>10, <1>11 DEF Next

\* With one pod per shard the pods implement SymbolOwnership: a pod takes a
\* symbol only when no process owns it.
THEOREM PodsImplementOwnership ==
    ASSUME OnePodPerShard
    PROVE  Spec => OwnershipIsExclusive
<1>1. Init => TypeOK /\ ShardInv /\ Ownership!Init
  BY InitTypeOK, InitShardInv, InitOwnership
<1>2. TypeOK /\ ShardInv /\ [Next]_vars =>
        TypeOK' /\ ShardInv' /\ [Ownership!Next]_([s \in Symbol |-> Owner(s)])
  BY NextTypeOK, NextShardInv, NextOwnership
<1> QED
  BY <1>1, <1>2, PTL DEF Spec, OwnershipIsExclusive, Ownership!Spec
=============================================================================
