---------------------------- MODULE LiveWorkers ----------------------------
(***************************************************************************)
(* The live worker pods (src/app/live/worker.py) over the shared Redis     *)
(* state they coordinate through: shard assignment sets, one lease record  *)
(* per symbol (leases.py), operator control flags (control_flags.py) and   *)
(* contract revocations (revocation.py).                                   *)
(*                                                                         *)
(* A pod's loop is split at its Redis and HTTP round trips, so that every  *)
(* read-then-write of the code can be interleaved with the other pods, the *)
(* publishers and the operators.  Time is relative: a lease stores the     *)
(* ticks left until its expires_at, and a pod the ticks since it read the  *)
(* clock at the start of its acquire pass.                                 *)
(***************************************************************************)
EXTENDS Integers

CONSTANTS
    Pod,          \* worker processes
    Worker,       \* worker ids, the owner field of a lease
    Shard,
    Symbol,       \* symbol keys, numbered in their sorted order
    Contract,
    PodWorker,    \* the worker id a pod runs under
    PodShard,     \* the shard id a pod was started with
    OneShot,      \* pods started with --once: one iteration, then drain
    ShardOf,      \* the hash that maps a symbol to its shard
    NoLease,      \* a missing lease key
    TTL,          \* lease_ttl_seconds, in ticks
    MaxLag,       \* bound: ticks one acquire pass may take
    MaxCrashes    \* bound: process deaths in a behaviour

LeaseRecord == [worker : Worker, left : (-MaxLag)..TTL]

ASSUME LiveWorkersAssumption ==
    /\ Symbol \subseteq Nat
    /\ PodWorker \in [Pod -> Worker]
    /\ PodShard \in [Pod -> Shard]
    /\ OneShot \subseteq Pod
    /\ ShardOf \in [Symbol -> Shard]
    /\ NoLease \notin LeaseRecord
    /\ TTL \in Nat \ {0}
    /\ MaxLag \in Nat
    /\ MaxCrashes \in Nat

VARIABLES
    \* Redis
    assignments,      \* [Shard -> SUBSET Symbol]
    lease,            \* [Symbol -> LeaseRecord \cup {NoLease}]
    heartbeat,        \* [Worker -> Heartbeat]
    killSwitch,       \* the global kill switch
    pausedSymbols,
    pausedContracts,
    revoked,          \* contracts with a revocation key
    \* the answer of GET /trading-contracts/active
    active,           \* a partial function from contracts to symbols
    \* pods
    stage,            \* [Pod -> Stage], the control point
    assigned,         \* assigned_symbols
    owned,            \* owned_symbols
    ownedContracts,   \* owned_contracts
    todo,             \* the symbols the running loop has still to visit
    fetched,          \* the contracts the running sync has still to check
    kept,             \* next_owned of the running sync
    lag,              \* ticks since the acquire pass read the clock
    \* history
    late,             \* symbols leased by the pod since the kill switch came on
    crashes

redisVars == <<assignments, lease, heartbeat>>
flagVars  == <<killSwitch, pausedSymbols, pausedContracts>>
envVars   == <<assignments, flagVars, revoked, active>>
loopVars  == <<todo, fetched, kept, lag>>
histVars  == <<late, crashes>>
podVars   == <<stage, assigned, owned, ownedContracts, loopVars>>
vars      == <<envVars, lease, heartbeat, podVars, histVars>>

-----------------------------------------------------------------------------
Heartbeat == {"none", "assigned", "tradable", "draining"}
Stage == {"off", "boot", "release", "releasing", "checking",
          "acquire", "acquiring", "idle", "drain", "draining"}

\* Partial functions from contracts to symbols: dicts keyed by contract id.
ContractMap == UNION {[D -> Symbol] : D \in SUBSET Contract}
NoContracts == [c \in {} |-> 0]
Keep(f, D)  == [c \in D |-> f[c]]

\* sorted(...): the loops visit their symbols in key order.  (drain walks
\* list(owned_symbols), whose order is arbitrary; the model takes key order.)
IsNext(p, s) == s \in todo[p] /\ \A t \in todo[p] : s <= t

\* Mutant: any stored record counts as held, expired or not.
HeldForever(record, age) == record # NoLease

\* existing.expires_at > request.leased_at, where leased_at was read lag ago.
HeldAt(record, age) == record # NoLease /\ record.left + age > 0

TypeOK ==
    /\ assignments \in [Shard -> SUBSET Symbol]
    /\ lease \in [Symbol -> LeaseRecord \cup {NoLease}]
    /\ heartbeat \in [Worker -> Heartbeat]
    /\ killSwitch \in BOOLEAN
    /\ pausedSymbols \subseteq Symbol
    /\ pausedContracts \subseteq Contract
    /\ revoked \subseteq Contract
    /\ active \in ContractMap
    /\ stage \in [Pod -> Stage]
    /\ assigned \in [Pod -> SUBSET Symbol]
    /\ owned \in [Pod -> SUBSET Symbol]
    /\ ownedContracts \in [Pod -> ContractMap]
    /\ todo \in [Pod -> SUBSET Symbol]
    /\ fetched \in [Pod -> ContractMap]
    /\ kept \in [Pod -> ContractMap]
    /\ lag \in [Pod -> 0..MaxLag]
    /\ late \in [Pod -> Nat]
    /\ crashes \in 0..MaxCrashes

-----------------------------------------------------------------------------
Init ==
    /\ assignments = [h \in Shard |-> {}]
    /\ lease = [s \in Symbol |-> NoLease]
    /\ heartbeat = [w \in Worker |-> "none"]
    /\ killSwitch = FALSE
    /\ pausedSymbols = {}
    /\ pausedContracts = {}
    /\ revoked = {}
    /\ active = NoContracts
    /\ stage = [p \in Pod |-> "off"]
    /\ assigned = [p \in Pod |-> {}]
    /\ owned = [p \in Pod |-> {}]
    /\ ownedContracts = [p \in Pod |-> NoContracts]
    /\ todo = [p \in Pod |-> {}]
    /\ fetched = [p \in Pod |-> NoContracts]
    /\ kept = [p \in Pod |-> NoContracts]
    /\ lag = [p \in Pod |-> 0]
    /\ late = [p \in Pod |-> 0]
    /\ crashes = 0

-----------------------------------------------------------------------------
(* The pod: one disjunct of PodStep per stretch of the loop between two    *)
(* reads or writes of shared state.                                        *)

SetHeartbeat(p, status) == heartbeat' = [heartbeat EXCEPT ![PodWorker[p]] = status]

\* A fresh process: run_forever registers the first heartbeat.
Start(p) ==
    /\ stage[p] = "off"
    /\ stage' = [stage EXCEPT ![p] = "boot"]
    /\ SetHeartbeat(p, "assigned")
    /\ UNCHANGED <<envVars, lease, assigned, owned, ownedContracts, loopVars, histVars>>

\* Mutant: reads every shard's set.
RefreshAnyShard(p) ==
    LET all == UNION {assignments[h] : h \in Shard} IN
    /\ stage[p] = "boot" \/ (stage[p] = "idle" /\ p \notin OneShot)
    /\ assigned' = [assigned EXCEPT ![p] = all]
    /\ todo' = [todo EXCEPT ![p] = owned[p] \ all]
    /\ stage' = [stage EXCEPT ![p] = "release"]
    /\ UNCHANGED <<envVars, lease, heartbeat, owned, ownedContracts, fetched, kept, lag, histVars>>

\* Mutant: the iteration has no release loop.
RefreshKeepsOwned(p) ==
    /\ stage[p] = "boot" \/ (stage[p] = "idle" /\ p \notin OneShot)
    /\ assigned' = [assigned EXCEPT ![p] = assignments[PodShard[p]]]
    /\ stage' = [stage EXCEPT ![p] = "release"]
    /\ UNCHANGED <<envVars, lease, heartbeat, owned, ownedContracts, loopVars, histVars>>

\* refresh_assignments, at the top of an iteration.
Refresh(p) ==
    /\ stage[p] = "boot" \/ (stage[p] = "idle" /\ p \notin OneShot)
    /\ assigned' = [assigned EXCEPT ![p] = assignments[PodShard[p]]]
    /\ todo' = [todo EXCEPT ![p] = owned[p] \ assignments[PodShard[p]]]
    /\ stage' = [stage EXCEPT ![p] = "release"]
    /\ UNCHANGED <<envVars, lease, heartbeat, owned, ownedContracts, fetched, kept, lag, histVars>>

\* owned_symbols.discard and, in the release loop, the symbol's contracts.
Forget(p, s) ==
    /\ owned' = [owned EXCEPT ![p] = @ \ {s}]
    /\ todo' = [todo EXCEPT ![p] = @ \ {s}]
    /\ ownedContracts' =
         IF stage[p] \in {"release", "releasing"}
         THEN [ownedContracts EXCEPT ![p] = Keep(@, {c \in DOMAIN @ : @[c] # s})]
         ELSE ownedContracts

NamesPod(p, s) == lease[s] # NoLease /\ lease[s].worker = PodWorker[p]

\* Mutant: forgets the symbol without looking at the record.
ReleaseBlindly(p, s) ==
    /\ stage[p] \in {"release", "drain"}
    /\ IsNext(p, s)
    /\ Forget(p, s)
    /\ UNCHANGED <<envVars, lease, heartbeat, stage, assigned, fetched, kept, lag, histVars>>

\* release_symbol_lease, its GET: not ours or missing, so nothing to delete.
ReleaseForeign(p, s) ==
    /\ stage[p] \in {"release", "drain"}
    /\ IsNext(p, s)
    /\ ~NamesPod(p, s)
    /\ Forget(p, s)
    /\ UNCHANGED <<envVars, lease, heartbeat, stage, assigned, fetched, kept, lag, histVars>>

\* release_symbol_lease, its GET: the record names this worker.
ReleaseLookup(p, s) ==
    /\ stage[p] \in {"release", "drain"}
    /\ IsNext(p, s)
    /\ NamesPod(p, s)
    /\ stage' = [stage EXCEPT ![p] = IF @ = "release" THEN "releasing" ELSE "draining"]
    /\ UNCHANGED <<envVars, lease, heartbeat, assigned, owned, ownedContracts, loopVars, histVars>>

\* Mutant: the symbol stays in owned_symbols.
ReleaseNotForgotten(p, s) ==
    /\ stage[p] \in {"releasing", "draining"}
    /\ IsNext(p, s)
    /\ lease' = [lease EXCEPT ![s] = NoLease]
    /\ todo' = [todo EXCEPT ![p] = @ \ {s}]
    /\ stage' = [stage EXCEPT ![p] = IF @ = "releasing" THEN "release" ELSE "drain"]
    /\ UNCHANGED <<envVars, heartbeat, assigned, owned, ownedContracts, fetched, kept, lag, histVars>>

\* release_symbol_lease, its DELETE: whatever record is there by now.
ReleaseDelete(p, s) ==
    /\ stage[p] \in {"releasing", "draining"}
    /\ IsNext(p, s)
    /\ lease' = [lease EXCEPT ![s] = NoLease]
    /\ Forget(p, s)
    /\ stage' = [stage EXCEPT ![p] = IF @ = "releasing" THEN "release" ELSE "drain"]
    /\ UNCHANGED <<envVars, heartbeat, assigned, fetched, kept, lag, histVars>>

\* _sync_active_contracts, its GET of the active contracts.
SyncFetch(p) ==
    /\ stage[p] = "release"
    /\ todo[p] = {}
    /\ fetched' = [fetched EXCEPT ![p] = Keep(active, {c \in DOMAIN active : active[c] \in assigned[p]})]
    /\ kept' = [kept EXCEPT ![p] = NoContracts]
    /\ stage' = [stage EXCEPT ![p] = "checking"]
    /\ UNCHANGED <<envVars, lease, heartbeat, assigned, owned, ownedContracts, todo, lag, histVars>>

\* Mutant: the revocation key is not looked up.
SyncCheckPauseOnly(p, c) ==
    /\ stage[p] = "checking"
    /\ c \in DOMAIN fetched[p]
    /\ fetched' = [fetched EXCEPT ![p] = Keep(@, DOMAIN @ \ {c})]
    /\ kept' = [kept EXCEPT ![p] =
                  IF c \in pausedContracts THEN @
                  ELSE [d \in DOMAIN @ \cup {c} |-> IF d = c THEN fetched[p][c] ELSE @[d]]]
    /\ UNCHANGED <<envVars, lease, heartbeat, stage, assigned, owned, ownedContracts, todo, lag, histVars>>

\* ... one contract's revocation and pause keys.
SyncCheck(p, c) ==
    /\ stage[p] = "checking"
    /\ c \in DOMAIN fetched[p]
    /\ fetched' = [fetched EXCEPT ![p] = Keep(@, DOMAIN @ \ {c})]
    /\ kept' = [kept EXCEPT ![p] =
                  IF c \in revoked \cup pausedContracts THEN @
                  ELSE [d \in DOMAIN @ \cup {c} |-> IF d = c THEN fetched[p][c] ELSE @[d]]]
    /\ UNCHANGED <<envVars, lease, heartbeat, stage, assigned, owned, ownedContracts, todo, lag, histVars>>

\* ... owned_contracts = next_owned; acquire_and_warm_symbols reads the clock.
SyncDone(p) ==
    /\ stage[p] = "checking"
    /\ DOMAIN fetched[p] = {}
    /\ ownedContracts' = [ownedContracts EXCEPT ![p] = kept[p]]
    /\ kept' = [kept EXCEPT ![p] = NoContracts]
    /\ todo' = [todo EXCEPT ![p] = assigned[p]]
    /\ lag' = [lag EXCEPT ![p] = 0]
    /\ stage' = [stage EXCEPT ![p] = "acquire"]
    /\ UNCHANGED <<envVars, lease, heartbeat, assigned, owned, fetched, histVars>>

Blocked(p, s) ==
    \/ killSwitch
    \/ s \in pausedSymbols
    \/ s \in owned[p]

\* The flags block the symbol, it is owned already, or its lease is held.
AcquireSkip(p, s) ==
    /\ stage[p] = "acquire"
    /\ IsNext(p, s)
    /\ Blocked(p, s) \/ HeldAt(lease[s], lag[p])
    /\ todo' = [todo EXCEPT ![p] = @ \ {s}]
    /\ UNCHANGED <<envVars, lease, heartbeat, stage, assigned, owned, ownedContracts, fetched, kept, lag, histVars>>

\* Mutant: the kill switch is not read again in the loop.
AcquireDespiteKillSwitch(p, s) ==
    /\ stage[p] = "acquire"
    /\ IsNext(p, s)
    /\ s \notin pausedSymbols \cup owned[p]
    /\ ~HeldAt(lease[s], lag[p])
    /\ stage' = [stage EXCEPT ![p] = "acquiring"]
    /\ UNCHANGED <<envVars, lease, heartbeat, assigned, owned, ownedContracts, loopVars, histVars>>

\* acquire_symbol_lease, its GET: missing or expired at leased_at.
AcquireLookup(p, s) ==
    /\ stage[p] = "acquire"
    /\ IsNext(p, s)
    /\ ~Blocked(p, s)
    /\ ~HeldAt(lease[s], lag[p])
    /\ stage' = [stage EXCEPT ![p] = "acquiring"]
    /\ UNCHANGED <<envVars, lease, heartbeat, assigned, owned, ownedContracts, loopVars, histVars>>

\* Mutant: the wrong sign on the age of the clock reading.
AcquireTooLong(p, s) ==
    /\ stage[p] = "acquiring"
    /\ IsNext(p, s)
    /\ lease' = [lease EXCEPT ![s] = [worker |-> PodWorker[p], left |-> TTL + lag[p]]]
    /\ owned' = [owned EXCEPT ![p] = @ \cup {s}]
    /\ todo' = [todo EXCEPT ![p] = @ \ {s}]
    /\ stage' = [stage EXCEPT ![p] = "acquire"]
    /\ UNCHANGED <<envVars, heartbeat, assigned, ownedContracts, fetched, kept, lag, histVars>>

\* acquire_symbol_lease, its SET: expires_at counts from the pass's clock.
AcquireSet(p, s) ==
    /\ stage[p] = "acquiring"
    /\ IsNext(p, s)
    /\ lease' = [lease EXCEPT ![s] = [worker |-> PodWorker[p], left |-> TTL - lag[p]]]
    /\ owned' = [owned EXCEPT ![p] = @ \cup {s}]
    /\ todo' = [todo EXCEPT ![p] = @ \ {s}]
    /\ stage' = [stage EXCEPT ![p] = "acquire"]
    /\ late' = IF killSwitch THEN [late EXCEPT ![p] = @ + 1] ELSE late
    /\ UNCHANGED <<envVars, heartbeat, assigned, ownedContracts, fetched, kept, lag, crashes>>

\* The end of an iteration: the heartbeat, then sleep (or, once, return).
FinishPass(p) ==
    /\ stage[p] = "acquire"
    /\ todo[p] = {}
    /\ SetHeartbeat(p, IF owned[p] # {} THEN "tradable" ELSE "assigned")
    /\ lag' = [lag EXCEPT ![p] = 0]
    /\ stage' = [stage EXCEPT ![p] = "idle"]
    /\ UNCHANGED <<envVars, lease, assigned, owned, ownedContracts, todo, fetched, kept, histVars>>

\* drain, called by live-worker --once after its iteration.
BeginDrain(p) ==
    /\ stage[p] = "idle"
    /\ p \in OneShot
    /\ SetHeartbeat(p, "draining")
    /\ todo' = [todo EXCEPT ![p] = owned[p]]
    /\ stage' = [stage EXCEPT ![p] = "drain"]
    /\ UNCHANGED <<envVars, lease, assigned, owned, ownedContracts, fetched, kept, lag, histVars>>

\* drain's end: contracts cleared, heartbeat deleted, the process returns.
FinishDrain(p) ==
    /\ stage[p] = "drain"
    /\ todo[p] = {}
    /\ SetHeartbeat(p, "none")
    /\ ownedContracts' = [ownedContracts EXCEPT ![p] = NoContracts]
    /\ assigned' = [assigned EXCEPT ![p] = {}]
    /\ stage' = [stage EXCEPT ![p] = "off"]
    /\ UNCHANGED <<envVars, lease, owned, loopVars, histVars>>

PodStep(p) ==
    \/ Refresh(p) \/ SyncFetch(p) \/ SyncDone(p) \/ FinishPass(p)
    \/ BeginDrain(p) \/ FinishDrain(p)
    \/ \E s \in Symbol : \/ ReleaseForeign(p, s) \/ ReleaseLookup(p, s) \/ ReleaseDelete(p, s)
                         \/ AcquireSkip(p, s) \/ AcquireLookup(p, s) \/ AcquireSet(p, s)
    \/ \E c \in Contract : SyncCheck(p, c)

\* The process dies (an unhandled error of Redis or of the contracts API, a
\* kill): its memory is lost, its lease records and its heartbeat stay.
Crash(p) ==
    /\ stage[p] # "off"
    /\ crashes < MaxCrashes
    /\ crashes' = crashes + 1
    /\ stage' = [stage EXCEPT ![p] = "off"]
    /\ assigned' = [assigned EXCEPT ![p] = {}]
    /\ owned' = [owned EXCEPT ![p] = {}]
    /\ ownedContracts' = [ownedContracts EXCEPT ![p] = NoContracts]
    /\ todo' = [todo EXCEPT ![p] = {}]
    /\ fetched' = [fetched EXCEPT ![p] = NoContracts]
    /\ kept' = [kept EXCEPT ![p] = NoContracts]
    /\ lag' = [lag EXCEPT ![p] = 0]
    /\ UNCHANGED <<envVars, lease, heartbeat, late>>

-----------------------------------------------------------------------------
(* Time and the other writers of the shared state.                         *)

Acquiring(p) == stage[p] \in {"acquire", "acquiring"}

Aged(record) ==
    IF record = NoLease \/ record.left = -MaxLag THEN record
    ELSE [record EXCEPT !.left = @ - 1]

Tick ==
    /\ \A p \in Pod : Acquiring(p) => lag[p] < MaxLag
    /\ lease' = [s \in Symbol |-> Aged(lease[s])]
    /\ lag' = [p \in Pod |-> IF Acquiring(p) THEN lag[p] + 1 ELSE lag[p]]
    /\ UNCHANGED <<envVars, heartbeat, stage, assigned, owned, ownedContracts, todo, fetched, kept, histVars>>

\* Mutant: the publishers disagree on the hash.
PublishAnyShard(h, S) ==
    /\ assignments' = [assignments EXCEPT ![h] = S]
    /\ UNCHANGED <<flagVars, revoked, active, lease, heartbeat, podVars, histVars>>

\* publish_assignments rewrites one shard's set; whatever contracts it was
\* computed from, a symbol only ever goes to the shard it hashes to.
Publish(h, S) ==
    /\ \A s \in S : ShardOf[s] = h
    /\ assignments' = [assignments EXCEPT ![h] = S]
    /\ UNCHANGED <<flagVars, revoked, active, lease, heartbeat, podVars, histVars>>

\* Contracts are created, edited, deleted, or their window opens or closes.
SetActive(a) ==
    /\ active' = a
    /\ UNCHANGED <<assignments, flagVars, revoked, lease, heartbeat, podVars, histVars>>

\* revoke_contract: the key is never deleted again.
Revoke(c) ==
    /\ revoked' = revoked \cup {c}
    /\ UNCHANGED <<assignments, flagVars, active, lease, heartbeat, podVars, histVars>>

\* Operators write the control keys.
SetKillSwitch(b) ==
    /\ b # killSwitch
    /\ killSwitch' = b
    /\ late' = [p \in Pod |-> 0]
    /\ UNCHANGED <<assignments, pausedSymbols, pausedContracts, revoked, active, lease, heartbeat, podVars, crashes>>

SetPauses(S, C) ==
    /\ pausedSymbols' = S
    /\ pausedContracts' = C
    /\ UNCHANGED <<assignments, killSwitch, revoked, active, lease, heartbeat, podVars, histVars>>

Environment ==
    \/ \E h \in Shard, S \in SUBSET Symbol : Publish(h, S)
    \/ \E a \in ContractMap : SetActive(a)
    \/ \E c \in Contract : Revoke(c)
    \/ \E b \in BOOLEAN : SetKillSwitch(b)
    \/ \E S \in SUBSET Symbol, C \in SUBSET Contract : SetPauses(S, C)

Next ==
    \/ \E p \in Pod : Start(p) \/ PodStep(p) \/ Crash(p)
    \/ Tick
    \/ Environment

Spec == Init /\ [][Next]_vars

\* A running pod takes its next step, the clock advances, and the
\* StatefulSet restarts its pods; operators and publishers owe nothing.
Fairness ==
    /\ \A p \in Pod : WF_vars(PodStep(p))
    /\ \A p \in Pod \ OneShot : WF_vars(Start(p))
    /\ WF_vars(Tick)

FairSpec == Spec /\ Fairness

-----------------------------------------------------------------------------
(* Properties.                                                             *)

\* No two pods own a symbol at once.  Nothing but the sharding gives this:
\* the lease check alone does not (see LiveWorkersSmoke).
OneOwner == \A p, q \in Pod : p # q => owned[p] \cap owned[q] = {}

\* While a pod owns a symbol the stored lease record, live or expired, names
\* its worker: no other pod's release or acquire has touched the key.
OwnerIsOnRecord == \A p \in Pod : \A s \in owned[p] : NamesPod(p, s)

\* The kill switch is read before every acquisition, so after it comes on a
\* pod leases at most the one symbol whose check it had already passed.
KillSwitchLeak == killSwitch => \A p \in Pod : late[p] <= 1

\* Without process deaths every stored lease belongs to a pod that owns the
\* symbol: a release or a drain never forgets a symbol and leaves its record
\* behind to block the symbol until it expires.
LeaseHasOwner ==
    crashes = 0 => \A s \in Symbol : lease[s] # NoLease =>
        \E p \in Pod : PodWorker[p] = lease[s].worker /\ s \in owned[p]

\* A revoked contract is, from some point on, run by no pod.
RevokedIsDropped ==
    \A c \in Contract :
        <>[](c \in revoked => \A p \in Pod : c \notin DOMAIN ownedContracts[p])

Assignable(s) == s \in assignments[ShardOf[s]] /\ ~killSwitch /\ s \notin pausedSymbols

\* A symbol that stays assigned and unblocked ends up owned for good, also
\* when a dead pod left a live lease on it.
AssignedIsOwned ==
    \A s \in Symbol : <>[]Assignable(s) => <>[](\E p \in Pod : s \in owned[p])

\* A symbol that stays out of its shard's set ends up owned by nobody, and
\* its lease record, if any, expired.
UnassignedIsReleased ==
    \A s \in Symbol : <>[](s \notin assignments[ShardOf[s]]) =>
        <>[](~HeldAt(lease[s], 0) /\ \A p \in Pod : s \notin owned[p])
=============================================================================
