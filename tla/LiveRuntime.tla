---------------------------- MODULE LiveRuntime ----------------------------
(***************************************************************************)
(* The live runtime as a whole: the API and the controller of              *)
(* ContractRollout publish what the worker pods of LiveWorkers read, and   *)
(* the pods fetch the active contracts from the same database.  Operators  *)
(* touch no control flag here; LiveWorkers covers them.                    *)
(***************************************************************************)
EXTENDS ContractRollout

CONSTANTS Pod, Worker, PodWorker, PodShard, OneShot, NoLease, TTL, MaxLag, MaxCrashes

VARIABLES
    lease, heartbeat, killSwitch, pausedSymbols, pausedContracts, podStage,
    assigned, owned, ownedContracts, todo, fetched, kept, lag, late, crashes

podVars == <<lease, heartbeat, killSwitch, pausedSymbols, pausedContracts, podStage,
             assigned, owned, ownedContracts, todo, fetched, kept, lag, late, crashes>>
allVars == <<vars, podVars>>

\* GET /trading-contracts/active: contracts by id, with their symbols.
Active == [c \in {d \in Contract : ActiveAt(row[d], now)} |-> row[c].symbol]

Pods == INSTANCE LiveWorkers WITH stage <- podStage, active <- Active

PodsInit == Init /\ Pods!Init

\* A step of the API, of the controller or of the session's clock.
RolloutStep == Next /\ UNCHANGED podVars

PodStep(p) == UNCHANGED vars /\ Pods!PodStep(p)
PodStart(p) == UNCHANGED vars /\ Pods!Start(p)
PodCrash(p) == UNCHANGED vars /\ Pods!Crash(p)
LeaseTick == UNCHANGED vars /\ Pods!Tick

RuntimeNext ==
    \/ RolloutStep
    \/ \E p \in Pod : PodStep(p) \/ PodStart(p) \/ PodCrash(p)
    \/ LeaseTick

RuntimeSpec == PodsInit /\ [][RuntimeNext]_allVars

RequestStep(h) == HandlerStep(h) /\ UNCHANGED podVars
PollStep == ControllerStep /\ UNCHANGED podVars

\* The fairness of both parts.
RuntimeFairSpec ==
    /\ RuntimeSpec
    /\ \A h \in Handler : WF_allVars(RequestStep(h))
    /\ WF_allVars(PollStep)
    /\ \A p \in Pod : WF_allVars(PodStep(p)) /\ WF_allVars(PodStart(p))
    /\ WF_allVars(LeaseTick)

-----------------------------------------------------------------------------
(* Properties.                                                             *)

\* All the pods see of the API and the controller is what LiveWorkers lets
\* its environment do: one shard's set at a time, symbols where they hash to,
\* the active contracts, one revocation.
PodsSeeTheirEnvironment == Pods!Spec

\* A deleted contract is, from some point on, run by no pod: through the
\* API's death between its commit and its revocation, stale snapshots
\* published later, and a restart of the pod.
DeletedIsDropped ==
    \A c \in Contract :
        <>[]((row[c] # NoRow /\ row[c].deleted) => \A p \in Pod : c \notin DOMAIN ownedContracts[p])

\* A contract that is created and stays active and unedited ends up run by a
\* pod that owns its symbol, although its creation publishes nothing.
CreatedIsRun ==
    \A c \in Contract :
        <>[]((ActiveAt(row[c], now) /\ c \notin revoked) =>
             \E p \in Pod : c \in DOMAIN ownedContracts[p] /\ row[c].symbol \in owned[p])
=============================================================================
