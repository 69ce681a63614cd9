-------------------------- MODULE ContractRollout --------------------------
(***************************************************************************)
(* How a change of the trading contracts reaches Redis.  API handlers      *)
(* (src/app/api/routes/trading_contracts.py) commit a change to a contract *)
(* row and then revoke the contract and republish the shard assignments    *)
(* (contract_mutations.py); the controller (live/controller.py) polls the  *)
(* active contracts and republishes on a timer.  Both publish with         *)
(* assignment_publisher.py: read the version, write the next one, then one *)
(* set per shard.  Every database statement and Redis command is a step.   *)
(***************************************************************************)
EXTENDS Integers, FiniteSets, FiniteSetsExt

CONSTANTS
    Contract, Symbol,
    Shard,          \* shard ids, a finite set of numbers
    ShardOf,        \* compute_shard_id
    Handler,        \* API requests in flight
    Controller,     \* the controller process
    NoRow,          \* a contract that was not created yet
    NotGiven,       \* a field the PATCH payload leaves out
    MaxTime,        \* bound: the clock runs from 0 to MaxTime
    ClosedTimes,    \* the times the market session is closed
    MaxRevision,    \* bound: no new PATCH once a row has this revision
    MaxVersion,     \* bound: larger version numbers are not told apart
    MaxFailures     \* bound: requests and polls that die half way

Publisher == Handler \cup {Controller}
Time == 0..MaxTime

ASSUME ContractRolloutAssumption ==
    /\ Contract # {}
    /\ Shard \subseteq Nat
    /\ IsFiniteSet(Shard)
    /\ Shard # {}
    /\ ShardOf \in [Symbol -> Shard]
    /\ Controller \notin Handler
    /\ NotGiven \notin Symbol
    /\ NotGiven \notin Time
    /\ MaxTime \in Nat
    /\ ClosedTimes \subseteq Time
    /\ MaxRevision \in Nat \ {0}
    /\ MaxVersion \in Nat
    /\ MaxFailures \in Nat

Row == [symbol : Symbol, start : Time, end : Time, revision : 1..(MaxRevision + 1), deleted : BOOLEAN]
ASSUME NoRowAssumption == NoRow \notin Row

VARIABLES
    now,
    \* the database
    row,          \* [Contract -> Row \cup {NoRow}]
    \* Redis
    version,      \* ta:assignments:version
    assignments,  \* ta:assignments:shard:{h}
    revoked,      \* contracts with a revocation key
    \* the Kubernetes scaler
    scaledUp,
    \* requests and the controller's poll
    stage,        \* [Publisher -> Stage]
    target,       \* [Handler -> Contract], the contract of the request
    loaded,       \* [Handler -> Row], the record as it was read
    record,       \* [Handler -> Row], the record as it is in the session
    snapshot,     \* [Publisher -> SUBSET Symbol], the symbols to publish
    base,         \* [Publisher -> version read]
    left,         \* [Publisher -> SUBSET Shard], sets still to write
    wantUp,       \* the poll's desired_replicas is not 0
    failures

redis    == <<version, assignments, revoked>>
request  == <<target, loaded, record>>
publish  == <<snapshot, base, left>>
vars     == <<now, row, redis, scaledUp, stage, request, publish, wantUp, failures>>

Stage == {"idle", "edited", "committed", "revoked", "loaded", "numbered", "writing", "scaling"}

-----------------------------------------------------------------------------
\* Mutant: deleted contracts count as live.
AnyRow(r) == r # NoRow

\* not_deleted_contracts_query.
Live(r) == r # NoRow /\ ~r.deleted

\* active_contracts_query.
ActiveAt(r, t) == Live(r) /\ r.start <= t /\ t < r.end

\* load_active_contracts in a session of its own.
ActiveSymbols == {row[c].symbol : c \in {d \in Contract : ActiveAt(row[d], now)}}

\* Mutant: every shard gets all the symbols.
WholeSet(S, h) == S

\* compute_assignments: every shard gets a set, an empty one too.
ShardSet(S, h) == {s \in S : ShardOf[s] = h}

TypeOK ==
    /\ now \in Time
    /\ row \in [Contract -> Row \cup {NoRow}]
    /\ version \in 0..MaxVersion
    /\ assignments \in [Shard -> SUBSET Symbol]
    /\ revoked \subseteq Contract
    /\ scaledUp \in BOOLEAN
    /\ stage \in [Publisher -> Stage]
    /\ target \in [Handler -> Contract]
    /\ loaded \in [Handler -> Row \cup {NoRow}]
    /\ record \in [Handler -> Row \cup {NoRow}]
    /\ snapshot \in [Publisher -> SUBSET Symbol]
    /\ base \in [Publisher -> 0..MaxVersion]
    /\ left \in [Publisher -> SUBSET Shard]
    /\ wantUp \in BOOLEAN
    /\ failures \in 0..MaxFailures

Init ==
    /\ now = 0
    /\ row = [c \in Contract |-> NoRow]
    /\ version = 0
    /\ assignments = [h \in Shard |-> {}]
    /\ revoked = {}
    /\ scaledUp = FALSE
    /\ stage = [p \in Publisher |-> "idle"]
    /\ target \in [Handler -> {CHOOSE c \in Contract : TRUE}]
    /\ loaded = [h \in Handler |-> NoRow]
    /\ record = [h \in Handler |-> NoRow]
    /\ snapshot = [p \in Publisher |-> {}]
    /\ base = [p \in Publisher |-> 0]
    /\ left = [p \in Publisher |-> {}]
    /\ wantUp = FALSE
    /\ failures = 0

At(p, from, to) == stage[p] = from /\ stage' = [stage EXCEPT ![p] = to]

-----------------------------------------------------------------------------
(* The API.                                                                *)

\* POST: one insert; nothing is published.
Create(c, s, from, to) ==
    /\ row[c] = NoRow
    /\ from < to
    /\ row' = [row EXCEPT ![c] = [symbol |-> s, start |-> from, end |-> to,
                                  revision |-> 1, deleted |-> FALSE]]
    /\ UNCHANGED <<now, redis, scaledUp, stage, request, publish, wantUp, failures>>

\* apply_contract_update: the given fields replace the record's.
Edited(r, edit) ==
    [r EXCEPT !.symbol = IF edit.symbol = NotGiven THEN @ ELSE edit.symbol,
              !.start  = IF edit.start = NotGiven THEN @ ELSE edit.start,
              !.end    = IF edit.end = NotGiven THEN @ ELSE edit.end,
              !.revision = @ + 1]

\* PATCH up to its commit: 404 and 422 change nothing.
BeginPatch(h, c, edit) ==
    /\ At(h, "idle", "edited")
    /\ Live(row[c])
    /\ row[c].revision < MaxRevision
    /\ Edited(row[c], edit).start < Edited(row[c], edit).end
    /\ target' = [target EXCEPT ![h] = c]
    /\ loaded' = [loaded EXCEPT ![h] = row[c]]
    /\ record' = [record EXCEPT ![h] = Edited(row[c], edit)]
    /\ UNCHANGED <<now, row, redis, scaledUp, publish, wantUp, failures>>

\* Mutant: a deleted contract can be deleted again.
BeginDeleteAgain(h, c) ==
    /\ At(h, "idle", "edited")
    /\ row[c] # NoRow
    /\ target' = [target EXCEPT ![h] = c]
    /\ loaded' = [loaded EXCEPT ![h] = row[c]]
    /\ record' = [record EXCEPT ![h] = [row[c] EXCEPT !.deleted = TRUE, !.revision = @ + 1]]
    /\ UNCHANGED <<now, row, redis, scaledUp, publish, wantUp, failures>>

\* DELETE up to its commit: a soft delete.
BeginDelete(h, c) ==
    /\ At(h, "idle", "edited")
    /\ Live(row[c])
    /\ target' = [target EXCEPT ![h] = c]
    /\ loaded' = [loaded EXCEPT ![h] = row[c]]
    /\ record' = [record EXCEPT ![h] = [row[c] EXCEPT !.deleted = TRUE, !.revision = @ + 1]]
    /\ UNCHANGED <<now, row, redis, scaledUp, publish, wantUp, failures>>

\* Mutant: the whole record is written back.
CommitWholeRow(h) ==
    /\ At(h, "edited", "committed")
    /\ row' = [row EXCEPT ![target[h]] = record[h]]
    /\ UNCHANGED <<now, redis, scaledUp, request, publish, wantUp, failures>>

\* session.commit: the ORM writes the columns the request changed.
Commit(h) ==
    /\ At(h, "edited", "committed")
    /\ row' = [row EXCEPT ![target[h]] =
                 [f \in DOMAIN @ |-> IF record[h][f] # loaded[h][f] THEN record[h][f] ELSE @[f]]]
    /\ UNCHANGED <<now, redis, scaledUp, request, publish, wantUp, failures>>

\* Mutant: only a deletion revokes.
RevokeDeletedOnly(h) ==
    /\ At(h, "committed", "revoked")
    /\ record' = [record EXCEPT ![h] = row[target[h]]]
    /\ loaded' = [loaded EXCEPT ![h] = NoRow]
    /\ revoked' = IF row[target[h]].deleted THEN revoked \cup {target[h]} ELSE revoked
    /\ UNCHANGED <<now, row, version, assignments, scaledUp, target, publish, wantUp, failures>>

\* session.refresh, then revoke_contract.
Revoke(h) ==
    /\ At(h, "committed", "revoked")
    /\ record' = [record EXCEPT ![h] = row[target[h]]]
    /\ loaded' = [loaded EXCEPT ![h] = NoRow]
    /\ revoked' = revoked \cup {target[h]}
    /\ UNCHANGED <<now, row, version, assignments, scaledUp, target, publish, wantUp, failures>>

\* load_active_contracts in the request's session: the query sees the
\* database, but the session answers with the record it already holds.
LoadActive(h) ==
    /\ At(h, "revoked", "loaded")
    /\ snapshot' = [snapshot EXCEPT ![h] =
         {IF c = target[h] THEN record[h].symbol ELSE row[c].symbol :
             c \in {d \in Contract : ActiveAt(row[d], now)}}]
    /\ record' = [record EXCEPT ![h] = NoRow]
    /\ UNCHANGED <<now, row, redis, scaledUp, target, loaded, base, left, wantUp, failures>>

-----------------------------------------------------------------------------
(* The controller.                                                         *)

\* sync_once up to the answer of GET /trading-contracts/active.
Poll ==
    /\ At(Controller, "idle", "loaded")
    /\ snapshot' = [snapshot EXCEPT ![Controller] = ActiveSymbols]
    /\ wantUp' = (now \notin ClosedTimes)
    /\ UNCHANGED <<now, row, redis, scaledUp, request, base, left, failures>>

\* Its last step: scale_to(desired_replicas).
Scale ==
    /\ At(Controller, "scaling", "idle")
    /\ scaledUp' = wantUp
    /\ UNCHANGED <<now, row, redis, request, publish, wantUp, failures>>

-----------------------------------------------------------------------------
(* publish_assignments_for_contracts, for either.                          *)

ReadVersion(p) ==
    /\ At(p, "loaded", "numbered")
    /\ base' = [base EXCEPT ![p] = version]
    /\ UNCHANGED <<now, row, redis, scaledUp, request, snapshot, left, wantUp, failures>>

\* Mutant: the first shard is left out.
WriteVersionSkippingFirst(p) ==
    /\ At(p, "numbered", "writing")
    /\ version' = IF base[p] = MaxVersion THEN MaxVersion ELSE base[p] + 1
    /\ base' = [base EXCEPT ![p] = 0]
    /\ left' = [left EXCEPT ![p] = Shard \ {Min(Shard)}]
    /\ UNCHANGED <<now, row, assignments, revoked, scaledUp, request, snapshot, wantUp, failures>>

WriteVersion(p) ==
    /\ At(p, "numbered", "writing")
    /\ version' = IF base[p] = MaxVersion THEN MaxVersion ELSE base[p] + 1
    /\ base' = [base EXCEPT ![p] = 0]
    /\ left' = [left EXCEPT ![p] = Shard]
    /\ UNCHANGED <<now, row, assignments, revoked, scaledUp, request, snapshot, wantUp, failures>>

\* The call returns: to the controller's scaling, or to the API's client.
Return(p) ==
    /\ stage' = [stage EXCEPT ![p] = IF p = Controller THEN "scaling" ELSE "idle"]
    /\ snapshot' = [snapshot EXCEPT ![p] = {}]

\* Mutant: a shard left without symbols is not written.
WriteShardIfAny(p) ==
    /\ stage[p] = "writing"
    /\ LET h == Min(left[p])
           S == ShardSet(snapshot[p], h) IN
       /\ assignments' = [assignments EXCEPT ![h] = IF S = {} THEN @ ELSE S]
       /\ left' = [left EXCEPT ![p] = @ \ {h}]
       /\ IF left[p] = {h}
          THEN Return(p)
          ELSE UNCHANGED <<stage, snapshot>>
    /\ UNCHANGED <<now, row, version, revoked, scaledUp, request, base, wantUp, failures>>

WriteShard(p) ==
    /\ stage[p] = "writing"
    /\ LET h == Min(left[p]) IN
       /\ assignments' = [assignments EXCEPT ![h] = ShardSet(snapshot[p], h)]
       /\ left' = [left EXCEPT ![p] = @ \ {h}]
       /\ IF left[p] = {h}
          THEN Return(p)
          ELSE UNCHANGED <<stage, snapshot>>
    /\ UNCHANGED <<now, row, version, revoked, scaledUp, request, base, wantUp, failures>>

PublishStep(p) == ReadVersion(p) \/ WriteVersion(p) \/ WriteShard(p)

\* A Redis or HTTP error, or the death of the process, in mid-request.
Fail(p) ==
    /\ stage[p] # "idle"
    /\ failures < MaxFailures
    /\ failures' = failures + 1
    /\ stage' = [stage EXCEPT ![p] = "idle"]
    /\ loaded' = [h \in Handler |-> IF h = p THEN NoRow ELSE loaded[h]]
    /\ record' = [h \in Handler |-> IF h = p THEN NoRow ELSE record[h]]
    /\ snapshot' = [snapshot EXCEPT ![p] = {}]
    /\ base' = [base EXCEPT ![p] = 0]
    /\ left' = [left EXCEPT ![p] = {}]
    /\ UNCHANGED <<now, row, redis, scaledUp, target, wantUp>>

Tick ==
    /\ now < MaxTime
    /\ now' = now + 1
    /\ UNCHANGED <<row, redis, scaledUp, stage, request, publish, wantUp, failures>>

-----------------------------------------------------------------------------
Edit == [symbol : Symbol \cup {NotGiven}, start : Time \cup {NotGiven}, end : Time \cup {NotGiven}]

HandlerStep(h) == Commit(h) \/ Revoke(h) \/ LoadActive(h) \/ PublishStep(h)
ControllerStep == Poll \/ PublishStep(Controller) \/ Scale

Next ==
    \/ \E c \in Contract, s \in Symbol, from, to \in Time : Create(c, s, from, to)
    \/ \E h \in Handler, c \in Contract :
           BeginDelete(h, c) \/ \E edit \in Edit : BeginPatch(h, c, edit)
    \/ \E h \in Handler : HandlerStep(h)
    \/ ControllerStep
    \/ \E p \in Publisher : Fail(p)
    \/ Tick

Spec == Init /\ [][Next]_vars

\* Requests in flight go on and the controller polls for ever (its process is
\* restarted when it dies); users owe no request.
FairSpec ==
    /\ Spec
    /\ \A h \in Handler : WF_vars(HandlerStep(h))
    /\ WF_vars(ControllerStep)

-----------------------------------------------------------------------------
(* Properties.                                                             *)

\* The bounds bring the contracts and the clock to rest.  However requests and
\* polls interleave, whatever stale snapshot is published last and wherever
\* one dies, every shard's set then comes to be exactly its active symbols,
\* and stays so.
AssignmentsConverge ==
    <>[](\A h \in Shard : assignments[h] = ShardSet(ActiveSymbols, h))

\* A committed change is revoked, or a request is about to, or it failed.
ChangeIsRevoked ==
    failures = 0 => \A c \in Contract :
        (row[c] # NoRow /\ row[c].revision > 1 /\ c \notin revoked) =>
            \E h \in Handler : target[h] = c /\ stage[h] = "committed"

\* A soft delete is final, whatever a concurrent PATCH read before it.
DeletedIsFinal ==
    [][\A c \in Contract :
        (row[c] # NoRow /\ row[c].deleted) => (row'[c].deleted /\ ~ActiveAt(row'[c], now'))]_vars

-----------------------------------------------------------------------------
(* Refuted (ContractRolloutWindow).                                        *)

\* contracts.py:172 rejects a window that does not start before it ends; two
\* requests that each move one end commit one.
WindowIsValid == \A c \in Contract : row[c] # NoRow => row[c].start < row[c].end
=============================================================================
