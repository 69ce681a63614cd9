----------------------- MODULE ContractRollout_proofs -----------------------
(***************************************************************************)
(* Theorems about the rollout of contract changes, for any number of       *)
(* contracts, requests, shards and failures: type correctness, that every  *)
(* committed change is revoked, and that a soft delete is final; and, for  *)
(* the live runtime built on it, that the rollout is to the worker pods    *)
(* the environment they are verified in.                                   *)
(***************************************************************************)
EXTENDS LiveRuntime, TLAPS

-----------------------------------------------------------------------------
(* The inductive invariant.                                                *)

\* A live row leaves room for the revision that deletes it.
Bounded(r) == r # NoRow /\ ~r.deleted => r.revision <= MaxRevision

\* What a request is about to commit, against the record it read: a row that
\* was live then, with a new revision, and deleted or within the bound.
Pending(h) ==
    /\ loaded[h] \in Row /\ record[h] \in Row
    /\ row[target[h]] \in Row
    /\ ~loaded[h].deleted
    /\ record[h].revision = loaded[h].revision + 1
    /\ record[h].deleted \/ record[h].revision <= MaxRevision

\* From the commit to the load the request's row exists, and from the
\* refresh on its session holds a record.
SessionOK(h) ==
    /\ stage[h] = "edited" => Pending(h)
    /\ stage[h] = "committed" => row[target[h]] \in Row
    /\ stage[h] = "revoked" => record[h] \in Row

RequestsOK ==
    /\ \A c \in Contract : Bounded(row[c])
    /\ \A h \in Handler : SessionOK(h)

IInv == TypeOK /\ RequestsOK /\ ChangeIsRevoked

-----------------------------------------------------------------------------
(* Rows.                                                                   *)

\* The row that a commit leaves: only the columns that the request changed.
Merged(r, new, old) ==
    [f \in DOMAIN r |-> IF new[f] # old[f] THEN new[f] ELSE r[f]]

LEMMA MergedIsRow ==
    ASSUME NEW r \in Row, NEW new \in Row, NEW old \in Row
    PROVE  /\ Merged(r, new, old) \in Row
           /\ Merged(r, new, old).revision
                = IF new.revision # old.revision THEN new.revision ELSE r.revision
           /\ Merged(r, new, old).deleted
                = IF new.deleted # old.deleted THEN new.deleted ELSE r.deleted
<1> DEFINE m == Merged(r, new, old)
           Keys == {"symbol", "start", "end", "revision", "deleted"}
<1>1. DOMAIN r = Keys
  BY DEF Row
<1>2. m = [f \in Keys |-> IF new[f] # old[f] THEN new[f] ELSE r[f]]
  BY <1>1 DEF Merged
<1>3. m = [symbol   |-> IF new.symbol # old.symbol THEN new.symbol ELSE r.symbol,
           start    |-> IF new.start # old.start THEN new.start ELSE r.start,
           end      |-> IF new.end # old.end THEN new.end ELSE r.end,
           revision |-> IF new.revision # old.revision THEN new.revision ELSE r.revision,
           deleted  |-> IF new.deleted # old.deleted THEN new.deleted ELSE r.deleted]
  BY <1>2
<1> HIDE DEF m
<1>4. m \in Row
  BY <1>3 DEF Row
<1> QED
  BY <1>3, <1>4 DEF m

LEMMA RevisionGrows ==
    ASSUME NEW r \in Row, r.revision <= MaxRevision
    PROVE  r.revision + 1 \in 1..(MaxRevision + 1)
<1>1. r.revision \in 1..(MaxRevision + 1)
  BY DEF Row
<1> QED
  BY <1>1, ContractRolloutAssumption

LEMMA EditedIsRow ==
    ASSUME NEW r \in Row, r.revision <= MaxRevision, NEW edit \in Edit
    PROVE  /\ Edited(r, edit) \in Row
           /\ Edited(r, edit).deleted = r.deleted
           /\ Edited(r, edit).revision = r.revision + 1
<1> DEFINE s == IF edit.symbol = NotGiven THEN r.symbol ELSE edit.symbol
           f == IF edit.start = NotGiven THEN r.start ELSE edit.start
           t == IF edit.end = NotGiven THEN r.end ELSE edit.end
           n == r.revision + 1
<1>1. s \in Symbol /\ f \in Time /\ t \in Time
  BY DEF Row, Edit
<1>2. n \in 1..(MaxRevision + 1)
  BY RevisionGrows
<1>3. Edited(r, edit) = [r EXCEPT !.symbol = s, !.start = f, !.end = t, !.revision = n]
  BY DEF Edited, Row
<1> HIDE DEF s, f, t, n
<1>4. /\ Edited(r, edit) \in Row
      /\ Edited(r, edit).deleted = r.deleted
      /\ Edited(r, edit).revision = n
  BY <1>1, <1>2, <1>3 DEF Row
<1> QED
  BY <1>4 DEF n

LEMMA DeletedIsRow ==
    ASSUME NEW r \in Row, r.revision <= MaxRevision
    PROVE  /\ [r EXCEPT !.deleted = TRUE, !.revision = @ + 1] \in Row
           /\ [r EXCEPT !.deleted = TRUE, !.revision = @ + 1].deleted
           /\ [r EXCEPT !.deleted = TRUE, !.revision = @ + 1].revision = r.revision + 1
<1> DEFINE n == r.revision + 1
           d == [r EXCEPT !.deleted = TRUE, !.revision = n]
<1>1. n \in 1..(MaxRevision + 1)
  BY RevisionGrows
<1> HIDE DEF n
<1>2. d \in Row /\ d.deleted /\ d.revision = n
  BY <1>1 DEF Row
<1>3. [r EXCEPT !.deleted = TRUE, !.revision = @ + 1] = d
  BY DEF n, Row
<1> QED
  BY <1>2, <1>3 DEF n

-----------------------------------------------------------------------------
(* Steps.                                                                  *)

LEMMA InitIInv == Init => IInv
<1> SUFFICES ASSUME Init PROVE IInv
  OBVIOUS
<1>1. target \in [Handler -> Contract]
  BY ContractRolloutAssumption DEF Init
<1>2. TypeOK
  <2>1. /\ row \in [Contract -> Row \cup {NoRow}]
        /\ loaded \in [Handler -> Row \cup {NoRow}] /\ record \in [Handler -> Row \cup {NoRow}]
    BY DEF Init
  <2>2. now \in Time /\ version \in 0..MaxVersion /\ failures \in 0..MaxFailures
    BY ContractRolloutAssumption DEF Init, Time
  <2>3. /\ assignments \in [Shard -> SUBSET Symbol] /\ revoked \subseteq Contract
        /\ stage \in [Publisher -> Stage] /\ snapshot \in [Publisher -> SUBSET Symbol]
        /\ left \in [Publisher -> SUBSET Shard]
    BY DEF Init, Stage
  <2>4. base \in [Publisher -> 0..MaxVersion]
    BY ContractRolloutAssumption DEF Init
  <2>5. scaledUp \in BOOLEAN /\ wantUp \in BOOLEAN
    BY Zenon DEF Init
  <2> QED
    BY <1>1, <2>1, <2>2, <2>3, <2>4, <2>5, Zenon DEF TypeOK
<1>3. RequestsOK /\ ChangeIsRevoked
  BY DEF Init, RequestsOK, Bounded, SessionOK, Publisher, ChangeIsRevoked
<1> QED
  BY <1>2, <1>3 DEF IInv

\* A new row starts within the bound, and no request is at work on it.
LEMMA CreateStep ==
    ASSUME IInv, NEW c \in Contract, NEW s \in Symbol, NEW from \in Time, NEW to \in Time,
           Create(c, s, from, to)
    PROVE  IInv'
<1> DEFINE new == [symbol |-> s, start |-> from, end |-> to, revision |-> 1, deleted |-> FALSE]
<1>1. new \in Row /\ new.revision = 1 /\ ~new.deleted /\ Bounded(new)
  BY ContractRolloutAssumption DEF Row, Bounded
<1>2. row' = [row EXCEPT ![c] = new] /\ row[c] = NoRow
  BY DEF Create
<1> HIDE DEF new
<1>3. TypeOK'
  <2>1. row' \in [Contract -> Row \cup {NoRow}]
    BY <1>1, <1>2 DEF IInv, TypeOK
  <2> QED
    BY <2>1 DEF IInv, TypeOK, Create, redis, request, publish
<1>4. RequestsOK'
  <2>1. ASSUME NEW d \in Contract PROVE Bounded(row[d])'
    <3>1. row'[d] \in {row[d], new} /\ Bounded(row[d])
      BY <1>2 DEF IInv, TypeOK, RequestsOK
    <3> QED
      BY <1>1, <3>1 DEF Bounded
  <2>2. ASSUME NEW h \in Handler PROVE SessionOK(h)'
    <3>1. target[h] \in Contract /\ SessionOK(h)
      BY DEF IInv, TypeOK, RequestsOK
    <3>2. row[target[h]] \in Row => row'[target[h]] \in Row
      BY <1>2, <3>1, NoRowAssumption DEF IInv, TypeOK
    <3> QED
      BY <3>1, <3>2 DEF SessionOK, Pending, Create, request
  <2> QED
    BY <2>1, <2>2 DEF RequestsOK
<1>5. ChangeIsRevoked'
  BY <1>1, <1>2 DEF IInv, TypeOK, ChangeIsRevoked, Create, redis, request
<1> QED
  BY <1>3, <1>4, <1>5 DEF IInv

\* A request reads a live row and prepares another revision of it.
LEMMA BeginStep ==
    ASSUME IInv, NEW h \in Handler, NEW c \in Contract, NEW new \in Row,
           At(h, "idle", "edited"), row[c] \in Row, ~row[c].deleted,
           new.revision = row[c].revision + 1, new.deleted \/ new.revision <= MaxRevision,
           target' = [target EXCEPT ![h] = c],
           loaded' = [loaded EXCEPT ![h] = row[c]],
           record' = [record EXCEPT ![h] = new],
           UNCHANGED <<now, row, redis, scaledUp, publish, wantUp, failures>>
    PROVE  IInv'
<1>1. TypeOK'
  BY DEF IInv, TypeOK, At, Stage, Publisher, redis, publish
<1>2. RequestsOK'
  <2>1. \A d \in Contract : Bounded(row[d])'
    BY DEF IInv, RequestsOK, Bounded
  <2>2. ASSUME NEW g \in Handler PROVE SessionOK(g)'
    <3>1. CASE g = h
      BY <3>1 DEF IInv, TypeOK, SessionOK, Pending, At, Publisher
    <3>2. CASE g # h
      BY <3>2 DEF IInv, TypeOK, RequestsOK, SessionOK, Pending, At, Publisher
    <3> QED
      BY <3>1, <3>2
  <2> QED
    BY <2>1, <2>2 DEF RequestsOK
<1>3. ChangeIsRevoked'
  BY DEF IInv, TypeOK, ChangeIsRevoked, At, Publisher, redis
<1> QED
  BY <1>1, <1>2, <1>3 DEF IInv

LEMMA BeginPatchStep ==
    ASSUME IInv, NEW h \in Handler, NEW c \in Contract, NEW edit \in Edit, BeginPatch(h, c, edit)
    PROVE  IInv'
<1>1. row[c] \in Row /\ ~row[c].deleted /\ row[c].revision < MaxRevision
  BY DEF IInv, TypeOK, BeginPatch, Live
<1>2. row[c].revision \in Nat
  BY <1>1 DEF Row
<1>3. row[c].revision <= MaxRevision /\ row[c].revision + 1 <= MaxRevision
  BY <1>1, <1>2, ContractRolloutAssumption
<1>4. /\ Edited(row[c], edit) \in Row
      /\ Edited(row[c], edit).revision = row[c].revision + 1
  BY <1>1, <1>3, EditedIsRow
<1> QED
  BY <1>1, <1>3, <1>4, BeginStep DEF BeginPatch

LEMMA BeginDeleteStep ==
    ASSUME IInv, NEW h \in Handler, NEW c \in Contract, BeginDelete(h, c)
    PROVE  IInv'
<1> DEFINE new == [row[c] EXCEPT !.deleted = TRUE, !.revision = @ + 1]
<1>1. row[c] \in Row /\ ~row[c].deleted
  BY DEF IInv, TypeOK, BeginDelete, Live
<1>2. row[c].revision <= MaxRevision
  BY <1>1, NoRowAssumption DEF IInv, RequestsOK, Bounded
<1>3. new \in Row /\ new.deleted /\ new.revision = row[c].revision + 1
  BY <1>1, <1>2, DeletedIsRow
<1>4. record' = [record EXCEPT ![h] = new]
  BY DEF BeginDelete
<1> HIDE DEF new
<1> QED
  BY <1>1, <1>3, <1>4, BeginStep DEF BeginDelete

\* What a commit makes of the row as it is by then.
LEMMA CommitMerges ==
    ASSUME IInv, NEW h \in Handler, Commit(h)
    PROVE  /\ target[h] \in Contract /\ row[target[h]] \in Row
           /\ row' = [row EXCEPT ![target[h]] = Merged(row[target[h]], record[h], loaded[h])]
           /\ row'[target[h]] \in Row /\ Bounded(row'[target[h]])
           /\ row[target[h]].deleted => row'[target[h]].deleted
<1> DEFINE r == row[target[h]]
           m == Merged(r, record[h], loaded[h])
<1>1. /\ target[h] \in Contract /\ r \in Row /\ record[h] \in Row /\ loaded[h] \in Row
      /\ ~loaded[h].deleted
      /\ record[h].revision = loaded[h].revision + 1
      /\ record[h].deleted \/ record[h].revision <= MaxRevision
      /\ Bounded(r)
  BY DEF IInv, TypeOK, RequestsOK, SessionOK, Pending, Commit, At
<1>2. row' = [row EXCEPT ![target[h]] = m]
  BY DEF Commit, Merged
<1>3. row'[target[h]] = m
  BY <1>1, <1>2 DEF IInv, TypeOK
<1>4. /\ m \in Row
      /\ m.revision = IF record[h].revision # loaded[h].revision THEN record[h].revision ELSE r.revision
      /\ m.deleted = IF record[h].deleted # loaded[h].deleted THEN record[h].deleted ELSE r.deleted
  BY <1>1, MergedIsRow
<1> HIDE DEF m, r
<1>5. loaded[h].revision \in Nat
  BY <1>1 DEF Row
<1>6. m.revision = record[h].revision
  BY <1>1, <1>4, <1>5
<1>7. record[h].deleted \in BOOLEAN /\ loaded[h].deleted = FALSE
  BY <1>1 DEF Row
<1>8. m.deleted = (record[h].deleted \/ r.deleted)
  <2>1. CASE record[h].deleted = TRUE
    BY <1>4, <1>7, <2>1
  <2>2. CASE record[h].deleted = FALSE
    <3>1. r.deleted \in BOOLEAN
      BY <1>1 DEF Row
    <3> QED
      BY <1>4, <1>7, <2>2, <3>1
  <2> QED
    BY <1>7, <2>1, <2>2
<1>9. Bounded(m)
  BY <1>1, <1>6, <1>8 DEF Bounded
<1> QED
  BY <1>1, <1>2, <1>3, <1>4, <1>8, <1>9 DEF r, m

LEMMA CommitStep == ASSUME IInv, NEW h \in Handler, Commit(h) PROVE IInv'
<1> DEFINE m == Merged(row[target[h]], record[h], loaded[h])
<1>1. /\ target[h] \in Contract /\ row[target[h]] \in Row
      /\ row' = [row EXCEPT ![target[h]] = m]
      /\ row'[target[h]] \in Row /\ Bounded(row'[target[h]])
  BY CommitMerges
<1> HIDE DEF m
<1>2. TypeOK'
  BY <1>1 DEF IInv, TypeOK, Commit, At, Stage, Publisher, redis, request, publish
<1>3. RequestsOK'
  <2>1. ASSUME NEW d \in Contract PROVE Bounded(row[d])'
    BY <1>1 DEF IInv, TypeOK, RequestsOK, Bounded
  <2>2. ASSUME NEW g \in Handler PROVE SessionOK(g)'
    BY <1>1 DEF IInv, TypeOK, RequestsOK, SessionOK, Pending, Commit, At, Publisher, request
  <2> QED
    BY <2>1, <2>2 DEF RequestsOK
<1>4. ChangeIsRevoked'
  BY <1>1 DEF IInv, TypeOK, ChangeIsRevoked, Commit, At, Publisher, redis, request
<1> QED
  BY <1>2, <1>3, <1>4 DEF IInv

\* The contract of the request joins the revoked ones.
LEMMA RevokeStep == ASSUME IInv, NEW h \in Handler, Revoke(h) PROVE IInv'
<1>1. target[h] \in Contract /\ row[target[h]] \in Row
  BY DEF IInv, TypeOK, RequestsOK, SessionOK, Revoke, At
<1>2. TypeOK'
  BY <1>1 DEF IInv, TypeOK, Revoke, At, Stage, Publisher, publish
<1>3. RequestsOK'
  <2>1. ASSUME NEW g \in Handler PROVE SessionOK(g)'
    <3>1. CASE g = h
      BY <1>1, <3>1 DEF IInv, TypeOK, SessionOK, Revoke, At, Publisher
    <3>2. CASE g # h
      BY <3>2 DEF IInv, TypeOK, RequestsOK, SessionOK, Pending, Revoke, At, Publisher
    <3> QED
      BY <3>1, <3>2
  <2> QED
    BY <2>1 DEF IInv, RequestsOK, Bounded, Revoke
<1>4. ChangeIsRevoked'
  BY DEF IInv, TypeOK, ChangeIsRevoked, Revoke, At, Publisher
<1> QED
  BY <1>2, <1>3, <1>4 DEF IInv

LEMMA LoadActiveStep == ASSUME IInv, NEW h \in Handler, LoadActive(h) PROVE IInv'
<1> DEFINE S == {IF c = target[h] THEN record[h].symbol ELSE row[c].symbol :
                    c \in {d \in Contract : ActiveAt(row[d], now)}}
<1>1. record[h] \in Row
  BY DEF IInv, RequestsOK, SessionOK, LoadActive, At
<1>2. S \subseteq Symbol
  BY <1>1 DEF IInv, TypeOK, ActiveAt, Live, Row
<1>3. snapshot' = [snapshot EXCEPT ![h] = S]
  BY DEF LoadActive
<1> HIDE DEF S
<1>4. TypeOK'
  BY <1>2, <1>3 DEF IInv, TypeOK, LoadActive, At, Stage, Publisher, redis
<1>5. RequestsOK'
  <2>1. ASSUME NEW g \in Handler PROVE SessionOK(g)'
    <3>1. CASE g = h
      BY <3>1 DEF IInv, TypeOK, SessionOK, LoadActive, At, Publisher
    <3>2. CASE g # h
      BY <3>2 DEF IInv, TypeOK, RequestsOK, SessionOK, Pending, LoadActive, At, Publisher
    <3> QED
      BY <3>1, <3>2
  <2> QED
    BY <2>1 DEF IInv, RequestsOK, Bounded, LoadActive
<1>6. ChangeIsRevoked'
  BY DEF IInv, TypeOK, ChangeIsRevoked, LoadActive, At, Publisher, redis
<1> QED
  BY <1>4, <1>5, <1>6 DEF IInv

\* A step that touches neither the rows nor a request before its publication.
LEMMA QuietStep ==
    ASSUME IInv, TypeOK',
           UNCHANGED <<row, revoked, request, failures>>,
           \/ UNCHANGED stage
           \/ \E p \in Publisher, to \in Stage \ {"edited", "committed", "revoked"} :
                  (p = Controller \/ stage[p] # "committed") /\ stage' = [stage EXCEPT ![p] = to]
    PROVE  IInv'
<1>1. \A h \in Handler : /\ stage'[h] = "edited" => stage[h] = "edited"
                         /\ stage'[h] = "committed" => stage[h] = "committed"
                         /\ stage'[h] = "revoked" => stage[h] = "revoked"
                         /\ stage[h] = "committed" => stage'[h] = "committed"
  BY ContractRolloutAssumption DEF IInv, TypeOK, Publisher
<1>2. RequestsOK'
  BY <1>1 DEF IInv, RequestsOK, Bounded, SessionOK, Pending, request
<1>3. ChangeIsRevoked'
  BY <1>1 DEF IInv, ChangeIsRevoked, request
<1> QED
  BY <1>2, <1>3 DEF IInv

LEMMA ActiveSymbolsType == ASSUME TypeOK PROVE ActiveSymbols \subseteq Symbol
BY DEF TypeOK, ActiveSymbols, ActiveAt, Live, Row

LEMMA ControllerSteps == ASSUME IInv, Poll \/ Scale \/ Tick PROVE IInv'
<1>0. Controller \in Publisher
  BY DEF Publisher
<1>1. CASE Poll
  <2>1. ActiveSymbols \subseteq Symbol
    BY ActiveSymbolsType DEF IInv
  <2>2. wantUp' \in BOOLEAN
    BY <1>1, Zenon DEF Poll
  <2>3. TypeOK'
    BY <1>0, <1>1, <2>1, <2>2 DEF IInv, TypeOK, Poll, At, Stage, redis, request
  <2> QED
    BY <1>0, <1>1, <2>3, QuietStep DEF Poll, At, Stage, redis
<1>2. CASE Scale
  <2>1. scaledUp' \in BOOLEAN
    BY <1>2, Zenon DEF IInv, TypeOK, Scale
  <2>2. TypeOK'
    BY <1>0, <1>2, <2>1 DEF IInv, TypeOK, Scale, At, Stage, redis, request, publish
  <2> QED
    BY <1>0, <1>2, <2>2, QuietStep DEF Scale, At, Stage, redis
<1>3. CASE Tick
  <2>1. now' \in Time
    BY <1>3, ContractRolloutAssumption DEF IInv, TypeOK, Tick, Time
  <2>2. TypeOK'
    BY <1>3, <2>1 DEF IInv, TypeOK, Tick, redis, request, publish
  <2> QED
    BY <1>3, <2>2, QuietStep DEF Tick, redis
<1> QED
  BY <1>1, <1>2, <1>3

LEMMA PublishSteps == ASSUME IInv, NEW p \in Publisher, PublishStep(p) PROVE IInv'
<1>1. CASE ReadVersion(p)
  <2>1. TypeOK'
    BY <1>1 DEF IInv, TypeOK, ReadVersion, At, Stage, redis, request
  <2> QED
    BY <1>1, <2>1, QuietStep DEF ReadVersion, At, Stage, redis
<1>2. CASE WriteVersion(p)
  <2>1. base[p] \in 0..MaxVersion
    BY DEF IInv, TypeOK
  <2>2. version' \in 0..MaxVersion /\ 0 \in 0..MaxVersion
    BY <1>2, <2>1, ContractRolloutAssumption DEF WriteVersion
  <2>3. TypeOK'
    BY <1>2, <2>2 DEF IInv, TypeOK, WriteVersion, At, Stage, request
  <2> QED
    BY <1>2, <2>3, QuietStep DEF WriteVersion, At, Stage
<1>3. CASE WriteShard(p)
  <2> DEFINE h == Min(left[p])
  <2>1. /\ assignments' = [assignments EXCEPT ![h] = ShardSet(snapshot[p], h)]
        /\ left' = [left EXCEPT ![p] = @ \ {h}]
        /\ \/ UNCHANGED <<stage, snapshot>>
           \/ /\ \E to \in {"scaling", "idle"} : stage' = [stage EXCEPT ![p] = to]
              /\ snapshot' = [snapshot EXCEPT ![p] = {}]
    BY <1>3 DEF WriteShard, Return
  <2> HIDE DEF h
  <2>2. ShardSet(snapshot[p], h) \subseteq Symbol
    BY DEF IInv, TypeOK, ShardSet
  <2>3. TypeOK'
    <3>1. assignments' \in [Shard -> SUBSET Symbol] /\ left' \in [Publisher -> SUBSET Shard]
      BY <2>1, <2>2 DEF IInv, TypeOK
    <3>2. stage' \in [Publisher -> Stage] /\ snapshot' \in [Publisher -> SUBSET Symbol]
      BY <2>1 DEF IInv, TypeOK, Stage
    <3>3. UNCHANGED <<now, row, version, revoked, scaledUp, request, base, wantUp, failures>>
      BY <1>3 DEF WriteShard
    <3> QED
      BY <3>1, <3>2, <3>3 DEF IInv, TypeOK, request
  <2>4. UNCHANGED <<row, revoked, request, failures>>
    BY <1>3 DEF WriteShard, request
  <2>5. stage[p] = "writing"
    BY <1>3 DEF WriteShard
  <2>6. \/ UNCHANGED stage
        \/ \E q \in Publisher, to \in Stage \ {"edited", "committed", "revoked"} :
               (q = Controller \/ stage[q] # "committed") /\ stage' = [stage EXCEPT ![q] = to]
    <3>1. CASE UNCHANGED <<stage, snapshot>>
      BY <3>1
    <3>2. CASE \E to \in {"scaling", "idle"} : stage' = [stage EXCEPT ![p] = to]
      <4>1. PICK to \in {"scaling", "idle"} : stage' = [stage EXCEPT ![p] = to]
        BY <3>2
      <4>2. to \in Stage \ {"edited", "committed", "revoked"}
        BY <4>1 DEF Stage
      <4> QED
        BY <2>5, <4>1, <4>2
    <3> QED
      BY <2>1, <3>1, <3>2
  <2> QED
    BY <2>3, <2>4, <2>6, QuietStep
<1> QED
  BY <1>1, <1>2, <1>3 DEF PublishStep

LEMMA FailStep == ASSUME IInv, NEW p \in Publisher, Fail(p) PROVE IInv'
<1>1. failures' \in 0..MaxFailures /\ failures' # 0 /\ 0 \in 0..MaxVersion
  BY ContractRolloutAssumption DEF IInv, TypeOK, Fail
<1>2. TypeOK'
  BY <1>1 DEF IInv, TypeOK, Fail, Stage, redis
<1>3. RequestsOK'
  <2>1. ASSUME NEW g \in Handler PROVE SessionOK(g)'
    <3>1. CASE g = p
      BY <3>1 DEF IInv, TypeOK, SessionOK, Fail, Publisher
    <3>2. CASE g # p
      BY <3>2 DEF IInv, TypeOK, RequestsOK, SessionOK, Pending, Fail, Publisher
    <3> QED
      BY <3>1, <3>2
  <2> QED
    BY <2>1 DEF IInv, RequestsOK, Bounded, Fail
<1>4. ChangeIsRevoked'
  BY <1>1 DEF ChangeIsRevoked
<1> QED
  BY <1>2, <1>3, <1>4 DEF IInv

LEMMA StutterStep == ASSUME IInv, UNCHANGED vars PROVE IInv'
<1>1. TypeOK'
  BY DEF IInv, TypeOK, vars, redis, request, publish
<1> QED
  BY <1>1, QuietStep DEF vars, redis

LEMMA NextIInv == IInv /\ [Next]_vars => IInv'
<1> SUFFICES ASSUME IInv, [Next]_vars PROVE IInv'
  OBVIOUS
<1>1. ASSUME NEW c \in Contract, NEW s \in Symbol, NEW from \in Time, NEW to \in Time,
             Create(c, s, from, to)
      PROVE  IInv'
  BY <1>1, CreateStep
<1>2. ASSUME NEW h \in Handler, NEW c \in Contract, BeginDelete(h, c) PROVE IInv'
  BY <1>2, BeginDeleteStep
<1>3. ASSUME NEW h \in Handler, NEW c \in Contract, NEW edit \in Edit, BeginPatch(h, c, edit)
      PROVE  IInv'
  BY <1>3, BeginPatchStep
<1>4. ASSUME NEW h \in Handler, HandlerStep(h) PROVE IInv'
  BY <1>4, CommitStep, RevokeStep, LoadActiveStep, PublishSteps DEF HandlerStep, Publisher
<1>5. CASE ControllerStep
  BY <1>5, ControllerSteps, PublishSteps DEF ControllerStep, Publisher
<1>6. ASSUME NEW p \in Publisher, Fail(p) PROVE IInv'
  BY <1>6, FailStep
<1>7. CASE Tick
  BY <1>7, ControllerSteps
<1>8. CASE UNCHANGED vars
  BY <1>8, StutterStep
<1> QED
  BY <1>1, <1>2, <1>3, <1>4, <1>5, <1>6, <1>7, <1>8 DEF Next

-----------------------------------------------------------------------------
(* Theorems.                                                               *)

\* The invariant holds in every state of every behaviour.
THEOREM Invariance == Spec => []IInv
BY InitIInv, NextIInv, PTL DEF Spec

\* Every variable keeps its type; what a commit leaves of two concurrent
\* changes is a row.
THEOREM TypeCorrect == Spec => []TypeOK
<1>1. IInv => TypeOK
  BY DEF IInv
<1> QED
  BY <1>1, Invariance, PTL

\* However requests interleave, a committed change is revoked, or about to be,
\* or a request failed.
THEOREM ChangeRevoked == Spec => []ChangeIsRevoked
<1>1. IInv => ChangeIsRevoked
  BY DEF IInv
<1> QED
  BY <1>1, Invariance, PTL

\* What a step does to a row that is there: a commit leaves a deletion alone.
LEMMA DeletionKept ==
    ASSUME IInv, [Next]_vars, NEW c \in Contract, row[c] \in Row, row[c].deleted
    PROVE  row'[c].deleted
<1>1. ASSUME NEW d \in Contract, NEW s \in Symbol, NEW from \in Time, NEW to \in Time,
             Create(d, s, from, to)
      PROVE  row'[c] = row[c]
  BY <1>1, NoRowAssumption DEF Create, IInv, TypeOK
<1>2. ASSUME NEW h \in Handler, Commit(h) PROVE row'[c].deleted
  <2>1. /\ row[target[h]].deleted => row'[target[h]].deleted
        /\ row' = [row EXCEPT ![target[h]] = Merged(row[target[h]], record[h], loaded[h])]
    BY <1>2, CommitMerges
  <2> QED
    BY <2>1 DEF IInv, TypeOK
<1>3. CASE UNCHANGED row
  BY <1>3
<1>4. \/ \E d \in Contract, s \in Symbol, from, to \in Time : Create(d, s, from, to)
      \/ \E h \in Handler : Commit(h)
      \/ UNCHANGED row
  BY DEF Next, vars, HandlerStep, ControllerStep, PublishStep, BeginDelete, BeginPatch, Revoke,
         LoadActive, ReadVersion, WriteVersion, WriteShard, Poll, Scale, Fail, Tick
<1> QED
  BY <1>1, <1>2, <1>3, <1>4

\* A soft delete is final, whatever a concurrent PATCH read before it: the
\* PATCH commits its own columns only, and a deleted row is never active.
THEOREM DeletionFinal == Spec => DeletedIsFinal
<1>1. ASSUME IInv, [Next]_vars
      PROVE  \A c \in Contract :
                 (row[c] # NoRow /\ row[c].deleted) => (row'[c].deleted /\ ~ActiveAt(row'[c], now'))
  BY <1>1, DeletionKept DEF IInv, TypeOK, ActiveAt, Live
<1> QED
  BY <1>1, Invariance, PTL DEF Spec, DeletedIsFinal

-----------------------------------------------------------------------------
(* The rollout as the environment of the worker pods.                      *)

\* The contracts the pods are answered are a dict of contracts to symbols.
LEMMA ActiveType ==
    ASSUME NEW rows \in [Contract -> Row \cup {NoRow}], NEW t
    PROVE  [c \in {d \in Contract : ActiveAt(rows[d], t)} |-> rows[c].symbol] \in Pods!ContractMap
<1> DEFINE D == {d \in Contract : ActiveAt(rows[d], t)}
<1>1. \A c \in D : rows[c].symbol \in Symbol
  BY DEF ActiveAt, Live, Row
<1>2. [c \in D |-> rows[c].symbol] \in [D -> Symbol] /\ D \subseteq Contract
  BY <1>1
<1> HIDE DEF D
<1>3. [c \in D |-> rows[c].symbol] \in Pods!ContractMap
  BY <1>2 DEF Pods!ContractMap
<1> QED
  BY <1>3 DEF D

\* A step that leaves the rows and the time alone leaves that answer alone.
LEMMA ActiveSame == UNCHANGED <<row, now>> => Active' = Active
BY DEF Active

\* A step of one shard's set, of the answer, of a revocation or of nothing.
LEMMA RolloutIsEnvironment ==
    ASSUME IInv, Next, UNCHANGED podVars
    PROVE  Pods!Environment \/ UNCHANGED Pods!vars
<1> USE DEF podVars, redis, request, publish
<1> USE DEF Pods!vars, Pods!envVars, Pods!flagVars, Pods!podVars, Pods!loopVars, Pods!histVars
<1>0. TypeOK /\ TypeOK'
  BY NextIInv DEF IInv
\* What the pods see of a change to the rows, or of the clock.
<1>1. CASE UNCHANGED <<assignments, revoked>>
  <2>1. Active' \in Pods!ContractMap
    BY <1>0, ActiveType DEF TypeOK, Active
  <2>2. Pods!SetActive(Active')
    BY <1>1 DEF Pods!SetActive
  <2> QED
    BY <2>1, <2>2 DEF Pods!Environment
<1>2. ASSUME NEW h \in Handler, Revoke(h) PROVE Pods!Environment
  <2>1. target[h] \in Contract
    BY <1>0 DEF TypeOK
  <2>2. Active' = Active
    BY <1>2, ActiveSame DEF Revoke
  <2>3. Pods!Revoke(target[h])
    BY <1>2, <2>2 DEF Revoke, Pods!Revoke
  <2> QED
    BY <2>1, <2>3 DEF Pods!Environment
<1>3. ASSUME NEW p \in Publisher, WriteShard(p) PROVE Pods!Environment \/ UNCHANGED Pods!vars
  <2> DEFINE h == Min(left[p])
             S == ShardSet(snapshot[p], h)
  <2>1. /\ assignments' = [assignments EXCEPT ![h] = S]
        /\ UNCHANGED <<now, row, revoked>>
    BY <1>3 DEF WriteShard
  <2>2. Active' = Active
    BY <2>1, ActiveSame
  <2>3. S \in SUBSET Symbol /\ \A s \in S : ShardOf[s] = h
    BY <1>0 DEF TypeOK, ShardSet
  <2> HIDE DEF h, S
  <2>4. CASE h \in Shard
    <3>1. Pods!Publish(h, S)
      BY <2>1, <2>2, <2>3 DEF Pods!Publish
    <3> QED
      BY <2>3, <2>4, <3>1 DEF Pods!Environment
  <2>5. CASE h \notin Shard
    <3>1. assignments' = assignments
      BY <1>0, <2>1, <2>5 DEF TypeOK
    <3> QED
      BY <2>1, <2>2, <3>1
  <2> QED
    BY <2>4, <2>5
<1>4. \/ UNCHANGED <<assignments, revoked>>
      \/ \E h \in Handler : Revoke(h)
      \/ \E p \in Publisher : WriteShard(p)
  BY DEF Next, HandlerStep, ControllerStep, PublishStep, Publisher, Create, BeginDelete, BeginPatch,
         Commit, LoadActive, ReadVersion, WriteVersion, Poll, Scale, Fail, Tick
<1> QED
  BY <1>1, <1>2, <1>3, <1>4

LEMMA RuntimeInit == PodsInit => Pods!Init
<1> SUFFICES ASSUME PodsInit PROVE Pods!Init
  OBVIOUS
<1>1. Active = Pods!NoContracts
  <2>1. {d \in Contract : ActiveAt(row[d], now)} = {}
    BY DEF PodsInit, Init, ActiveAt, Live
  <2> QED
    BY <2>1 DEF Active, Pods!NoContracts
<1> QED
  BY <1>1 DEF PodsInit, Pods!Init

LEMMA RuntimeStep ==
    ASSUME IInv, [RuntimeNext]_allVars
    PROVE  IInv' /\ [Pods!Next]_(Pods!vars)
<1>1. CASE RolloutStep
  <2>1. IInv'
    BY <1>1, NextIInv DEF RolloutStep
  <2> QED
    BY <1>1, <2>1, RolloutIsEnvironment DEF RolloutStep, Pods!Next
<1>2. CASE UNCHANGED vars /\ \E p \in Pod : Pods!PodStep(p) \/ Pods!Start(p) \/ Pods!Crash(p)
  BY <1>2, StutterStep DEF Pods!Next
<1>3. CASE UNCHANGED vars /\ Pods!Tick
  BY <1>3, StutterStep DEF Pods!Next
<1>4. CASE UNCHANGED allVars
  <2>1. UNCHANGED Pods!vars
    BY <1>4, ActiveSame DEF allVars, vars, podVars, redis, Pods!vars, Pods!envVars, Pods!flagVars,
                            Pods!podVars, Pods!loopVars, Pods!histVars
  <2> QED
    BY <1>4, <2>1, StutterStep DEF allVars
<1> QED
  BY <1>1, <1>2, <1>3, <1>4 DEF RuntimeNext, PodStep, PodStart, PodCrash, LeaseTick

\* Whatever the API's requests and the controller's polls do, in any order and
\* with any failures, the pods see of it what LiveWorkers lets its environment
\* do, so that whatever is proved of the pods holds of the whole runtime.
THEOREM RuntimeImplementsPods == RuntimeSpec => PodsSeeTheirEnvironment
<1>1. PodsInit => IInv /\ Pods!Init
  BY InitIInv, RuntimeInit DEF PodsInit
<1>2. IInv /\ [RuntimeNext]_allVars => IInv' /\ [Pods!Next]_(Pods!vars)
  BY RuntimeStep
<1> QED
  BY <1>1, <1>2, PTL DEF RuntimeSpec, PodsSeeTheirEnvironment, Pods!Spec
=============================================================================
