-------------------------- MODULE Universes_proofs --------------------------
(***************************************************************************)
(* Theorems about symbol universes, for any universes, symbols, days,      *)
(* workflows and requests: type correctness, that a change leaves the days *)
(* before its own alone, and that the newest change is answered.           *)
(***************************************************************************)
EXTENDS Universes, TLAPS

-----------------------------------------------------------------------------
(* Intervals and answers.                                                  *)

\* A universe answers with symbols.
LEMMA AnswersAreSymbols ==
    ASSUME NEW R \in SUBSET Row, NEW d
    PROVE  constituents_as_of(R, d) \in SUBSET Symbol
<1>1. ASSUME NEW t PROVE Symbols(Current(R, t)) \in SUBSET Symbol
  BY DEF Symbols, Current, Row
<1> QED
  BY <1>1 DEF constituents_as_of

\* What a refresh leaves are rows.
LEMMA RefreshedRows ==
    ASSUME NEW R \in SUBSET Row, NEW S \in SUBSET Symbol, NEW T \in SUBSET Symbol, NEW d \in Day
    PROVE  Closed(R, S, Start(d)) \union New(T, d) \in SUBSET Row
<1>1. ASSUME NEW r \in Row PROVE [r EXCEPT !.to = Start(d)] \in Row
  BY DEF Row, Ends
<1>2. Closed(R, S, Start(d)) \in SUBSET Row
  BY <1>1 DEF Closed
<1>3. New(T, d) \in SUBSET Row
  BY DEF New, Row, Ends
<1> QED
  BY <1>2, <1>3

\* And so is what a replacement leaves.
LEMMA ReplacedRows ==
    ASSUME NEW R \in SUBSET Row, NEW O \in SUBSET Row, NEW T \in SUBSET Symbol, NEW d \in Day
    PROVE  ClosedBefore(R, O, d) \union New(T, d) \in SUBSET Row
<1>1. ASSUME NEW r \in Row PROVE [r EXCEPT !.to = Before(d)] \in Row
  BY DEF Row, Ends
<1>2. New(T, d) \in SUBSET Row
  BY DEF New, Row, Ends
<1>3. ClosedBefore(R, O, d) \in SUBSET Row
  BY <1>1 DEF ClosedBefore
<1> QED
  BY <1>2, <1>3

-----------------------------------------------------------------------------
(* Type correctness.                                                       *)

LEMMA InitTypeOK == Init => TypeOK
<1>1. NoRecord \in Record
  BY DEF NoRecord, Record
<1> QED
  BY <1>1 DEF Init, TypeOK

\* Records stay records.
LEMMA RecordsOK ==
    ASSUME TypeOK
    PROVE  /\ Seeded \in [Universe -> Record]
           /\ \A u \in Universe : get_universe(u) \in [Universe -> Record]
           /\ \A a, p \in BOOLEAN : Present(a, p) \in Record
           /\ Deleted \in Record
<1>1. \A a, p \in BOOLEAN : Present(a, p) \in Record
  BY DEF Present, Record
<1>2. Deleted \in Record
  BY DEF Deleted, NoRecord, Record
<1>3. Seeded \in [Universe -> Record]
  BY <1>1 DEF Seeded, TypeOK
<1>4. \A u \in Universe : get_universe(u) \in [Universe -> Record]
  BY <1>3 DEF get_universe, TypeOK
<1> QED
  BY <1>1, <1>2, <1>3, <1>4

\* An actor that goes on keeps its types.
LEMMA GoesOnOK ==
    ASSUME TypeOK, NEW a \in Actor, NEW U \in SUBSET todo[a], GoesOn(a, U)
    PROVE  /\ stage' \in [Actor -> {"next", "commit"}]
           /\ todo' \in [Actor -> SUBSET Universe]
           /\ day' \in [Actor -> {0} \union Day]
           /\ \A b \in Actor : todo'[b] # {} => day'[b] \in Day
           /\ target' \in [Actor -> SUBSET Symbol]
           /\ seen' \in [Actor -> SUBSET Symbol]
           /\ open' \in [Actor -> SUBSET Row]
<1>1. todo[a] \in SUBSET Universe
  BY DEF TypeOK
<1> QED
  BY <1>1 DEF TypeOK, GoesOn

LEMMA NextTypeOK == TypeOK /\ [Next]_vars => TypeOK'
<1> SUFFICES ASSUME TypeOK, [Next]_vars PROVE TypeOK'
  OBVIOUS
<1> USE DEF Actor
<1>r. /\ Seeded \in [Universe -> Record]
      /\ \A u \in Universe : get_universe(u) \in [Universe -> Record]
      /\ \A a, p \in BOOLEAN : Present(a, p) \in Record
      /\ Deleted \in Record
  BY RecordsOK
<1>1. CASE list_universes
  BY <1>1, <1>r DEF TypeOK, list_universes, actorVars
<1>2. CASE sync_registry
  <2>1. record' \in [Universe -> Record]
    <3>1. \A u \in Universe : [record[u] EXCEPT !.active = FALSE] \in Record
      BY DEF TypeOK, Record
    <3> QED
      BY <1>2, <1>r, <3>1 DEF TypeOK, sync_registry
  <2> QED
    BY <1>2, <2>1 DEF TypeOK, sync_registry, actorVars
<1>3. ASSUME NEW u \in Universe, create_universe(u) PROVE TypeOK'
  BY <1>3, <1>r DEF TypeOK, create_universe, actorVars
<1>4. ASSUME NEW u \in Universe, patch_universe(u) PROVE TypeOK'
  BY <1>4, <1>r DEF TypeOK, patch_universe, actorVars
<1>5. ASSUME NEW u \in Universe, delete_user_universe(u) PROVE TypeOK'
  BY <1>5, <1>r DEF TypeOK, delete_user_universe, actorVars
<1>6. ASSUME NEW j \in Job, StartRefresh(j) PROVE TypeOK'
  <2>1. record' \in [Universe -> Record]
    BY <1>6, <1>r DEF TypeOK, StartRefresh
  <2>2. todo' \in [Actor -> SUBSET Universe]
    BY <1>6 DEF TypeOK, StartRefresh
  <2>3. day' \in [Actor -> {0} \union Day] /\ \A a \in Actor : todo'[a] # {} => day'[a] \in Day
    BY <1>6 DEF TypeOK, StartRefresh
  <2> QED
    BY <1>6, <2>1, <2>2, <2>3 DEF TypeOK, StartRefresh
<1>7. ASSUME NEW j \in Job, NEW u \in Universe, Skip(j, u) PROVE TypeOK'
  BY <1>7, <1>r, GoesOnOK DEF TypeOK, Skip
<1>8. ASSUME NEW j \in Job, NEW u \in Universe, FetchFails(j, u) PROVE TypeOK'
  BY <1>8, <1>r, GoesOnOK DEF TypeOK, FetchFails
<1>9. ASSUME NEW j \in Job, NEW u \in Universe, Fetch(j, u) PROVE TypeOK'
  <2>1. constituents_as_of(rows[u], day[j]) \in SUBSET Symbol
    BY AnswersAreSymbols DEF TypeOK
  <2> QED
    BY <1>9, <1>r, <2>1 DEF TypeOK, Fetch
<1>10. ASSUME NEW j \in Job, NEW u \in Universe, RefreshCommit(j, u) PROVE TypeOK'
  <2>1. day[j] \in Day
    BY <1>10 DEF TypeOK, RefreshCommit, IsNow
  <2>2. Added(j) \in SUBSET Symbol /\ Removed(j) \in SUBSET Symbol
    BY DEF TypeOK, Added, Removed
  <2>3. rows' \in [Universe -> SUBSET Row]
    BY <1>10, <2>1, <2>2, RefreshedRows DEF TypeOK, RefreshCommit
  <2>4. GoesOn(j, todo[j] \ {u}) /\ todo[j] \ {u} \in SUBSET todo[j] /\ record' = record
    BY <1>10 DEF RefreshCommit
  <2> QED
    BY <2>3, <2>4, GoesOnOK DEF TypeOK
<1>11. ASSUME NEW c \in Client, NEW u \in User, create_user_universe(c, u) PROVE TypeOK'
  <2>1. todo' \in [Actor -> SUBSET Universe]
    BY <1>11 DEF TypeOK, create_user_universe, Universe
  <2>2. day' \in [Actor -> {0} \union Day] /\ \A a \in Actor : todo'[a] # {} => day'[a] \in Day
    BY <1>11 DEF TypeOK, create_user_universe
  <2>3. target' \in [Actor -> SUBSET Symbol]
    BY <1>11 DEF TypeOK, create_user_universe
  <2>4. record' \in [Universe -> Record]
    <3>1. u \in Universe
      BY DEF Universe
    <3>2. \E x \in Record : record' = [record EXCEPT ![u] = x]
      BY <1>11, <1>r DEF create_user_universe
    <3> QED
      BY <3>1, <3>2 DEF TypeOK
  <2> QED
    BY <1>11, <2>1, <2>2, <2>3, <2>4 DEF TypeOK, create_user_universe
<1>12. ASSUME NEW c \in Client, NEW u \in User, PutSymbols(c, u) PROVE TypeOK'
  <2>1. todo' \in [Actor -> SUBSET Universe]
    BY <1>12 DEF TypeOK, PutSymbols, Universe
  <2>2. day' \in [Actor -> {0} \union Day] /\ \A a \in Actor : todo'[a] # {} => day'[a] \in Day
    BY <1>12 DEF TypeOK, PutSymbols
  <2>3. target' \in [Actor -> SUBSET Symbol]
    BY <1>12 DEF TypeOK, PutSymbols
  <2> QED
    BY <1>12, <2>1, <2>2, <2>3 DEF TypeOK, PutSymbols
<1>13. ASSUME NEW c \in Client, NEW u \in Universe, ReplaceRead(c, u) PROVE TypeOK'
  <2>1. OpenRows(rows[u]) \in SUBSET Row
    BY DEF TypeOK, OpenRows
  <2> QED
    BY <1>13, <2>1 DEF TypeOK, ReplaceRead
<1>14. ASSUME NEW c \in Client, NEW u \in Universe, ReplaceCommit(c, u) PROVE TypeOK'
  <2>1. day[c] \in Day
    BY <1>14 DEF TypeOK, ReplaceCommit, IsNow
  <2>4. rows[u] \in SUBSET Row /\ open[c] \in SUBSET Row /\ target[c] \in SUBSET Symbol
    BY DEF TypeOK
  <2>5. ClosedBefore(rows[u], open[c], day[c]) \union New(target[c], day[c]) \in SUBSET Row
    BY <2>1, <2>4, ReplacedRows
  <2>2. rows' \in [Universe -> SUBSET Row]
    BY <1>14, <2>5 DEF TypeOK, ReplaceCommit
  <2>3. GoesOn(c, {}) /\ record' = record
    BY <1>14 DEF ReplaceCommit
  <2> QED
    BY <2>2, <2>3, GoesOnOK DEF TypeOK
<1>15. ASSUME NEW a \in Actor, Crash(a) PROVE TypeOK'
  BY <1>15, GoesOnOK DEF TypeOK, Crash
<1>16. CASE UNCHANGED vars
  BY <1>16 DEF TypeOK, vars, actorVars
<1> QED
  BY <1>1, <1>2, <1>3, <1>4, <1>5, <1>6, <1>7, <1>8, <1>9, <1>10, <1>11, <1>12, <1>13, <1>14, <1>15, <1>16
     DEF Next, JobStep, ClientStep

\* Every variable keeps its type, through changes that overlap, crashes and
\* deletions.
THEOREM TypeCorrect == Spec => []TypeOK
BY InitTypeOK, NextTypeOK, PTL DEF Spec

-----------------------------------------------------------------------------
(* What a replacement will close was open when it looked.                  *)

OpenOK == \A a \in Actor : \A r \in open[a] : r.to = Forever

LEMMA NextOpenOK == TypeOK /\ OpenOK /\ [Next]_vars => OpenOK'
<1> SUFFICES ASSUME TypeOK, OpenOK, [Next]_vars PROVE OpenOK'
  OBVIOUS
<1>g. ASSUME NEW a \in Actor, NEW U, GoesOn(a, U) PROVE OpenOK'
  BY <1>g DEF GoesOn, OpenOK, TypeOK
<1>1. CASE list_universes \/ sync_registry
  BY <1>1 DEF OpenOK, list_universes, sync_registry, actorVars
<1>2. ASSUME NEW u \in Universe, create_universe(u) \/ patch_universe(u) \/ delete_user_universe(u) PROVE OpenOK'
  BY <1>2 DEF OpenOK, create_universe, patch_universe, delete_user_universe, actorVars
<1>3. ASSUME NEW j \in Job, JobStep(j) PROVE OpenOK'
  <2>1. CASE StartRefresh(j)
    BY <2>1 DEF StartRefresh, OpenOK
  <2>2. ASSUME NEW u \in Universe, Fetch(j, u) PROVE OpenOK'
    BY <2>2 DEF Fetch, OpenOK
  <2>3. ASSUME NEW u \in Universe, Skip(j, u) \/ FetchFails(j, u) \/ RefreshCommit(j, u) PROVE OpenOK'
    BY <2>3, <1>g DEF Skip, FetchFails, RefreshCommit, Actor
  <2> QED
    BY <1>3, <2>1, <2>2, <2>3 DEF JobStep
<1>4. ASSUME NEW c \in Client, ClientStep(c) PROVE OpenOK'
  <2>1. ASSUME NEW u \in User, create_user_universe(c, u) \/ PutSymbols(c, u) PROVE OpenOK'
    BY <2>1 DEF create_user_universe, PutSymbols, OpenOK
  <2>2. ASSUME NEW u \in Universe, ReplaceRead(c, u) PROVE OpenOK'
    BY <2>2 DEF ReplaceRead, OpenOK, OpenRows, TypeOK
  <2>3. ASSUME NEW u \in Universe, ReplaceCommit(c, u) PROVE OpenOK'
    BY <2>3, <1>g DEF ReplaceCommit, Actor
  <2> QED
    BY <1>4, <2>1, <2>2, <2>3 DEF ClientStep
<1>5. ASSUME NEW a \in Actor, Crash(a) PROVE OpenOK'
  BY <1>5, <1>g DEF Crash
<1>6. CASE UNCHANGED vars
  BY <1>6 DEF OpenOK, vars, actorVars
<1> QED
  BY <1>1, <1>2, <1>3, <1>4, <1>5, <1>6 DEF Next

IInv == TypeOK /\ OpenOK

\* The invariant holds in every state of every behaviour.
THEOREM Invariance == Spec => []IInv
<1>1. Init => IInv
  BY InitTypeOK DEF Init, IInv, OpenOK
<1>2. IInv /\ [Next]_vars => IInv'
  BY NextTypeOK, NextOpenOK DEF IInv
<1> QED
  BY <1>1, <1>2, PTL DEF Spec

-----------------------------------------------------------------------------
(* Earlier days.                                                           *)

\* The row q is the row r, or r closed on the day t or later.
Continues(q, r, t) ==
    /\ q.symbol = r.symbol /\ q.from = r.from
    /\ q.to = r.to \/ (r.to = Forever /\ q.to >= t)

\* Q has the rows of R, closed on the day t or later if at all, and else only
\* rows that begin after t.
Extends(Q, R, t) ==
    /\ \A r \in R : \E q \in Q : Continues(q, r, t)
    /\ \A q \in Q : q.from > t \/ \E r \in R : Continues(q, r, t)

LEMMA RowNumbers ==
    ASSUME NEW r \in Row
    PROVE  r.from \in Int /\ r.to \in Int /\ Forever \in Int
BY UniversesAssumption DEF Row, Ends, Start, Before, Day, Forever

\* Then the answer for the day is the same.
LEMMA AnswerKept ==
    ASSUME NEW R \in SUBSET Row, NEW Q \in SUBSET Row, NEW d \in Asked,
           Extends(Q, R, Start(d)), \E r \in R : r.from <= Start(d)
    PROVE  constituents_as_of(Q, d) = constituents_as_of(R, d)
<1> DEFINE t == Start(d)
<1>0. t \in Int /\ t < Forever
  BY UniversesAssumption DEF Asked, Start, Forever
<1> HIDE DEF t
<1>t. Extends(Q, R, t) /\ \E r \in R : r.from <= t
  BY DEF t
<1>1. ASSUME NEW n \in Int, n <= t PROVE Symbols(Current(Q, n)) = Symbols(Current(R, n))
  <2>1. ASSUME NEW r \in R, NEW q \in Q, Continues(q, r, t)
        PROVE  r \in Current(R, n) <=> q \in Current(Q, n)
    BY <1>0, <1>1, <2>1, RowNumbers DEF Continues, Current
  <2>2. Symbols(Current(R, n)) \subseteq Symbols(Current(Q, n))
    <3> SUFFICES ASSUME NEW r \in Current(R, n) PROVE r.symbol \in Symbols(Current(Q, n))
      BY DEF Symbols
    <3>1. PICK q \in Q : Continues(q, r, t)
      BY <1>t DEF Extends, Current
    <3> QED
      BY <2>1, <3>1 DEF Symbols, Continues, Current
  <2>3. Symbols(Current(Q, n)) \subseteq Symbols(Current(R, n))
    <3> SUFFICES ASSUME NEW q \in Current(Q, n) PROVE q.symbol \in Symbols(Current(R, n))
      BY DEF Symbols
    <3>1. q \in Q /\ q.from <= n
      BY DEF Current
    <3>2. PICK r \in R : Continues(q, r, t)
      BY <1>0, <1>1, <1>t, <3>1, RowNumbers DEF Extends
    <3> QED
      BY <2>1, <3>1, <3>2 DEF Symbols, Continues
  <2> QED
    BY <2>2, <2>3
<1>2. {m \in Starts(Q) : m <= t} = {m \in Starts(R) : m <= t}
  <2>1. ASSUME NEW r \in R PROVE r.from \in Starts(Q)
    BY <1>t DEF Extends, Continues, Starts
  <2>2. ASSUME NEW q \in Q, q.from <= t PROVE q.from \in Starts(R)
    BY <1>0, <1>t, <2>2, RowNumbers DEF Extends, Continues, Starts
  <2> QED
    BY <2>1, <2>2 DEF Starts
<1>3. {m \in Starts(R) : m <= t} # {}
  BY <1>t DEF Starts
<1>4. Nearest(Q, t) = Nearest(R, t)
  BY <1>2, <1>3 DEF Nearest
<1>5. ASSUME NEW n \in Nearest(R, t) PROVE n \in Int /\ n <= t
  BY <1>3, <1>5, RowNumbers DEF Nearest, Starts
<1>6. UNION {Symbols(Current(Q, n)) : n \in Nearest(Q, t)} = UNION {Symbols(Current(R, n)) : n \in Nearest(R, t)}
  BY <1>1, <1>4, <1>5
<1>7. Symbols(Current(Q, t)) = Symbols(Current(R, t))
  BY <1>0, <1>1
<1> QED
  BY <1>6, <1>7 DEF constituents_as_of, t

\* A refresh of a later day closes and adds rows so.
LEMMA RefreshExtends ==
    ASSUME NEW R \in SUBSET Row, NEW S \in SUBSET Symbol, NEW T \in SUBSET Symbol,
           NEW d \in Asked, NEW e \in Day, d < e
    PROVE  Extends(Closed(R, S, Start(e)) \union New(T, e), R, Start(d))
<1>0. Start(d) < Start(e) /\ Start(d) \in Int /\ Start(e) \in Int
  BY UniversesAssumption DEF Start, Asked, Day
<1>1. ASSUME NEW r \in R
      PROVE  Continues(IF r.symbol \in S /\ r.to = Forever THEN [r EXCEPT !.to = Start(e)] ELSE r, r, Start(d))
  <2>1. r \in Row
    OBVIOUS
  <2> QED
    BY <1>0, <2>1 DEF Continues, Row
<1>2. ASSUME NEW q \in New(T, e) PROVE q.from > Start(d)
  BY <1>0 DEF New
<1> QED
  BY <1>1, <1>2 DEF Extends, Closed

\* And a replacement.
LEMMA ReplaceExtends ==
    ASSUME NEW R \in SUBSET Row, NEW O, \A r \in O : r.to = Forever, NEW T \in SUBSET Symbol,
           NEW d \in Asked, NEW e \in Day, d < e
    PROVE  Extends(ClosedBefore(R, O, e) \union New(T, e), R, Start(d))
<1>0. /\ Start(d) < Start(e) /\ Start(d) \in Int /\ Start(e) \in Int
      /\ Before(e) \in Int /\ Before(e) >= Start(d)
  BY UniversesAssumption DEF Start, Before, Asked, Day
<1>1. ASSUME NEW r \in R
      PROVE  Continues(IF r \in O THEN [r EXCEPT !.to = Before(e)] ELSE r, r, Start(d))
  <2>1. r \in Row
    OBVIOUS
  <2> QED
    BY <1>0, <2>1 DEF Continues, Row
<1>2. ASSUME NEW q \in New(T, e) PROVE q.from > Start(d)
  BY <1>0 DEF New
<1> QED
  BY <1>1, <1>2 DEF Extends, ClosedBefore

\* A step leaves an earlier answer alone, unless a change of that day or before
\* is committed or the universe is gone.
LEMMA StepKeeps ==
    ASSUME IInv, [Next]_vars, NEW u \in Universe, NEW d \in Asked,
           Exists(u), Exists(u)', \E r \in rows[u] : r.from <= Start(d)
    PROVE  \/ constituents_as_of(rows'[u], d) = constituents_as_of(rows[u], d)
           \/ \E a \in Actor : day[a] <= d /\ Commit(a, u)
<1> USE DEF IInv
<1>0. rows[u] \in SUBSET Row
  BY DEF TypeOK
<1>s. ASSUME rows'[u] = rows[u] PROVE constituents_as_of(rows'[u], d) = constituents_as_of(rows[u], d)
  BY <1>s
<1>1. CASE rows' = rows
  BY <1>1
<1>2. ASSUME NEW v \in Universe, delete_user_universe(v)
      PROVE  constituents_as_of(rows'[u], d) = constituents_as_of(rows[u], d)
  <2>1. u # v
    BY <1>2 DEF delete_user_universe, Exists, Deleted, NoRecord, TypeOK
  <2>2. rows'[u] = rows[u]
    BY <1>2, <2>1 DEF delete_user_universe, TypeOK
  <2> QED
    BY <2>2
<1>3. ASSUME NEW j \in Job, NEW v \in Universe, RefreshCommit(j, v), rows'[u] # rows[u], ~(day[j] <= d)
      PROVE  constituents_as_of(rows'[u], d) = constituents_as_of(rows[u], d)
  <2>1. u = v
    BY <1>3 DEF RefreshCommit, TypeOK
  <2>2. day[j] \in Day /\ d < day[j]
    BY <1>3, UniversesAssumption DEF RefreshCommit, IsNow, TypeOK, Day, Asked, Actor
  <2>3. Added(j) \in SUBSET Symbol /\ Removed(j) \in SUBSET Symbol
    BY DEF TypeOK, Added, Removed, Actor
  <2>4. rows'[u] = Closed(rows[u], Removed(j), Start(day[j])) \union New(Added(j), day[j])
    BY <1>3, <2>1 DEF RefreshCommit, TypeOK
  <2>5. rows'[u] \in SUBSET Row
    BY <1>0, <2>2, <2>3, <2>4, RefreshedRows
  <2>6. Extends(rows'[u], rows[u], Start(d))
    BY <1>0, <2>2, <2>3, <2>4, RefreshExtends
  <2> QED
    BY <1>0, <2>5, <2>6, AnswerKept
<1>4. ASSUME NEW c \in Client, NEW v \in Universe, ReplaceCommit(c, v), rows'[u] # rows[u], ~(day[c] <= d)
      PROVE  constituents_as_of(rows'[u], d) = constituents_as_of(rows[u], d)
  <2>1. u = v
    BY <1>4 DEF ReplaceCommit, TypeOK
  <2>2. day[c] \in Day /\ d < day[c]
    BY <1>4, UniversesAssumption DEF ReplaceCommit, IsNow, TypeOK, Day, Asked, Actor
  <2>3. target[c] \in SUBSET Symbol /\ open[c] \in SUBSET Row /\ \A r \in open[c] : r.to = Forever
    BY DEF TypeOK, OpenOK, Actor
  <2>4. rows'[u] = ClosedBefore(rows[u], open[c], day[c]) \union New(target[c], day[c])
    BY <1>4, <2>1 DEF ReplaceCommit, TypeOK
  <2>5. rows'[u] \in SUBSET Row
    BY <1>0, <2>2, <2>3, <2>4, ReplacedRows
  <2>6. Extends(rows'[u], rows[u], Start(d))
    BY <1>0, <2>2, <2>3, <2>4, ReplaceExtends
  <2> QED
    BY <1>0, <2>5, <2>6, AnswerKept
<1>5. ASSUME NEW j \in Job, JobStep(j)
      PROVE  rows' = rows \/ \E v \in Universe : RefreshCommit(j, v)
  BY <1>5 DEF JobStep, StartRefresh, Skip, FetchFails, Fetch
<1>6. ASSUME NEW c \in Client, ClientStep(c)
      PROVE  rows' = rows \/ \E v \in Universe : ReplaceCommit(c, v)
  BY <1>6 DEF ClientStep, create_user_universe, PutSymbols, ReplaceRead
<1>7. ASSUME NEW j \in Job, JobStep(j)
      PROVE  \/ constituents_as_of(rows'[u], d) = constituents_as_of(rows[u], d)
             \/ \E a \in Actor : day[a] <= d /\ Commit(a, u)
  <2>1. CASE rows'[u] = rows[u]
    BY <2>1
  <2>2. CASE rows'[u] # rows[u]
    <3>1. PICK v \in Universe : RefreshCommit(j, v)
      BY <1>5, <1>7, <2>2
    <3>2. v = u
      BY <2>2, <3>1 DEF RefreshCommit, TypeOK
    <3>3. CASE day[j] <= d
      BY <3>1, <3>2, <3>3 DEF Commit, Actor
    <3> QED
      BY <1>3, <2>2, <3>1, <3>3
  <2> QED
    BY <2>1, <2>2
<1>8. ASSUME NEW c \in Client, ClientStep(c)
      PROVE  \/ constituents_as_of(rows'[u], d) = constituents_as_of(rows[u], d)
             \/ \E a \in Actor : day[a] <= d /\ Commit(a, u)
  <2>1. CASE rows'[u] = rows[u]
    BY <2>1
  <2>2. CASE rows'[u] # rows[u]
    <3>1. PICK v \in Universe : ReplaceCommit(c, v)
      BY <1>6, <1>8, <2>2
    <3>2. v = u
      BY <2>2, <3>1 DEF ReplaceCommit, TypeOK
    <3>3. CASE day[c] <= d
      BY <3>1, <3>2, <3>3 DEF Commit, Actor
    <3> QED
      BY <1>4, <2>2, <3>1, <3>3
  <2> QED
    BY <2>1, <2>2
<1>9. CASE list_universes \/ sync_registry \/ \E v \in Universe : create_universe(v) \/ patch_universe(v)
  BY <1>1, <1>9 DEF list_universes, sync_registry, create_universe, patch_universe
<1>10. CASE \E a \in Actor : Crash(a)
  BY <1>1, <1>10 DEF Crash
<1>11. CASE UNCHANGED vars
  BY <1>1, <1>11 DEF vars
<1> QED
  BY <1>2, <1>7, <1>8, <1>9, <1>10, <1>11 DEF Next

\* No change, however it overlaps with others or was begun before them, alters
\* what a universe answers for a day before the change's own.
THEOREM EarlierDaysKept == Spec => EarlierDaysAreKept
<1>1. IInv /\ [Next]_vars =>
        [\A u \in Universe, d \in Asked :
           (Exists(u) /\ Exists(u)' /\ \E r \in rows[u] : r.from <= Start(d)) =>
               \/ constituents_as_of(rows'[u], d) = constituents_as_of(rows[u], d)
               \/ \E a \in Actor : day[a] <= d /\ Commit(a, u)]_vars
  BY StepKeeps
<1> QED
  BY <1>1, Invariance, PTL DEF Spec, EarlierDaysAreKept

-----------------------------------------------------------------------------
(* The newest change.                                                      *)

\* When what is closed was closed before the day and what is open began by it,
\* the answer is what is open.
LEMMA OpenIsAnswered ==
    ASSUME NEW R \in SUBSET Row, NEW d \in Asked, OpenRows(R) # {},
           \A r \in R : IF r.to = Forever THEN r.from <= Start(d) ELSE r.to < Start(d)
    PROVE  constituents_as_of(R, d) = Symbols(OpenRows(R))
<1>0. Start(d) \in Int /\ Start(d) < Forever
  BY UniversesAssumption DEF Asked, Start, Forever
<1>1. Current(R, Start(d)) = OpenRows(R)
  BY <1>0, RowNumbers DEF Current, OpenRows
<1> QED
  BY <1>1 DEF constituents_as_of, Symbols

\* What is open and began by the day is always among the answers.
LEMMA OpenIsAmong ==
    ASSUME NEW R \in SUBSET Row, NEW d \in Asked, \A r \in OpenRows(R) : r.from <= Start(d)
    PROVE  Symbols(OpenRows(R)) \subseteq constituents_as_of(R, d)
<1>0. Start(d) \in Int /\ Start(d) < Forever
  BY UniversesAssumption DEF Asked, Start, Forever
<1>1. OpenRows(R) \subseteq Current(R, Start(d))
  BY <1>0, RowNumbers DEF Current, OpenRows
<1> QED
  BY <1>1 DEF constituents_as_of, Symbols

\* Rows that follow a change of a day: the open ones began by it, the others
\* were closed by it.
Settled(Q, e) == \A q \in Q : IF q.to = Forever THEN q.from <= Start(e) ELSE q.to <= Start(e)

LEMMA SettledIsAnswered ==
    ASSUME NEW Q \in SUBSET Row, NEW e \in Day, Settled(Q, e), OpenRows(Q) # {}
    PROVE  /\ \A d \in (e + 1)..(MaxDay + 1) : constituents_as_of(Q, d) = Symbols(OpenRows(Q))
           /\ Symbols(OpenRows(Q)) \subseteq constituents_as_of(Q, e)
<1>1. ASSUME NEW d \in (e + 1)..(MaxDay + 1) PROVE constituents_as_of(Q, d) = Symbols(OpenRows(Q))
  <2>1. d \in Asked /\ Start(e) \in Int /\ Start(d) \in Int /\ Start(e) < Start(d)
    BY UniversesAssumption DEF Asked, Day, Start
  <2>2. \A q \in Q : IF q.to = Forever THEN q.from <= Start(d) ELSE q.to < Start(d)
    BY <2>1, RowNumbers DEF Settled
  <2> QED
    BY <2>1, <2>2, OpenIsAnswered
<1>2. e \in Asked /\ \A r \in OpenRows(Q) : r.from <= Start(e)
  BY UniversesAssumption DEF Asked, Day, Settled, OpenRows
<1> QED
  BY <1>1, <1>2, OpenIsAmong

\* The rows of new symbols.
LEMMA NewRows ==
    ASSUME NEW S, NEW d
    PROVE  /\ \A q \in New(S, d) : q.symbol \in S /\ q.from = Start(d) /\ q.to = Forever
           /\ \A s \in S : \E q \in New(S, d) : q.symbol = s
<1>1. ASSUME NEW s \in S PROVE \E q \in New(S, d) : q.symbol = s
  <2> DEFINE q == [symbol |-> s, from |-> Start(d), to |-> Forever]
  <2>1. q \in New(S, d) /\ q.symbol = s
    BY DEF New
  <2> QED
    BY <2>1
<1>2. ASSUME NEW q \in New(S, d) PROVE q.symbol \in S /\ q.from = Start(d) /\ q.to = Forever
  BY DEF New
<1> QED
  BY <1>1, <1>2

\* A refresh that read the open rows leaves its target open.
LEMMA RefreshSettles ==
    ASSUME NEW R \in SUBSET Row, NEW e \in Day, NEW T \in SUBSET Symbol, NEW S \in SUBSET Symbol,
           \A r \in R : r.from <= Start(e) /\ (r.to = Forever \/ r.to < Start(e)),
           S = Symbols(OpenRows(R))
    PROVE  /\ Settled(Closed(R, S \ T, Start(e)) \union New(T \ S, e), e)
           /\ Symbols(OpenRows(Closed(R, S \ T, Start(e)) \union New(T \ S, e))) = T
<1> DEFINE Q == Closed(R, S \ T, Start(e)) \union New(T \ S, e)
<1>0. Start(e) \in Int /\ Start(e) < Forever
  BY UniversesAssumption DEF Day, Start, Forever
<1> DEFINE C(r) == IF r.symbol \in S \ T /\ r.to = Forever THEN [r EXCEPT !.to = Start(e)] ELSE r
<1>1. ASSUME NEW r \in R
      PROVE  /\ C(r).symbol = r.symbol /\ C(r).from = r.from
             /\ C(r).to = Forever <=> r.to = Forever /\ r.symbol \in T
             /\ C(r).to = Forever \/ C(r).to <= Start(e)
  <2>1. r \in Row
    OBVIOUS
  <2>2. r.to = Forever => r.symbol \in S
    BY DEF Symbols, OpenRows
  <2> QED
    BY <1>0, <2>1, <2>2, RowNumbers DEF Row
<1>2. Closed(R, S \ T, Start(e)) = {C(r) : r \in R}
  BY DEF Closed
<1>3. ASSUME NEW q \in New(T \ S, e) PROVE q.symbol \in T \ S /\ q.from = Start(e) /\ q.to = Forever
  BY DEF New
<1> HIDE DEF C
<1>4. Settled(Q, e)
  BY <1>0, <1>1, <1>2, <1>3 DEF Settled
<1>5. ASSUME NEW q \in OpenRows(Q) PROVE q.symbol \in T
  <2>1. CASE q \in New(T \ S, e)
    BY <1>3, <2>1
  <2>2. CASE q \in Closed(R, S \ T, Start(e))
    <3>1. PICK r \in R : q = C(r)
      BY <1>2, <2>2
    <3>2. q.to = Forever
      BY DEF OpenRows
    <3> QED
      BY <1>1, <3>1, <3>2
  <2> QED
    BY <2>1, <2>2 DEF OpenRows
<1>6. ASSUME NEW s \in T PROVE s \in Symbols(OpenRows(Q))
  <2>1. CASE s \in S
    <3>1. PICK r \in R : r.to = Forever /\ r.symbol = s
      BY <2>1 DEF Symbols, OpenRows
    <3>2. C(r) \in Q /\ C(r).to = Forever /\ C(r).symbol = s
      BY <1>1, <1>2, <3>1
    <3> QED
      BY <3>2 DEF Symbols, OpenRows
  <2>2. CASE s \notin S
    <3>1. PICK q \in New(T \ S, e) : q.symbol = s
      BY <2>2, NewRows
    <3>2. q \in OpenRows(Q)
      BY <1>3 DEF OpenRows
    <3> QED
      BY <3>1, <3>2 DEF Symbols
  <2> QED
    BY <2>1, <2>2
<1>7. Symbols(OpenRows(Q)) = T
  BY <1>5, <1>6 DEF Symbols
<1> QED
  BY <1>4, <1>7

\* And so does a replacement that saw them all.
LEMMA ReplaceSettles ==
    ASSUME NEW R \in SUBSET Row, NEW e \in Day, NEW T \in SUBSET Symbol,
           \A r \in R : r.from <= Start(e) /\ (r.to = Forever \/ r.to < Start(e))
    PROVE  LET Q == ClosedBefore(R, OpenRows(R), e) \union New(T, e)
           IN  Settled(Q, e) /\ Symbols(OpenRows(Q)) = T
<1> DEFINE Q == ClosedBefore(R, OpenRows(R), e) \union New(T, e)
<1>0. Start(e) \in Int /\ Before(e) \in Int /\ Before(e) < Start(e) /\ Start(e) < Forever
  BY UniversesAssumption DEF Day, Start, Before, Forever
<1>1. ASSUME NEW q \in ClosedBefore(R, OpenRows(R), e) PROVE q.to # Forever /\ q.to <= Start(e)
  BY <1>0, RowNumbers DEF ClosedBefore, OpenRows, Row
<1>2. ASSUME NEW q \in New(T, e) PROVE q.symbol \in T /\ q.from = Start(e) /\ q.to = Forever
  BY DEF New
<1>3. Settled(Q, e)
  BY <1>0, <1>1, <1>2 DEF Settled
<1>4. OpenRows(Q) = New(T, e)
  BY <1>1, <1>2 DEF OpenRows
<1>5. Symbols(New(T, e)) = T
  BY NewRows DEF Symbols
<1> QED
  BY <1>3, <1>4, <1>5

\* The step of a change that is the newest and was not overtaken.
LEMMA NewestAnswered ==
    ASSUME IInv, NEW a \in Actor, NEW u \in Universe, Commit(a, u),
           UpToDate(a, u), IsNewest(u, day[a]),
           (a \in Job /\ rows[u] # {}) => OpenRows(rows[u]) # {},
           target[a] # {}
    PROVE  /\ \A d \in (day[a] + 1)..(MaxDay + 1) : constituents_as_of(rows'[u], d) = target[a]
           /\ target[a] \subseteq constituents_as_of(rows'[u], day[a])
<1> USE DEF IInv
<1>0. rows[u] \in SUBSET Row /\ target[a] \in SUBSET Symbol /\ seen[a] \in SUBSET Symbol
  BY DEF TypeOK
<1>1. day[a] \in Day
  BY DEF Commit, RefreshCommit, ReplaceCommit, IsNow, TypeOK
<1>2. \A r \in rows[u] : r.from <= Start(day[a]) /\ (r.to = Forever \/ r.to < Start(day[a]))
  BY DEF IsNewest
<1>3. rows'[u] \in SUBSET Row /\ Settled(rows'[u], day[a]) /\ Symbols(OpenRows(rows'[u])) = target[a]
  <2>1. CASE a \in Job
    <3>1. RefreshCommit(a, u)
      BY <2>1, UniversesAssumption DEF Commit
    <3>2. seen[a] = Symbols(OpenRows(rows[u]))
      <4>1. seen[a] = constituents_as_of(rows[u], day[a])
        BY <2>1 DEF UpToDate
      <4>2. CASE rows[u] = {}
        BY <4>1, <4>2 DEF constituents_as_of, Symbols, OpenRows, Current, Nearest, Starts
      <4>3. CASE rows[u] # {}
        <5>1. day[a] \in Asked
          BY <1>1, UniversesAssumption DEF Day, Asked
        <5>2. OpenRows(rows[u]) # {}
          BY <2>1, <4>3
        <5> QED
          BY <1>0, <1>2, <4>1, <5>1, <5>2, OpenIsAnswered
      <4> QED
        BY <4>2, <4>3
    <3>3. rows'[u] = Closed(rows[u], seen[a] \ target[a], Start(day[a])) \union New(target[a] \ seen[a], day[a])
      BY <3>1 DEF RefreshCommit, TypeOK, Added, Removed
    <3>4. rows'[u] \in SUBSET Row
      BY <1>0, <1>1, <3>3, RefreshedRows
    <3>5. Settled(rows'[u], day[a]) /\ Symbols(OpenRows(rows'[u])) = target[a]
      <4> DEFINE R == rows[u]
                 S == seen[a]
                 T == target[a]
                 e == day[a]
      <4>1. /\ R \in SUBSET Row /\ T \in SUBSET Symbol /\ S \in SUBSET Symbol /\ e \in Day
            /\ \A r \in R : r.from <= Start(e) /\ (r.to = Forever \/ r.to < Start(e))
            /\ S = Symbols(OpenRows(R))
            /\ rows'[u] = Closed(R, S \ T, Start(e)) \union New(T \ S, e)
        BY <1>0, <1>1, <1>2, <3>2, <3>3
      <4> HIDE DEF R, S, T, e
      <4>2. /\ Settled(Closed(R, S \ T, Start(e)) \union New(T \ S, e), e)
            /\ Symbols(OpenRows(Closed(R, S \ T, Start(e)) \union New(T \ S, e))) = T
        BY <4>1, RefreshSettles
      <4> QED
        BY <4>1, <4>2 DEF T, e
    <3> QED
      BY <3>4, <3>5
  <2>2. CASE a \notin Job
    <3>1. ReplaceCommit(a, u) /\ open[a] = OpenRows(rows[u])
      BY <2>2 DEF Commit, UpToDate
    <3>2. rows'[u] = ClosedBefore(rows[u], OpenRows(rows[u]), day[a]) \union New(target[a], day[a])
      BY <3>1 DEF ReplaceCommit, TypeOK
    <3>3. rows'[u] \in SUBSET Row
      <4>1. OpenRows(rows[u]) \in SUBSET Row
        BY <1>0 DEF OpenRows
      <4> QED
        BY <1>0, <1>1, <3>2, <4>1, ReplacedRows
    <3> QED
      BY <1>0, <1>1, <1>2, <3>2, <3>3, ReplaceSettles
  <2> QED
    BY <2>1, <2>2
<1>4. OpenRows(rows'[u]) # {}
  BY <1>3 DEF Symbols
<1> QED
  BY <1>1, <1>3, <1>4, SettledIsAnswered

\* The newest change of a universe, if nothing was changed since it read, is
\* what the universe answers from the next day on.
THEOREM ChangeAnswered == Spec => ChangeIsAnswered
<1>1. IInv /\ [Next]_vars =>
        [\A a \in Actor, u \in Universe :
           (/\ Commit(a, u)
            /\ Exists(u) /\ UpToDate(a, u) /\ IsNewest(u, day[a])
            /\ (a \in Job /\ rows[u] # {}) => OpenRows(rows[u]) # {}
            /\ target[a] # {}) =>
                /\ \A d \in (day[a] + 1)..(MaxDay + 1) : constituents_as_of(rows'[u], d) = target[a]
                /\ target[a] \subseteq constituents_as_of(rows'[u], day[a])]_vars
  BY NewestAnswered
<1> QED
  BY <1>1, Invariance, PTL DEF Spec, ChangeIsAnswered
=============================================================================
