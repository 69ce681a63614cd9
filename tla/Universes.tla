----------------------------- MODULE Universes -----------------------------
(***************************************************************************)
(* Symbol universes (universes/service.py): sets of symbols that change by *)
(* the day, kept as intervals of membership.  Refresh workflows read a     *)
(* universe's constituents from its provider and write the difference      *)
(* (kalyxctl universes refresh, cli.py); requests of the API replace the   *)
(* symbols of a user's universe.  All of them read before they write, and  *)
(* nothing keeps two of them apart.                                        *)
(*                                                                         *)
(* Rows that agree on symbol and interval are one row here: every query    *)
(* and update treats them alike.  Universes of the provider "static" are   *)
(* left out: they answer with their provider_ref and never get a row.      *)
(***************************************************************************)
EXTENDS Integers

CONSTANTS
    Listed,     \* the keys of UNIVERSE_REGISTRY
    Custom,     \* keys that only POST /universes creates
    User,       \* the keys of users' universes
    Rank,       \* the keys' places as they sort
    Symbol,
    Job,        \* refresh workflows
    Client,     \* requests that edit a user's universe
    MaxDay,     \* the last day that anything is dated
    MaxChanges, \* refresh commands and edits begun
    MaxPatches  \* PATCH requests

Universe == Listed \union Custom \union User
Actor == Job \union Client
Day == 1..MaxDay

ASSUME UniversesAssumption ==
    /\ Listed \cap Custom = {} /\ User \cap (Listed \union Custom) = {}
    /\ Job \cap Client = {}
    /\ Rank \in [Universe -> Nat]
    /\ \A u, v \in Universe : Rank[u] = Rank[v] => u = v
    /\ MaxDay \in Nat /\ MaxChanges \in Nat /\ MaxPatches \in Nat

VARIABLES
    record,  \* the rows of symbol_universes
    rows,    \* the rows of symbol_universe_constituents, by universe
    stage,   \* where a workflow or a request stands
    todo,    \* the universes it still has to change
    day,     \* its as_of or effective_on
    target,  \* the symbols it was given
    seen,    \* the constituents a refresh read
    open,    \* the open rows that a replacement will close
    changes, patches

actorVars == <<stage, todo, day, target, seen, open>>
vars == <<record, rows, actorVars, changes, patches>>

-----------------------------------------------------------------------------
(* Days and intervals.                                                     *)

\* Midnight of a day, and the microsecond before it.
Start(d) == 2 * d
Before(d) == 2 * d - 1

\* effective_to is null.
Forever == 2 * MaxDay + 10

Ends == {Start(d) : d \in Day} \union {Before(d) : d \in Day} \union {Forever}
Row == [symbol : Symbol, from : {Start(d) : d \in Day}, to : Ends]

Symbols(R) == {r.symbol : r \in R}
Current(R, t) == {r \in R : r.from <= t /\ t <= r.to}
OpenRows(R) == {r \in R : r.to = Forever}
Starts(R) == {r.from : r \in R}

\* The start of the nearest snapshot: the last that began by then, or the first
\* of all.
Nearest(R, t) ==
    LET past == {m \in Starts(R) : m <= t}
    IN  IF past # {} THEN {n \in past : \A m \in past : m <= n}
                     ELSE {n \in Starts(R) : \A m \in Starts(R) : n <= m}

\* The members on a day; without any, those of the nearest snapshot.
constituents_as_of(R, d) ==
    LET held == Symbols(Current(R, Start(d)))
    IN  IF held # {} THEN held
        ELSE UNION {Symbols(Current(R, n)) : n \in Nearest(R, Start(d))}

-----------------------------------------------------------------------------
(* Records.                                                                *)

NoRecord == [state |-> "none", active |-> FALSE, provided |-> FALSE]
Deleted == [NoRecord EXCEPT !.state = "deleted"]
Record == [state : {"none", "present", "deleted"}, active : BOOLEAN, provided : BOOLEAN]
Present(active, provided) == [state |-> "present", active |-> active, provided |-> provided]

Exists(u) == record[u].state = "present"

\* Every list creates the listed universes that are missing, and so does a look
\* at one of them.
Seeded ==
    [u \in Universe |-> IF u \in Listed /\ ~Exists(u) THEN Present(TRUE, TRUE) ELSE record[u]]

get_universe(u) == IF u \in Listed /\ ~Exists(u) THEN Seeded ELSE record

Init ==
    /\ record = [u \in Universe |-> NoRecord]
    /\ rows = [u \in Universe |-> {}]
    /\ stage = [a \in Actor |-> "next"]
    /\ todo = [a \in Actor |-> {}]
    /\ day = [a \in Actor |-> 0]
    /\ target = [a \in Actor |-> {}]
    /\ seen = [a \in Actor |-> {}]
    /\ open = [a \in Actor |-> {}]
    /\ changes = 0
    /\ patches = 0

list_universes ==
    /\ record' = Seeded
    /\ UNCHANGED <<rows, actorVars, changes, patches>>

\* The listed universes are created or made active, other registry universes
\* made inactive; users' universes are left alone.
sync_registry ==
    /\ record' = [u \in Universe |->
                     IF u \in Listed THEN Present(TRUE, TRUE)
                     ELSE IF u \in Custom THEN [record[u] EXCEPT !.active = FALSE]
                     ELSE record[u]]
    /\ UNCHANGED <<rows, actorVars, changes, patches>>

\* A key is unique; its provider may be one that does not exist.  The request
\* answers from the list of all universes, as does PATCH.
create_universe(u) ==
    /\ u \in Listed \union Custom
    /\ ~Exists(u)
    /\ \E a, p \in BOOLEAN : record' = [Seeded EXCEPT ![u] = Present(a, p)]
    /\ UNCHANGED <<rows, actorVars, changes, patches>>

\* PATCH changes a universe of any kind, a user's provider included.
patch_universe(u) ==
    /\ patches < MaxPatches
    /\ get_universe(u)[u].state = "present"
    /\ \E a, p \in BOOLEAN : record' = [Seeded EXCEPT ![u] = Present(a, p)]
    /\ patches' = patches + 1
    /\ UNCHANGED <<rows, actorVars, changes>>

delete_user_universe(u) ==
    /\ u \in User
    /\ Exists(u)
    /\ record' = [record EXCEPT ![u] = Deleted]
    /\ rows' = [rows EXCEPT ![u] = {}]
    /\ UNCHANGED <<actorVars, changes, patches>>

-----------------------------------------------------------------------------
(* Refresh workflows.                                                      *)

Idle(a) == stage[a] = "next" /\ todo[a] = {}

\* The universe at hand: the first by its key.
IsNow(a, u) == u \in todo[a] /\ \A v \in todo[a] : Rank[u] <= Rank[v]

\* The actor goes on with the universes U; what it read is forgotten.
GoesOn(a, U) ==
    /\ stage' = [stage EXCEPT ![a] = "next"]
    /\ todo' = [todo EXCEPT ![a] = U]
    /\ day' = [day EXCEPT ![a] = IF U = {} THEN 0 ELSE @]
    /\ target' = [target EXCEPT ![a] = {}]
    /\ seen' = [seen EXCEPT ![a] = {}]
    /\ open' = [open EXCEPT ![a] = {}]

Refreshable(u) == get_universe(u)[u].state = "present" /\ get_universe(u)[u].active

\* The command starts, for one universe or for all that are active.
StartRefresh(j) ==
    /\ Idle(j)
    /\ changes < MaxChanges
    /\ \E d \in Day : day' = [day EXCEPT ![j] = d]
    /\ \/ /\ \E u \in Universe : todo' = [todo EXCEPT ![j] = {u}]
          /\ UNCHANGED record
       \/ /\ record' = Seeded
          /\ todo' = [todo EXCEPT ![j] = {u \in Universe : Refreshable(u)}]
    /\ changes' = changes + 1
    /\ UNCHANGED <<rows, stage, target, seen, open, patches>>

\* A universe that is gone or inactive is passed over.
Skip(j, u) ==
    /\ stage[j] = "next" /\ IsNow(j, u)
    /\ ~Refreshable(u)
    /\ record' = get_universe(u)
    /\ GoesOn(j, todo[j] \ {u})
    /\ UNCHANGED <<rows, changes, patches>>

\* The provider does not answer, or there is none: the command ends, with the
\* universes after this one.
FetchFails(j, u) ==
    /\ stage[j] = "next" /\ IsNow(j, u)
    /\ Refreshable(u)
    /\ record' = get_universe(u)
    /\ GoesOn(j, {})
    /\ UNCHANGED <<rows, changes, patches>>

\* The provider's constituents, never none, and then the universe's own.
Fetch(j, u) ==
    /\ stage[j] = "next" /\ IsNow(j, u)
    /\ Refreshable(u) /\ get_universe(u)[u].provided
    /\ record' = get_universe(u)
    /\ \E S \in SUBSET Symbol \ {{}} : target' = [target EXCEPT ![j] = S]
    /\ seen' = [seen EXCEPT ![j] = constituents_as_of(rows[u], day[j])]
    /\ stage' = [stage EXCEPT ![j] = "commit"]
    /\ UNCHANGED <<rows, todo, day, open, changes, patches>>

Added(j) == target[j] \ seen[j]
Removed(j) == seen[j] \ target[j]

\* Mutant: closes a symbol's earlier intervals too.
ClosedAgain(R, S, t) == {IF r.symbol \in S THEN [r EXCEPT !.to = t] ELSE r : r \in R}

\* The open rows of some symbols are closed.
Closed(R, S, t) == {IF r.symbol \in S /\ r.to = Forever THEN [r EXCEPT !.to = t] ELSE r : r \in R}

New(S, d) == {[symbol |-> s, from |-> Start(d), to |-> Forever] : s \in S}

\* Mutant: what left the universe stays open.
RefreshCommitAddsOnly(j, u) ==
    /\ stage[j] = "commit" /\ IsNow(j, u)
    /\ Exists(u) \/ Added(j) = {}
    /\ rows' = [rows EXCEPT ![u] = @ \union New(Added(j), day[j])]
    /\ GoesOn(j, todo[j] \ {u})
    /\ UNCHANGED <<record, changes, patches>>

\* refresh_universe_in_db writes the difference; a row without its universe is
\* refused.
RefreshCommit(j, u) ==
    /\ stage[j] = "commit" /\ IsNow(j, u)
    /\ Exists(u) \/ Added(j) = {}
    /\ rows' = [rows EXCEPT ![u] = Closed(@, Removed(j), Start(day[j])) \union New(Added(j), day[j])]
    /\ GoesOn(j, todo[j] \ {u})
    /\ UNCHANGED <<record, changes, patches>>

-----------------------------------------------------------------------------
(* Requests on users' universes.                                           *)

\* The record is committed before its symbols; the request's last step is
\* list_universes.
create_user_universe(c, u) ==
    /\ Idle(c)
    /\ changes < MaxChanges
    /\ u \in User /\ record[u] = NoRecord
    /\ \E a \in BOOLEAN : record' = [record EXCEPT ![u] = Present(a, FALSE)]
    /\ \E d \in Day : day' = [day EXCEPT ![c] = d]
    /\ \E S \in SUBSET Symbol : target' = [target EXCEPT ![c] = S]
    /\ todo' = [todo EXCEPT ![c] = {u}]
    /\ changes' = changes + 1
    /\ UNCHANGED <<rows, stage, seen, open, patches>>

\* PUT of a universe's symbols from a day on.
PutSymbols(c, u) ==
    /\ Idle(c)
    /\ changes < MaxChanges
    /\ u \in User /\ Exists(u)
    /\ \E d \in Day : day' = [day EXCEPT ![c] = d]
    /\ \E S \in SUBSET Symbol : target' = [target EXCEPT ![c] = S]
    /\ todo' = [todo EXCEPT ![c] = {u}]
    /\ changes' = changes + 1
    /\ UNCHANGED <<record, rows, stage, seen, open, patches>>

\* replace_user_universe_symbols: its updates see the rows open by now.
ReplaceRead(c, u) ==
    /\ stage[c] = "next" /\ IsNow(c, u)
    /\ open' = [open EXCEPT ![c] = OpenRows(rows[u])]
    /\ stage' = [stage EXCEPT ![c] = "commit"]
    /\ UNCHANGED <<record, rows, todo, day, target, seen, changes, patches>>

\* Rows seen open are closed the microsecond before a day.
ClosedBefore(R, O, d) == {IF r \in O THEN [r EXCEPT !.to = Before(d)] ELSE r : r \in R}

\* Its transaction: what it saw and is open still is closed, and all the symbols
\* start anew.
ReplaceCommit(c, u) ==
    /\ stage[c] = "commit" /\ IsNow(c, u)
    /\ Exists(u) \/ target[c] = {}
    /\ rows' = [rows EXCEPT ![u] = ClosedBefore(@, open[c], day[c]) \union New(target[c], day[c])]
    /\ GoesOn(c, {})
    /\ UNCHANGED <<record, changes, patches>>

\* A workflow's pod or the API dies, or the database refuses the commit: the
\* run stays "running", the request is not made again.
Crash(a) ==
    /\ ~Idle(a)
    /\ GoesOn(a, {})
    /\ UNCHANGED <<record, rows, changes, patches>>

JobStep(j) ==
    \/ StartRefresh(j)
    \/ \E u \in Universe : Skip(j, u) \/ FetchFails(j, u) \/ Fetch(j, u) \/ RefreshCommit(j, u)

ClientStep(c) ==
    \/ \E u \in User : create_user_universe(c, u) \/ PutSymbols(c, u)
    \/ \E u \in Universe : ReplaceRead(c, u) \/ ReplaceCommit(c, u)

Next ==
    \/ list_universes \/ sync_registry
    \/ \E u \in Universe : create_universe(u) \/ patch_universe(u) \/ delete_user_universe(u)
    \/ \E j \in Job : JobStep(j)
    \/ \E c \in Client : ClientStep(c)
    \/ \E a \in Actor : Crash(a)

Spec == Init /\ [][Next]_vars

-----------------------------------------------------------------------------
(* Properties.                                                             *)

\* Every variable keeps its type, and who still has a universe to change has a
\* day to date the change.
TypeOK ==
    /\ record \in [Universe -> Record]
    /\ rows \in [Universe -> SUBSET Row]
    /\ stage \in [Actor -> {"next", "commit"}]
    /\ todo \in [Actor -> SUBSET Universe]
    /\ day \in [Actor -> {0} \union Day]
    /\ \A a \in Actor : todo[a] # {} => day[a] \in Day
    /\ target \in [Actor -> SUBSET Symbol]
    /\ seen \in [Actor -> SUBSET Symbol]
    /\ open \in [Actor -> SUBSET Row]

\* A day after the last change is asked about as well.
Asked == 1..(MaxDay + 1)

Commit(a, u) == (a \in Job /\ RefreshCommit(a, u)) \/ (a \in Client /\ ReplaceCommit(a, u))

\* A change of a universe leaves the answers for the days before its own as
\* they were, from the first snapshot on: whatever a refresh or a replacement
\* dated d does, however it overlaps with others, backtests over earlier days
\* keep their symbols.
EarlierDaysAreKept ==
    [][\A u \in Universe, d \in Asked :
           (Exists(u) /\ Exists(u)' /\ \E r \in rows[u] : r.from <= Start(d)) =>
               \/ constituents_as_of(rows'[u], d) = constituents_as_of(rows[u], d)
               \/ \E a \in Actor : day[a] <= d /\ Commit(a, u)]_vars

\* No interval begins after the day or was closed on it or later.
IsNewest(u, d) ==
    \A r \in rows[u] : r.from <= Start(d) /\ (r.to = Forever \/ r.to < Start(d))

\* What the change read is still so: nobody changed the universe meanwhile.
UpToDate(a, u) ==
    IF a \in Job THEN seen[a] = constituents_as_of(rows[u], day[a])
                 ELSE open[a] = OpenRows(rows[u])

\* A change that is the newest and was not overtaken is what the universe
\* answers from the next day on, and its symbols are among the answers of its
\* own day, whatever overlapping changes did to the intervals before - unless
\* they closed them all, when a refresh compares with the last snapshot and
\* opens nothing that was in it.
ChangeIsAnswered ==
    [][\A a \in Actor, u \in Universe :
           (/\ Commit(a, u)
            /\ Exists(u) /\ UpToDate(a, u) /\ IsNewest(u, day[a])
            /\ (a \in Job /\ rows[u] # {}) => OpenRows(rows[u]) # {}
            /\ target[a] # {}) =>
                /\ \A d \in (day[a] + 1)..(MaxDay + 1) : constituents_as_of(rows'[u], d) = target[a]
                /\ target[a] \subseteq constituents_as_of(rows'[u], day[a])]_vars
=============================================================================
