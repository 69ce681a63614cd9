--------------------------- MODULE AlpacaExecutor ---------------------------
(***************************************************************************)
(* kalyxctl alpaca-run (src/app/live/executor.py): each invocation loads   *)
(* the run's snapshot file, reads the open orders, decides on the latest   *)
(* complete bar, submits at most one market order and saves the snapshot.  *)
(* Invocations follow one another; any of them may die, or lose the answer *)
(* of a submission, at any point.  The broker keeps the orders and the     *)
(* position, and takes a client order id once.                             *)
(***************************************************************************)
EXTENDS Integers

CONSTANTS
    MaxBar,     \* bound: bars 1..MaxBar
    Stake,      \* the trigger's order size
    MaxHold,    \* the max_hold_bars exit rule
    Corrupt     \* a snapshot file whose writing was cut short

Bar == 0..MaxBar    \* 0: no bar
OrderId == [action : {"buy", "close", "trim"}, bar : 1..MaxBar]
Position == [size : Int, entry : Bar]    \* entry 0: entry_time is None
Snapshot == [last : Bar, position : Position]
Flat == [size |-> 0, entry |-> 0]

ASSUME AlpacaExecutorAssumption ==
    /\ MaxBar \in Nat
    /\ Stake \in Nat \ {0}
    /\ MaxHold \in Nat \ {0}
    /\ Corrupt \notin Snapshot

VARIABLES
    \* market data
    bar,          \* the newest bar
    partial,      \* it is in progress
    \* the broker
    remaining,    \* [OrderId -> Nat], what is left to fill
    used,         \* client order ids taken
    held,         \* the position
    \* the state directory
    file,         \* Snapshot \cup {Corrupt}
    \* the running invocation
    stage,
    snapshot,
    seen,         \* seen_client_order_ids
    latest,       \* the bar it works on
    action,       \* the decision
    \* history
    decided,      \* [Bar -> [flat, open -> action]], the core's decisions
    since,        \* the bar at which the broker's position was opened, or 0
    unsettled,    \* a bar began over an open order or a working invocation
    resent        \* ids submitted while their order was open

market == <<bar, partial>>
broker == <<remaining, used, held>>
local  == <<snapshot, seen, latest, action>>
hist   == <<decided, since, unsettled, resent>>
vars   == <<market, broker, file, stage, local, hist>>

Action == {"none", "hold", "buy", "close", "trim"}
Stage == {"off", "listed", "ready", "fetched", "synced", "submit", "save", "writing"}
Open == {o \in OrderId : remaining[o] > 0}

TypeOK ==
    /\ bar \in Bar
    /\ partial \in BOOLEAN
    /\ remaining \in [OrderId -> Nat]
    /\ used \subseteq OrderId
    /\ Open \subseteq used
    /\ held \in Int
    /\ file \in Snapshot \cup {Corrupt}
    /\ stage \in Stage
    /\ snapshot \in Snapshot
    /\ seen \subseteq OrderId
    /\ latest \in Bar
    /\ action \in Action
    /\ decided \in [Bar -> [{"flat", "open"} -> Action]]
    /\ since \in Bar
    /\ unsettled \in BOOLEAN
    /\ resent \subseteq OrderId

Idle ==
    /\ stage' = "off"
    /\ snapshot' = [last |-> 0, position |-> Flat]
    /\ seen' = {}
    /\ latest' = 0
    /\ action' = "none"

Init ==
    /\ bar = 0
    /\ partial = FALSE
    /\ remaining = [o \in OrderId |-> 0]
    /\ used = {}
    /\ held = 0
    /\ file = [last |-> 0, position |-> Flat]
    /\ stage = "off"
    /\ snapshot = [last |-> 0, position |-> Flat]
    /\ seen = {}
    /\ latest = 0
    /\ action = "none"
    /\ decided = [b \in Bar |-> [x \in {"flat", "open"} |-> "none"]]
    /\ since = 0
    /\ unsettled = FALSE
    /\ resent = {}

-----------------------------------------------------------------------------
(* The invocation.                                                         *)

\* Mutant: orders of earlier invocations are not looked up.
StartUnaware ==
    /\ stage = "off"
    /\ file # Corrupt
    /\ snapshot' = file
    /\ stage' = "listed"
    /\ UNCHANGED <<market, broker, file, seen, latest, action, hist>>

\* __init__: the snapshot and the open orders.  A corrupt file raises.
Start ==
    /\ stage = "off"
    /\ file # Corrupt
    /\ snapshot' = file
    /\ seen' = Open
    /\ stage' = "listed"
    /\ UNCHANGED <<market, broker, file, latest, action, hist>>

\* _sync_position_from_broker: size from the broker, entry from the snapshot.
Synced ==
    IF held = 0 THEN Flat ELSE [size |-> held, entry |-> snapshot.position.entry]

Sync ==
    /\ stage \in {"listed", "fetched"}
    /\ snapshot' = [snapshot EXCEPT !.position = Synced]
    /\ stage' = IF stage = "listed" THEN "ready" ELSE "synced"
    /\ UNCHANGED <<market, broker, file, seen, latest, action, hist>>

\* The newest bar is missing, in progress or processed: nothing to do.
NothingNew == bar = 0 \/ partial \/ snapshot.last = bar

FetchNothing ==
    /\ stage = "ready"
    /\ NothingNew
    /\ Idle
    /\ UNCHANGED <<market, broker, file, hist>>

Fetch ==
    /\ stage = "ready"
    /\ ~NothingNew
    /\ latest' = bar
    /\ stage' = "fetched"
    /\ UNCHANGED <<market, broker, file, snapshot, seen, action, hist>>

\* _position_for_history and _bars_held: without an entry nothing is held.
BarsHeld == IF snapshot.position.entry = 0 THEN 0 ELSE latest - snapshot.position.entry

\* ComposableStrategyCore.on_bar: a flat position asks the trigger, an open
\* one the exit rules, max_hold_bars first.
Choices(state) ==
    IF state = "flat" THEN {"hold", "buy"}
    ELSE IF BarsHeld >= MaxHold THEN {"close"}
    ELSE {"hold", "close", "trim"}

\* The core is deterministic, and an invocation that failed saved none of its
\* state: the bar decided again on a like position gets a like decision.
Decide ==
    /\ stage = "synced"
    /\ LET state == IF snapshot.position.size = 0 THEN "flat" ELSE "open"
           known == decided[latest][state] IN
       \E a \in IF known = "none" THEN Choices(state) ELSE {known} :
           /\ action' = a
           /\ decided' = [decided EXCEPT ![latest][state] = a]
           /\ stage' = IF a # "hold" /\ [action |-> a, bar |-> latest] \notin seen
                       THEN "submit" ELSE "save"
    /\ UNCHANGED <<market, broker, file, snapshot, seen, latest, since, unsettled, resent>>

Order == [action |-> action, bar |-> latest]

\* Mutant: a trim sells the stake whatever the position.
QuantitiesOfStake == IF action = "close" THEN {snapshot.position.size} ELSE {Stake}

\* A close sells abs(size), a trim some part of it.
Quantities ==
    LET size == IF snapshot.position.size < 0 THEN -snapshot.position.size
                ELSE snapshot.position.size IN
    CASE action = "buy" -> {Stake}
      [] action = "close" -> {size}
      [] action = "trim" -> 1..size

Note == resent' = IF Order \in Open THEN resent \cup {Order} ELSE resent

\* The order is taken and the answer arrives.
SubmitAccepted ==
    /\ stage = "submit"
    /\ Order \notin used
    /\ used' = used \cup {Order}
    /\ \E q \in Quantities : remaining' = [remaining EXCEPT ![Order] = q]
    /\ seen' = seen \cup {Order}
    /\ stage' = "save"
    /\ Note
    /\ UNCHANGED <<market, held, file, snapshot, latest, action, decided, since, unsettled>>

\* Answered with status rejected, canceled or expired: an event, no retry.
SubmitRejected ==
    /\ stage = "submit"
    /\ Order \notin used
    /\ used' = used \cup {Order}
    /\ stage' = "save"
    /\ Note
    /\ UNCHANGED <<market, remaining, held, file, local, decided, since, unsettled>>

\* The order is taken, but the answer is lost: the invocation ends in error.
SubmitUnanswered ==
    /\ stage = "submit"
    /\ Order \notin used
    /\ used' = used \cup {Order}
    /\ \E q \in Quantities : remaining' = [remaining EXCEPT ![Order] = q]
    /\ Idle
    /\ Note
    /\ UNCHANGED <<market, held, file, decided, since, unsettled>>

\* The request fails, or its id is taken: the invocation ends in error.
SubmitFails ==
    /\ stage = "submit"
    /\ Idle
    /\ Note
    /\ UNCHANGED <<market, broker, file, decided, since, unsettled>>

\* _save_snapshot: write_text truncates the file first.
BeginSave ==
    /\ stage = "save"
    /\ file' = Corrupt
    /\ stage' = "writing"
    /\ UNCHANGED <<market, broker, local, hist>>

EndSave ==
    /\ stage = "writing"
    /\ file' = [snapshot EXCEPT !.last = latest]
    /\ Idle
    /\ UNCHANGED <<market, broker, hist>>

\* The process dies, or a read of the broker or of the bars fails.
Crash ==
    /\ stage # "off"
    /\ Idle
    /\ UNCHANGED <<market, broker, file, hist>>

-----------------------------------------------------------------------------
(* The market and the broker.                                              *)

NewBar ==
    /\ ~partial
    /\ bar < MaxBar
    /\ bar' = bar + 1
    /\ partial' = TRUE
    /\ unsettled' = (unsettled \/ Open # {} \/ latest # 0)
    /\ UNCHANGED <<broker, file, stage, local, decided, since, resent>>

CompleteBar ==
    /\ partial
    /\ partial' = FALSE
    /\ UNCHANGED <<bar, broker, file, stage, local, hist>>

\* Orders fill piece by piece.
Fill(o) ==
    /\ o \in Open
    /\ remaining' = [remaining EXCEPT ![o] = @ - 1]
    /\ held' = IF o.action = "buy" THEN held + 1 ELSE held - 1
    /\ since' = IF held' = 0 THEN 0 ELSE IF held = 0 THEN bar ELSE since
    /\ UNCHANGED <<market, used, file, stage, local, decided, unsettled, resent>>

\* What is left of an order is canceled or expires.
Cancel(o) ==
    /\ o \in Open
    /\ remaining' = [remaining EXCEPT ![o] = 0]
    /\ UNCHANGED <<market, used, held, file, stage, local, hist>>

Next ==
    \/ Start \/ Sync \/ FetchNothing \/ Fetch \/ Decide
    \/ SubmitAccepted \/ SubmitRejected \/ SubmitUnanswered \/ SubmitFails
    \/ BeginSave \/ EndSave \/ Crash
    \/ NewBar \/ CompleteBar
    \/ \E o \in OrderId : Fill(o) \/ Cancel(o)

Spec == Init /\ [][Next]_vars

-----------------------------------------------------------------------------
(* Properties.                                                             *)

\* As long as each bar's invocation and order are over before the next bar,
\* the position stays between flat and one stake: lost answers, crashes before the snapshot is
\* saved and partial fills never make a second entry or oversell.
ExposureIsBounded == unsettled \/ held \in 0..Stake

\* An order still open at the broker is never submitted again, whichever
\* invocation sent it.
OpenOrderIsNotResent == resent = {}

\* Refuted (AlpacaExecutorHold): exit_rules.py:93 gives max_hold_bars as the
\* "maximum bars to hold before forcing an exit".  So an open position that
\* the broker has held for that many bars is closed.
MaxHoldForcesExit ==
    (stage = "submit" \/ stage = "save") /\ snapshot.position.size # 0 /\ since > 0
        /\ latest - since >= MaxHold
        => action = "close"
=============================================================================
