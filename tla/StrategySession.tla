-------------------------- MODULE StrategySession --------------------------
(***************************************************************************)
(* One strategy (the vwap_pullback trigger with the vwap_pullback_manage   *)
(* exit) run by the repository's three engines over the same bars:         *)
(*   - the event-driven one: backtesting.py's broker, the portable adapter *)
(*     and the composable core (strategies/implementations.py,             *)
(*     components.py);                                                     *)
(*   - the masks: the vectorised trigger and the exit rule's build_masks   *)
(*     (triggers.py, exit_rules.py);                                       *)
(*   - the walk: the order sizes drawn from the masks (vectorbt_support).  *)
(* Each engine walks all bars by itself in the program; none looks ahead,  *)
(* so the model takes them a bar at a time, side by side.  What a bar's    *)
(* prices and indicators mean to the rules is chosen freely, and is the    *)
(* same for all engines: the one entry filter the two triggers compute     *)
(* from different bars (the gap, triggers.py:634 and :768) is taken to     *)
(* pass, and cash is taken to suffice.                                     *)
(***************************************************************************)
EXTENDS Integers, Sequences, FiniteSets, SequencesExt

CONSTANTS
    Setups      \* the runs checked: records of the fields in SetupShape

\* dates: the session of every bar, in order (the engine sorts its data and
\* refuses none at all); fill: the fill model; stake: the trigger's
\* order size; eod: on how many last bars of a session the exit rule flattens;
\* shut: on how many last bars of a session the entry window is closed; hold:
\* time_stop_bars; first: the bar of the engine's first call of next().
SetupShape ==
    [dates : Seq(Nat), fill : {"close", "next_bar"}, stake : {1, 2},
     eod : Nat, shut : Nat, hold : Nat \ {0}, first : {0, 1}]

InOrder(dates) == \A i, j \in 1..Len(dates) : i <= j => dates[i] <= dates[j]

ASSUME SetupsAssumption ==
    Setups \subseteq {s \in SetupShape : s.dates # <<>> /\ InOrder(s.dates)}

VARIABLES
    setup,      \* the run's setup
    bar,        \* the bar the engines are at
    turn,       \* "broker", "next", "masks", "walk", "finish" or "settle"
    now,        \* what the bar means to the rules
    trade,      \* the open trade: its size (0 when there is none), its entry bar
    orders,     \* the broker's queue of market orders
    closed,     \* the closed trades, in the order they were closed
    core,       \* the trigger's and the exit rule's state
    decision,   \* the core's decision on this bar
    masks,      \* build_masks' local state and the flags of this bar
    walk        \* _build_order_sizes_1d's local state

vars == <<setup, bar, turn, now, trade, orders, closed, core, decision, masks, walk>>

None == -1
Levels == {"stop", "low", "mid", "target"}
Reasons == {"stop", "trim", "breakeven", "weak", "time", "eod"}
Facts == [signal : BOOLEAN, level : Levels, weak : BOOLEAN]

-----------------------------------------------------------------------------
(* Sessions.                                                               *)

LastBar == Len(setup.dates) - 1
Date(i) == setup.dates[i + 1]

_is_new_session(i) == i = 0 \/ Date(i) # Date(i - 1)
_is_last_bar_of_session(i) == i >= LastBar \/ Date(i) # Date(i + 1)
_is_only_bar_of_session(i) == _is_new_session(i) /\ _is_last_bar_of_session(i)

BarsLeft(i) == Cardinality({j \in (i + 1)..LastBar : Date(j) = Date(i)})

\* The trigger's session window and its warmup, which no first bar passes.
MayEnter(i) == i >= 1 /\ BarsLeft(i) >= setup.shut

\* The exit rule's flatten minutes.
Late(i) == BarsLeft(i) < setup.eod

-----------------------------------------------------------------------------
(* The event-driven engine.                                                *)

\* backtesting.py fills at this bar's open, or at the close before it.
FillBar == IF setup.fill = "close" THEN bar - 1 ELSE bar

\* A share at least is sold by a close of a portion.
Portion(kind, size) == IF kind = "trim" THEN (IF size = 1 THEN 1 ELSE size \div 2) ELSE size

\* Mutant: the session close leaves the pending orders in the queue.
AtSessionCloseKeepingOrders(queue) ==
    IF _is_last_bar_of_session(bar) /\ trade.size > 0
      THEN <<[kind |-> "close", why |-> "session_close"]>> \o queue
      ELSE queue

\* Orders of a session's last bar are dropped, unless it is its only bar, and
\* an open trade is closed.
_enforce_flat_by_session_close(queue) ==
    IF ~_is_last_bar_of_session(bar) THEN queue
    ELSE (IF trade.size > 0 THEN <<[kind |-> "close", why |-> "session_close"]>> ELSE <<>>)
         \o (IF _is_only_bar_of_session(bar) THEN queue ELSE <<>>)

_enforce_flat_at_session_open(queue) ==
    IF bar = 0 \/ ~_is_new_session(bar) THEN queue
    ELSE IF trade.size > 0 THEN <<[kind |-> "close", why |-> "session_close"]>> ELSE <<>>

\* Bars are remembered from the first call of next() on, entries counted from
\* the first bar of the data.
_bars_held == LET held == (bar - setup.first) - trade.entry IN IF held > 0 THEN held ELSE 0

\* VwapPullbackManageExit.on_bar.
ExitOnBar ==
    IF now.level = "stop" THEN "stop"
    ELSE IF ~core.trimmed /\ now.level = "target" THEN "trim"
    ELSE IF core.trimmed /\ now.level = "low" THEN "breakeven"
    ELSE IF now.weak THEN "weak"
    ELSE IF _bars_held >= setup.hold THEN "time"
    ELSE IF Late(bar) THEN "eod"
    ELSE "hold"

\* Mutant: a closed trade resets the session's count instead of raising it.
on_trade_closed_resetting ==
    [trimmed |-> FALSE, date |-> Date(bar), count |-> 0]

\* The trigger counts the trade, the exit rule forgets it.
on_trade_closed ==
    [trimmed |-> FALSE, date |-> Date(bar),
     count |-> 1 + IF core.date = Date(bar) THEN core.count ELSE 0]

_sync_session_state ==
    [core EXCEPT !.date = Date(bar), !.count = IF core.date \in {None, Date(bar)} THEN @ ELSE 0]

\* VwapPullbackTrigger.on_bar: the session's window and cap, then the signal.
Buys(state) == MayEnter(bar) /\ state.count = 0 /\ now.signal

\* A trade is open: the exit rule decides, and an order of the adapter goes to
\* the head of the queue.
Manage ==
    LET queue == _enforce_flat_at_session_open(orders)
        Sale(kind) == <<[kind |-> kind, why |-> ExitOnBar]>> \o queue
    IN  /\ trade.size > 0
        /\ decision' = ExitOnBar
        /\ \/ /\ ExitOnBar = "hold"
              /\ orders' = _enforce_flat_by_session_close(queue)
              /\ UNCHANGED core
           \/ /\ ExitOnBar = "trim"
              /\ orders' = _enforce_flat_by_session_close(Sale("trim"))
              /\ core' = [core EXCEPT !.trimmed = TRUE]
           \/ /\ ExitOnBar \notin {"hold", "trim"}
              /\ orders' = _enforce_flat_by_session_close(Sale("close"))
              /\ core' = on_trade_closed

\* None is open: the trigger decides, and a buy goes to the end of the queue.
Seek ==
    LET queue == _enforce_flat_at_session_open(orders)
        buy == [kind |-> "buy", why |-> "entry"]
    IN  /\ trade.size = 0
        /\ \/ /\ Buys(_sync_session_state)
              /\ decision' = "entry"
              /\ orders' = _enforce_flat_by_session_close(Append(queue, buy))
              /\ core' = [_sync_session_state EXCEPT !.trimmed = FALSE]
           \/ /\ ~Buys(_sync_session_state)
              /\ decision' = "hold"
              /\ orders' = _enforce_flat_by_session_close(queue)
              /\ core' = _sync_session_state

-----------------------------------------------------------------------------
(* The masks and the walk.                                                 *)

\* Mutant: the breakeven stop is looked at before it is armed.
MaskRuleUnarmed(m) ==
    IF now.level = "stop" THEN "stop"
    ELSE IF ~m.trimmed /\ now.level = "target" THEN "trim"
    ELSE IF now.level = "low" THEN "breakeven"
    ELSE IF now.weak THEN "weak"
    ELSE IF bar - m.exec + 1 >= setup.hold THEN "time"
    ELSE IF Late(bar) THEN "eod"
    ELSE "hold"

\* build_masks' rules on a bar whose trade is open.
MaskRule(m) ==
    IF now.level = "stop" THEN "stop"
    ELSE IF ~m.trimmed /\ now.level = "target" THEN "trim"
    ELSE IF m.trimmed /\ now.level = "low" THEN "breakeven"
    ELSE IF now.weak THEN "weak"
    ELSE IF bar - m.exec + 1 >= setup.hold THEN "time"
    ELSE IF Late(bar) THEN "eod"
    ELSE "hold"

\* The vectorised trigger: one entry a session, counted when it signals.
Enter(m) ==
    LET count == IF m.date = Date(bar) THEN m.count ELSE 0
        entry == MayEnter(bar) /\ now.signal /\ count = 0
    IN  [m EXCEPT !.date = Date(bar), !.entry = entry, !.count = IF entry THEN count + 1 ELSE count]

\* A pending entry is executed.
Started(m) ==
    IF m.pending = bar THEN [m EXCEPT !.exec = bar, !.trimmed = FALSE, !.pending = None] ELSE m

\* build_masks on one bar: a pending entry is executed, then the rules of an
\* open trade, then a new entry, which waits for the next bar.
build_masks(m) ==
    LET started == Started(m)
        rule == IF started.exec = None THEN "hold" ELSE MaskRule(started)
        flagged == [started EXCEPT !.flag = rule]
    IN  CASE rule = "hold" -> [flagged EXCEPT !.pending = IF m.entry THEN bar + 1 ELSE @]
          [] rule = "trim" -> [flagged EXCEPT !.trimmed = TRUE]
          [] OTHER -> [flagged EXCEPT !.exec = None, !.trimmed = FALSE, !.pending = None, !.left = rule]

Exits == masks.flag \in Reasons \ {"trim"}

Flat == [inTrade |-> FALSE, size |-> 0, trimmed |-> FALSE, pending |-> 0]

\* What the exit flags of a bar sell: all, half once, or nothing.
Sold(w) ==
    IF ~w.inTrade THEN 0
    ELSE IF Exits THEN w.size
    ELSE IF masks.flag = "trim" /\ ~w.trimmed THEN w.size \div 2 ELSE 0

\* The sale is made at once.
Sell(w) ==
    IF w.inTrade /\ Exits THEN Flat
    ELSE [w EXCEPT !.size = @ - Sold(w), !.trimmed = @ \/ (w.inTrade /\ masks.flag = "trim")]

\* Mutant: an entry is taken while a trade is open.
BuyAgain(w) == [w EXCEPT !.pending = IF masks.entry THEN 2 * setup.stake ELSE 0 - Sold(w),
                         !.trimmed = @ \/ (w.inTrade /\ masks.flag = "trim")]

\* The change waits for the next bar.
Await(w) ==
    IF masks.entry /\ ~w.inTrade
      THEN [w EXCEPT !.pending = 2 * setup.stake]
      ELSE [w EXCEPT !.pending = 0 - Sold(w), !.trimmed = @ \/ (w.inTrade /\ masks.flag = "trim")]

\* _build_order_sizes_1d on one bar.  Sizes are in half shares: the walk, unlike
\* the broker, sells half of a share.
_build_order_sizes_1d(w) ==
    LET size == w.size + w.pending
        settled == IF w.pending = 0 THEN w
                   ELSE IF size <= 0 THEN Flat
                   ELSE [inTrade |-> TRUE, size |-> size, trimmed |-> w.trimmed, pending |-> 0]
        entered == IF masks.entry /\ ~settled.inTrade
                     THEN [Flat EXCEPT !.inTrade = TRUE, !.size = 2 * setup.stake] ELSE settled
    IN  IF setup.fill = "close" THEN Sell(entered)
        ELSE IF bar < LastBar THEN Await(settled) ELSE Sell(settled)

-----------------------------------------------------------------------------
(* The engines, bar by bar.                                                *)

Init ==
    /\ setup \in Setups
    /\ bar = 0
    /\ turn = "broker"
    /\ now = [signal |-> FALSE, level |-> "mid", weak |-> FALSE]
    /\ trade = [size |-> 0, entry |-> 0]
    /\ orders = <<>>
    /\ closed = <<>>
    /\ core = [trimmed |-> FALSE, date |-> None, count |-> 0]
    /\ decision = "hold"
    /\ masks = [pending |-> None, exec |-> None, trimmed |-> FALSE, date |-> None, count |-> 0,
                entry |-> FALSE, flag |-> "hold", left |-> "none"]
    /\ walk = Flat

\* The broker takes the first order of its queue: a buy opens a trade, ...
FillBuy ==
    /\ Head(orders).kind = "buy"
    /\ trade' = [size |-> setup.stake, entry |-> FillBar]
    /\ UNCHANGED closed

\* ... a sale closes the open trade or a portion of it, ...
FillSale ==
    /\ Head(orders).kind # "buy" /\ trade.size > 0
    /\ LET part == Portion(Head(orders).kind, trade.size)
       IN  /\ trade' = [trade EXCEPT !.size = @ - part]
           /\ closed' = Append(closed, [entry |-> trade.entry, exit |-> FillBar,
                                        why |-> Head(orders).why, size |-> part])

\* ... and a sale of a trade closed by another order before it does nothing.
DropSale ==
    /\ Head(orders).kind # "buy" /\ trade.size = 0
    /\ UNCHANGED <<trade, closed>>

Fill ==
    /\ turn \in {"broker", "settle"} /\ orders # <<>>
    /\ FillBuy \/ FillSale \/ DropSale
    /\ orders' = Tail(orders)
    /\ UNCHANGED <<setup, bar, turn, now, core, decision, masks, walk>>

\* What was ordered is filled, and the bar is shown to the strategies.
BrokerNext ==
    /\ turn = "broker" /\ orders = <<>>
    /\ now' \in Facts
    /\ turn' = "next"
    /\ UNCHANGED <<setup, bar, trade, orders, closed, core, decision, masks, walk>>

\* PortableBacktestingStrategy.next, from the engine's first call on.
AdapterNext ==
    /\ turn = "next"
    /\ \/ bar < setup.first /\ UNCHANGED <<orders, core, decision>>
       \/ bar >= setup.first /\ (Manage \/ Seek)
    /\ turn' = "masks"
    /\ UNCHANGED <<setup, bar, now, trade, closed, masks, walk>>

\* The trigger's and the exit rule's masks on the bar.
MasksNext ==
    /\ turn = "masks"
    /\ masks' = build_masks(Enter(masks))
    /\ turn' = "walk"
    /\ UNCHANGED <<setup, bar, now, trade, orders, closed, core, decision, walk>>

\* The walk over the masks on the bar, the last thing a bar sees.
WalkNext ==
    /\ turn = "walk"
    /\ walk' = _build_order_sizes_1d(walk)
    /\ bar' = IF bar < LastBar THEN bar + 1 ELSE bar
    /\ turn' = IF bar < LastBar THEN "broker" ELSE "finish"
    /\ UNCHANGED <<setup, now, trade, orders, closed, core, decision, masks>>

\* finalize_trades: after the last bar what is open is closed, and the broker
\* fills its queue once more.
Finalize ==
    /\ turn = "finish"
    /\ orders' = (IF trade.size > 0 THEN <<[kind |-> "close", why |-> "finalize"]>> ELSE <<>>) \o orders
    /\ turn' = "settle"
    /\ UNCHANGED <<setup, bar, now, trade, closed, core, decision, masks, walk>>

Next == Fill \/ BrokerNext \/ AdapterNext \/ MasksNext \/ WalkNext \/ Finalize

Spec == Init /\ [][Next]_vars

-----------------------------------------------------------------------------
(* Properties.                                                             *)

\* Sizes, flags and counters stay in range; the walk never goes short and
\* never holds more than one entry.
TypeOK ==
    /\ setup \in Setups
    /\ bar \in 0..LastBar
    /\ turn \in {"broker", "next", "masks", "walk", "finish", "settle"}
    /\ now \in Facts
    /\ trade.size \in 0..setup.stake /\ trade.entry \in 0..LastBar
    /\ \A o \in Range(orders) : o.kind \in {"buy", "close", "trim"}
    /\ \A t \in Range(closed) : t.entry <= t.exit /\ t.size \in 1..setup.stake
    /\ core.trimmed \in BOOLEAN /\ core.count \in 0..LastBar
    /\ decision \in Reasons \union {"hold", "entry"}
    /\ masks.flag \in Reasons \union {"hold"} /\ masks.count \in 0..1
    /\ masks.exec \in {None} \union 0..LastBar /\ masks.pending \in {None} \union 0..(LastBar + 1)
    /\ walk.size + walk.pending \in 0..(2 * setup.stake)

\* Where fills are at the close, no trade entered in a session of several bars
\* is held into the next (tests/test_integration_and_cli.py:651); otherwise
\* the bar that opens the next session is the last a trade sees.
FlatBySession ==
    \A t \in Range(closed) :
        \/ Date(t.exit) = Date(t.entry)
        \/ /\ _is_new_session(t.exit)
           /\ \A i \in t.entry..(t.exit - 1) : Date(i) = Date(t.entry)
           /\ setup.fill = "next_bar" \/ _is_only_bar_of_session(t.entry)

\* The trade that ended an entry, as the last of its parts.
Finisher(entry) == SelectLastInSeq(closed, LAMBDA t : t.entry = entry)

\* One trade a session, while the data lasts: the trigger takes no second one
\* unless the first was ended without its being told, by a trim that left
\* nothing of a single share or by the session's close.
OneTradeASession ==
    turn # "settle" =>
        \A t \in Range(closed) :
            (t.entry < trade.entry /\ trade.size > 0 /\ Date(t.entry) = Date(trade.entry)) =>
                LET why == closed[Finisher(t.entry)].why
                IN  why = "session_close" \/ (why = "trim" /\ setup.stake = 1)

\* The setups in which the engines can be held against each other: fills at
\* the next open, no entry that executes within the last bar, and a flatten
\* that two bars of every session see.
Comparable == setup.fill = "next_bar" /\ setup.stake > 1 /\ setup.eod >= 2 /\ setup.shut >= 2

\* The masks left the trade the broker still holds by their earlier time stop.
Overstayed == masks.exec = None /\ masks.left = "time" /\ trade.size > 0

\* On every bar the core's decision is the masks' flag, but for the time stop,
\* which the masks count from the signal and the core from the fill.
DecisionsMatchMasks ==
    (turn = "walk" /\ Comparable) =>
        \/ decision = "entry" /\ masks.entry
        \/ decision = masks.flag /\ ~masks.entry
        \/ Overstayed /\ decision # "entry"

\* The walk holds shares, or is about to, exactly while the masks hold a trade.
WalkFollowsMasks ==
    (turn = "broker" /\ bar > 0) =>
        (walk.size + walk.pending > 0 <=> masks.exec # None \/ masks.pending # None)

\* A backtest means the same in the event-driven and in the vectorised engine.
EnginesAgree == DecisionsMatchMasks /\ WalkFollowsMasks
=============================================================================
