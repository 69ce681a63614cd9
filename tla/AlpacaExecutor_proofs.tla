----------------------- MODULE AlpacaExecutor_proofs -----------------------
(***************************************************************************)
(* Theorems about kalyxctl alpaca-run, for any number of bars, any stake   *)
(* and any max_hold_bars: type correctness, that an open order is never    *)
(* sent again, and that the exposure is bounded.                           *)
(***************************************************************************)
EXTENDS AlpacaExecutor, TLAPS

-----------------------------------------------------------------------------
(* The inductive invariants.                                               *)

Reading == {"listed", "ready", "fetched", "synced", "submit"}

\* Until it submits, an invocation has seen every order that is open; what it
\* is about to submit it has not.
SeenOK ==
    /\ stage \in Reading => Open \subseteq seen
    /\ stage = "submit" => latest \in 1..MaxBar /\ action \in {"buy", "close", "trim"} /\ Order \notin seen

\* The bar an invocation works on, and the orders' bars.
BarsOK ==
    /\ stage \in {"fetched", "synced", "submit", "save", "writing"} => latest \in 1..MaxBar
    /\ stage \in {"off", "listed", "ready"} => latest = 0
    /\ latest <= bar
    /\ \A o \in used : o.bar <= bar

IInv == TypeOK /\ SeenOK /\ BarsOK /\ resent = {}

-----------------------------------------------------------------------------
(* Type correctness.                                                       *)

LEMMA FlatIsPosition == Flat \in Position /\ [last |-> 0, position |-> Flat] \in Snapshot
BY AlpacaExecutorAssumption DEF Flat, Position, Snapshot, Bar

LEMMA InitIInv == Init => IInv
<1> SUFFICES ASSUME Init PROVE IInv
  OBVIOUS
<1>1. 0 \in Bar
  BY AlpacaExecutorAssumption DEF Bar
<1>2. Open = {} /\ Open \subseteq used /\ remaining \in [OrderId -> Nat]
  BY DEF Init, Open
<1>3. decided \in [Bar -> [{"flat", "open"} -> Action]]
  <2>1. [x \in {"flat", "open"} |-> "none"] \in [{"flat", "open"} -> Action]
    BY DEF Action
  <2> QED
    BY <2>1, Zenon DEF Init
<1>4. TypeOK
  <2>1. partial \in BOOLEAN /\ unsettled \in BOOLEAN /\ file \in Snapshot \cup {Corrupt}
    BY FlatIsPosition, Zenon DEF Init
  <2>2. /\ stage \in Stage /\ action \in Action /\ held \in Int /\ bar \in Bar /\ latest \in Bar
        /\ since \in Bar
    BY <1>1 DEF Init, Stage, Action
  <2>3. snapshot \in Snapshot /\ used \subseteq OrderId /\ seen \subseteq OrderId /\ resent \subseteq OrderId
    BY FlatIsPosition DEF Init
  <2> QED
    BY <1>2, <1>3, <2>1, <2>2, <2>3, Zenon DEF TypeOK
<1>5. SeenOK /\ BarsOK
  BY DEF Init, SeenOK, BarsOK, Reading
<1> QED
  BY <1>4, <1>5 DEF IInv, Init

\* A step that ends the invocation, with broker and market as they were.
LEMMA IdleType == ASSUME TypeOK, Idle
                  PROVE  stage' \in Stage /\ snapshot' \in Snapshot /\ seen' \subseteq OrderId
                         /\ latest' \in Bar /\ action' \in Action
BY FlatIsPosition, AlpacaExecutorAssumption DEF Idle, Stage, Action, Bar

LEMMA OrderIsOrderId ==
    ASSUME SeenOK, stage = "submit" PROVE Order \in OrderId
BY DEF SeenOK, Order, OrderId

LEMMA QuantitiesAreNat == ASSUME TypeOK, SeenOK, stage = "submit", NEW q \in Quantities PROVE q \in Nat
<1>1. snapshot.position.size \in Int /\ Stake \in Nat
  BY AlpacaExecutorAssumption DEF TypeOK, Snapshot, Position
<1>2. CASE action = "buy"
  BY <1>1, <1>2 DEF Quantities
<1>3. CASE action = "close"
  BY <1>1, <1>3 DEF Quantities
<1>4. CASE action = "trim"
  BY <1>1, <1>4 DEF Quantities
<1> QED
  BY <1>2, <1>3, <1>4 DEF SeenOK

\* A submission: the broker takes the order, once, with some quantity.
Taken ==
    /\ stage = "submit" /\ Order \notin used
    /\ used' = used \cup {Order}
    /\ \E q \in Quantities : remaining' = [remaining EXCEPT ![Order] = q]

LEMMA TakenType ==
    ASSUME IInv, Taken
    PROVE  /\ remaining' \in [OrderId -> Nat] /\ used' \subseteq OrderId
           /\ Open' \subseteq Open \cup {Order} /\ Open' \subseteq used'
           /\ \A o \in used' : o.bar <= bar
<1>1. PICK q \in Quantities : remaining' = [remaining EXCEPT ![Order] = q]
  BY DEF Taken
<1>2. q \in Nat /\ Order \in OrderId
  BY QuantitiesAreNat, OrderIsOrderId DEF IInv, Taken
<1>3. remaining' \in [OrderId -> Nat] /\ Open' \subseteq Open \cup {Order}
  BY <1>1, <1>2 DEF IInv, TypeOK, Open
<1>4. Order.bar <= bar
  BY DEF IInv, BarsOK, Order
<1> QED
  BY <1>2, <1>3, <1>4 DEF Taken, IInv, TypeOK, BarsOK

\* Nothing is submitted again while its order is open.
LEMMA NoteAddsNothing == ASSUME IInv, stage = "submit", Note PROVE resent' = {}
BY DEF IInv, SeenOK, Reading, Note

LEMMA StartStep == ASSUME IInv, Start PROVE IInv'
<1>1. TypeOK'
  BY DEF IInv, TypeOK, Start, market, broker, hist, Stage, Open
<1>2. SeenOK'
  BY DEF SeenOK, Start, broker, Open, Order
<1> QED
  BY <1>1, <1>2 DEF IInv, BarsOK, Start, market, broker, hist

LEMMA SyncStep == ASSUME IInv, Sync PROVE IInv'
<1>1. Synced \in Position
  BY FlatIsPosition DEF IInv, TypeOK, Synced, Snapshot, Position
<1>2. snapshot' \in Snapshot
  BY <1>1 DEF IInv, TypeOK, Sync, Snapshot
<1>3. TypeOK'
  BY <1>2 DEF IInv, TypeOK, Sync, market, broker, hist, Stage, Open
<1>4. SeenOK' /\ BarsOK'
  BY DEF IInv, SeenOK, BarsOK, Reading, Sync, market, broker, Open, Order
<1> QED
  BY <1>3, <1>4 DEF IInv, Sync, hist

LEMMA FetchStep == ASSUME IInv, Fetch PROVE IInv'
<1>1. TypeOK'
  BY DEF IInv, TypeOK, Fetch, market, broker, hist, Stage, Open
<1>2. latest' \in 1..MaxBar
  BY AlpacaExecutorAssumption DEF IInv, TypeOK, Fetch, NothingNew, Bar
<1>3. SeenOK' /\ BarsOK'
  BY <1>2 DEF IInv, TypeOK, Bar, SeenOK, BarsOK, Reading, Fetch, market, broker, Open
<1> QED
  BY <1>1, <1>3 DEF IInv, Fetch, hist

\* The decisions of a state are actions.
LEMMA ChoicesAreActions ==
    ASSUME NEW state \in {"flat", "open"} PROVE Choices(state) \subseteq Action
BY DEF Choices, Action

LEMMA DecideStep == ASSUME IInv, Decide PROVE IInv'
<1> DEFINE state == IF snapshot.position.size = 0 THEN "flat" ELSE "open"
<1>1. state \in {"flat", "open"}
  OBVIOUS
<1>2. latest \in Bar /\ latest \in 1..MaxBar
  BY DEF IInv, TypeOK, BarsOK, Decide
<1>3. decided[latest][state] \in Action
  BY <1>1, <1>2 DEF IInv, TypeOK
<1>4. PICK a \in IF decided[latest][state] = "none" THEN Choices(state) ELSE {decided[latest][state]} :
          /\ action' = a
          /\ decided' = [decided EXCEPT ![latest][state] = a]
          /\ stage' = IF a # "hold" /\ [action |-> a, bar |-> latest] \notin seen THEN "submit" ELSE "save"
  BY DEF Decide
<1>5. a \in Action /\ a # "none"
  BY <1>1, <1>3, <1>4, ChoicesAreActions DEF Choices, Action
<1>6. decided' \in [Bar -> [{"flat", "open"} -> Action]]
  BY <1>1, <1>2, <1>4, <1>5 DEF IInv, TypeOK
<1>7. TypeOK'
  BY <1>4, <1>5, <1>6 DEF IInv, TypeOK, Decide, market, broker, Stage, Open
<1>8. SeenOK'
  BY <1>2, <1>4, <1>5 DEF IInv, SeenOK, Reading, Decide, broker, Open, Order, Action
<1>9. BarsOK'
  BY <1>2, <1>4 DEF IInv, BarsOK, Decide, market, broker
<1> QED
  BY <1>7, <1>8, <1>9 DEF IInv, Decide

LEMMA SubmitAcceptedStep == ASSUME IInv, SubmitAccepted PROVE IInv'
<1>1. Taken /\ resent' = {} /\ Order \in OrderId
  BY NoteAddsNothing, OrderIsOrderId DEF IInv, SubmitAccepted, Taken
<1>2. TypeOK'
  BY <1>1, TakenType DEF IInv, TypeOK, SubmitAccepted, market, Stage
<1>3. SeenOK' /\ BarsOK'
  BY <1>1, TakenType DEF IInv, SeenOK, BarsOK, Reading, SubmitAccepted, market
<1> QED
  BY <1>1, <1>2, <1>3 DEF IInv

LEMMA SubmitRejectedStep == ASSUME IInv, SubmitRejected PROVE IInv'
<1>1. Order \in OrderId /\ resent' = {} /\ Order.bar <= bar
  BY NoteAddsNothing, OrderIsOrderId DEF IInv, SubmitRejected, BarsOK, Order
<1>2. TypeOK'
  BY <1>1 DEF IInv, TypeOK, SubmitRejected, market, local, Stage, Open
<1>3. SeenOK' /\ BarsOK'
  BY <1>1 DEF IInv, SeenOK, BarsOK, Reading, SubmitRejected, market, local
<1> QED
  BY <1>1, <1>2, <1>3 DEF IInv

LEMMA SubmitUnansweredStep == ASSUME IInv, SubmitUnanswered PROVE IInv'
<1>1. Taken /\ resent' = {}
  BY NoteAddsNothing DEF IInv, SubmitUnanswered, Taken
<1>2. TypeOK'
  BY <1>1, TakenType, IdleType DEF IInv, TypeOK, SubmitUnanswered, market
<1>3. SeenOK' /\ BarsOK'
  BY <1>1, TakenType DEF IInv, TypeOK, Bar, SeenOK, BarsOK, Reading, SubmitUnanswered, Idle, market
<1> QED
  BY <1>1, <1>2, <1>3 DEF IInv

\* Steps that end the invocation and touch neither broker nor market.
LEMMA EndStep ==
    ASSUME IInv, Idle, UNCHANGED <<market, broker, decided, since, unsettled>>,
           resent' = {}, file' \in Snapshot \cup {Corrupt}
    PROVE  IInv'
<1>1. TypeOK'
  BY IdleType DEF IInv, TypeOK, market, broker, Open
<1>2. 0 <= bar
  BY AlpacaExecutorAssumption DEF IInv, TypeOK, Bar
<1>3. SeenOK' /\ BarsOK'
  BY <1>2 DEF IInv, SeenOK, BarsOK, Reading, Idle, market, broker
<1> QED
  BY <1>1, <1>3 DEF IInv

LEMMA EndSteps ==
    ASSUME IInv, FetchNothing \/ SubmitFails \/ EndSave \/ Crash
    PROVE  IInv'
<1>1. CASE FetchNothing \/ Crash
  BY <1>1, EndStep DEF FetchNothing, Crash, IInv, TypeOK, hist
<1>2. CASE SubmitFails
  BY <1>2, EndStep, NoteAddsNothing DEF SubmitFails, IInv, TypeOK
<1>3. CASE EndSave
  <2>1. file' \in Snapshot
    BY <1>3 DEF EndSave, IInv, TypeOK, Snapshot
  <2> QED
    BY <1>3, <2>1, EndStep DEF EndSave, IInv, hist
<1> QED
  BY <1>1, <1>2, <1>3

LEMMA BeginSaveStep == ASSUME IInv, BeginSave PROVE IInv'
<1>1. TypeOK'
  BY DEF IInv, TypeOK, BeginSave, market, broker, local, hist, Stage, Open
<1>2. SeenOK' /\ BarsOK'
  BY DEF IInv, SeenOK, BarsOK, Reading, BeginSave, market, broker, local
<1> QED
  BY <1>1, <1>2 DEF IInv, BeginSave, hist

LEMMA MarketSteps == ASSUME IInv, NewBar \/ CompleteBar PROVE IInv'
<1>1. bar' \in Bar /\ bar <= bar' /\ partial' \in BOOLEAN /\ unsettled' \in BOOLEAN
  <2>1. bar' \in Bar /\ bar <= bar'
    BY AlpacaExecutorAssumption DEF IInv, TypeOK, NewBar, CompleteBar, Bar
  <2>2. partial' \in BOOLEAN /\ unsettled' \in BOOLEAN
    BY Zenon DEF IInv, TypeOK, NewBar, CompleteBar, hist
  <2> QED
    BY <2>1, <2>2
<1>2. TypeOK'
  BY <1>1 DEF IInv, TypeOK, NewBar, CompleteBar, broker, local, hist, Open
<1>3. SeenOK'
  BY DEF IInv, SeenOK, NewBar, CompleteBar, broker, local, Open, Order
<1>4. BarsOK'
  <2>1. \A o \in used : o.bar \in Nat
    BY DEF IInv, TypeOK, OrderId
  <2> QED
    BY <1>1, <2>1, AlpacaExecutorAssumption DEF IInv, TypeOK, Bar, BarsOK, NewBar, CompleteBar, broker, local
<1> QED
  BY <1>2, <1>3, <1>4 DEF IInv, NewBar, CompleteBar, hist

LEMMA BrokerSteps ==
    ASSUME IInv, NEW o \in OrderId, Fill(o) \/ Cancel(o)
    PROVE  IInv' /\ Open' \subseteq Open
<1>1. o \in Open /\ remaining[o] \in Nat /\ remaining[o] > 0
  BY DEF IInv, TypeOK, Fill, Cancel, Open
<1>2. remaining' \in [OrderId -> Nat] /\ Open' \subseteq Open
  BY <1>1 DEF IInv, TypeOK, Fill, Cancel, Open
<1>3. held' \in Int /\ since' \in Bar
  BY AlpacaExecutorAssumption DEF IInv, TypeOK, Fill, Cancel, Bar, hist
<1>4. TypeOK'
  BY <1>2, <1>3 DEF IInv, TypeOK, Fill, Cancel, market, local, hist
<1>5. SeenOK' /\ BarsOK'
  BY <1>2 DEF IInv, SeenOK, BarsOK, Fill, Cancel, market, local, Order
<1> QED
  BY <1>2, <1>4, <1>5 DEF IInv, Fill, Cancel, hist

LEMMA StutterStep == ASSUME IInv, UNCHANGED vars PROVE IInv'
<1>1. TypeOK'
  BY DEF IInv, TypeOK, vars, market, broker, local, hist, Open
<1>2. SeenOK' /\ BarsOK'
  BY DEF IInv, SeenOK, BarsOK, vars, market, broker, local, hist, Open, Order
<1> QED
  BY <1>1, <1>2 DEF IInv, vars, hist

LEMMA NextIInv == IInv /\ [Next]_vars => IInv'
<1> SUFFICES ASSUME IInv, [Next]_vars PROVE IInv'
  OBVIOUS
<1>1. CASE Start \/ Sync \/ Fetch \/ Decide \/ BeginSave
  BY <1>1, StartStep, SyncStep, FetchStep, DecideStep, BeginSaveStep
<1>2. CASE SubmitAccepted \/ SubmitRejected \/ SubmitUnanswered
  BY <1>2, SubmitAcceptedStep, SubmitRejectedStep, SubmitUnansweredStep
<1>3. CASE FetchNothing \/ SubmitFails \/ EndSave \/ Crash
  BY <1>3, EndSteps
<1>4. CASE NewBar \/ CompleteBar
  BY <1>4, MarketSteps
<1>5. CASE \E o \in OrderId : Fill(o) \/ Cancel(o)
  BY <1>5, BrokerSteps
<1>6. CASE UNCHANGED vars
  BY <1>6, StutterStep
<1> QED
  BY <1>1, <1>2, <1>3, <1>4, <1>5, <1>6 DEF Next

THEOREM Invariance == Spec => []IInv
BY InitIInv, NextIInv, PTL DEF Spec

\* Every variable keeps its type.
THEOREM TypeCorrect == Spec => []TypeOK
<1>1. IInv => TypeOK
  BY DEF IInv
<1> QED
  BY <1>1, Invariance, PTL

\* An order that is open at the broker is never submitted again
\* (seen_client_order_ids).
THEOREM OpenOrderNotResent == Spec => []OpenOrderIsNotResent
<1>1. IInv => OpenOrderIsNotResent
  BY DEF IInv, OpenOrderIsNotResent
<1> QED
  BY <1>1, Invariance, PTL

-----------------------------------------------------------------------------
(* The exposure.  As long as each bar is settled before the next one       *)
(* begins, every open order is the current bar's; a position is bought     *)
(* once a bar and sold by one order a bar, as the core decides a bar the   *)
(* same way again and the broker takes an id once.                         *)

OfBar(o) == o.bar = bar
Bought == \E o \in used : OfBar(o) /\ o.action = "buy"
SoldBy == \E o \in used : OfBar(o) /\ o.action # "buy"

\* The position and what is left of the orders stay between flat and a stake.
Covered ==
    /\ held \in 0..Stake
    /\ \A o \in Open : OfBar(o)
    /\ \A o \in OrderId : OfBar(o) /\ o.action = "buy" => held + remaining[o] <= Stake
    /\ \A o \in OrderId : OfBar(o) /\ o.action # "buy" => remaining[o] <= held

\* The bar's sale is the one decided.
OneSale == \A o \in used : OfBar(o) /\ o.action # "buy" => decided[bar]["open"] = o.action

\* What an invocation took the position to be, until it submits.
ViewOK ==
    stage \in {"synced", "submit"} =>
        /\ snapshot.position.size >= 0
        /\ ~SoldBy => snapshot.position.size <= held
        /\ snapshot.position.size = 0 /\ ~Bought => held = 0

SubmitOK ==
    stage = "submit" =>
        /\ action = "buy" <=> snapshot.position.size = 0
        /\ action # "buy" => decided[bar]["open"] = action

Calm == (latest = 0 \/ latest = bar) /\ Covered /\ OneSale /\ ViewOK /\ SubmitOK

\* A flat position is never sold, an open one never bought.
DecidedOK ==
    \A b \in Bar : /\ decided[b]["flat"] \in {"none", "hold", "buy"}
                   /\ decided[b]["open"] \in {"none", "hold", "close", "trim"}

XInv == IInv /\ DecidedOK /\ (unsettled \/ Calm)

LEMMA InitXInv == Init => XInv
<1> SUFFICES ASSUME Init PROVE XInv
  OBVIOUS
<1>1. IInv
  BY InitIInv
<1>2. \A b \in Bar : decided[b]["flat"] = "none" /\ decided[b]["open"] = "none"
  BY DEF Init
<1>3. Open = {} /\ \A o \in OrderId : remaining[o] = 0
  BY DEF Init, Open
<1>4. Covered
  BY <1>3, AlpacaExecutorAssumption DEF Init, Covered
<1>5. OneSale /\ ViewOK /\ SubmitOK
  BY DEF Init, OneSale, ViewOK, SubmitOK
<1> QED
  BY <1>1, <1>2, <1>4, <1>5 DEF XInv, DecidedOK, Calm, Init

\* The identifiers of the current bar.
LEMMA SameBarSameOrder ==
    ASSUME TypeOK, NEW o \in OrderId, NEW p \in OrderId, OfBar(o), OfBar(p), o.action = p.action
    PROVE  o = p
BY DEF OrderId, OfBar

\* A step outside the broker that decides nothing and leaves the view alone, or
\* ends the invocation.
LEMMA QuietStep ==
    ASSUME Calm, UNCHANGED <<bar, broker, decided>>,
           latest' = 0 \/ latest' = bar,
           \/ stage' \notin {"synced", "submit"}
           \/ UNCHANGED <<stage, snapshot, action>>
    PROVE  Calm'
<1>1. Covered'
  BY DEF Calm, Covered, broker, Open, OfBar
<1>2. OneSale'
  BY DEF Calm, OneSale, broker, OfBar
<1>3. ViewOK' /\ SubmitOK'
  BY DEF Calm, ViewOK, SubmitOK, Bought, SoldBy, broker, OfBar
<1> QED
  BY <1>1, <1>2, <1>3 DEF Calm

LEMMA SyncCalm == ASSUME IInv, Calm, Sync PROVE Calm'
<1>1. Covered'
  BY DEF Calm, Covered, Sync, broker, market, Open, OfBar
<1>2. OneSale'
  BY DEF Calm, OneSale, Sync, broker, market, hist, OfBar
<1>3. snapshot'.position.size = held
  BY DEF Sync, Synced, Flat, IInv, TypeOK, Snapshot
<1>4. ViewOK'
  BY <1>3 DEF Calm, Covered, ViewOK, Sync, broker
<1>5. SubmitOK' /\ (latest' = 0 \/ latest' = bar')
  BY DEF Calm, SubmitOK, Sync, market
<1> QED
  BY <1>1, <1>2, <1>4, <1>5 DEF Calm

LEMMA DecideCalm == ASSUME IInv, DecidedOK, Decide PROVE DecidedOK' /\ (Calm => Calm')
<1> DEFINE state == IF snapshot.position.size = 0 THEN "flat" ELSE "open"
<1>1. state \in {"flat", "open"} /\ latest \in Bar /\ latest \in 1..MaxBar
  BY DEF IInv, TypeOK, BarsOK, Decide
<1>2. PICK a \in IF decided[latest][state] = "none" THEN Choices(state) ELSE {decided[latest][state]} :
          /\ action' = a
          /\ decided' = [decided EXCEPT ![latest][state] = a]
          /\ stage' = IF a # "hold" /\ [action |-> a, bar |-> latest] \notin seen THEN "submit" ELSE "save"
  BY DEF Decide
<1>3. a \in IF state = "flat" THEN {"hold", "buy"} ELSE {"hold", "close", "trim"}
  BY <1>1, <1>2 DEF DecidedOK, Choices
<1>4. decided \in [Bar -> [{"flat", "open"} -> Action]]
  BY DEF IInv, TypeOK
<1>5. /\ decided'[latest][state] = a
      /\ \A b \in Bar, x \in {"flat", "open"} : b # latest \/ x # state => decided'[b][x] = decided[b][x]
  BY <1>1, <1>2, <1>4
<1>6. DecidedOK'
  BY <1>1, <1>3, <1>5 DEF DecidedOK
<1>7. ASSUME Calm PROVE Calm'
  <2>1. latest = bar
    BY <1>1, <1>7 DEF Calm
  <2>2. Covered'
    BY <1>7 DEF Calm, Covered, Decide, broker, market, Open, OfBar
  <2>3. OneSale'
    <3> SUFFICES ASSUME NEW o \in used, OfBar(o), o.action # "buy"
                 PROVE  decided'[bar]["open"] = o.action
      BY DEF OneSale, Decide, broker, market, OfBar
    <3>1. decided[bar]["open"] = o.action /\ o.action # "none"
      BY <1>7 DEF Calm, OneSale, IInv, TypeOK, OrderId
    <3> QED
      BY <1>1, <1>2, <1>5, <2>1, <3>1
  <2>4. ViewOK'
    BY <1>7 DEF Calm, ViewOK, Decide, broker, market, Bought, SoldBy, OfBar
  <2>5. SubmitOK'
    BY <1>1, <1>2, <1>3, <1>5, <2>1 DEF SubmitOK, Decide, market
  <2> QED
    BY <1>7, <2>2, <2>3, <2>4, <2>5 DEF Calm, Decide, market
<1> QED
  BY <1>6, <1>7

\* An order that the broker takes can be filled without leaving the bounds.
LEMMA TakenCalm ==
    ASSUME IInv, Calm, Taken, UNCHANGED <<bar, held, decided>>, stage' \notin {"synced", "submit"},
           latest' = 0 \/ latest' = bar
    PROVE  Calm'
<1>1. latest = bar /\ action \in {"buy", "close", "trim"} /\ Order \in OrderId /\ OfBar(Order)
      /\ Order.action = action
  BY OrderIsOrderId DEF IInv, SeenOK, BarsOK, Calm, Taken, Order, OfBar
<1>2. PICK q \in Quantities : remaining' = [remaining EXCEPT ![Order] = q]
  BY DEF Taken
<1>3. q \in Nat /\ remaining \in [OrderId -> Nat] /\ held \in Int /\ snapshot.position.size \in Int
  BY QuantitiesAreNat DEF IInv, Taken, TypeOK, Snapshot, Position
<1>4. \A o \in used : o \in OrderId
  BY DEF IInv, TypeOK
<1>5. CASE action = "buy"
  <2>1. ~Bought
    BY <1>1, <1>4, <1>5, SameBarSameOrder DEF Bought, Taken, IInv
  <2>2. held = 0 /\ q = Stake
    BY <1>2, <1>5, <2>1 DEF Calm, ViewOK, SubmitOK, Taken, Quantities
  <2>3. \A o \in OrderId : OfBar(o) /\ o.action = "buy" => o = Order
    BY <1>1, <1>5, SameBarSameOrder DEF IInv
  <2>4. Covered'
    BY <1>1, <1>2, <1>3, <1>5, <2>2, <2>3, TakenType, AlpacaExecutorAssumption DEF Calm, Covered, OfBar
  <2>5. OneSale'
    BY <1>1, <1>5 DEF Calm, OneSale, Taken, OfBar
  <2> QED
    BY <2>4, <2>5 DEF Calm, ViewOK, SubmitOK
<1>6. CASE action # "buy"
  <2>1. decided[bar]["open"] = action /\ snapshot.position.size # 0
    BY <1>6 DEF Calm, SubmitOK, Taken
  <2>2. ~SoldBy
    <3> SUFFICES ASSUME NEW o \in used, OfBar(o), o.action # "buy" PROVE FALSE
      BY DEF SoldBy
    <3>1. o.action = action
      BY <2>1 DEF Calm, OneSale
    <3> QED
      BY <1>1, <1>4, <3>1, SameBarSameOrder DEF Taken, IInv
  <2>3. snapshot.position.size <= held /\ snapshot.position.size > 0
    BY <1>3, <2>1, <2>2 DEF Calm, ViewOK, Taken
  <2>4. q <= held
    BY <1>1, <1>2, <1>3, <1>6, <2>3 DEF Quantities
  <2>5. Covered'
    BY <1>1, <1>2, <1>3, <1>6, <2>4, TakenType DEF Calm, Covered, OfBar
  <2>6. OneSale'
    BY <1>1, <2>1 DEF Calm, OneSale, Taken, OfBar
  <2> QED
    BY <2>5, <2>6 DEF Calm, ViewOK, SubmitOK
<1> QED
  BY <1>5, <1>6

LEMMA RejectedCalm == ASSUME IInv, Calm, SubmitRejected PROVE Calm'
<1>1. latest = bar /\ Order.action = action
  BY DEF IInv, SeenOK, BarsOK, Calm, SubmitRejected, Order
<1>2. Covered'
  BY DEF Calm, Covered, SubmitRejected, market, Open, OfBar
<1>3. OneSale'
  BY <1>1 DEF Calm, OneSale, SubmitOK, SubmitRejected, market, OfBar
<1> QED
  BY <1>1, <1>2, <1>3 DEF Calm, ViewOK, SubmitOK, SubmitRejected, market, local

LEMMA NewBarCalm == ASSUME IInv, unsettled \/ Calm, NewBar, ~unsettled' PROVE Calm'
<1>1. ~unsettled /\ Open = {} /\ latest = 0 /\ bar' = bar + 1 /\ Calm
  BY DEF NewBar
<1>2. \A o \in OrderId : remaining[o] = 0
  BY <1>1 DEF Open, IInv, TypeOK
<1>3. held \in 0..Stake
  BY <1>1 DEF Calm, Covered
<1>4. Covered'
  BY <1>1, <1>2, <1>3, AlpacaExecutorAssumption DEF Covered, NewBar, broker, Open
<1>5. OneSale'
  <2>1. \A o \in used : o.bar <= bar /\ o.bar \in Nat /\ bar \in Nat
    BY AlpacaExecutorAssumption DEF IInv, BarsOK, TypeOK, OrderId, Bar
  <2>2. \A o \in used : o.bar # bar + 1
    BY <2>1
  <2> QED
    BY <1>1, <2>2 DEF OneSale, NewBar, broker, OfBar
<1>6. stage \notin {"synced", "submit"}
  BY <1>1 DEF IInv, BarsOK
<1> QED
  BY <1>1, <1>4, <1>5, <1>6 DEF Calm, ViewOK, SubmitOK, NewBar, local

LEMMA FillCalm == ASSUME IInv, Calm, NEW o \in OrderId, Fill(o) PROVE Calm'
<1>1. /\ remaining[o] \in Nat /\ remaining[o] > 0 /\ remaining \in [OrderId -> Nat]
      /\ OfBar(o) /\ o \in used /\ held \in 0..Stake /\ held \in Int
  BY DEF IInv, TypeOK, Fill, Open, Calm, Covered
<1>2. \A p \in OrderId : remaining'[p] = IF p = o THEN remaining[o] - 1 ELSE remaining[p]
  BY <1>1 DEF Fill
<1>3. Open' \subseteq Open
  BY BrokerSteps DEF IInv
<1>4. CASE o.action = "buy"
  <2>1. held' = held + 1 /\ held + remaining[o] <= Stake
    BY <1>1, <1>4 DEF Fill, Calm, Covered
  <2>2. \A p \in OrderId : OfBar(p) /\ p.action = "buy" => p = o
    BY <1>1, <1>4, SameBarSameOrder DEF IInv
  <2>3. Covered'
    BY <1>1, <1>2, <1>3, <1>4, <2>1, <2>2, AlpacaExecutorAssumption DEF Calm, Covered, Fill, market, OfBar
  <2>4. ViewOK'
    BY <1>1, <1>4, <2>1 DEF Calm, ViewOK, Fill, market, local, Bought, SoldBy, OfBar, IInv, TypeOK, Snapshot, Position
  <2> QED
    BY <2>3, <2>4 DEF Calm, OneSale, SubmitOK, Fill, market, local, OfBar
<1>5. CASE o.action # "buy"
  <2>1. held' = held - 1 /\ remaining[o] <= held
    BY <1>1, <1>5 DEF Fill, Calm, Covered
  <2>2. \A p \in OrderId : OfBar(p) /\ p.action # "buy" /\ p # o => remaining[p] = 0
    <3> SUFFICES ASSUME NEW p \in OrderId, OfBar(p), p.action # "buy", remaining[p] # 0 PROVE p = o
      OBVIOUS
    <3>1. p \in used
      BY <1>1 DEF Open, IInv, TypeOK
    <3>2. p.action = o.action
      BY <1>1, <1>5, <3>1 DEF Calm, OneSale
    <3> QED
      BY <1>1, <3>2, SameBarSameOrder DEF IInv
  <2>3. Covered'
    BY <1>1, <1>2, <1>3, <1>5, <2>1, <2>2, AlpacaExecutorAssumption DEF Calm, Covered, Fill, market, OfBar
  <2>4. ViewOK'
    BY <1>1, <1>5, <2>1 DEF Calm, ViewOK, Fill, market, local, Bought, SoldBy, OfBar
  <2> QED
    BY <2>3, <2>4 DEF Calm, OneSale, SubmitOK, Fill, market, local, OfBar
<1> QED
  BY <1>4, <1>5

LEMMA CancelCalm == ASSUME IInv, Calm, NEW o \in OrderId, Cancel(o) PROVE Calm'
<1>1. /\ remaining[o] \in Nat /\ remaining \in [OrderId -> Nat] /\ held \in 0..Stake /\ Stake \in Nat
  BY AlpacaExecutorAssumption DEF IInv, TypeOK, Calm, Covered
<1>2. \A p \in OrderId : remaining'[p] = IF p = o THEN 0 ELSE remaining[p]
  BY <1>1 DEF Cancel
<1>3. Open' \subseteq Open
  BY BrokerSteps DEF IInv
<1>4. Covered'
  BY <1>1, <1>2, <1>3 DEF Calm, Covered, Cancel, market, OfBar
<1>5. OneSale' /\ ViewOK' /\ SubmitOK'
  BY DEF Calm, OneSale, ViewOK, SubmitOK, Bought, SoldBy, Cancel, market, local, hist, OfBar
<1> QED
  BY <1>4, <1>5 DEF Calm, Cancel, market, local

LEMMA NextXInv == XInv /\ [Next]_vars => XInv'
<1> SUFFICES ASSUME XInv, [Next]_vars PROVE XInv'
  OBVIOUS
<1>1. IInv /\ IInv' /\ DecidedOK /\ (unsettled \/ Calm)
  BY NextIInv DEF XInv
<1>2. CASE Start \/ Fetch \/ BeginSave \/ CompleteBar \/ UNCHANGED vars
  <2>1. UNCHANGED <<bar, broker, decided, unsettled>> /\ (latest' = latest \/ latest' = bar)
    BY <1>2 DEF Start, Fetch, BeginSave, CompleteBar, vars, market, broker, local, hist
  <2>2. stage' \notin {"synced", "submit"} \/ UNCHANGED <<stage, snapshot, action>>
    BY <1>2 DEF Start, Fetch, BeginSave, CompleteBar, vars, local
  <2>3. Calm => Calm'
    BY <2>1, <2>2, QuietStep DEF Calm
  <2> QED
    BY <1>1, <2>1, <2>3 DEF XInv, DecidedOK
<1>3. CASE FetchNothing \/ SubmitFails \/ EndSave \/ Crash
  <2>1. UNCHANGED <<bar, broker, decided, unsettled>> /\ latest' = 0 /\ stage' = "off"
    BY <1>3 DEF FetchNothing, SubmitFails, EndSave, Crash, Idle, market, hist
  <2>2. Calm => Calm'
    BY <2>1, QuietStep
  <2> QED
    BY <1>1, <2>1, <2>2 DEF XInv, DecidedOK
<1>4. CASE Sync
  BY <1>1, <1>4, SyncCalm DEF XInv, DecidedOK, Sync, hist
<1>5. CASE Decide
  BY <1>1, <1>5, DecideCalm DEF XInv, Decide
<1>6. CASE SubmitAccepted \/ SubmitUnanswered
  <2>1. Taken /\ UNCHANGED <<bar, held, decided, unsettled>> /\ stage' \notin {"synced", "submit"}
        /\ (latest' = latest \/ latest' = 0)
    BY <1>6 DEF SubmitAccepted, SubmitUnanswered, Taken, Idle, market
  <2>2. Calm => Calm'
    BY <1>1, <2>1, TakenCalm DEF Calm
  <2> QED
    BY <1>1, <2>1, <2>2 DEF XInv, DecidedOK
<1>7. CASE SubmitRejected
  BY <1>1, <1>7, RejectedCalm DEF XInv, DecidedOK, SubmitRejected
<1>8. CASE NewBar
  BY <1>1, <1>8, NewBarCalm DEF XInv, DecidedOK, NewBar
<1>9. CASE \E o \in OrderId : Fill(o) \/ Cancel(o)
  BY <1>1, <1>9, FillCalm, CancelCalm DEF XInv, DecidedOK, Fill, Cancel, hist
<1> QED
  BY <1>2, <1>3, <1>4, <1>5, <1>6, <1>7, <1>8, <1>9 DEF Next

\* The position stays between flat and one stake through lost answers, partial
\* fills, cancellations and crashes at any point, as long as each bar's
\* invocation and orders are over before the next bar.
THEOREM ExposureBounded == Spec => []ExposureIsBounded
<1>1. XInv => ExposureIsBounded
  BY DEF XInv, Calm, Covered, ExposureIsBounded
<1> QED
  BY <1>1, InitXInv, NextXInv, PTL DEF Spec
=============================================================================
