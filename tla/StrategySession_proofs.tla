----------------------- MODULE StrategySession_proofs -----------------------
(***************************************************************************)
(* Theorems about the three engines, for every setup: any number of bars   *)
(* and sessions, either fill model and any parameters of the rules.        *)
(***************************************************************************)
EXTENDS StrategySession, FiniteSetTheorems, WellFoundedInduction, TLAPS

-----------------------------------------------------------------------------
(* The setup and its sessions.                                             *)

LEMMA SetupFacts ==
    ASSUME setup \in Setups
    PROVE  /\ setup.fill \in {"close", "next_bar"} /\ setup.stake \in {1, 2}
           /\ setup.eod \in Nat /\ setup.shut \in Nat /\ setup.hold \in Nat \ {0} /\ setup.first \in {0, 1}
           /\ LastBar \in Nat
<1>1. setup \in SetupShape /\ setup.dates # <<>>
  BY SetupsAssumption
<1>2. setup.dates \in Seq(Nat) /\ Len(setup.dates) \in Nat /\ Len(setup.dates) # 0
  BY <1>1 DEF SetupShape
<1> QED
  BY <1>1, <1>2 DEF SetupShape, LastBar

\* Every bar has a session, and the sessions come in order.
LEMMA DateFacts ==
    ASSUME setup \in Setups
    PROVE  /\ \A i \in 0..LastBar : Date(i) \in Nat
           /\ \A i, j \in 0..LastBar : i <= j => Date(i) <= Date(j)
<1>1. setup \in SetupShape /\ InOrder(setup.dates)
  BY SetupsAssumption
<1>2. setup.dates \in Seq(Nat)
  BY <1>1 DEF SetupShape
<1>3. \A i \in 0..LastBar : i + 1 \in 1..Len(setup.dates)
  BY <1>2 DEF LastBar
<1>4. \A i \in 0..LastBar : Date(i) \in Nat
  BY <1>2, <1>3 DEF Date
<1>5. \A i, j \in 0..LastBar : i <= j => Date(i) <= Date(j)
  BY <1>1, <1>3 DEF Date, InOrder
<1> QED
  BY <1>4, <1>5

\* The setup, and with it the sessions, never change.
LEMMA Still ==
    ASSUME setup' = setup
    PROVE  /\ LastBar' = LastBar
           /\ \A i : Date(i)' = Date(i)
           /\ \A i : BarsLeft(i)' = BarsLeft(i)
           /\ \A i : _is_new_session(i)' = _is_new_session(i)
           /\ \A i : _is_last_bar_of_session(i)' = _is_last_bar_of_session(i)
           /\ \A i : _is_only_bar_of_session(i)' = _is_only_bar_of_session(i)
<1>1. LastBar' = LastBar
  BY DEF LastBar
<1>2. \A i : Date(i)' = Date(i)
  BY DEF Date
<1>3. \A i : BarsLeft(i)' = BarsLeft(i)
  BY <1>1 DEF BarsLeft, Date
<1>4. \A i : _is_new_session(i)' = _is_new_session(i)
  BY DEF _is_new_session, Date
<1>5. \A i : _is_last_bar_of_session(i)' = _is_last_bar_of_session(i)
  BY <1>1 DEF _is_last_bar_of_session, Date
<1>6. \A i : _is_only_bar_of_session(i)' = _is_only_bar_of_session(i)
  BY <1>4, <1>5 DEF _is_only_bar_of_session
<1> QED
  BY <1>1, <1>2, <1>3, <1>4, <1>5, <1>6

\* A first and a last bar are one bar; the bar before a first one is a last one.
LEMMA SessionEdges ==
    ASSUME setup \in Setups, NEW i \in 1..LastBar
    PROVE  /\ _is_new_session(i) <=> Date(i - 1) < Date(i)
           /\ _is_last_bar_of_session(i - 1) <=> Date(i - 1) < Date(i)
           /\ _is_new_session(i) <=> _is_last_bar_of_session(i - 1)
<1>1. LastBar \in Nat /\ i \in 0..LastBar /\ i - 1 \in 0..LastBar /\ i - 1 <= i /\ (i - 1) + 1 = i
  BY SetupFacts
<1>2. Date(i) \in Nat /\ Date(i - 1) \in Nat /\ Date(i - 1) <= Date(i)
  BY <1>1, DateFacts
<1>3. _is_new_session(i) <=> Date(i - 1) < Date(i)
  BY <1>1, <1>2 DEF _is_new_session
<1>4. _is_last_bar_of_session(i - 1) <=> Date(i - 1) < Date(i)
  BY <1>1, <1>2 DEF _is_last_bar_of_session
<1> QED
  BY <1>3, <1>4

-----------------------------------------------------------------------------
(* The inductive invariant, in parts: the types, ...                       *)

Whys == Reasons \union {"entry", "session_close", "finalize"}
Order == [kind : {"buy", "close", "trim"}, why : Whys]
Ended == [entry : 0..LastBar, exit : 0..LastBar, why : Whys, size : 1..setup.stake]
Book == [size : 0..setup.stake, entry : 0..LastBar]
Core == [trimmed : BOOLEAN, date : {None} \union Nat, count : Nat]
Masks ==
    [pending : {None} \union 0..(LastBar + 1), exec : {None} \union 0..LastBar, trimmed : BOOLEAN,
     date : {None} \union Nat, count : 0..1, entry : BOOLEAN,
     flag : Reasons \union {"hold"}, left : Reasons \union {"none"}]
Walk == [inTrade : BOOLEAN, size : Int, trimmed : BOOLEAN, pending : Int]

Shapes ==
    /\ setup \in Setups /\ bar \in 0..LastBar
    /\ turn \in {"broker", "next", "masks", "walk", "finish", "settle"}
    /\ now \in Facts
    /\ trade \in Book /\ orders \in Seq(Order) /\ closed \in Seq(Ended)
    /\ core \in Core /\ decision \in Reasons \union {"hold", "entry"}
    /\ masks \in Masks /\ walk \in Walk

\* ... what the broker's queue may hold beside the open trade, ...
Waits(kind) == \E i \in 1..Len(orders) : orders[i].kind = kind

BookOK ==
    /\ bar = 0 => trade.size = 0 /\ orders = <<>>
    /\ trade.size > 0 => trade.entry <= FillBar
    /\ turn = "next" => orders = <<>>
    /\ Waits("buy") => Len(orders) = 1 /\ trade.size = 0
    /\ \A k \in 1..Len(closed) : closed[k].entry <= closed[k].exit

\* ... what the core counts, ...
CoreOK ==
    /\ core.count <= bar
    /\ turn \in {"broker", "next"} /\ bar > 0 => core.count <= bar - 1
    /\ core.date <= Date(bar)
    /\ core.date = None => core.count = 0

\* ... for which bar the masks wait, ...
MasksOK ==
    /\ turn \in {"broker", "next", "masks"} => masks.pending \in {None, bar}
    /\ turn \in {"walk", "finish", "settle"} => masks.pending \in {None, bar + 1}

\* ... and what the walk holds.
WalkOK ==
    /\ walk.inTrade =>
        walk.size \in 1..(2 * setup.stake) /\ walk.pending <= 0 /\ 0 <= walk.size + walk.pending
    /\ ~walk.inTrade => walk.size = 0 /\ walk.pending \in {0, 2 * setup.stake}
    /\ setup.fill = "close" => walk.pending = 0

TypeInv == Shapes /\ BookOK /\ CoreOK /\ MasksOK /\ WalkOK

LEMMA Fields ==
    /\ \A o \in Order : o.kind \in {"buy", "close", "trim"} /\ o.why \in Whys
    /\ \A t \in Ended : /\ t.entry \in 0..LastBar /\ t.exit \in 0..LastBar
                        /\ t.why \in Whys /\ t.size \in 1..setup.stake
BY DEF Order, Ended

LEMMA AtAnIndex ==
    ASSUME NEW S, NEW q \in Seq(S), NEW e \in Range(q)
    PROVE  \E i \in 1..Len(q) : e = q[i]
<1>1. DOMAIN q = 1..Len(q)
  OBVIOUS
<1> QED
  BY <1>1 DEF Range

LEMMA TypeInvImpliesTypeOK == TypeInv => TypeOK
<1> SUFFICES ASSUME TypeInv PROVE TypeOK
  OBVIOUS
<1>1. LastBar \in Nat /\ setup.stake \in {1, 2}
  BY SetupFacts DEF TypeInv, Shapes
<1>2. /\ setup \in Setups /\ bar \in 0..LastBar /\ now \in Facts
      /\ turn \in {"broker", "next", "masks", "walk", "finish", "settle"}
      /\ decision \in Reasons \union {"hold", "entry"}
  BY DEF TypeInv, Shapes
<1>3. trade.size \in 0..setup.stake /\ trade.entry \in 0..LastBar
  BY DEF TypeInv, Shapes, Book
<1>4. \A o \in Range(orders) : o.kind \in {"buy", "close", "trim"}
  <2>1. orders \in Seq(Order)
    BY DEF TypeInv, Shapes
  <2>2. \A i \in 1..Len(orders) : orders[i].kind \in {"buy", "close", "trim"}
    BY <2>1, Fields
  <2> TAKE o \in Range(orders)
  <2>3. PICK i \in 1..Len(orders) : o = orders[i]
    BY <2>1, AtAnIndex
  <2> QED
    BY <2>2, <2>3
<1>5. \A t \in Range(closed) : t.entry <= t.exit /\ t.size \in 1..setup.stake
  <2>1. closed \in Seq(Ended) /\ \A k \in 1..Len(closed) : closed[k].entry <= closed[k].exit
    BY DEF TypeInv, Shapes, BookOK
  <2>2. \A k \in 1..Len(closed) : closed[k].size \in 1..setup.stake
    BY <2>1, Fields
  <2> TAKE t \in Range(closed)
  <2>3. PICK k \in 1..Len(closed) : t = closed[k]
    BY <2>1, AtAnIndex
  <2> QED
    BY <2>1, <2>2, <2>3
<1>6. core.trimmed \in BOOLEAN /\ core.count \in 0..LastBar
  <2>1. core.trimmed \in BOOLEAN
    BY DEF TypeInv, Shapes, Core
  <2>2. core.count \in Nat /\ core.count <= bar
    BY DEF TypeInv, Shapes, CoreOK, Core
  <2> QED
    BY <1>1, <1>2, <2>1, <2>2
<1>7. /\ masks.flag \in Reasons \union {"hold"} /\ masks.count \in 0..1
      /\ masks.exec \in {None} \union 0..LastBar /\ masks.pending \in {None} \union 0..(LastBar + 1)
  BY DEF TypeInv, Shapes, Masks
<1>8. walk.size + walk.pending \in 0..(2 * setup.stake)
  <2>1. walk.inTrade \in BOOLEAN /\ walk.size \in Int /\ walk.pending \in Int
    BY DEF TypeInv, Shapes, Walk
  <2>2. CASE walk.inTrade
    BY <1>1, <2>1, <2>2 DEF TypeInv, WalkOK
  <2>3. CASE ~walk.inTrade
    BY <1>1, <2>1, <2>3 DEF TypeInv, WalkOK
  <2> QED
    BY <2>2, <2>3
<1> QED
  BY <1>2, <1>3, <1>4, <1>5, <1>6, <1>7, <1>8 DEF TypeOK

-----------------------------------------------------------------------------
(* The types are inductive.                                                *)

LEMMA InitType == Init => TypeInv
<1> SUFFICES ASSUME Init PROVE TypeInv
  OBVIOUS
<1>1. setup \in Setups /\ LastBar \in Nat /\ setup.stake \in {1, 2} /\ Date(0) \in Nat /\ Date(bar) \in Nat
  BY SetupFacts, DateFacts DEF Init
<1>2. /\ bar = 0 /\ turn = "broker" /\ orders = <<>> /\ closed = <<>>
      /\ trade = [size |-> 0, entry |-> 0] /\ decision = "hold" /\ walk = Flat
      /\ core = [trimmed |-> FALSE, date |-> None, count |-> 0]
  BY DEF Init
<1>3. /\ now = [signal |-> FALSE, level |-> "mid", weak |-> FALSE]
      /\ masks = [pending |-> None, exec |-> None, trimmed |-> FALSE, date |-> None, count |-> 0,
                  entry |-> FALSE, flag |-> "hold", left |-> "none"]
  BY DEF Init
<1>4. Len(orders) = 0 /\ Len(closed) = 0 /\ orders \in Seq(Order) /\ closed \in Seq(Ended)
  BY <1>2
<1>5. now \in Facts /\ masks \in Masks
  BY <1>1, <1>3 DEF Facts, Levels, Masks, Reasons, None
<1>6. trade \in Book /\ core \in Core /\ walk \in Walk /\ decision \in Reasons \union {"hold", "entry"}
  BY <1>1, <1>2 DEF Book, Core, Walk, Flat, None
<1>7. Shapes
  BY <1>1, <1>2, <1>4, <1>5, <1>6 DEF Shapes
<1>8. BookOK
  BY <1>2, <1>4 DEF BookOK, Waits
<1>9. CoreOK
  BY <1>1, <1>2 DEF CoreOK, None
<1>10. MasksOK
  BY <1>2, <1>3 DEF MasksOK
<1>11. WalkOK
  BY <1>1, <1>2 DEF WalkOK, Flat
<1> QED
  BY <1>7, <1>8, <1>9, <1>10, <1>11 DEF TypeInv

\* The types do not depend on anything but the setup.
LEMMA StillTypes ==
    ASSUME setup' = setup
    PROVE  Ended' = Ended /\ Book' = Book /\ Masks' = Masks
BY Still DEF Ended, Book, Masks

\* What the broker's step leaves of the queue.
LEMMA Popped ==
    ASSUME orders \in Seq(Order), orders # <<>>, orders' = Tail(orders)
    PROVE  /\ orders' \in Seq(Order) /\ Len(orders) \in Nat \ {0} /\ Len(orders') = Len(orders) - 1
           /\ Head(orders) = orders[1] /\ Head(orders) \in Order
           /\ \A i \in 1..Len(orders') : orders'[i] = orders[i + 1] /\ i + 1 \in 1..Len(orders)
           /\ \A kind : Waits(kind)' => Waits(kind)
           /\ \A kind : Waits(kind) => Head(orders).kind = kind \/ Waits(kind)'
<1>1. /\ orders' \in Seq(Order) /\ Len(orders) \in Nat \ {0} /\ Len(orders') = Len(orders) - 1
      /\ Head(orders) = orders[1] /\ Head(orders) \in Order
  OBVIOUS
<1>2. \A i \in 1..Len(orders') : orders'[i] = orders[i + 1] /\ i + 1 \in 1..Len(orders)
  BY <1>1
<1>3. \A kind : Waits(kind)' => Waits(kind)
  BY <1>1, <1>2 DEF Waits
<1>4. \A kind : Waits(kind) => Head(orders).kind = kind \/ Waits(kind)'
  <2> SUFFICES ASSUME NEW kind, NEW i \in 1..Len(orders), orders[i].kind = kind, i # 1
               PROVE  Waits(kind)'
    BY <1>1 DEF Waits
  <2>1. i - 1 \in 1..Len(orders') /\ (i - 1) + 1 = i
    BY <1>1
  <2> QED
    BY <1>2, <2>1 DEF Waits
<1> QED
  BY <1>1, <1>2, <1>3, <1>4

LEMMA PortionFacts ==
    ASSUME NEW kind, NEW size \in 1..2
    PROVE  /\ Portion(kind, size) \in 1..size
           /\ kind # "trim" => Portion(kind, size) = size
           /\ kind = "trim" => Portion(kind, size) = 1
BY DEF Portion

\* What the types say of the broker's state.
LEMMA Basics ==
    ASSUME TypeInv
    PROVE  /\ setup \in Setups /\ setup.stake \in {1, 2} /\ setup.fill \in {"close", "next_bar"}
           /\ LastBar \in Nat /\ bar \in 0..LastBar
           /\ trade.size \in 0..setup.stake /\ trade.entry \in 0..LastBar
           /\ trade.size > 0 => bar > 0 /\ trade.entry <= FillBar /\ FillBar \in 0..LastBar /\ FillBar <= bar
           /\ orders # <<>> => bar > 0 /\ FillBar \in 0..LastBar
           /\ orders \in Seq(Order) /\ closed \in Seq(Ended)
<1>1. Shapes /\ BookOK
  BY DEF TypeInv
<1>2. /\ setup \in Setups /\ setup.stake \in {1, 2} /\ setup.fill \in {"close", "next_bar"}
      /\ LastBar \in Nat /\ bar \in 0..LastBar
  BY <1>1, SetupFacts DEF Shapes
<1>3. trade.size \in 0..setup.stake /\ trade.entry \in 0..LastBar
  BY <1>1 DEF Shapes, Book
<1>4. trade.size > 0 => bar > 0 /\ trade.entry <= FillBar
  BY <1>1, <1>2, <1>3 DEF BookOK
<1>5. orders # <<>> => bar > 0
  BY <1>1, <1>2 DEF BookOK
<1>6. bar > 0 => FillBar \in 0..LastBar /\ FillBar <= bar
  BY <1>2 DEF FillBar
<1> QED
  BY <1>1, <1>2, <1>3, <1>4, <1>5, <1>6 DEF Shapes

\* A step of the broker, in its three cases.
LEMMA FillCases ==
    ASSUME TypeInv, Fill
    PROVE  /\ ~Waits("buy")' /\ orders' \in Seq(Order) /\ trade' \in Book
           /\ \/ /\ Waits("buy") /\ Len(orders) = 1 /\ orders' = <<>>
                 /\ trade.size = 0 /\ trade'.size = setup.stake /\ trade'.entry = FillBar
                 /\ closed' = closed
              \/ /\ Head(orders).kind # "buy" /\ trade.size > 0
                 /\ trade'.entry = trade.entry
                 /\ Head(orders).kind = "close" => trade'.size = 0
                 /\ Head(orders).kind = "trim" => trade'.size = trade.size - 1
                 /\ \E sold \in Ended :
                      /\ sold.entry = trade.entry /\ sold.exit = FillBar /\ sold.why = Head(orders).why
                      /\ closed' \in Seq(Ended) /\ Len(closed') = Len(closed) + 1
                      /\ closed'[Len(closed) + 1] = sold
                      /\ \A k \in 1..Len(closed) : closed'[k] = closed[k]
              \/ /\ Head(orders).kind # "buy" /\ trade.size = 0 /\ trade' = trade /\ closed' = closed
<1>1. /\ orders # <<>> /\ orders' = Tail(orders) /\ setup' = setup
      /\ FillBuy \/ FillSale \/ DropSale
  BY DEF Fill
<1>2. /\ setup.stake \in {1, 2} /\ LastBar \in Nat /\ bar > 0 /\ FillBar \in 0..LastBar
      /\ trade.size \in 0..setup.stake /\ trade.entry \in 0..LastBar
      /\ orders \in Seq(Order) /\ closed \in Seq(Ended) /\ BookOK /\ trade \in Book
  BY <1>1, Basics DEF TypeInv, Shapes
<1>3. /\ Head(orders) = orders[1] /\ Head(orders) \in Order /\ Len(orders) \in Nat \ {0}
      /\ orders' \in Seq(Order) /\ Len(orders') = Len(orders) - 1
  BY <1>1, <1>2, Popped
<1>4. Waits("buy") => Len(orders) = 1 /\ trade.size = 0
  BY <1>2 DEF BookOK
<1>5. Waits("buy")' => Waits("buy") /\ Len(orders) # 1
  <2>1. Waits("buy")' => Waits("buy")
    BY <1>1, <1>2, Popped
  <2>2. Waits("buy")' => Len(orders') > 0
    BY <1>3 DEF Waits
  <2> QED
    BY <1>3, <2>1, <2>2
<1>6. ~Waits("buy")'
  <2>1. Waits("buy") => Len(orders) = 1
    BY <1>4
  <2> QED
    BY <1>5, <2>1
<1>7. CASE FillBuy
  <2>1. Head(orders).kind = "buy" /\ trade' = [size |-> setup.stake, entry |-> FillBar] /\ closed' = closed
        /\ trade' \in Book
    BY <1>2, <1>7 DEF FillBuy, Book
  <2>2. Waits("buy")
    BY <1>3, <2>1 DEF Waits
  <2>3. Len(orders) = 1 /\ trade.size = 0
    BY <1>4, <2>2
  <2>4. orders' = <<>>
    BY <1>3, <2>3
  <2> QED
    BY <1>3, <1>6, <2>1, <2>2, <2>3, <2>4
<1>8. CASE FillSale
  <2> DEFINE part == Portion(Head(orders).kind, trade.size)
             new == [entry |-> trade.entry, exit |-> FillBar, why |-> Head(orders).why, size |-> part]
  <2>1. /\ Head(orders).kind # "buy" /\ trade.size > 0
        /\ trade' = [trade EXCEPT !.size = @ - part] /\ closed' = Append(closed, new)
    BY <1>8 DEF FillSale
  <2>2. trade.size \in 1..2
    BY <1>2, <2>1
  <2>3. /\ part \in 1..trade.size
        /\ Head(orders).kind # "trim" => part = trade.size
        /\ Head(orders).kind = "trim" => part = 1
    BY <2>2, PortionFacts
  <2> HIDE DEF part
  <2>4. Head(orders).kind \in {"close", "trim"} /\ Head(orders).why \in Whys
    BY <1>3, <2>1, Fields
  <2>5. trade' = [size |-> trade.size - part, entry |-> trade.entry] /\ trade' \in Book
    <3>1. trade' = [size |-> trade.size - part, entry |-> trade.entry]
      BY <1>2, <2>1 DEF Book
    <3>2. trade.size - part \in 0..setup.stake
      BY <1>2, <2>2, <2>3
    <3> QED
      BY <1>2, <3>1, <3>2 DEF Book
  <2>6. /\ new \in Ended /\ new.entry = trade.entry /\ new.exit = FillBar
        /\ new.why = Head(orders).why
    BY <1>2, <2>2, <2>3, <2>4 DEF Ended
  <2> HIDE DEF new
  <2>7. /\ closed' \in Seq(Ended) /\ Len(closed') = Len(closed) + 1
        /\ closed'[Len(closed) + 1] = new
        /\ \A k \in 1..Len(closed) : closed'[k] = closed[k]
    BY <1>2, <2>1, <2>6
  <2>8. \E sold \in Ended :
          /\ sold.entry = trade.entry /\ sold.exit = FillBar /\ sold.why = Head(orders).why
          /\ closed' \in Seq(Ended) /\ Len(closed') = Len(closed) + 1
          /\ closed'[Len(closed) + 1] = sold
          /\ \A k \in 1..Len(closed) : closed'[k] = closed[k]
    BY <2>6, <2>7
  <2>9. /\ Head(orders).kind = "close" => trade'.size = 0
        /\ Head(orders).kind = "trim" => trade'.size = trade.size - 1
    BY <2>2, <2>3, <2>5
  <2> QED
    BY <1>3, <1>6, <2>1, <2>5, <2>8, <2>9
<1>9. CASE DropSale
  BY <1>2, <1>3, <1>6, <1>9 DEF DropSale
<1> QED
  BY <1>1, <1>7, <1>8, <1>9

LEMMA FillType == TypeInv /\ Fill => TypeInv'
<1> SUFFICES ASSUME TypeInv, Fill PROVE TypeInv'
  OBVIOUS
<1>1. /\ turn \in {"broker", "settle"} /\ orders # <<>>
      /\ setup' = setup /\ bar' = bar /\ turn' = turn /\ now' = now
      /\ core' = core /\ decision' = decision /\ masks' = masks /\ walk' = walk
  BY DEF Fill
<1>2. Shapes /\ BookOK /\ CoreOK /\ MasksOK /\ WalkOK
  BY DEF TypeInv
<1>3. /\ bar > 0 /\ FillBar \in Nat /\ setup.stake \in {1, 2} /\ closed \in Seq(Ended)
      /\ trade.size > 0 => trade.entry <= FillBar
  BY <1>1, Basics
<1>4. LastBar' = LastBar /\ Ended' = Ended /\ Book' = Book /\ Masks' = Masks /\ FillBar' = FillBar
  BY <1>1, Still, StillTypes DEF FillBar
<1>5. ~Waits("buy")' /\ orders' \in Seq(Order) /\ trade' \in Book
  BY FillCases
<1>6. trade'.size > 0 => trade'.entry <= FillBar
  <2>1. trade'.entry \in {trade.entry, FillBar} /\ (trade'.entry = FillBar \/ trade.size > 0 \/ trade' = trade)
    BY FillCases
  <2> QED
    BY <1>3, <2>1
<1>7. closed' \in Seq(Ended) /\ \A k \in 1..Len(closed') : closed'[k].entry <= closed'[k].exit
  <2>1. \A k \in 1..Len(closed) : closed[k].entry <= closed[k].exit
    BY <1>2 DEF BookOK
  <2>2. CASE closed' = closed
    BY <1>3, <2>1, <2>2
  <2>3. CASE closed' # closed
    <3>1. trade.size > 0
      BY <2>3, FillCases
    <3>2. PICK sold \in Ended :
            /\ sold.entry = trade.entry /\ sold.exit = FillBar
            /\ closed' \in Seq(Ended) /\ Len(closed') = Len(closed) + 1
            /\ closed'[Len(closed) + 1] = sold
            /\ \A k \in 1..Len(closed) : closed'[k] = closed[k]
      BY <2>3, FillCases
    <3> QED
      BY <1>3, <2>1, <3>1, <3>2
  <2> QED
    BY <2>2, <2>3
<1>8. Shapes'
  BY <1>1, <1>2, <1>4, <1>5, <1>7 DEF Shapes
<1>9. BookOK'
  BY <1>1, <1>3, <1>4, <1>5, <1>6, <1>7 DEF BookOK
<1>10. CoreOK' /\ MasksOK' /\ WalkOK'
  BY <1>1, <1>2, Still DEF CoreOK, MasksOK, WalkOK
<1> QED
  BY <1>8, <1>9, <1>10 DEF TypeInv

\* What the adapter adds to its queue: the orders of the sessions' edges ...
SessionClose == [kind |-> "close", why |-> "session_close"]

\* ... and the exit rule's.
RuleOrder == [kind |-> IF ExitOnBar = "trim" THEN "trim" ELSE "close", why |-> ExitOnBar]

LEMMA Tuples ==
    ASSUME NEW a \in Order, NEW b \in Order
    PROVE  /\ <<a>> \in Seq(Order) /\ Len(<<a>>) = 1 /\ <<a>>[1] = a /\ <<a>> \o <<>> = <<a>>
           /\ <<a>> \o <<b>> \in Seq(Order) /\ Len(<<a>> \o <<b>>) = 2
           /\ (<<a>> \o <<b>>)[1] = a /\ (<<a>> \o <<b>>)[2] = b
OBVIOUS

\* A decision on an open trade orders sales only: at most one for the rule, and
\* a close wherever the rule or an edge of the session asks for it.
LEMMA ManageQueue ==
    ASSUME Manage, orders = <<>>
    PROVE  /\ orders' \in Seq(Order)
           /\ \A i \in 1..Len(orders') :
                orders'[i] = SessionClose \/ (orders'[i] = RuleOrder /\ ExitOnBar # "hold")
           /\ \A i, j \in 1..Len(orders') : orders'[i].kind = "trim" /\ orders'[j].kind = "trim" => i = j
           /\ _is_last_bar_of_session(bar) => Waits("close")'
           /\ bar # 0 /\ _is_new_session(bar) => Waits("close")'
           /\ ExitOnBar \notin {"hold", "trim"} => Waits("close")'
           /\ ~_is_new_session(bar) /\ _is_last_bar_of_session(bar) => Len(orders') = 1
           /\ ~_is_new_session(bar) /\ ~_is_last_bar_of_session(bar) =>
                IF ExitOnBar = "hold" THEN orders' = <<>> ELSE Len(orders') = 1 /\ orders'[1] = RuleOrder
<1> DEFINE Q(q) == _enforce_flat_by_session_close(q)
           open == _enforce_flat_at_session_open(orders)
           made == IF ExitOnBar = "hold" THEN open ELSE <<RuleOrder>> \o open
<1>1. trade.size > 0 /\ orders' = Q(made)
  <2>1. CASE ExitOnBar = "hold"
    BY <2>1 DEF Manage
  <2>2. CASE ExitOnBar = "trim"
    BY <2>2 DEF Manage, RuleOrder
  <2>3. CASE ExitOnBar \notin {"hold", "trim"}
    BY <2>3 DEF Manage, RuleOrder
  <2> QED
    BY <2>1, <2>2, <2>3
<1>2. SessionClose \in Order /\ (ExitOnBar # "hold" => RuleOrder \in Order)
  BY DEF SessionClose, RuleOrder, Order, Whys, Reasons, ExitOnBar
<1>3. /\ SessionClose.kind = "close"
      /\ RuleOrder.kind \in {"close", "trim"} /\ (RuleOrder.kind = "trim" <=> ExitOnBar = "trim")
  BY DEF SessionClose, RuleOrder
<1>4. open = IF bar # 0 /\ _is_new_session(bar) THEN <<SessionClose>> ELSE <<>>
  BY <1>1 DEF _enforce_flat_at_session_open, SessionClose
<1>5. Q(made) = IF ~_is_last_bar_of_session(bar) THEN made
               ELSE <<SessionClose>> \o (IF _is_only_bar_of_session(bar) THEN made ELSE <<>>)
  BY <1>1 DEF _enforce_flat_by_session_close, SessionClose
<1>6. _is_only_bar_of_session(bar) <=> _is_new_session(bar) /\ _is_last_bar_of_session(bar)
  BY DEF _is_only_bar_of_session
<1> DEFINE edge == bar # 0 /\ _is_new_session(bar)
           Fits(q, hard) ==
             /\ q \in Seq(Order) /\ Len(q) \in Nat
             /\ \A i \in 1..Len(q) : q[i] = SessionClose \/ (q[i] = RuleOrder /\ ExitOnBar # "hold")
             /\ \A i, j \in 1..Len(q) : q[i].kind = "trim" /\ q[j].kind = "trim" => i = j
             /\ hard => \E i \in 1..Len(q) : q[i].kind = "close"
<1>7. Fits(made, edge \/ ExitOnBar \notin {"hold", "trim"})
  <2>1. CASE ExitOnBar = "hold" /\ ~edge
    <3>1. made = <<>>
      BY <1>4, <2>1
    <3> HIDE DEF made
    <3> QED
      BY <2>1, <3>1
  <2>2. CASE ExitOnBar = "hold" /\ edge
    <3>1. made = <<SessionClose>>
      BY <1>4, <2>2
    <3> HIDE DEF made
    <3>2. made \in Seq(Order) /\ Len(made) = 1 /\ made[1] = SessionClose
      BY <1>2, <3>1
    <3> QED
      BY <1>3, <2>2, <3>2
  <2>3. CASE ExitOnBar # "hold" /\ ~edge
    <3>1. made = <<RuleOrder>> \o <<>>
      BY <1>4, <2>3
    <3> HIDE DEF made
    <3>2. made \in Seq(Order) /\ Len(made) = 1 /\ made[1] = RuleOrder
      BY <1>2, <2>3, <3>1
    <3> QED
      BY <1>3, <2>3, <3>2
  <2>4. CASE ExitOnBar # "hold" /\ edge
    <3>1. made = <<RuleOrder>> \o <<SessionClose>>
      BY <1>4, <2>4
    <3> HIDE DEF made
    <3>2. made \in Seq(Order) /\ Len(made) = 2 /\ made[1] = RuleOrder /\ made[2] = SessionClose
      <4> RuleOrder \in Order /\ SessionClose \in Order
        BY <1>2, <2>4
      <4> QED
        BY <3>1, Tuples
    <3> QED
      BY <1>3, <2>4, <3>2
  <2> QED
    BY <2>1, <2>2, <2>3, <2>4
<1>8. Fits(orders', edge \/ ExitOnBar \notin {"hold", "trim"} \/ _is_last_bar_of_session(bar))
  <2>1. CASE ~_is_last_bar_of_session(bar)
    <3>1. orders' = made
      BY <1>1, <1>5, <2>1
    <3> HIDE DEF made, edge
    <3> QED
      BY <1>7, <2>1, <3>1
  <2>2. CASE _is_last_bar_of_session(bar) /\ ~_is_only_bar_of_session(bar)
    <3>1. orders' = <<SessionClose>> \o <<>>
      BY <1>1, <1>5, <2>2
    <3>2. orders' \in Seq(Order) /\ Len(orders') = 1 /\ orders'[1] = SessionClose
      BY <1>2, <3>1
    <3> QED
      BY <1>3, <3>2
  <2>3. CASE _is_last_bar_of_session(bar) /\ _is_only_bar_of_session(bar)
    <3>1. orders' = <<SessionClose>> \o made
      BY <1>1, <1>5, <2>3
    <3> HIDE DEF made
    <3>2. made \in Seq(Order) /\ Len(made) \in Nat
      BY <1>7
    <3>3. /\ orders' \in Seq(Order) /\ Len(orders') = Len(made) + 1 /\ orders'[1] = SessionClose
          /\ \A i \in 1..Len(made) : orders'[i + 1] = made[i]
      BY <1>2, <3>1, <3>2
    <3>4. \A i \in 1..Len(orders') : i = 1 \/ (i - 1 \in 1..Len(made) /\ orders'[i] = made[i - 1])
      <4> SUFFICES ASSUME NEW i \in 1..Len(orders'), i # 1
                   PROVE  i - 1 \in 1..Len(made) /\ orders'[i] = made[i - 1]
        OBVIOUS
      <4>1. i - 1 \in 1..Len(made) /\ (i - 1) + 1 = i
        BY <3>2, <3>3
      <4> QED
        BY <3>3, <4>1
    <3>5. \A i, j \in 1..Len(orders') : orders'[i].kind = "trim" /\ orders'[j].kind = "trim" => i = j
      <4> SUFFICES ASSUME NEW i \in 1..Len(orders'), NEW j \in 1..Len(orders'),
                          orders'[i].kind = "trim", orders'[j].kind = "trim"
                   PROVE  i = j
        OBVIOUS
      <4>1. i # 1 /\ j # 1
        BY <1>3, <3>3
      <4>2. i - 1 = j - 1
        BY <1>7, <3>4, <4>1
      <4> QED
        BY <3>2, <3>3, <4>2
    <3>6. \A i \in 1..Len(orders') : orders'[i] = SessionClose \/ (orders'[i] = RuleOrder /\ ExitOnBar # "hold")
      BY <1>7, <3>3, <3>4
    <3>7. 1 \in 1..Len(orders') /\ orders'[1].kind = "close"
      BY <1>3, <3>2, <3>3
    <3> QED
      BY <3>2, <3>3, <3>5, <3>6, <3>7
  <2> QED
    BY <2>1, <2>2, <2>3
<1>9. ~_is_new_session(bar) /\ _is_last_bar_of_session(bar) => Len(orders') = 1
  <2> SUFFICES ASSUME ~_is_new_session(bar), _is_last_bar_of_session(bar)
               PROVE  Len(orders') = 1
    OBVIOUS
  <2>1. orders' = <<SessionClose>> \o <<>>
    BY <1>1, <1>5, <1>6
  <2> QED
    BY <1>2, <2>1
<1>10. ~_is_new_session(bar) /\ ~_is_last_bar_of_session(bar) =>
         IF ExitOnBar = "hold" THEN orders' = <<>> ELSE Len(orders') = 1 /\ orders'[1] = RuleOrder
  <2> SUFFICES ASSUME ~_is_new_session(bar), ~_is_last_bar_of_session(bar)
               PROVE  IF ExitOnBar = "hold" THEN orders' = <<>> ELSE Len(orders') = 1 /\ orders'[1] = RuleOrder
    OBVIOUS
  <2>1. orders' = made /\ open = <<>>
    BY <1>1, <1>4, <1>5
  <2>2. CASE ExitOnBar = "hold"
    BY <2>1, <2>2
  <2>3. CASE ExitOnBar # "hold"
    <3>1. orders' = <<RuleOrder>> \o <<>>
      BY <2>1, <2>3
    <3> QED
      BY <1>2, <2>3, <3>1
  <2> QED
    BY <2>2, <2>3
<1> QED
  <2> HIDE DEF made, open, Q
  <2> QED
    BY <1>8, <1>9, <1>10 DEF Waits

\* Without a trade the adapter orders a buy, but for a session's last bar.
LEMMA SeekQueue ==
    ASSUME Seek, orders = <<>>
    PROVE  /\ orders' = <<>> \/ (orders' = <<[kind |-> "buy", why |-> "entry"]>> /\ Buys(_sync_session_state))
           /\ orders' # <<>> => ~_is_last_bar_of_session(bar) \/ _is_only_bar_of_session(bar)
           /\ Buys(_sync_session_state) /\ ~_is_last_bar_of_session(bar) => orders' # <<>>
<1> DEFINE buy == [kind |-> "buy", why |-> "entry"]
           made == IF Buys(_sync_session_state) THEN <<buy>> ELSE <<>>
<1>1. trade.size = 0 /\ _enforce_flat_at_session_open(orders) = <<>>
  BY DEF Seek, _enforce_flat_at_session_open
<1>2. Append(<<>>, buy) = <<buy>>
  OBVIOUS
<1>3. orders' = _enforce_flat_by_session_close(made)
  BY <1>1, <1>2, Zenon DEF Seek
<1>4. orders' = IF ~_is_last_bar_of_session(bar) THEN made
               ELSE <<>> \o (IF _is_only_bar_of_session(bar) THEN made ELSE <<>>)
  BY <1>1, <1>3 DEF _enforce_flat_by_session_close
<1>5. <<>> \o made = made /\ <<>> \o <<>> = <<>>
  OBVIOUS
<1>6. orders' = IF ~_is_last_bar_of_session(bar) \/ _is_only_bar_of_session(bar) THEN made ELSE <<>>
  <2> HIDE DEF made
  <2> QED
    BY <1>4, <1>5
<1>7. <<buy>> # <<>>
  OBVIOUS
<1> HIDE DEF buy
<1>8. orders' = <<>> \/ (orders' = <<buy>> /\ Buys(_sync_session_state))
  BY <1>6
<1>9. orders' # <<>> => ~_is_last_bar_of_session(bar) \/ _is_only_bar_of_session(bar)
  BY <1>6
<1>10. Buys(_sync_session_state) /\ ~_is_last_bar_of_session(bar) => orders' # <<>>
  BY <1>6, <1>7
<1> QED
  BY <1>8, <1>9, <1>10 DEF buy

\* What the decision leaves of the core: it knows of a close and of a buy.
LEMMA ManageCore ==
    ASSUME Manage, core \in Core
    PROVE  /\ trade.size > 0 /\ decision' = ExitOnBar
           /\ ExitOnBar = "hold" => core' = core
           /\ ExitOnBar = "trim" =>
                /\ ~core.trimmed /\ core'.trimmed /\ core'.date = core.date /\ core'.count = core.count
           /\ ExitOnBar \notin {"hold", "trim"} =>
                /\ core'.date = Date(bar) /\ ~core'.trimmed
                /\ core'.count = 1 + IF core.date = Date(bar) THEN core.count ELSE 0
<1>1. trade.size > 0 /\ decision' = ExitOnBar
  BY DEF Manage
<1>2. ExitOnBar = "hold" => core' = core
  BY DEF Manage
<1>3. ExitOnBar = "trim" => core' = [core EXCEPT !.trimmed = TRUE]
  BY DEF Manage
<1>4. ExitOnBar = "trim" => ~core.trimmed
  BY DEF ExitOnBar
<1>5. ExitOnBar \notin {"hold", "trim"} => core' = on_trade_closed
  BY DEF Manage
<1> QED
  BY <1>1, <1>2, <1>3, <1>4, <1>5 DEF Core, on_trade_closed

LEMMA SeekCore ==
    ASSUME Seek, core \in Core
    PROVE  /\ trade.size = 0 /\ decision' \in {"entry", "hold"} /\ core'.date = Date(bar)
           /\ core'.count = (IF core.date \in {None, Date(bar)} THEN core.count ELSE 0)
           /\ decision' = "entry" <=> Buys(_sync_session_state)
           /\ Buys(_sync_session_state) <=> MayEnter(bar) /\ now.signal /\ core'.count = 0
           /\ core'.trimmed = IF decision' = "entry" THEN FALSE ELSE core.trimmed
<1>1. trade.size = 0 /\ decision' \in {"entry", "hold"} /\ (decision' = "entry" <=> Buys(_sync_session_state))
  BY DEF Seek
<1>2. /\ _sync_session_state \in [trimmed : BOOLEAN, date : {Date(bar)}, count : Nat]
      /\ _sync_session_state.trimmed = core.trimmed
      /\ _sync_session_state.count = IF core.date \in {None, Date(bar)} THEN core.count ELSE 0
  BY DEF _sync_session_state, Core
<1>3. core' = IF decision' = "entry" THEN [_sync_session_state EXCEPT !.trimmed = FALSE] ELSE _sync_session_state
  BY <1>1 DEF Seek
<1>4. Buys(_sync_session_state) <=> MayEnter(bar) /\ now.signal /\ _sync_session_state.count = 0
  BY DEF Buys
<1> HIDE DEF _sync_session_state
<1> QED
  BY <1>1, <1>2, <1>3, <1>4

LEMMA ExitRange == ExitOnBar \in Reasons \union {"hold"}
BY DEF ExitOnBar, Reasons

LEMMA CoreRecord ==
    ASSUME core \in Core, Manage \/ Seek, Date(bar) \in Nat
    PROVE  core' \in Core
<1>1. CASE Manage
  <2>1. core' = core \/ core' = [core EXCEPT !.trimmed = TRUE] \/ core' = on_trade_closed
    BY <1>1, Zenon DEF Manage
  <2>2. [core EXCEPT !.trimmed = TRUE] \in Core
    BY DEF Core
  <2>3. core.count \in Nat
    BY DEF Core
  <2>4. on_trade_closed \in Core
    BY <2>3 DEF Core, on_trade_closed
  <2> QED
    BY <2>1, <2>2, <2>4
<1>2. CASE Seek
  <2>1. _sync_session_state \in Core
    BY DEF _sync_session_state, Core
  <2>2. core' = _sync_session_state \/ core' = [_sync_session_state EXCEPT !.trimmed = FALSE]
    BY <1>2, Zenon DEF Seek
  <2> HIDE DEF _sync_session_state
  <2> QED
    BY <2>1, <2>2 DEF Core
<1> QED
  BY <1>1, <1>2

LEMMA AdapterNextType == TypeInv /\ AdapterNext => TypeInv'
<1> SUFFICES ASSUME TypeInv, AdapterNext PROVE TypeInv'
  OBVIOUS
<1>1. /\ turn = "next" /\ turn' = "masks" /\ setup' = setup /\ bar' = bar /\ now' = now
      /\ trade' = trade /\ closed' = closed /\ masks' = masks /\ walk' = walk
      /\ \/ bar < setup.first /\ orders' = orders /\ core' = core /\ decision' = decision
         \/ bar >= setup.first /\ (Manage \/ Seek)
  BY DEF AdapterNext
<1>2. /\ Shapes /\ BookOK /\ CoreOK /\ MasksOK /\ WalkOK
      /\ trade \in Book /\ orders \in Seq(Order) /\ closed \in Seq(Ended) /\ bar \in 0..LastBar
      /\ setup \in Setups /\ core \in Core /\ decision \in Reasons \union {"hold", "entry"}
  BY DEF TypeInv, Shapes
<1>3. /\ LastBar \in Nat /\ setup.stake \in {1, 2} /\ LastBar' = LastBar /\ Date(bar) \in Nat
      /\ Date(bar)' = Date(bar)
  BY <1>1, <1>2, SetupFacts, DateFacts, Still
<1>4. Ended' = Ended /\ Book' = Book /\ Masks' = Masks /\ FillBar' = FillBar
  BY <1>1, StillTypes DEF FillBar
<1>5. orders = <<>>
  BY <1>1, <1>2 DEF BookOK
<1>6. trade.size \in Nat /\ core.count \in Nat /\ core.date \in {None} \union Nat
  BY <1>2, <1>3 DEF Book, Core
<1>7. CASE bar < setup.first
  <2>1. orders' = orders /\ core' = core /\ decision' = decision
    BY <1>1, <1>2, <1>7, SetupFacts
  <2>2. Shapes'
    BY <1>1, <1>2, <1>3, <1>4, <2>1 DEF Shapes
  <2>3. BookOK'
    BY <1>1, <1>2, <1>4, <1>5, <2>1 DEF BookOK, Waits
  <2>4. CoreOK' /\ MasksOK' /\ WalkOK'
    BY <1>1, <1>2, <1>3, <2>1 DEF CoreOK, MasksOK, WalkOK
  <2> QED
    BY <2>2, <2>3, <2>4 DEF TypeInv
<1>8. CASE bar >= setup.first
  <2>1. Manage \/ Seek
    BY <1>1, <1>2, <1>8, SetupFacts
  <2>2. core' \in Core /\ decision' \in Reasons \union {"hold", "entry"}
    BY <1>2, <1>3, <2>1, CoreRecord, ManageCore, SeekCore, ExitRange
  <2>3. orders' \in Seq(Order) /\ (Waits("buy")' => Len(orders') = 1 /\ trade.size = 0)
        /\ (bar = 0 => orders' = <<>>)
    <3>1. CASE Manage
      <4>1. orders' \in Seq(Order)
        BY <1>5, <3>1, ManageQueue
      <4>2. SessionClose.kind # "buy" /\ RuleOrder.kind # "buy"
        BY DEF SessionClose, RuleOrder
      <4>3. \A i \in 1..Len(orders') : orders'[i].kind # "buy"
        BY <1>5, <3>1, <4>2, ManageQueue
      <4>4. bar # 0
        BY <1>2, <1>6, <3>1, ManageCore DEF BookOK
      <4> QED
        BY <4>1, <4>3, <4>4 DEF Waits
    <3>2. CASE Seek
      <4>1. [kind |-> "buy", why |-> "entry"] \in Order
        BY DEF Order, Whys
      <4>2. bar = 0 => ~Buys(_sync_session_state)
        BY DEF Buys, MayEnter
      <4>3. trade.size = 0
        BY <3>2 DEF Seek
      <4>4. orders' = <<>> \/ orders' = <<[kind |-> "buy", why |-> "entry"]>>
        BY <1>5, <3>2, SeekQueue
      <4>5. bar = 0 => orders' = <<>>
        BY <1>5, <3>2, <4>2, SeekQueue
      <4>6. orders' \in Seq(Order) /\ Len(orders') \in {0, 1}
        <5> DEFINE buy == [kind |-> "buy", why |-> "entry"]
        <5>1. buy \in Order /\ (orders' = <<>> \/ orders' = <<buy>>)
          BY <4>1, <4>4
        <5> HIDE DEF buy
        <5>2. orders' = <<>> => orders' \in Seq(Order) /\ Len(orders') = 0
          OBVIOUS
        <5>3. orders' = <<buy>> => orders' \in Seq(Order) /\ Len(orders') = 1
          BY <5>1
        <5> QED
          BY <5>1, <5>2, <5>3
      <4> QED
        BY <4>3, <4>5, <4>6 DEF Waits
    <3> QED
      BY <2>1, <3>1, <3>2
  <2>4. \/ core'.count <= bar /\ core'.date <= Date(bar) /\ core'.date # None
        \/ core'.count = core.count /\ core'.date = core.date
    <3>1. bar > 0 => core.count <= bar - 1
      BY <1>1, <1>2 DEF CoreOK
    <3>2. core.count <= bar
      BY <1>2 DEF CoreOK
    <3>3. CASE Manage
      <4>1. bar > 0
        BY <1>2, <1>3, <1>6, <3>3, ManageCore DEF BookOK
      <4>2. CASE ExitOnBar \in {"hold", "trim"}
        BY <1>2, <3>3, <4>2, ManageCore
      <4>3. CASE ExitOnBar \notin {"hold", "trim"}
        <5>1. core'.date = Date(bar) /\ core'.count \in {1, 1 + core.count}
          BY <1>2, <3>3, <4>3, ManageCore
        <5> QED
          BY <1>2, <1>3, <1>6, <3>1, <4>1, <5>1 DEF None
      <4> QED
        BY <4>2, <4>3
    <3>4. CASE Seek
      <4>1. core'.date = Date(bar) /\ core'.count \in {0, core.count}
        BY <1>2, <3>4, SeekCore
      <4> QED
        BY <1>2, <1>3, <1>6, <3>2, <4>1 DEF None
    <3> QED
      BY <2>1, <3>3, <3>4
  <2>5. Shapes'
    BY <1>1, <1>2, <1>3, <1>4, <2>2, <2>3 DEF Shapes
  <2>6. BookOK'
    BY <1>1, <1>2, <1>4, <2>3 DEF BookOK
  <2>7. CoreOK'
    BY <1>1, <1>2, <1>3, <1>6, <2>4 DEF CoreOK
  <2>8. MasksOK' /\ WalkOK'
    BY <1>1, <1>2 DEF MasksOK, WalkOK
  <2> QED
    BY <2>5, <2>6, <2>7, <2>8 DEF TypeInv
<1> QED
  BY <1>2, <1>7, <1>8, SetupFacts

LEMMA BrokerNextType == TypeInv /\ BrokerNext => TypeInv'
<1> SUFFICES ASSUME TypeInv, BrokerNext PROVE TypeInv'
  OBVIOUS
<1>1. /\ turn = "broker" /\ orders = <<>> /\ now' \in Facts /\ turn' = "next"
      /\ setup' = setup /\ bar' = bar /\ trade' = trade /\ orders' = orders /\ closed' = closed
      /\ core' = core /\ decision' = decision /\ masks' = masks /\ walk' = walk
  BY DEF BrokerNext
<1>2. Ended' = Ended /\ Book' = Book /\ Masks' = Masks /\ FillBar' = FillBar /\ LastBar' = LastBar
      /\ Date(bar)' = Date(bar)
  BY <1>1, StillTypes, Still DEF FillBar
<1>3. Shapes'
  BY <1>1, <1>2 DEF TypeInv, Shapes
<1>4. BookOK'
  BY <1>1, <1>2 DEF TypeInv, BookOK, Waits
<1>5. CoreOK' /\ MasksOK' /\ WalkOK'
  BY <1>1, <1>2 DEF TypeInv, CoreOK, MasksOK, WalkOK
<1> QED
  BY <1>3, <1>4, <1>5 DEF TypeInv

\* The masks on one bar, field by field.  MasksFree: no entry was counted in
\* the session of bar b.
MasksFree(b) == masks.date = Date(b) => masks.count = 0

LEMMA EnterFacts ==
    ASSUME Shapes
    PROVE  /\ Enter(masks) \in Masks
           /\ \A f \in {"pending", "exec", "trimmed", "flag", "left"} : Enter(masks)[f] = masks[f]
           /\ Enter(masks).date = Date(bar)
           /\ Enter(masks).entry <=> MayEnter(bar) /\ now.signal /\ MasksFree(bar)
           /\ Enter(masks).count = IF Enter(masks).entry THEN 1
                                   ELSE IF masks.date = Date(bar) THEN masks.count ELSE 0
<1> DEFINE count == IF masks.date = Date(bar) THEN masks.count ELSE 0
           entry == MayEnter(bar) /\ now.signal /\ count = 0
<1>1. masks \in Masks /\ Date(bar) \in Nat /\ now.signal \in BOOLEAN
  BY DateFacts DEF Shapes, Facts
<1>2. masks.count \in 0..1 /\ count \in 0..1
  BY <1>1 DEF Masks
<1>3. entry \in BOOLEAN /\ (entry <=> MayEnter(bar) /\ now.signal /\ MasksFree(bar))
  BY DEF MasksFree
<1>4. Enter(masks) = [masks EXCEPT !.date = Date(bar), !.entry = entry,
                                   !.count = IF entry THEN count + 1 ELSE count]
  BY Zenon DEF Enter
<1> DEFINE c == IF entry THEN count + 1 ELSE count
<1>5. c \in 0..1 /\ c = IF entry THEN 1 ELSE count
  <2>1. entry => count = 0
    OBVIOUS
  <2> QED
    BY <1>2, <2>1
<1>6. Enter(masks) = [masks EXCEPT !.date = Date(bar), !.entry = entry, !.count = c]
  BY <1>4
<1> HIDE DEF c, entry, count
<1>7. Enter(masks) \in Masks
  BY <1>1, <1>3, <1>5, <1>6 DEF Masks
<1>8. \A f \in {"pending", "exec", "trimmed", "flag", "left"} : Enter(masks)[f] = masks[f]
  BY <1>1, <1>6 DEF Masks
<1>9. Enter(masks).date = Date(bar) /\ Enter(masks).entry = entry /\ Enter(masks).count = c
  BY <1>1, <1>6 DEF Masks
<1> QED
  BY <1>3, <1>5, <1>7, <1>8, <1>9 DEF count

LEMMA StartedFacts ==
    ASSUME NEW m \in Masks, bar \in 0..LastBar
    PROVE  /\ Started(m) \in Masks
           /\ \A f \in {"date", "count", "entry", "flag", "left"} : Started(m)[f] = m[f]
           /\ m.pending = bar =>
                Started(m).exec = bar /\ ~Started(m).trimmed /\ Started(m).pending = None
           /\ m.pending # bar => Started(m) = m
<1>1. CASE m.pending = bar
  <2>1. Started(m) = [m EXCEPT !.exec = bar, !.trimmed = FALSE, !.pending = None]
    BY <1>1 DEF Started
  <2> QED
    BY <1>1, <2>1 DEF Masks
<1>2. CASE m.pending # bar
  BY <1>2 DEF Started
<1> QED
  BY <1>1, <1>2

LEMMA MaskRuleRange ==
    ASSUME NEW m
    PROVE  MaskRule(m) \in Reasons \union {"hold"}
BY DEF MaskRule, Reasons

Begun == Started(masks)
Rule == IF Begun.exec = None THEN "hold" ELSE MaskRule(Begun)

LEMMA MasksStep ==
    ASSUME Shapes, masks' = build_masks(Enter(masks))
    PROVE  /\ masks' \in Masks /\ Begun \in Masks
           /\ masks'.flag = Rule /\ Rule \in Reasons \union {"hold"} /\ masks'.date = Date(bar)
           /\ masks'.entry <=> MayEnter(bar) /\ now.signal /\ MasksFree(bar)
           /\ masks'.count = IF masks'.entry THEN 1
                             ELSE IF masks.date = Date(bar) THEN masks.count ELSE 0
           /\ Rule = "hold" => /\ masks'.exec = Begun.exec /\ masks'.trimmed = Begun.trimmed
                               /\ masks'.pending = IF masks'.entry THEN bar + 1 ELSE Begun.pending
                               /\ masks'.left = masks.left
           /\ Rule = "trim" => /\ masks'.exec = Begun.exec /\ masks'.trimmed
                               /\ masks'.pending = Begun.pending /\ masks'.left = masks.left
           /\ Rule \notin {"hold", "trim"} => /\ masks'.exec = None /\ ~masks'.trimmed
                                              /\ masks'.pending = None /\ masks'.left = Rule
<1> DEFINE m == Enter(masks)
           s == Started(m)
           rule == IF s.exec = None THEN "hold" ELSE MaskRule(s)
           flagged == [s EXCEPT !.flag = rule]
<1>1. /\ masks \in Masks /\ bar \in 0..LastBar /\ m \in Masks /\ s \in Masks /\ Begun \in Masks
      /\ LastBar \in Nat
  BY EnterFacts, StartedFacts, SetupFacts DEF Shapes, Begun
<1>2. m.pending = masks.pending /\ m.exec = masks.exec /\ m.trimmed = masks.trimmed /\ m.left = masks.left
  BY EnterFacts
<1>3. s.exec = Begun.exec /\ (s.trimmed <=> Begun.trimmed) /\ s.pending = Begun.pending
      /\ s.left = masks.left /\ s.date = m.date /\ s.count = m.count /\ (s.entry <=> m.entry)
  <2>1. CASE masks.pending = bar
    BY <1>1, <1>2, <2>1, StartedFacts DEF Begun
  <2>2. CASE masks.pending # bar
    BY <1>1, <1>2, <2>2, StartedFacts DEF Begun
  <2> QED
    BY <2>1, <2>2
<1>4. rule = Rule
  <2>1. MaskRule(s) = MaskRule(Begun)
    BY <1>3 DEF MaskRule
  <2> QED
    BY <1>3, <2>1 DEF Rule
<1>5. rule \in Reasons \union {"hold"}
  BY MaskRuleRange
<1>6. masks' = CASE rule = "hold" -> [flagged EXCEPT !.pending = IF m.entry THEN bar + 1 ELSE @]
                 [] rule = "trim" -> [flagged EXCEPT !.trimmed = TRUE]
                 [] OTHER -> [flagged EXCEPT !.exec = None, !.trimmed = FALSE, !.pending = None, !.left = rule]
  BY Zenon DEF build_masks
<1> DEFINE d == Date(bar)
<1>7. m.date = d /\ (m.entry <=> MayEnter(bar) /\ now.signal /\ MasksFree(bar))
      /\ m.count = IF m.entry THEN 1 ELSE IF masks.date = Date(bar) THEN masks.count ELSE 0
  BY EnterFacts
<1> HIDE DEF m, s, rule, d
<1>8. /\ flagged \in Masks /\ flagged.flag = rule
      /\ flagged.exec = s.exec /\ flagged.pending = s.pending /\ flagged.trimmed = s.trimmed
      /\ flagged.left = s.left /\ flagged.date = s.date /\ flagged.count = s.count /\ flagged.entry = s.entry
  BY <1>1, <1>5 DEF Masks
<1> HIDE DEF flagged
<1>9. /\ s.entry \in BOOLEAN /\ m.entry \in BOOLEAN /\ s.trimmed \in BOOLEAN /\ Begun.trimmed \in BOOLEAN
       /\ s.entry = m.entry /\ s.trimmed = Begun.trimmed
  <2>1. s.entry \in BOOLEAN /\ m.entry \in BOOLEAN /\ s.trimmed \in BOOLEAN /\ Begun.trimmed \in BOOLEAN
    BY <1>1 DEF Masks
  <2> QED
    BY <1>3, <2>1
<1>10. CASE rule = "hold"
  <2>1. masks' = [flagged EXCEPT !.pending = IF m.entry THEN bar + 1 ELSE flagged.pending]
    BY <1>6, <1>10
  <2>2. (IF m.entry THEN bar + 1 ELSE flagged.pending) \in {None} \union 0..(LastBar + 1)
    <3>1. flagged.pending \in {None} \union 0..(LastBar + 1) /\ bar + 1 \in 0..(LastBar + 1)
      BY <1>1, <1>8 DEF Masks
    <3> QED
      BY <3>1
  <2>3. /\ masks' \in Masks /\ masks'.flag = rule /\ masks'.date = s.date /\ masks'.count = s.count
        /\ masks'.entry = s.entry /\ masks'.exec = s.exec /\ masks'.trimmed = s.trimmed /\ masks'.left = s.left
        /\ masks'.pending = IF m.entry THEN bar + 1 ELSE s.pending
    BY <1>8, <2>1, <2>2 DEF Masks
  <2>4. /\ masks' \in Masks /\ masks'.flag = rule /\ masks'.date = d /\ masks'.count = m.count
        /\ masks'.entry = m.entry /\ masks'.exec = Begun.exec /\ masks'.trimmed = Begun.trimmed
        /\ masks'.left = masks.left /\ masks'.pending = IF masks'.entry THEN bar + 1 ELSE Begun.pending
    BY <1>3, <1>7, <1>9, <2>3
  <2> QED
    BY <1>1, <1>4, <1>5, <1>7, <1>10, <2>4 DEF d
<1>11. CASE rule = "trim"
  <2>1. masks' = [flagged EXCEPT !.trimmed = TRUE]
    BY <1>6, <1>11
  <2>2. /\ masks' \in Masks /\ masks'.flag = rule /\ masks'.date = s.date /\ masks'.count = s.count
        /\ masks'.entry = s.entry /\ masks'.exec = s.exec /\ masks'.trimmed = TRUE /\ masks'.left = s.left
        /\ masks'.pending = s.pending
    BY <1>8, <2>1 DEF Masks
  <2> QED
    BY <1>1, <1>3, <1>4, <1>5, <1>7, <1>11, <2>2 DEF d
<1>12. CASE rule \notin {"hold", "trim"}
  <2>1. masks' = [flagged EXCEPT !.exec = None, !.trimmed = FALSE, !.pending = None, !.left = rule]
    BY <1>6, <1>12
  <2>2. rule \in Reasons
    BY <1>5, <1>12
  <2>3. /\ masks' \in Masks /\ masks'.flag = rule /\ masks'.date = s.date /\ masks'.count = s.count
        /\ masks'.entry = s.entry /\ masks'.exec = None /\ masks'.trimmed = FALSE /\ masks'.left = rule
        /\ masks'.pending = None
    BY <1>8, <2>1, <2>2 DEF Masks
  <2> QED
    BY <1>1, <1>3, <1>4, <1>5, <1>7, <1>12, <2>3 DEF d
<1> QED
  BY <1>10, <1>11, <1>12

LEMMA MasksNextType == TypeInv /\ MasksNext => TypeInv'
<1> SUFFICES ASSUME TypeInv, MasksNext PROVE TypeInv'
  OBVIOUS
<1>1. /\ turn = "masks" /\ turn' = "walk" /\ masks' = build_masks(Enter(masks))
      /\ setup' = setup /\ bar' = bar /\ now' = now /\ trade' = trade /\ orders' = orders
      /\ closed' = closed /\ core' = core /\ decision' = decision /\ walk' = walk
  BY DEF MasksNext
<1>2. Ended' = Ended /\ Book' = Book /\ Masks' = Masks /\ FillBar' = FillBar /\ LastBar' = LastBar
      /\ Date(bar)' = Date(bar)
  BY <1>1, StillTypes, Still DEF FillBar
<1>3. Shapes /\ masks.pending \in {None, bar} /\ bar \in Nat
  BY <1>1, SetupFacts DEF TypeInv, MasksOK, Shapes
<1>4. masks' \in Masks
  BY <1>1, <1>3, MasksStep
<1>5. Shapes'
  BY <1>1, <1>2, <1>4 DEF TypeInv, Shapes
<1>6. BookOK'
  BY <1>1, <1>2 DEF TypeInv, BookOK, Waits
<1>7. CoreOK' /\ WalkOK'
  BY <1>1, <1>2 DEF TypeInv, CoreOK, WalkOK
<1>8. Begun.pending = None
  <2>1. bar \in 0..LastBar /\ masks \in Masks
    BY <1>3 DEF Shapes
  <2>2. CASE masks.pending = bar
    BY <2>1, <2>2, StartedFacts DEF Begun
  <2>3. CASE masks.pending # bar
    BY <1>3, <2>1, <2>3, StartedFacts DEF Begun
  <2> QED
    BY <2>2, <2>3
<1>9. masks'.pending \in {None, bar + 1}
  <2>1. CASE Rule = "hold"
    BY <1>1, <1>3, <1>8, <2>1, MasksStep
  <2>2. CASE Rule = "trim"
    BY <1>1, <1>3, <1>8, <2>2, MasksStep
  <2>3. CASE Rule \notin {"hold", "trim"}
    BY <1>1, <1>3, <2>3, MasksStep
  <2> QED
    BY <2>1, <2>2, <2>3
<1>10. MasksOK'
  BY <1>1, <1>9 DEF MasksOK
<1> QED
  BY <1>5, <1>6, <1>7, <1>10 DEF TypeInv

\* The walk has shares, or ordered some.
Holding == walk.size + walk.pending > 0

LEMMA SoldFacts ==
    ASSUME NEW w \in Walk, w.inTrade => w.size \in 1..4
    PROVE  /\ ~w.inTrade => Sold(w) = 0
           /\ w.inTrade /\ Exits => Sold(w) = w.size
           /\ w.inTrade /\ ~Exits => Sold(w) \in 0..(w.size - 1)
BY DEF Sold, Walk

LEMMA SellFacts ==
    ASSUME NEW w \in Walk, w.inTrade => w.size \in 1..4
    PROVE  /\ Sell(w) \in Walk
           /\ w.inTrade /\ Exits => Sell(w) = Flat
           /\ w.inTrade /\ ~Exits => /\ Sell(w).inTrade /\ Sell(w).size \in 1..w.size
                                     /\ Sell(w).pending = w.pending
           /\ ~w.inTrade => ~Sell(w).inTrade /\ Sell(w).size = w.size /\ Sell(w).pending = w.pending
<1>1. CASE w.inTrade /\ Exits
  BY <1>1 DEF Sell, Flat, Walk
<1>2. CASE ~(w.inTrade /\ Exits)
  <2> DEFINE t == w.trimmed \/ (w.inTrade /\ masks.flag = "trim")
             n == w.size - Sold(w)
  <2>1. Sell(w) = [w EXCEPT !.size = n, !.trimmed = t]
    BY <1>2 DEF Sell
  <2>2. w.size \in Int /\ Sold(w) \in Int /\ t \in BOOLEAN /\ n \in Int /\ n = w.size - Sold(w)
    BY <1>2, SoldFacts DEF Walk
  <2> HIDE DEF t, n
  <2>3. Sell(w) \in Walk /\ Sell(w).size = n /\ Sell(w).pending = w.pending /\ Sell(w).inTrade = w.inTrade
    BY <2>1, <2>2 DEF Walk
  <2> QED
    BY <1>2, <2>2, <2>3, SoldFacts
<1> QED
  BY <1>1, <1>2

LEMMA AwaitFacts ==
    ASSUME NEW w \in Walk, w.inTrade => w.size \in 1..4, ~w.inTrade => w.size = 0,
           masks.entry \in BOOLEAN, setup.stake \in {1, 2}
    PROVE  /\ Await(w) \in Walk /\ Await(w).size = w.size /\ Await(w).inTrade = w.inTrade
           /\ w.inTrade /\ Exits => Await(w).pending = 0 - w.size
           /\ w.inTrade /\ ~Exits => Await(w).pending \in (1 - w.size)..0
           /\ ~w.inTrade => Await(w).pending = IF masks.entry THEN 2 * setup.stake ELSE 0
<1>1. CASE masks.entry /\ ~w.inTrade
  <2>1. Await(w) = [w EXCEPT !.pending = 2 * setup.stake]
    BY <1>1 DEF Await
  <2> QED
    BY <1>1, <2>1 DEF Walk
<1>2. CASE ~(masks.entry /\ ~w.inTrade)
  <2> DEFINE t == w.trimmed \/ (w.inTrade /\ masks.flag = "trim")
             p == 0 - Sold(w)
  <2>1. Await(w) = [w EXCEPT !.pending = p, !.trimmed = t]
    BY <1>2 DEF Await
  <2>2. w.size \in Int /\ Sold(w) \in Int /\ t \in BOOLEAN /\ p \in Int
    BY SoldFacts DEF Walk
  <2>3. p = 0 - Sold(w)
    OBVIOUS
  <2> HIDE DEF t, p
  <2>4. Await(w) \in Walk /\ Await(w).size = w.size /\ Await(w).pending = p /\ Await(w).inTrade = w.inTrade
    BY <2>1, <2>2 DEF Walk
  <2>5. w.inTrade /\ Exits => p = 0 - w.size
    BY <2>2, <2>3, SoldFacts
  <2>6. w.inTrade /\ ~Exits => p \in (1 - w.size)..0
    BY <2>2, <2>3, SoldFacts
  <2>7. ~w.inTrade => p = 0 /\ ~masks.entry
    BY <1>2, <2>3, SoldFacts
  <2> QED
    BY <2>4, <2>5, <2>6, <2>7
<1> QED
  BY <1>1, <1>2

\* The walk on one bar: it stays flat or within one entry, and it goes on
\* holding unless the masks exit, or begins to when they enter.
LEMMA WalkStep ==
    ASSUME Shapes, WalkOK, setup' = setup, walk' = _build_order_sizes_1d(walk)
    PROVE  /\ walk' \in Walk /\ WalkOK'
           /\ bar < LastBar /\ (~Holding => ~Exits) =>
                (Holding' <=> (Holding /\ ~Exits) \/ (~Holding /\ masks.entry))
<1> DEFINE size == walk.size + walk.pending
           settled == IF walk.pending = 0 THEN walk
                      ELSE IF size <= 0 THEN Flat
                      ELSE [inTrade |-> TRUE, size |-> size, trimmed |-> walk.trimmed, pending |-> 0]
           entered == IF masks.entry /\ ~settled.inTrade
                        THEN [Flat EXCEPT !.inTrade = TRUE, !.size = 2 * setup.stake] ELSE settled
<1>1. /\ walk \in Walk /\ setup.stake \in {1, 2} /\ setup.fill \in {"close", "next_bar"}
      /\ masks.entry \in BOOLEAN /\ LastBar \in Nat /\ bar \in Nat
  BY SetupFacts DEF Shapes, Masks
<1>2. walk' = IF setup.fill = "close" THEN Sell(entered)
             ELSE IF bar < LastBar THEN Await(settled) ELSE Sell(settled)
  BY DEF _build_order_sizes_1d
<1>3. /\ walk.inTrade \in BOOLEAN /\ walk.size \in Int /\ walk.pending \in Int /\ walk.trimmed \in BOOLEAN
      /\ walk.inTrade => walk.size \in 1..(2 * setup.stake) /\ walk.pending <= 0 /\ 0 <= size
      /\ ~walk.inTrade => walk.size = 0 /\ walk.pending \in {0, 2 * setup.stake}
      /\ setup.fill = "close" => walk.pending = 0
  BY <1>1 DEF WalkOK, Walk
<1>4. size \in 0..(2 * setup.stake)
  BY <1>1, <1>3
<1>5. Flat \in Walk /\ ~Flat.inTrade /\ Flat.size = 0 /\ Flat.pending = 0
  BY DEF Flat, Walk
<1>6. /\ settled \in Walk /\ settled.pending = 0 /\ settled.size = size
      /\ settled.inTrade <=> size > 0
  <2>1. CASE walk.pending = 0
    <3>1. settled = walk /\ size = walk.size
      BY <1>3, <2>1
    <3> HIDE DEF settled, size
    <3> QED
      BY <1>1, <1>3, <2>1, <3>1
  <2>2. CASE walk.pending # 0 /\ size <= 0
    <3>1. settled = Flat /\ size = 0
      BY <1>4, <1>1, <2>2
    <3> HIDE DEF settled, size
    <3> QED
      BY <1>5, <3>1
  <2>3. CASE walk.pending # 0 /\ ~(size <= 0)
    <3>1. settled = [inTrade |-> TRUE, size |-> size, trimmed |-> walk.trimmed, pending |-> 0]
      BY <2>3
    <3>2. size > 0 /\ size \in Int
      BY <1>4, <2>3
    <3> HIDE DEF settled, size
    <3>3. settled \in Walk /\ settled.size = size /\ settled.inTrade = TRUE /\ settled.pending = 0
      BY <1>3, <3>1, <3>2 DEF Walk
    <3> QED
      BY <3>2, <3>3
  <2> QED
    BY <2>1, <2>2, <2>3
<1> HIDE DEF settled
<1>7. /\ entered \in Walk /\ entered.pending = 0 /\ (entered.inTrade <=> size > 0 \/ masks.entry)
      /\ entered.inTrade => entered.size \in 1..(2 * setup.stake)
      /\ ~entered.inTrade => entered.size = 0
  <2>1. CASE masks.entry /\ ~settled.inTrade
    <3>1. entered = [Flat EXCEPT !.inTrade = TRUE, !.size = 2 * setup.stake]
      BY <2>1
    <3>2. 2 * setup.stake \in 1..(2 * setup.stake) /\ 2 * setup.stake \in Int
      BY <1>1
    <3> HIDE DEF entered
    <3>3. entered \in Walk /\ entered.size = 2 * setup.stake /\ entered.inTrade = TRUE /\ entered.pending = 0
      BY <1>5, <3>1, <3>2 DEF Walk
    <3> QED
      BY <2>1, <3>2, <3>3
  <2>2. CASE ~(masks.entry /\ ~settled.inTrade)
    <3>1. entered = settled
      BY <2>2
    <3> HIDE DEF entered, size
    <3> QED
      BY <1>1, <1>4, <1>6, <2>2, <3>1
  <2> QED
    BY <2>1, <2>2
<1> HIDE DEF entered
<1>8. Holding <=> size > 0
  BY DEF Holding
<1>9. Holding' <=> walk'.size + walk'.pending > 0
  BY DEF Holding
<1> HIDE DEF size
<1> DEFINE Fit(w) ==
      /\ w \in Walk
      /\ w.inTrade => w.size \in 1..(2 * setup.stake) /\ w.pending <= 0 /\ 0 <= w.size + w.pending
      /\ ~w.inTrade => w.size = 0 /\ w.pending \in {0, 2 * setup.stake}
      /\ setup.fill = "close" => w.pending = 0
<1>10. CASE setup.fill = "close"
  <2>1. walk' = Sell(entered)
    BY <1>2, <1>10
  <2>2. entered.inTrade => entered.size \in 1..4
    BY <1>1, <1>7
  <2>3. CASE entered.inTrade /\ Exits
    <3>1. walk' = Flat
      BY <1>7, <2>1, <2>2, <2>3, SellFacts
    <3>2. Fit(walk')
      BY <1>5, <3>1
    <3> QED
      BY <1>1, <1>4, <1>5, <1>7, <1>8, <1>9, <2>3, <3>1, <3>2 DEF WalkOK
  <2>4. CASE entered.inTrade /\ ~Exits
    <3>1. walk' \in Walk /\ walk'.inTrade /\ walk'.size \in 1..entered.size /\ walk'.pending = 0
      BY <1>7, <2>1, <2>2, <2>4, SellFacts
    <3>2. walk'.size \in 1..(2 * setup.stake)
      BY <1>1, <1>7, <2>4, <3>1
    <3>3. Fit(walk')
      BY <1>1, <3>1, <3>2
    <3> QED
      BY <1>1, <1>4, <1>7, <1>8, <1>9, <2>4, <3>1, <3>2, <3>3 DEF WalkOK
  <2>5. CASE ~entered.inTrade
    <3>1. walk' \in Walk /\ ~walk'.inTrade /\ walk'.size = 0 /\ walk'.pending = 0
      BY <1>7, <2>1, <2>2, <2>5, SellFacts
    <3>2. Fit(walk')
      BY <1>1, <3>1
    <3> QED
      BY <1>1, <1>4, <1>7, <1>8, <1>9, <2>5, <3>1, <3>2 DEF WalkOK
  <2> QED
    BY <2>3, <2>4, <2>5
<1>11. CASE setup.fill # "close" /\ bar < LastBar
  <2>1. walk' = Await(settled)
    BY <1>2, <1>11
  <2>2. (settled.inTrade => settled.size \in 1..4) /\ (~settled.inTrade => settled.size = 0)
    BY <1>1, <1>4, <1>6
  <2>3. walk' \in Walk /\ walk'.size = size /\ walk'.inTrade = settled.inTrade
    BY <1>1, <1>6, <2>1, <2>2, AwaitFacts
  <2>4. CASE settled.inTrade /\ Exits
    <3>1. walk'.pending = 0 - size
      BY <1>1, <1>6, <2>1, <2>2, <2>4, AwaitFacts
    <3> QED
      BY <1>1, <1>4, <1>6, <1>8, <1>9, <1>11, <2>3, <2>4, <3>1 DEF WalkOK
  <2>5. CASE settled.inTrade /\ ~Exits
    <3>1. walk'.pending \in (1 - size)..0
      BY <1>1, <1>6, <2>1, <2>2, <2>5, AwaitFacts
    <3> QED
      BY <1>1, <1>4, <1>6, <1>8, <1>9, <1>11, <2>3, <2>5, <3>1 DEF WalkOK
  <2>6. CASE ~settled.inTrade
    <3>1. walk'.pending = IF masks.entry THEN 2 * setup.stake ELSE 0
      BY <1>1, <1>6, <2>1, <2>2, <2>6, AwaitFacts
    <3> QED
      BY <1>1, <1>4, <1>6, <1>8, <1>9, <1>11, <2>3, <2>6, <3>1 DEF WalkOK
  <2> QED
    BY <2>4, <2>5, <2>6
<1>12. CASE setup.fill # "close" /\ ~(bar < LastBar)
  <2>1. walk' = Sell(settled)
    BY <1>2, <1>12
  <2>2. settled.inTrade => settled.size \in 1..4
    BY <1>1, <1>4, <1>6
  <2>3. CASE settled.inTrade /\ Exits
    BY <1>1, <1>5, <1>6, <1>12, <2>1, <2>2, <2>3, SellFacts DEF WalkOK
  <2>4. CASE settled.inTrade /\ ~Exits
    <3>1. walk' \in Walk /\ walk'.inTrade /\ walk'.size \in 1..size /\ walk'.pending = 0
      BY <1>6, <2>1, <2>2, <2>4, SellFacts
    <3> QED
      BY <1>1, <1>4, <1>12, <3>1 DEF WalkOK
  <2>5. CASE ~settled.inTrade
    <3>1. walk' \in Walk /\ ~walk'.inTrade /\ walk'.size = size /\ walk'.pending = 0
      BY <1>6, <2>1, <2>2, <2>5, SellFacts
    <3> QED
      BY <1>1, <1>4, <1>6, <1>12, <2>5, <3>1 DEF WalkOK
  <2> QED
    BY <2>3, <2>4, <2>5
<1> QED
  BY <1>10, <1>11, <1>12

LEMMA WalkNextType == TypeInv /\ WalkNext => TypeInv'
<1> SUFFICES ASSUME TypeInv, WalkNext PROVE TypeInv'
  OBVIOUS
<1>1. /\ turn = "walk" /\ walk' = _build_order_sizes_1d(walk)
      /\ bar' = (IF bar < LastBar THEN bar + 1 ELSE bar)
      /\ turn' = (IF bar < LastBar THEN "broker" ELSE "finish")
      /\ setup' = setup /\ now' = now /\ trade' = trade /\ orders' = orders
      /\ closed' = closed /\ core' = core /\ decision' = decision /\ masks' = masks
  BY DEF WalkNext
<1>2. Shapes /\ BookOK /\ CoreOK /\ MasksOK /\ WalkOK
  BY DEF TypeInv
<1>3. /\ LastBar \in Nat /\ bar \in 0..LastBar /\ setup \in Setups
      /\ core.count \in Nat /\ core.date \in {None} \union Nat
  BY <1>2, SetupFacts DEF Shapes, Core
<1>4. Ended' = Ended /\ Book' = Book /\ Masks' = Masks /\ LastBar' = LastBar
  BY <1>1, StillTypes, Still
<1>5. walk' \in Walk /\ WalkOK'
  BY <1>1, <1>2, WalkStep
<1>6. bar' \in 0..LastBar /\ bar <= bar' /\ (bar' = 0 => bar = 0)
  BY <1>1, <1>3
<1>7. Shapes'
  BY <1>1, <1>2, <1>4, <1>5, <1>6 DEF Shapes
<1>8. BookOK'
  <2>1. trade.size > 0 => trade.entry <= FillBar'
    <3>1. trade.entry \in Nat /\ (trade.size > 0 => trade.entry <= FillBar)
      BY <1>2, <1>3 DEF Shapes, Book, BookOK
    <3> QED
      BY <1>1, <1>3, <1>6, <3>1 DEF FillBar
  <2> QED
    BY <1>1, <1>2, <1>6, <2>1 DEF BookOK, Waits
<1>9. CoreOK'
  <2>1. Date(bar)' = Date(bar') /\ Date(bar) \in Nat /\ Date(bar') \in Nat /\ Date(bar) <= Date(bar')
    BY <1>1, <1>3, <1>6, DateFacts DEF Date
  <2>2. core.date <= Date(bar')
    BY <1>2, <1>3, <2>1 DEF CoreOK, None
  <2>3. core.count <= bar
    BY <1>2 DEF CoreOK
  <2>4. core.date = None => core.count = 0
    BY <1>2 DEF CoreOK
  <2> QED
    BY <1>1, <1>3, <1>6, <2>1, <2>2, <2>3, <2>4 DEF CoreOK
<1>10. MasksOK'
  BY <1>1, <1>2, <1>3 DEF MasksOK
<1> QED
  BY <1>5, <1>7, <1>8, <1>9, <1>10 DEF TypeInv

\* What finalize_trades adds to the queue.
LEMMA FinalizeQueue ==
    ASSUME Finalize, orders \in Seq(Order), trade.size \in Nat
    PROVE  /\ orders' \in Seq(Order)
           /\ trade.size = 0 => orders' = orders
           /\ trade.size > 0 =>
                /\ Len(orders') = Len(orders) + 1
                /\ orders'[1] = [kind |-> "close", why |-> "finalize"]
                /\ \A i \in 1..Len(orders) : orders'[i + 1] = orders[i]
           /\ Waits("buy")' => Waits("buy")
<1> DEFINE last == [kind |-> "close", why |-> "finalize"]
<1>1. orders' = (IF trade.size > 0 THEN <<last>> ELSE <<>>) \o orders
  BY DEF Finalize
<1>2. last \in Order /\ last.kind # "buy"
  BY DEF Order, Whys
<1> HIDE DEF last
<1>3. CASE trade.size = 0
  <2>1. orders' = orders
    BY <1>1, <1>3
  <2> QED
    BY <1>3, <2>1 DEF Waits
<1>4. CASE trade.size > 0
  <2>1. orders' = <<last>> \o orders
    BY <1>1, <1>4
  <2>2. /\ orders' \in Seq(Order) /\ Len(orders') = Len(orders) + 1 /\ orders'[1] = last
        /\ \A i \in 1..Len(orders) : orders'[i + 1] = orders[i]
    BY <1>2, <2>1
  <2>3. Waits("buy")' => Waits("buy")
    <3> SUFFICES ASSUME NEW i \in 1..Len(orders'), orders'[i].kind = "buy" PROVE Waits("buy")
      BY DEF Waits
    <3>1. i # 1
      BY <1>2, <2>2
    <3>2. i - 1 \in 1..Len(orders) /\ (i - 1) + 1 = i
      BY <2>2, <3>1
    <3>3. orders[i - 1].kind = "buy"
      BY <2>2, <3>2
    <3> QED
      BY <3>2, <3>3 DEF Waits
  <2> QED
    BY <1>4, <2>2, <2>3 DEF last
<1> QED
  BY <1>3, <1>4

LEMMA FinalizeType == TypeInv /\ Finalize => TypeInv'
<1> SUFFICES ASSUME TypeInv, Finalize PROVE TypeInv'
  OBVIOUS
<1>1. /\ turn = "finish" /\ turn' = "settle"
      /\ setup' = setup /\ bar' = bar /\ now' = now /\ trade' = trade /\ closed' = closed
      /\ core' = core /\ decision' = decision /\ masks' = masks /\ walk' = walk
  BY DEF Finalize
<1>2. Shapes /\ BookOK /\ CoreOK /\ MasksOK /\ WalkOK
  BY DEF TypeInv
<1>3. trade.size \in Nat /\ orders \in Seq(Order)
  BY <1>2, SetupFacts DEF Shapes, Book
<1>4. Ended' = Ended /\ Book' = Book /\ Masks' = Masks /\ FillBar' = FillBar /\ LastBar' = LastBar
      /\ Date(bar)' = Date(bar)
  BY <1>1, StillTypes, Still DEF FillBar
<1>5. orders' \in Seq(Order) /\ (trade.size = 0 => orders' = orders) /\ (Waits("buy")' => Waits("buy"))
  BY <1>3, FinalizeQueue
<1>6. Waits("buy") => Len(orders) = 1 /\ trade.size = 0
  BY <1>2 DEF BookOK
<1>7. Shapes'
  BY <1>1, <1>2, <1>4, <1>5 DEF Shapes
<1>8. BookOK'
  BY <1>1, <1>2, <1>4, <1>5, <1>6 DEF BookOK
<1>9. CoreOK' /\ MasksOK' /\ WalkOK'
  BY <1>1, <1>2, <1>4 DEF CoreOK, MasksOK, WalkOK
<1> QED
  BY <1>7, <1>8, <1>9 DEF TypeInv

LEMMA StutterType == TypeInv /\ UNCHANGED vars => TypeInv'
<1> SUFFICES ASSUME TypeInv, UNCHANGED vars PROVE TypeInv'
  OBVIOUS
<1>1. /\ turn' = turn /\ orders' = orders
      /\ setup' = setup /\ bar' = bar /\ now' = now /\ trade' = trade /\ closed' = closed
      /\ core' = core /\ decision' = decision /\ masks' = masks /\ walk' = walk
  BY DEF vars
<1>2. Ended' = Ended /\ Book' = Book /\ Masks' = Masks /\ FillBar' = FillBar /\ LastBar' = LastBar
      /\ Date(bar)' = Date(bar)
  BY <1>1, StillTypes, Still DEF FillBar
<1>3. Shapes' /\ BookOK' /\ CoreOK' /\ MasksOK' /\ WalkOK'
  BY <1>1, <1>2 DEF TypeInv, Shapes, BookOK, Waits, CoreOK, MasksOK, WalkOK
<1> QED
  BY <1>3 DEF TypeInv

LEMMA TypeInvStep == TypeInv /\ [Next]_vars => TypeInv'
BY FillType, BrokerNextType, AdapterNextType, MasksNextType, WalkNextType, FinalizeType, StutterType DEF Next

\* In every behaviour of every setup sizes, flags and counters stay in range:
\* the broker holds no more than one order's shares, and the walk is never
\* short and never holds a second entry (vectorbt_support.py:202).
THEOREM TypeCorrect == Spec => []TypeOK
BY InitType, TypeInvStep, TypeInvImpliesTypeOK, PTL DEF Spec

-----------------------------------------------------------------------------
(* The walk follows the masks.                                             *)

\* Between bars the walk holds what the masks hold; within a bar the masks are
\* one step ahead.
WalkInv ==
    /\ turn \in {"broker", "next", "masks"} =>
        (Holding <=> masks.exec # None \/ masks.pending # None)
    /\ turn = "walk" =>
        /\ ~Holding =>
            masks.flag = "hold" /\ masks.exec = None /\ (masks.pending # None <=> masks.entry)
        /\ Holding =>
            IF Exits THEN masks.exec = None /\ masks.pending = None ELSE masks.exec # None

\* A pending entry is executed on its bar.
LEMMA BegunFacts ==
    ASSUME TypeInv, turn = "masks"
    PROVE  /\ Begun \in Masks /\ Begun.pending = None
           /\ Begun.exec # None <=> masks.exec # None \/ masks.pending # None
           /\ masks.pending = bar => Begun.exec = bar /\ ~Begun.trimmed
           /\ masks.pending = None => Begun = masks
<1>1. /\ masks \in Masks /\ bar \in 0..LastBar /\ LastBar \in Nat /\ masks.pending \in {None, bar}
  BY SetupFacts DEF TypeInv, Shapes, MasksOK
<1>2. bar # None
  BY <1>1 DEF None
<1>3. CASE masks.pending = bar
  BY <1>1, <1>2, <1>3, StartedFacts DEF Begun
<1>4. CASE masks.pending = None
  <2>1. Begun = masks
    BY <1>1, <1>2, <1>4, StartedFacts DEF Begun
  <2> QED
    BY <1>1, <1>2, <1>4, <2>1
<1> QED
  BY <1>1, <1>3, <1>4

LEMMA WalkInvStep == TypeInv /\ WalkInv /\ [Next]_vars => WalkInv'
<1> SUFFICES ASSUME TypeInv, WalkInv, [Next]_vars PROVE WalkInv'
  OBVIOUS
<1>1. ASSUME walk' = walk, masks' = masks, turn' = turn \/ (turn = "broker" /\ turn' = "next")
                                                        \/ (turn = "next" /\ turn' = "masks")
                                                        \/ turn' = "settle"
      PROVE  WalkInv'
  <2>1. (Holding' <=> Holding) /\ (Exits' <=> Exits)
    BY <1>1 DEF Holding, Exits
  <2> QED
    BY <1>1, <2>1 DEF WalkInv
<1>2. CASE Fill
  BY <1>1, <1>2 DEF Fill
<1>3. CASE BrokerNext
  BY <1>1, <1>3 DEF BrokerNext
<1>4. CASE AdapterNext
  BY <1>1, <1>4 DEF AdapterNext
<1>5. CASE MasksNext
  <2>1. turn = "masks" /\ turn' = "walk" /\ masks' = build_masks(Enter(masks)) /\ walk' = walk
    BY <1>5 DEF MasksNext
  <2>2. Shapes /\ bar \in Nat
    BY SetupFacts DEF TypeInv, Shapes
  <2>3. Begun.pending = None /\ (Holding <=> Begun.exec # None) /\ (Holding' <=> Holding)
    BY <2>1, BegunFacts DEF WalkInv, Holding
  <2>4. masks'.flag = Rule /\ Rule \in Reasons \union {"hold"} /\ masks'.entry \in BOOLEAN
    BY <2>1, <2>2, MasksStep DEF Masks
  <2>5. Exits' <=> Rule \notin {"hold", "trim"}
    BY <2>4 DEF Exits, Reasons
  <2>6. ASSUME ~Holding
        PROVE  masks'.flag = "hold" /\ masks'.exec = None /\ (masks'.pending # None <=> masks'.entry)
    <3>1. Rule = "hold"
      BY <2>3, <2>6 DEF Rule
    <3>2. masks'.exec = None /\ masks'.pending = IF masks'.entry THEN bar + 1 ELSE None
      BY <2>1, <2>2, <2>3, <2>6, <3>1, MasksStep
    <3> QED
      BY <2>2, <2>4, <3>1, <3>2 DEF None
  <2>7. ASSUME Holding
        PROVE  IF Exits' THEN masks'.exec = None /\ masks'.pending = None ELSE masks'.exec # None
    <3>1. CASE Rule \in {"hold", "trim"}
      BY <2>1, <2>2, <2>3, <2>5, <2>7, <3>1, MasksStep
    <3>2. CASE Rule \notin {"hold", "trim"}
      BY <2>1, <2>2, <2>5, <3>2, MasksStep
    <3> QED
      BY <3>1, <3>2
  <2> QED
    BY <2>1, <2>3, <2>6, <2>7 DEF WalkInv
<1>6. CASE WalkNext
  <2>1. /\ turn = "walk" /\ walk' = _build_order_sizes_1d(walk) /\ masks' = masks /\ setup' = setup
        /\ turn' = (IF bar < LastBar THEN "broker" ELSE "finish")
    BY <1>6 DEF WalkNext
  <2>2. Shapes /\ WalkOK
    BY DEF TypeInv
  <2>3. ~Holding => ~Exits
    BY <2>1 DEF WalkInv, Exits, Reasons
  <2>4. CASE bar < LastBar
    <3>1. Holding' <=> (Holding /\ ~Exits) \/ (~Holding /\ masks.entry)
      BY <2>1, <2>2, <2>3, <2>4, WalkStep
    <3> QED
      BY <2>1, <2>3, <2>4, <3>1 DEF WalkInv
  <2>5. CASE ~(bar < LastBar)
    BY <2>1, <2>5 DEF WalkInv
  <2> QED
    BY <2>4, <2>5
<1>7. CASE Finalize
  BY <1>1, <1>7 DEF Finalize
<1>8. CASE UNCHANGED vars
  BY <1>1, <1>8 DEF vars
<1> QED
  BY <1>2, <1>3, <1>4, <1>5, <1>6, <1>7, <1>8 DEF Next

\* As a bar comes, the walk holds shares or has ordered them if and only if the
\* masks hold a trade or wait to (exit_rules.py:575, vectorbt_support.py:202).
THEOREM WalkInStep == Spec => []WalkFollowsMasks
<1>1. Init => WalkInv
  BY DEF Init, WalkInv, Holding, Flat, None
<1>2. WalkInv => WalkFollowsMasks
  BY DEF WalkInv, WalkFollowsMasks, Holding
<1> QED
  BY <1>1, <1>2, InitType, TypeInvStep, WalkInvStep, PTL DEF Spec

-----------------------------------------------------------------------------
(* Trades end with their session.                                          *)

\* From the next bar on, a trade is of the session of the last fill; where
\* fills are at the close it outlives its session only if that was one bar.
HeldOK ==
    turn # "broker" /\ trade.size > 0 =>
        /\ Date(trade.entry) = Date(FillBar)
        /\ setup.fill = "close" /\ turn # "settle" /\ Date(bar) # Date(trade.entry) =>
            _is_only_bar_of_session(trade.entry)

\* On both edges of a session the open trade is being closed, and its last bar
\* buys only if it is the only one.
EdgeOK ==
    turn \in {"masks", "walk"} =>
        /\ Waits("buy") => ~_is_last_bar_of_session(bar) \/ _is_only_bar_of_session(bar)
        /\ trade.size > 0 /\ _is_last_bar_of_session(bar) => Waits("close")
        /\ trade.size > 0 /\ bar > 0 /\ _is_new_session(bar) => Waits("close")

\* While the broker fills, a trade of an earlier session has its close waiting.
FillingOK ==
    turn = "broker" /\ bar > 0 =>
        /\ Waits("buy") => ~_is_last_bar_of_session(bar - 1) \/ _is_only_bar_of_session(bar - 1)
        /\ trade.size > 0 /\ setup.fill = "next_bar" =>
            \/ Date(trade.entry) = Date(bar)
            \/ Date(trade.entry) = Date(bar - 1) /\ Waits("close")
        /\ trade.size > 0 /\ setup.fill = "close" =>
            \/ /\ Date(trade.entry) = Date(bar - 1)
               /\ Date(bar) = Date(bar - 1) \/ _is_only_bar_of_session(trade.entry) \/ Waits("close")
            \/ _is_only_bar_of_session(trade.entry) /\ trade.entry = bar - 2 /\ Waits("close")

FlatTrade(e, x) ==
    \/ Date(x) = Date(e)
    \/ /\ _is_new_session(x)
       /\ \A i \in e..(x - 1) : Date(i) = Date(e)
       /\ setup.fill = "next_bar" \/ _is_only_bar_of_session(e)

FlatTrades == \A k \in 1..Len(closed) : FlatTrade(closed[k].entry, closed[k].exit)

FlatInv == HeldOK /\ EdgeOK /\ FillingOK /\ FlatTrades

\* A sale made on a bar of another session is made on the first bar after the
\* trade's own.
LEMMA LateSale ==
    ASSUME TypeInv, NEW e \in 0..LastBar, NEW x \in 1..LastBar, e < x, Date(e) = Date(x - 1),
           setup.fill = "next_bar" \/ _is_only_bar_of_session(e)
    PROVE  FlatTrade(e, x)
<1>1. setup \in Setups /\ LastBar \in Nat /\ x - 1 \in 0..LastBar
  BY Basics
<1>2. \A i \in e..(x - 1) : Date(i) = Date(e)
  <2> TAKE i \in e..(x - 1)
  <2>1. i \in 0..LastBar /\ e <= i /\ i <= x - 1
    BY <1>1
  <2>2. Date(e) <= Date(i) /\ Date(i) <= Date(x - 1) /\ Date(e) \in Nat /\ Date(i) \in Nat
    BY <1>1, <2>1, DateFacts
  <2> QED
    BY <2>2
<1>3. Date(x) = Date(x - 1) \/ _is_new_session(x)
  BY <1>1 DEF _is_new_session
<1> QED
  BY <1>2, <1>3 DEF FlatTrade

LEMMA FlatFill == TypeInv /\ FlatInv /\ Fill => FlatInv'
<1> SUFFICES ASSUME TypeInv, FlatInv, Fill PROVE FlatInv'
  OBVIOUS
<1> DEFINE e == trade.entry
           edge == Date(bar - 1) = Date(bar)
<1>1. /\ turn \in {"broker", "settle"} /\ turn' = turn /\ setup' = setup /\ bar' = bar
      /\ orders # <<>> /\ orders' = Tail(orders)
  BY DEF Fill
<1>2. /\ setup \in Setups /\ LastBar \in Nat /\ bar \in 1..LastBar /\ bar - 1 \in 0..LastBar /\ FillBar \in 0..LastBar
      /\ trade.entry \in 0..LastBar /\ (trade.size > 0 => trade.entry <= FillBar)
      /\ setup.fill \in {"close", "next_bar"} /\ orders \in Seq(Order) /\ closed \in Seq(Ended)
      /\ trade.size \in 0..setup.stake /\ setup.stake \in {1, 2}
  BY <1>1, Basics
<1>3. /\ FillBar' = FillBar /\ (setup.fill = "next_bar" => FillBar = bar)
      /\ (setup.fill = "close" => FillBar = bar - 1)
  BY <1>1, <1>2 DEF FillBar
<1>4. \A kind : Waits(kind) => Head(orders).kind = kind \/ Waits(kind)'
  BY <1>1, <1>2, Popped
<1>5. Head(orders).kind \in {"buy", "close", "trim"}
  BY <1>1, <1>2, Popped, Fields
<1>6. ~Waits("buy")'
  BY FillCases
<1>7. trade'.size > 0 => \/ trade'.entry = FillBar /\ Waits("buy")
                         \/ trade'.entry = trade.entry /\ trade.size > 0 /\ Head(orders).kind = "trim"
  BY <1>2, <1>5, FillCases
<1>8. Waits("close") /\ Head(orders).kind = "trim" => Waits("close")'
  BY <1>4
<1>9. ASSUME turn = "broker", trade.size > 0
      PROVE  FlatTrade(trade.entry, FillBar)
  <2>1. CASE setup.fill = "next_bar"
    <3>1. Date(trade.entry) = Date(bar) \/ Date(trade.entry) = Date(bar - 1)
      BY <1>2, <1>9, <2>1 DEF FlatInv, FillingOK
    <3>2. CASE Date(trade.entry) = Date(bar)
      BY <1>3, <2>1, <3>2 DEF FlatTrade
    <3>3. CASE Date(trade.entry) # Date(bar)
      <4>1. trade.entry < bar
        BY <1>2, <1>3, <1>9, <2>1, <3>3
      <4> QED
        BY <1>2, <1>3, <2>1, <3>1, <3>3, <4>1, LateSale
    <3> QED
      BY <3>2, <3>3
  <2>2. CASE setup.fill = "close"
    <3>1. \/ Date(trade.entry) = Date(bar - 1)
          \/ _is_only_bar_of_session(trade.entry) /\ trade.entry = bar - 2
      BY <1>2, <1>9, <2>2 DEF FlatInv, FillingOK
    <3>2. CASE Date(trade.entry) = Date(bar - 1)
      BY <1>3, <2>2, <3>2 DEF FlatTrade
    <3>3. CASE _is_only_bar_of_session(trade.entry) /\ trade.entry = bar - 2
      <4>1. FillBar \in 1..LastBar /\ trade.entry < FillBar /\ FillBar - 1 = trade.entry
        BY <1>2, <1>3, <2>2, <3>3
      <4> QED
        BY <1>2, <3>3, <4>1, LateSale
    <3> QED
      BY <3>1, <3>2, <3>3
  <2> QED
    BY <1>2, <2>1, <2>2
<1>10. ASSUME turn = "settle", trade.size > 0
       PROVE  FlatTrade(trade.entry, FillBar)
  BY <1>10 DEF FlatInv, HeldOK, FlatTrade
<1>11. HeldOK'
  <2>1. CASE turn = "broker"
    BY <1>1, <2>1 DEF HeldOK
  <2>2. CASE turn = "settle"
    <3>1. trade.size > 0 => Date(trade.entry) = Date(FillBar)
      BY <2>2 DEF FlatInv, HeldOK
    <3>2. trade'.size > 0 => Date(trade'.entry) = Date(FillBar)
      BY <1>7, <3>1
    <3>3. trade'.size > 0 => Date(trade.entry)' = Date(FillBar)'
      BY <1>1, <1>3, <3>2, Still
    <3> QED
      BY <1>1, <2>2, <3>3 DEF HeldOK
  <2> QED
    BY <1>1, <2>1, <2>2
<1>12. EdgeOK'
  BY <1>1 DEF EdgeOK
<1>13. FillingOK'
  <2> SUFFICES ASSUME turn = "broker", trade'.size > 0
               PROVE  /\ setup.fill = "next_bar" =>
                            \/ Date(trade'.entry) = Date(bar)
                            \/ Date(trade'.entry) = Date(bar - 1) /\ Waits("close")'
                      /\ setup.fill = "close" =>
                            \/ /\ Date(trade'.entry) = Date(bar - 1)
                               /\ Date(bar) = Date(bar - 1) \/ _is_only_bar_of_session(trade'.entry) \/ Waits("close")'
                            \/ _is_only_bar_of_session(trade'.entry) /\ trade'.entry = bar - 2 /\ Waits("close")'
    BY <1>1, <1>6, Still DEF FillingOK
  <2>1. CASE trade'.entry = FillBar /\ Waits("buy")
    <3>1. ~_is_last_bar_of_session(bar - 1) \/ _is_only_bar_of_session(bar - 1)
      BY <1>2, <2>1 DEF FlatInv, FillingOK
    <3>2. _is_last_bar_of_session(bar - 1) <=> Date(bar - 1) < Date(bar)
      BY <1>2, SessionEdges
    <3>3. Date(bar - 1) <= Date(bar) /\ Date(bar - 1) \in Nat /\ Date(bar) \in Nat
      BY <1>2, DateFacts
    <3> QED
      BY <1>2, <1>3, <2>1, <3>1, <3>2, <3>3
  <2>2. CASE trade'.entry = trade.entry /\ trade.size > 0 /\ Head(orders).kind = "trim"
    BY <1>2, <1>8, <2>2 DEF FlatInv, FillingOK
  <2> QED
    BY <1>7, <2>1, <2>2
<1>14. FlatTrades'
  <2>1. \A k \in 1..Len(closed) : FlatTrade(closed[k].entry, closed[k].exit)
    BY DEF FlatInv, FlatTrades
  <2>2. \A k \in 1..Len(closed') : FlatTrade(closed'[k].entry, closed'[k].exit)
    <3>1. CASE closed' = closed
      BY <2>1, <3>1
    <3>2. CASE closed' # closed
      <4>1. trade.size > 0
        BY <3>2, FillCases
      <4>2. PICK sold \in Ended :
              /\ sold.entry = trade.entry /\ sold.exit = FillBar
              /\ closed' \in Seq(Ended) /\ Len(closed') = Len(closed) + 1
              /\ closed'[Len(closed) + 1] = sold
              /\ \A k \in 1..Len(closed) : closed'[k] = closed[k]
        BY <3>2, FillCases
      <4>3. FlatTrade(trade.entry, FillBar)
        BY <1>1, <1>9, <1>10, <4>1
      <4> QED
        BY <1>2, <2>1, <4>2, <4>3
    <3> QED
      BY <3>1, <3>2
  <2>3. \A x, y : FlatTrade(x, y)' <=> FlatTrade(x, y)
    BY <1>1, Still DEF FlatTrade
  <2> QED
    BY <2>2, <2>3 DEF FlatTrades
<1> QED
  BY <1>11, <1>12, <1>13, <1>14 DEF FlatInv

LEMMA FlatBrokerNext == TypeInv /\ FlatInv /\ BrokerNext => FlatInv'
<1> SUFFICES ASSUME TypeInv, FlatInv, BrokerNext PROVE FlatInv'
  OBVIOUS
<1>1. /\ turn = "broker" /\ turn' = "next" /\ orders = <<>> /\ setup' = setup /\ bar' = bar
      /\ trade' = trade /\ orders' = orders /\ closed' = closed
  BY DEF BrokerNext
<1>2. /\ LastBar \in Nat /\ bar \in 0..LastBar /\ setup.fill \in {"close", "next_bar"}
      /\ (trade.size > 0 => bar > 0)
  BY Basics
<1>3. ~Waits("close")
  BY <1>1 DEF Waits
<1>4. FillBar' = FillBar /\ FillBar = (IF setup.fill = "close" THEN bar - 1 ELSE bar)
  BY <1>1 DEF FillBar
<1>5. ASSUME trade.size > 0
      PROVE  /\ Date(trade.entry) = Date(FillBar)
             /\ setup.fill = "close" /\ Date(bar) # Date(trade.entry) =>
                  _is_only_bar_of_session(trade.entry)
  <2>1. CASE setup.fill = "close"
    BY <1>1, <1>2, <1>3, <1>4, <1>5, <2>1 DEF FlatInv, FillingOK
  <2>2. CASE setup.fill = "next_bar"
    BY <1>1, <1>2, <1>3, <1>4, <1>5, <2>2 DEF FlatInv, FillingOK
  <2> QED
    BY <1>2, <2>1, <2>2
<1>6. HeldOK'
  BY <1>1, <1>4, <1>5, Still DEF HeldOK
<1>7. EdgeOK' /\ FillingOK'
  BY <1>1 DEF EdgeOK, FillingOK
<1>8. FlatTrades'
  BY <1>1, Still DEF FlatInv, FlatTrades, FlatTrade
<1> QED
  BY <1>6, <1>7, <1>8 DEF FlatInv

LEMMA FlatAdapterNext == TypeInv /\ FlatInv /\ AdapterNext => FlatInv'
<1> SUFFICES ASSUME TypeInv, FlatInv, AdapterNext PROVE FlatInv'
  OBVIOUS
<1>1. /\ turn = "next" /\ turn' = "masks" /\ setup' = setup /\ bar' = bar
      /\ trade' = trade /\ closed' = closed
      /\ \/ bar < setup.first /\ orders' = orders
         \/ Manage \/ Seek
  BY DEF AdapterNext
<1>2. /\ LastBar \in Nat /\ bar \in 0..LastBar /\ setup.fill \in {"close", "next_bar"}
      /\ setup.first \in {0, 1} /\ orders = <<>> /\ (trade.size > 0 => bar > 0)
  BY <1>1, Basics, SetupFacts DEF TypeInv, BookOK
<1>3. /\ Waits("buy")' => ~_is_last_bar_of_session(bar) \/ _is_only_bar_of_session(bar)
      /\ trade.size > 0 /\ _is_last_bar_of_session(bar) => Waits("close")'
      /\ trade.size > 0 /\ bar > 0 /\ _is_new_session(bar) => Waits("close")'
  <2>1. CASE bar < setup.first /\ orders' = orders
    <3>1. bar = 0 /\ ~Waits("buy")' /\ ~(trade.size > 0)
      BY <1>2, <2>1 DEF Waits
    <3> QED
      BY <3>1
  <2>2. CASE Manage
    <3>1. SessionClose.kind # "buy" /\ RuleOrder.kind # "buy"
      BY DEF SessionClose, RuleOrder
    <3>2. ~Waits("buy")'
      BY <1>2, <2>2, <3>1, ManageQueue DEF Waits
    <3> QED
      BY <1>2, <2>2, <3>2, ManageQueue
  <2>3. CASE Seek
    <3>1. trade.size = 0
      BY <2>3 DEF Seek
    <3>2. Waits("buy")' => orders' # <<>>
      BY DEF Waits
    <3> QED
      BY <1>2, <2>3, <3>1, <3>2, SeekQueue
  <2> QED
    BY <1>1, <2>1, <2>2, <2>3
<1>4. HeldOK'
  BY <1>1, Still DEF FlatInv, HeldOK, FillBar
<1>5. EdgeOK'
  BY <1>1, <1>3, Still DEF EdgeOK
<1>6. FillingOK' /\ FlatTrades'
  BY <1>1, Still DEF FlatInv, FillingOK, FlatTrades, FlatTrade
<1> QED
  BY <1>4, <1>5, <1>6 DEF FlatInv

LEMMA FlatWalkNext == TypeInv /\ FlatInv /\ WalkNext => FlatInv'
<1> SUFFICES ASSUME TypeInv, FlatInv, WalkNext PROVE FlatInv'
  OBVIOUS
<1>1. /\ turn = "walk" /\ setup' = setup /\ trade' = trade /\ orders' = orders /\ closed' = closed
      /\ bar' = (IF bar < LastBar THEN bar + 1 ELSE bar)
      /\ turn' = (IF bar < LastBar THEN "broker" ELSE "finish")
  BY DEF WalkNext
<1>2. /\ setup \in Setups /\ LastBar \in Nat /\ bar \in 0..LastBar /\ setup.fill \in {"close", "next_bar"}
      /\ trade.entry \in 0..LastBar
      /\ trade.size > 0 => bar > 0 /\ trade.entry <= FillBar
  BY Basics
<1>3. \A kind : Waits(kind)' <=> Waits(kind)
  BY <1>1 DEF Waits
<1>4. FlatTrades'
  BY <1>1, Still DEF FlatInv, FlatTrades, FlatTrade
<1>5. CASE bar < LastBar
  <2>1. bar' = bar + 1 /\ turn' = "broker" /\ bar + 1 \in 1..LastBar /\ (bar + 1) - 1 = bar
    BY <1>1, <1>2, <1>5
  <2>2. _is_last_bar_of_session(bar) <=> Date(bar) # Date(bar + 1)
    BY <1>2, <1>5 DEF _is_last_bar_of_session
  <2>3. Waits("buy") => ~_is_last_bar_of_session(bar) \/ _is_only_bar_of_session(bar)
    BY <1>1 DEF FlatInv, EdgeOK
  <2>4. ASSUME trade.size > 0, setup.fill = "next_bar"
        PROVE  \/ Date(trade.entry) = Date(bar + 1)
               \/ Date(trade.entry) = Date(bar) /\ Waits("close")
    <3>1. Date(trade.entry) = Date(bar)
      BY <1>1, <2>4 DEF FlatInv, HeldOK, FillBar
    <3>2. _is_last_bar_of_session(bar) => Waits("close")
      BY <1>1, <2>4 DEF FlatInv, EdgeOK
    <3> QED
      BY <2>2, <3>1, <3>2
  <2>5. ASSUME trade.size > 0, setup.fill = "close"
        PROVE  \/ /\ Date(trade.entry) = Date(bar)
                  /\ Date(bar + 1) = Date(bar) \/ _is_only_bar_of_session(trade.entry) \/ Waits("close")
               \/ _is_only_bar_of_session(trade.entry) /\ trade.entry = bar - 1 /\ Waits("close")
    <3>1. Date(trade.entry) = Date(bar - 1) /\ trade.entry <= bar - 1 /\ bar \in 1..LastBar
      BY <1>1, <1>2, <2>5 DEF FlatInv, HeldOK, FillBar
    <3>2. Date(bar) # Date(trade.entry) => _is_only_bar_of_session(trade.entry)
      BY <1>1, <2>5 DEF FlatInv, HeldOK
    <3>3. _is_last_bar_of_session(bar) => Waits("close")
      BY <1>1, <2>5 DEF FlatInv, EdgeOK
    <3>4. _is_new_session(bar) => Waits("close")
      BY <1>1, <1>2, <2>5 DEF FlatInv, EdgeOK
    <3>5. CASE Date(bar) = Date(trade.entry)
      BY <2>2, <3>3, <3>5
    <3>6. CASE Date(bar) # Date(trade.entry)
      <4>1. Waits("close")
        BY <3>1, <3>4, <3>6 DEF _is_new_session
      <4>2. trade.entry = bar - 1
        <5> SUFFICES ASSUME trade.entry < bar - 1 PROVE FALSE
          BY <1>2, <3>1
        <5>1. trade.entry + 1 \in 1..LastBar /\ (trade.entry + 1) - 1 = trade.entry
              /\ trade.entry + 1 <= bar - 1 /\ bar - 1 \in 0..LastBar /\ trade.entry + 1 \in 0..LastBar
          BY <1>2, <3>1
        <5>2. Date(trade.entry) < Date(trade.entry + 1)
          BY <1>2, <3>2, <3>6, <5>1, SessionEdges DEF _is_only_bar_of_session
        <5>3. /\ Date(trade.entry + 1) <= Date(bar - 1)
              /\ Date(trade.entry) \in Nat /\ Date(trade.entry + 1) \in Nat /\ Date(bar - 1) \in Nat
          BY <1>2, <5>1, DateFacts
        <5> QED
          BY <3>1, <5>2, <5>3
      <4> QED
        BY <3>2, <3>6, <4>1, <4>2
    <3> QED
      BY <3>5, <3>6
  <2>6. FillingOK'
    <3>1. bar' - 1 = bar /\ bar' - 2 = bar - 1
      BY <1>2, <2>1
    <3>2. Date(bar)' = Date(bar + 1) /\ Date(bar - 1)' = Date(bar) /\ Date(trade.entry)' = Date(trade.entry)
      BY <1>1, <2>1, <3>1 DEF Date
    <3> QED
      BY <1>1, <1>3, <2>1, <2>3, <2>4, <2>5, <3>1, <3>2, Still DEF FillingOK
  <2>7. HeldOK' /\ EdgeOK'
    BY <2>1 DEF HeldOK, EdgeOK
  <2> QED
    BY <1>4, <2>6, <2>7 DEF FlatInv
<1>6. CASE ~(bar < LastBar)
  <2>1. bar' = bar /\ turn' = "finish"
    BY <1>1, <1>6
  <2>2. HeldOK'
    BY <1>1, <2>1, Still DEF FlatInv, HeldOK, FillBar
  <2>3. EdgeOK' /\ FillingOK'
    BY <2>1 DEF EdgeOK, FillingOK
  <2> QED
    BY <1>4, <2>2, <2>3 DEF FlatInv
<1> QED
  BY <1>5, <1>6

LEMMA FlatInvStep == TypeInv /\ FlatInv /\ [Next]_vars => FlatInv'
<1> SUFFICES ASSUME TypeInv, FlatInv, [Next]_vars PROVE FlatInv'
  OBVIOUS
<1>1. CASE MasksNext
  <2>1. /\ turn = "masks" /\ turn' = "walk" /\ setup' = setup /\ bar' = bar
        /\ trade' = trade /\ orders' = orders /\ closed' = closed
    BY <1>1 DEF MasksNext
  <2> QED
    BY <2>1, Still DEF FlatInv, HeldOK, EdgeOK, FillingOK, FlatTrades, FlatTrade, FillBar, Waits
<1>2. CASE Finalize
  <2>1. /\ turn = "finish" /\ turn' = "settle" /\ setup' = setup /\ bar' = bar
        /\ trade' = trade /\ closed' = closed
    BY <1>2 DEF Finalize
  <2> QED
    BY <2>1, Still DEF FlatInv, HeldOK, EdgeOK, FillingOK, FlatTrades, FlatTrade, FillBar
<1>3. CASE UNCHANGED vars
  <2>1. /\ turn' = turn /\ setup' = setup /\ bar' = bar
        /\ trade' = trade /\ orders' = orders /\ closed' = closed
    BY <1>3 DEF vars
  <2> QED
    BY <2>1, Still DEF FlatInv, HeldOK, EdgeOK, FillingOK, FlatTrades, FlatTrade, FillBar, Waits
<1> QED
  BY <1>1, <1>2, <1>3, FlatFill, FlatBrokerNext, FlatAdapterNext, FlatWalkNext DEF Next

\* In every setup a trade ends in its own session, or on the very bar that
\* opens the next one: where fills are at the close only if its session was a
\* single bar (implementations.py:1033, :1040).
THEOREM FlatSessions == Spec => []FlatBySession
<1>1. Init => FlatInv
  <2> SUFFICES ASSUME Init PROVE FlatInv
    OBVIOUS
  <2>1. bar = 0 /\ turn = "broker" /\ trade.size = 0 /\ closed = <<>>
    BY DEF Init
  <2> QED
    BY <2>1 DEF FlatInv, HeldOK, EdgeOK, FillingOK, FlatTrades
<1>2. TypeInv /\ FlatInv => FlatBySession
  <2> SUFFICES ASSUME TypeInv, FlatInv, NEW t \in Range(closed)
               PROVE  FlatTrade(t.entry, t.exit)
    BY DEF FlatBySession, FlatTrade
  <2>1. PICK k \in 1..Len(closed) : t = closed[k]
    BY AtAnIndex DEF TypeInv, Shapes
  <2> QED
    BY <2>1 DEF FlatInv, FlatTrades
<1> QED
  BY <1>1, <1>2, InitType, TypeInvStep, FlatInvStep, PTL DEF Spec

-----------------------------------------------------------------------------
(* One trade a session.                                                    *)

\* The parts of a trade that its end need not be counted for.
Exempt == {"session_close", "trim"}

\* The trigger has counted a trade in the session of bar e, or in a later one.
Counted(e) == core.date > Date(e) \/ (core.date = Date(e) /\ core.count >= 1)

\* What was closed otherwise, or is about to be, has been counted.
CountOK ==
    /\ \A k \in 1..Len(closed) : closed[k].why \notin Exempt => Counted(closed[k].entry)
    /\ \A i \in 1..Len(orders) :
        orders[i].kind # "buy" /\ orders[i].why \notin Exempt => Counted(trade.entry)

TrimsNamed == \A i \in 1..Len(orders) : orders[i].kind = "trim" <=> orders[i].why = "trim"

\* A buy waits only where nothing has been counted, in a session as late as the
\* core's last.
BuyOK == Waits("buy") => core.count = 0 /\ (turn = "broker" => core.date <= Date(FillBar))

\* The open trade is of a later session than all that were closed otherwise.
CapOK ==
    trade.size > 0 =>
        \A k \in 1..Len(closed) : closed[k].why \notin Exempt => Date(closed[k].entry) < Date(trade.entry)

\* Of two shares one trim sells the first, and another order the second.
TrimOK ==
    setup.stake = 2 =>
        /\ \A i, j \in 1..Len(orders) : orders[i].kind = "trim" /\ orders[j].kind = "trim" => i = j
        /\ Waits("trim") => core.trimmed /\ trade.size \in {0, 2}
        /\ trade.size = 1 => core.trimmed \/ Waits("close")
        /\ \A k \in 1..Len(closed) : closed[k].why = "trim" =>
            \/ trade.size > 0 /\ trade.entry = closed[k].entry
            \/ \E j \in 1..Len(closed) : k < j /\ closed[j].entry = closed[k].entry

TradeInv == turn # "settle" => CountOK /\ TrimsNamed /\ BuyOK /\ CapOK /\ TrimOK

LEMMA InitTrade == Init => TradeInv
<1> SUFFICES ASSUME Init PROVE TradeInv
  OBVIOUS
<1>1. trade.size = 0 /\ Len(orders) = 0 /\ Len(closed) = 0
  BY DEF Init
<1> QED
  BY <1>1 DEF TradeInv, CountOK, TrimsNamed, BuyOK, CapOK, TrimOK, Waits

LEMMA TradeFill == TypeInv /\ TradeInv /\ Fill => TradeInv'
<1> SUFFICES ASSUME TypeInv, TradeInv, Fill, turn # "settle" PROVE TradeInv'
  BY DEF Fill, TradeInv
<1>1. /\ turn = "broker" /\ turn' = turn /\ setup' = setup /\ bar' = bar /\ core' = core
      /\ orders # <<>> /\ orders' = Tail(orders)
  BY DEF Fill
<1>2. CountOK /\ TrimsNamed /\ BuyOK /\ CapOK /\ TrimOK
  BY DEF TradeInv
<1>3. /\ setup \in Setups /\ LastBar \in Nat /\ FillBar \in 0..LastBar /\ trade.entry \in 0..LastBar
      /\ trade.size \in 0..setup.stake /\ setup.stake \in {1, 2}
      /\ orders \in Seq(Order) /\ closed \in Seq(Ended)
  BY <1>1, Basics
<1>4. core.count \in Nat /\ core.date \in {None} \union Nat /\ None = -1
  BY DEF TypeInv, Shapes, Core, None
<1>5. \A k \in 1..Len(closed) : closed[k].entry \in 0..LastBar /\ closed[k].why \in Whys
  BY <1>3, Fields
<1>6. \A i \in 0..LastBar : Date(i) \in Nat /\ Date(i)' = Date(i) /\ (Counted(i)' <=> Counted(i))
  BY <1>1, <1>3, DateFacts, Still DEF Counted
<1>7. /\ Len(orders) \in Nat \ {0} /\ Len(orders') = Len(orders) - 1 /\ Head(orders) = orders[1]
      /\ \A i \in 1..Len(orders') : orders'[i] = orders[i + 1] /\ i + 1 \in 1..Len(orders)
      /\ \A kind : Waits(kind)' => Waits(kind)
  BY <1>1, <1>3, Popped
<1>8. /\ 1 \in 1..Len(orders) /\ Head(orders).kind \in {"buy", "close", "trim"}
      /\ Head(orders).kind = "trim" <=> Head(orders).why = "trim"
  BY <1>1, <1>2, <1>3, <1>7, Popped, Fields DEF TrimsNamed
<1>9. ~Waits("buy")'
  BY FillCases
<1>10. TrimsNamed' /\ BuyOK'
  BY <1>2, <1>7, <1>9 DEF TrimsNamed, BuyOK
<1>11. CASE Waits("buy") /\ orders' = <<>> /\ trade.size = 0
            /\ trade'.size = setup.stake /\ trade'.entry = FillBar /\ closed' = closed
  <2>1. CountOK'
    BY <1>2, <1>5, <1>6, <1>11 DEF CountOK
  <2>2. CapOK'
    <3>1. core.count = 0 /\ core.date <= Date(FillBar)
      BY <1>1, <1>2, <1>11 DEF BuyOK
    <3>2. \A k \in 1..Len(closed) : closed[k].why \notin Exempt => Date(closed[k].entry) < Date(FillBar)
      <4> TAKE k \in 1..Len(closed)
      <4> SUFFICES ASSUME closed[k].why \notin Exempt PROVE Date(closed[k].entry) < Date(FillBar)
        OBVIOUS
      <4>1. core.date > Date(closed[k].entry)
        BY <1>2, <3>1 DEF CountOK, Counted
      <4>2. Date(closed[k].entry) \in Nat /\ Date(FillBar) \in Nat
        BY <1>3, <1>5, <1>6
      <4> QED
        BY <1>4, <3>1, <4>1, <4>2
    <3>3. Date(trade.entry)' = Date(FillBar)
      BY <1>1, <1>11, Still
    <3> QED
      BY <1>1, <1>11, <3>2, <3>3, Still DEF CapOK
  <2>3. TrimOK'
    BY <1>1, <1>2, <1>3, <1>11 DEF TrimOK, Waits
  <2> QED
    BY <1>10, <2>1, <2>2, <2>3 DEF TradeInv
<1>12. CASE Head(orders).kind # "buy" /\ trade.size = 0 /\ trade' = trade /\ closed' = closed
  <2>1. CountOK'
    BY <1>2, <1>3, <1>5, <1>6, <1>7, <1>12 DEF CountOK
  <2>2. CapOK'
    BY <1>12 DEF CapOK
  <2>3. TrimOK'
    <3>1. ASSUME setup.stake = 2, NEW i \in 1..Len(orders'), NEW j \in 1..Len(orders'),
                 orders'[i].kind = "trim", orders'[j].kind = "trim"
          PROVE  i = j
      <4>1. i + 1 = j + 1
        BY <1>2, <1>7, <3>1 DEF TrimOK
      <4> QED
        BY <4>1
    <3> QED
      BY <1>1, <1>2, <1>7, <1>12, <3>1 DEF TrimOK
  <2> QED
    BY <1>10, <2>1, <2>2, <2>3 DEF TradeInv
<1>13. CASE /\ Head(orders).kind # "buy" /\ trade.size > 0 /\ trade'.entry = trade.entry
            /\ Head(orders).kind = "close" => trade'.size = 0
            /\ Head(orders).kind = "trim" => trade'.size = trade.size - 1
            /\ \E sold \in Ended :
                 /\ sold.entry = trade.entry /\ sold.exit = FillBar /\ sold.why = Head(orders).why
                 /\ closed' \in Seq(Ended) /\ Len(closed') = Len(closed) + 1
                 /\ closed'[Len(closed) + 1] = sold
                 /\ \A k \in 1..Len(closed) : closed'[k] = closed[k]
  <2>1. PICK sold \in Ended :
          /\ sold.entry = trade.entry /\ sold.why = Head(orders).why
          /\ closed' \in Seq(Ended) /\ Len(closed') = Len(closed) + 1
          /\ closed'[Len(closed) + 1] = sold
          /\ \A k \in 1..Len(closed) : closed'[k] = closed[k]
    BY <1>13
  <2>2. /\ Len(closed) \in Nat /\ Len(closed) + 1 \in 1..Len(closed')
        /\ \A k \in 1..Len(closed') : k \in 1..Len(closed) \/ k = Len(closed) + 1
        /\ \A k \in 1..Len(closed) : k \in 1..Len(closed') /\ k < Len(closed) + 1
    BY <1>3, <2>1
  <2>3. CountOK'
    <3>1. \A k \in 1..Len(closed') : closed'[k].why \notin Exempt => Counted(closed'[k].entry)
      BY <1>2, <1>8, <1>7, <1>13, <2>1, <2>2 DEF CountOK
    <3>2. \A k \in 1..Len(closed') : closed'[k].entry \in 0..LastBar
      BY <1>3, <1>5, <2>1, <2>2
    <3> QED
      BY <1>2, <1>3, <1>6, <1>7, <1>13, <3>1, <3>2 DEF CountOK
  <2>4. CapOK'
    <3> SUFFICES ASSUME trade'.size > 0,
                        NEW k \in 1..Len(closed'), closed'[k].why \notin Exempt
                 PROVE  Date(closed'[k].entry) < Date(trade.entry)
      BY <1>1, <1>13, Still DEF CapOK
    <3>1. Head(orders).why = "trim"
      BY <1>8, <1>13
    <3>2. k \in 1..Len(closed)
      BY <2>1, <2>2, <3>1 DEF Exempt
    <3> QED
      BY <1>2, <1>13, <2>1, <3>2 DEF CapOK
  <2>5. TrimOK'
    <3> SUFFICES ASSUME setup.stake = 2
                 PROVE  /\ \A i, j \in 1..Len(orders') : orders'[i].kind = "trim" /\ orders'[j].kind = "trim" => i = j
                        /\ Waits("trim")' => core.trimmed /\ trade'.size \in {0, 2}
                        /\ trade'.size = 1 => core.trimmed
                        /\ \A k \in 1..Len(closed') : closed'[k].why = "trim" =>
                             \/ trade'.size > 0 /\ trade'.entry = closed'[k].entry
                             \/ \E j \in 1..Len(closed') : k < j /\ closed'[j].entry = closed'[k].entry
      BY <1>1 DEF TrimOK
    <3>1. \A i, j \in 1..Len(orders') : orders'[i].kind = "trim" /\ orders'[j].kind = "trim" => i = j
      <4> SUFFICES ASSUME NEW i \in 1..Len(orders'), NEW j \in 1..Len(orders'),
                          orders'[i].kind = "trim", orders'[j].kind = "trim"
                   PROVE  i = j
        OBVIOUS
      <4>1. i + 1 = j + 1
        BY <1>2, <1>7 DEF TrimOK
      <4> QED
        BY <4>1
    <3>2. CASE Head(orders).kind = "trim"
      <4>1. core.trimmed /\ trade.size = 2
        BY <1>2, <1>7, <1>8, <1>13, <3>2 DEF TrimOK, Waits
      <4>2. trade'.size = 1
        BY <1>13, <3>2, <4>1
      <4>3. ~Waits("trim")'
        <5> SUFFICES ASSUME NEW i \in 1..Len(orders'), orders'[i].kind = "trim" PROVE FALSE
          BY DEF Waits
        <5>1. i + 1 \in 1..Len(orders) /\ orders[i + 1].kind = "trim" /\ orders[1].kind = "trim"
          BY <1>7, <3>2
        <5>2. i + 1 = 1
          BY <1>2, <1>8, <5>1 DEF TrimOK
        <5> QED
          BY <5>2
      <4>4. \A k \in 1..Len(closed') : closed'[k].why = "trim" =>
               \/ trade'.entry = closed'[k].entry
               \/ \E j \in 1..Len(closed') : k < j /\ closed'[j].entry = closed'[k].entry
        BY <1>2, <1>13, <2>1, <2>2 DEF TrimOK
      <4> QED
        BY <3>1, <4>1, <4>2, <4>3, <4>4
    <3>3. CASE Head(orders).kind = "close"
      <4>1. trade'.size = 0 /\ sold.why # "trim"
        BY <1>8, <1>13, <2>1, <3>3
      <4>2. Waits("trim")' => core.trimmed
        BY <1>2, <1>7 DEF TrimOK
      <4>3. \A k \in 1..Len(closed') : closed'[k].why = "trim" =>
              \E j \in 1..Len(closed') : k < j /\ closed'[j].entry = closed'[k].entry
        <5> TAKE k \in 1..Len(closed')
        <5> SUFFICES ASSUME closed'[k].why = "trim"
                     PROVE  \E j \in 1..Len(closed') : k < j /\ closed'[j].entry = closed'[k].entry
          OBVIOUS
        <5>1. k \in 1..Len(closed) /\ closed[k].why = "trim" /\ closed'[k] = closed[k]
          BY <2>1, <2>2, <4>1
        <5>2. CASE trade.entry = closed[k].entry
          BY <2>1, <2>2, <5>1, <5>2
        <5>3. CASE trade.entry # closed[k].entry
          <6>1. PICK j \in 1..Len(closed) : k < j /\ closed[j].entry = closed[k].entry
            BY <1>2, <5>1, <5>3 DEF TrimOK
          <6> QED
            BY <2>1, <2>2, <5>1, <6>1
        <5> QED
          BY <5>2, <5>3
      <4> QED
        BY <3>1, <4>1, <4>2, <4>3
    <3> QED
      BY <1>8, <1>13, <3>2, <3>3
  <2> QED
    BY <1>10, <2>3, <2>4, <2>5 DEF TradeInv
<1> QED
  BY <1>11, <1>12, <1>13, FillCases

\* The orders a decision leaves, by their kind and reason.
LEMMA DecisionOrders ==
    ASSUME Manage \/ Seek, orders = <<>>
    PROVE  /\ \A i \in 1..Len(orders') : orders'[i].kind = "trim" <=> orders'[i].why = "trim"
           /\ \A i \in 1..Len(orders') :
                orders'[i].kind # "buy" /\ orders'[i].why \notin Exempt => Manage /\ ExitOnBar \notin {"hold", "trim"}
           /\ Waits("buy")' => Seek /\ Buys(_sync_session_state)
           /\ Waits("trim")' => Manage /\ ExitOnBar = "trim"
           /\ \A i, j \in 1..Len(orders') : orders'[i].kind = "trim" /\ orders'[j].kind = "trim" => i = j
<1> DEFINE buy == [kind |-> "buy", why |-> "entry"]
<1>1. CASE Manage
  <2>1. /\ SessionClose.kind = "close" /\ SessionClose.why = "session_close"
        /\ RuleOrder.kind = (IF ExitOnBar = "trim" THEN "trim" ELSE "close") /\ RuleOrder.why = ExitOnBar
    BY DEF SessionClose, RuleOrder
  <2>2. /\ \A i \in 1..Len(orders') :
             orders'[i] = SessionClose \/ (orders'[i] = RuleOrder /\ ExitOnBar # "hold")
        /\ \A i, j \in 1..Len(orders') : orders'[i].kind = "trim" /\ orders'[j].kind = "trim" => i = j
    BY <1>1, ManageQueue
  <2>3. \A i \in 1..Len(orders') :
          /\ orders'[i].kind # "buy"
          /\ orders'[i].kind = "trim" <=> orders'[i].why = "trim"
          /\ orders'[i].kind = "trim" => ExitOnBar = "trim"
          /\ orders'[i].why \notin Exempt => ExitOnBar \notin {"hold", "trim"}
    BY <2>1, <2>2 DEF Exempt
  <2> QED
    BY <1>1, <2>2, <2>3 DEF Waits
<1>2. CASE Seek
  <2>1. buy.kind = "buy" /\ buy.why = "entry"
    OBVIOUS
  <2>2. orders' = <<>> \/ (orders' = <<buy>> /\ Buys(_sync_session_state))
    BY <1>2, SeekQueue
  <2> HIDE DEF buy
  <2>3. Len(<<>>) = 0 /\ Len(<<buy>>) = 1 /\ <<buy>>[1] = buy
    OBVIOUS
  <2>4. Len(orders') = 0 \/ (Len(orders') = 1 /\ orders'[1] = buy /\ Buys(_sync_session_state))
    BY <2>2, <2>3
  <2>5. \A i \in 1..Len(orders') : orders'[i] = buy /\ i = 1 /\ Buys(_sync_session_state)
    <3>1. CASE Len(orders') = 0
      BY <3>1
    <3>2. CASE Len(orders') = 1 /\ orders'[1] = buy /\ Buys(_sync_session_state)
      <4>1. \A i \in 1..Len(orders') : i = 1
        BY <3>2
      <4> QED
        BY <3>2, <4>1
    <3> QED
      BY <2>4, <3>1, <3>2
  <2> QED
    BY <1>2, <2>1, <2>5 DEF Waits
<1> QED
  BY <1>1, <1>2

\* What has been counted stays counted.
LEMMA CountedStays ==
    ASSUME TypeInv, Manage \/ Seek, setup' = setup, NEW e \in 0..LastBar, Counted(e)
    PROVE  Counted(e)'
<1>1. /\ bar \in 0..LastBar /\ setup \in Setups /\ core \in Core
      /\ Date(e) \in Nat /\ Date(bar) \in Nat /\ Date(e)' = Date(e)
      /\ core.count \in Nat /\ core.date \in Nat \union {None} /\ core.date <= Date(bar)
  BY DateFacts, Still DEF TypeInv, Shapes, CoreOK, Core
<1>2. core.date # None
  BY <1>1 DEF Counted, None
<1>3. core.date > Date(e) \/ (core.date = Date(e) /\ core.count >= 1)
  BY DEF Counted
<1>4. \/ core'.date = core.date /\ core'.count = core.count
      \/ core'.date = Date(bar) /\ core'.count = 1 + IF core.date = Date(bar) THEN core.count ELSE 0
      \/ core'.date = Date(bar) /\ core'.count = (IF core.date = Date(bar) THEN core.count ELSE 0)
  <2>1. CASE Manage
    BY <1>1, <2>1, ManageCore
  <2>2. CASE Seek
    BY <1>1, <1>2, <2>2, SeekCore
  <2> QED
    BY <2>1, <2>2
<1>5. core.date \in Nat
  BY <1>1, <1>2
<1>6. core'.date > Date(e) \/ (core'.date = Date(e) /\ core'.count >= 1)
  <2>1. CASE core.date = Date(bar)
    BY <1>1, <1>3, <1>4, <1>5, <2>1
  <2>2. CASE core.date # Date(bar)
    BY <1>1, <1>3, <1>4, <1>5, <2>2
  <2> QED
    BY <2>1, <2>2
<1> QED
  BY <1>1, <1>6 DEF Counted

LEMMA TradeAdapterNext == TypeInv /\ TradeInv /\ AdapterNext => TradeInv'
<1> SUFFICES ASSUME TypeInv, TradeInv, AdapterNext PROVE TradeInv'
  OBVIOUS
<1>1. /\ turn = "next" /\ turn' = "masks" /\ setup' = setup /\ bar' = bar
      /\ trade' = trade /\ closed' = closed
      /\ \/ orders' = orders /\ core' = core
         \/ Manage \/ Seek
  BY DEF AdapterNext
<1>2. CountOK /\ TrimsNamed /\ BuyOK /\ CapOK /\ TrimOK
  BY <1>1 DEF TradeInv
<1>3. /\ setup \in Setups /\ LastBar \in Nat /\ bar \in 0..LastBar /\ trade.entry \in 0..LastBar
      /\ trade.size \in 0..setup.stake /\ setup.stake \in {1, 2} /\ closed \in Seq(Ended)
      /\ orders = <<>> /\ core \in Core /\ (trade.size > 0 => trade.entry <= bar)
  BY <1>1, Basics DEF TypeInv, BookOK, Shapes
<1>4. CapOK'
  BY <1>1, <1>2, Still DEF CapOK
<1>5. CASE orders' = orders /\ core' = core
  BY <1>1, <1>2, <1>3, <1>4, <1>5, Still DEF TradeInv, CountOK, Counted, TrimsNamed, BuyOK, TrimOK, Waits
<1>6. CASE Manage \/ Seek
  <2>1. /\ TrimsNamed'
        /\ \A i \in 1..Len(orders') :
             orders'[i].kind # "buy" /\ orders'[i].why \notin Exempt => Manage /\ ExitOnBar \notin {"hold", "trim"}
        /\ Waits("buy")' => Seek /\ Buys(_sync_session_state)
        /\ Waits("trim")' => Manage /\ ExitOnBar = "trim"
        /\ \A i, j \in 1..Len(orders') : orders'[i].kind = "trim" /\ orders'[j].kind = "trim" => i = j
    BY <1>3, <1>6, DecisionOrders DEF TrimsNamed
  <2>2. CountOK'
    <3>1. \A k \in 1..Len(closed) : closed[k].why \notin Exempt => Counted(closed[k].entry)'
      <4> TAKE k \in 1..Len(closed)
      <4> SUFFICES ASSUME closed[k].why \notin Exempt PROVE Counted(closed[k].entry)'
        OBVIOUS
      <4>1. closed[k].entry \in 0..LastBar /\ Counted(closed[k].entry)
        BY <1>2, <1>3, Fields DEF CountOK
      <4>2. \A e \in 0..LastBar : Counted(e) => Counted(e)'
        BY <1>1, <1>6, CountedStays
      <4> QED
        BY <1>1, <4>1, <4>2
    <3>2. Manage /\ ExitOnBar \notin {"hold", "trim"} => Counted(trade.entry)'
      <4> SUFFICES ASSUME Manage, ExitOnBar \notin {"hold", "trim"}
                   PROVE  Counted(trade.entry)'
        OBVIOUS
      <4>1. trade.size > 0 /\ core'.date = Date(bar) /\ core'.count >= 1
        <5>1. core.count \in Nat
          BY <1>3 DEF Core
        <5> QED
          BY <1>3, <5>1, ManageCore
      <4>2. Date(trade.entry) <= Date(bar) /\ Date(trade.entry) \in Nat /\ Date(bar) \in Nat
        BY <1>3, <4>1, DateFacts
      <4>3. Date(trade.entry)' = Date(trade.entry)
        BY <1>1, Still
      <4> QED
        BY <4>1, <4>2, <4>3 DEF Counted
    <3> QED
      BY <1>1, <2>1, <3>1, <3>2 DEF CountOK
  <2>3. BuyOK'
    <3>1. Waits("buy")' => core'.count = 0
      BY <1>3, <2>1, SeekCore
    <3> QED
      BY <1>1, <3>1 DEF BuyOK
  <2>4. TrimOK'
    <3> SUFFICES ASSUME setup.stake = 2
                 PROVE  /\ Waits("trim")' => core'.trimmed /\ trade.size \in {0, 2}
                        /\ trade.size = 1 => core'.trimmed \/ Waits("close")'
      BY <1>1, <1>2, <2>1 DEF TrimOK
    <3>1. trade.size = 1 => core.trimmed
      BY <1>2, <1>3 DEF TrimOK, Waits
    <3>2. CASE Manage
      <4>1. CASE ExitOnBar = "hold"
        BY <1>3, <2>1, <3>1, <3>2, <4>1, ManageCore
      <4>2. CASE ExitOnBar = "trim"
        BY <1>3, <3>1, <3>2, <4>2, ManageCore
      <4>3. CASE ExitOnBar \notin {"hold", "trim"}
        BY <1>3, <2>1, <3>2, <4>3, ManageQueue
      <4> QED
        BY <4>1, <4>2, <4>3
    <3>3. CASE Seek /\ ~Manage
      BY <1>3, <2>1, <3>3, SeekCore
    <3> QED
      BY <1>6, <3>2, <3>3
  <2> QED
    BY <1>4, <2>1, <2>2, <2>3, <2>4 DEF TradeInv
<1> QED
  BY <1>1, <1>5, <1>6

LEMMA TradeInvStep == TypeInv /\ TradeInv /\ [Next]_vars => TradeInv'
<1> SUFFICES ASSUME TypeInv, TradeInv, [Next]_vars PROVE TradeInv'
  OBVIOUS
<1>1. ASSUME setup' = setup, trade' = trade, orders' = orders, closed' = closed, core' = core,
             turn # "settle", BuyOK'
      PROVE  TradeInv'
  <2>1. CountOK /\ TrimsNamed /\ CapOK /\ TrimOK
    BY <1>1 DEF TradeInv
  <2>2. CountOK' /\ TrimsNamed' /\ CapOK' /\ TrimOK'
    BY <1>1, <2>1, Still DEF CountOK, Counted, TrimsNamed, CapOK, TrimOK, Waits
  <2> QED
    BY <1>1, <2>2 DEF TradeInv
<1>2. CASE BrokerNext
  <2>1. turn = "broker" /\ turn' = "next"
        /\ setup' = setup /\ trade' = trade /\ orders' = orders /\ closed' = closed /\ core' = core
    BY <1>2 DEF BrokerNext
  <2>2. BuyOK'
    BY <2>1 DEF TradeInv, BuyOK, Waits
  <2> QED
    BY <1>1, <2>1, <2>2
<1>3. CASE MasksNext
  <2>1. turn = "masks" /\ turn' = "walk"
        /\ setup' = setup /\ trade' = trade /\ orders' = orders /\ closed' = closed /\ core' = core
    BY <1>3 DEF MasksNext
  <2>2. BuyOK'
    BY <2>1 DEF TradeInv, BuyOK, Waits
  <2> QED
    BY <1>1, <2>1, <2>2
<1>4. CASE WalkNext
  <2>1. /\ turn = "walk" /\ turn' = (IF bar < LastBar THEN "broker" ELSE "finish")
        /\ bar' = (IF bar < LastBar THEN bar + 1 ELSE bar)
        /\ setup' = setup /\ trade' = trade /\ orders' = orders /\ closed' = closed /\ core' = core
    BY <1>4 DEF WalkNext
  <2>2. Waits("buy") => core.count = 0
    BY <2>1 DEF TradeInv, BuyOK
  <2>3. turn' = "broker" => core.date <= Date(FillBar)'
    <3> SUFFICES ASSUME bar < LastBar PROVE core.date <= Date(FillBar)'
      BY <2>1
    <3>1. /\ setup \in Setups /\ LastBar \in Nat /\ bar \in 0..LastBar
          /\ core.date \in Nat \union {None} /\ core.date <= Date(bar)
      BY Basics DEF TypeInv, Shapes, Core, CoreOK
    <3>2. Date(FillBar)' = Date(FillBar') /\ FillBar' \in {bar, bar + 1} /\ bar + 1 \in 0..LastBar
      BY <2>1, <3>1 DEF FillBar, Date
    <3>3. Date(bar) <= Date(FillBar') /\ Date(bar) \in Nat /\ Date(FillBar') \in Nat
      BY <3>1, <3>2, DateFacts
    <3> QED
      BY <3>1, <3>2, <3>3 DEF None
  <2>4. BuyOK'
    BY <2>1, <2>2, <2>3 DEF BuyOK, Waits
  <2> QED
    BY <1>1, <2>1, <2>4
<1>5. CASE Finalize
  BY <1>5 DEF Finalize, TradeInv
<1>6. CASE UNCHANGED vars
  <2>1. /\ turn' = turn /\ setup' = setup /\ bar' = bar /\ core' = core
        /\ trade' = trade /\ orders' = orders /\ closed' = closed
    BY <1>6 DEF vars
  <2>2. turn # "settle" => BuyOK'
    BY <2>1, Still DEF TradeInv, BuyOK, Waits, FillBar
  <2> QED
    BY <1>1, <2>1, <2>2 DEF TradeInv
<1> QED
  BY <1>2, <1>3, <1>4, <1>5, <1>6, TradeFill, TradeAdapterNext DEF Next

\* Every set of naturals has a least member, ...
LEMMA LeastNat ==
    ASSUME NEW T \in SUBSET Nat, T # {}
    PROVE  \E x \in T : \A y \in T : x <= y
<1> DEFINE R == OpToRel(<, Nat)
<1>1. IsWellFoundedOn(R, Nat)
  BY NatLessThanWellFounded
<1>2. \A x, y \in Nat : x < y => <<x, y>> \in R
  BY DEF OpToRel
<1> HIDE DEF R
<1>3. PICK x \in T : \A y \in T : ~ (<<y, x>> \in R)
  BY <1>1, WFMin
<1>4. ASSUME NEW y \in T PROVE x <= y
  <2>1. x \in Nat /\ y \in Nat /\ ~ (y < x)
    BY <1>2, <1>3
  <2> QED
    BY <2>1
<1> QED
  BY <1>4

\* ... and every set of indices a greatest.
LEMMA GreatestIndex ==
    ASSUME NEW n \in Nat, NEW I \in SUBSET (1..n), I # {}
    PROVE  Max(I) \in I /\ \A i \in I : i <= Max(I)
<1> DEFINE T == {n - i : i \in I}
<1>1. T \in SUBSET Nat /\ T # {}
  <2>1. \A i \in I : n - i \in Nat
    OBVIOUS
  <2>2. PICK i \in I : TRUE
    OBVIOUS
  <2>3. n - i \in T
    BY <2>2
  <2> QED
    BY <2>1, <2>3
<1>2. PICK x \in T : \A y \in T : x <= y
  BY <1>1, LeastNat
<1>3. PICK m \in I : x = n - m
  BY <1>2
<1>4. \A i \in I : m >= i
  <2> TAKE i \in I
  <2>1. n - i \in T
    OBVIOUS
  <2>2. n - m <= n - i
    BY <1>2, <1>3, <2>1
  <2> QED
    BY <2>2
<1>5. \E x_1 \in I : \A i \in I : x_1 >= i
  BY <1>4
<1>6. Max(I) \in I /\ \A i \in I : Max(I) >= i
  BY <1>5 DEF Max
<1> QED
  BY <1>6

LEMMA FinisherFacts ==
    ASSUME closed \in Seq(Ended), NEW k \in 1..Len(closed)
    PROVE  /\ Finisher(closed[k].entry) \in 1..Len(closed)
           /\ closed[Finisher(closed[k].entry)].entry = closed[k].entry
           /\ \A j \in 1..Len(closed) :
                closed[j].entry = closed[k].entry => j <= Finisher(closed[k].entry)
<1> DEFINE I == {i \in 1..Len(closed) : closed[i].entry = closed[k].entry}
<1>1. Len(closed) \in Nat /\ k \in I /\ I \in SUBSET (1..Len(closed))
  OBVIOUS
<1>2. Finisher(closed[k].entry) = Max(I)
  BY <1>1 DEF Finisher, SelectLastInSeq
<1>3. Max(I) \in I /\ \A i \in I : i <= Max(I)
  BY <1>1, GreatestIndex
<1> QED
  BY <1>2, <1>3

\* In every setup, as long as there are bars, the trigger takes a second trade
\* in a session only after one that ended without its being told: by the
\* session's close (implementations.py:1048), or by a trim of a single share
\* (components.py:203; the count is raised at triggers.py:515).
THEOREM OneTrade == Spec => []OneTradeASession
<1>1. TypeInv /\ TradeInv => OneTradeASession
  <2> SUFFICES ASSUME TypeInv, TradeInv, turn # "settle", NEW t \in Range(closed),
                      t.entry < trade.entry, trade.size > 0, Date(t.entry) = Date(trade.entry)
               PROVE  LET why == closed[Finisher(t.entry)].why
                      IN  why = "session_close" \/ (why = "trim" /\ setup.stake = 1)
    BY DEF OneTradeASession
  <2>1. /\ closed \in Seq(Ended) /\ setup.stake \in {1, 2} /\ setup \in Setups /\ trade.entry \in 0..LastBar
    BY Basics
  <2>2. PICK k \in 1..Len(closed) : t = closed[k]
    BY <2>1, AtAnIndex
  <2> DEFINE f == Finisher(t.entry)
  <2>3. /\ f \in 1..Len(closed) /\ closed[f].entry = t.entry
        /\ \A j \in 1..Len(closed) : closed[j].entry = t.entry => j <= f
    BY <2>1, <2>2, FinisherFacts
  <2> HIDE DEF f
  <2>4. closed[f].entry \in 0..LastBar /\ LastBar \in Nat
    BY <2>1, <2>3, Fields, Basics
  <2>5. closed[f].why \in Exempt
    <3>1. closed[f].why \notin Exempt => Date(closed[f].entry) < Date(trade.entry)
      BY <2>3 DEF TradeInv, CapOK
    <3>2. Date(trade.entry) \in Nat
      BY <2>1, DateFacts
    <3> QED
      BY <2>3, <3>1, <3>2
  <2>6. setup.stake = 2 => closed[f].why # "trim"
    <3> SUFFICES ASSUME setup.stake = 2, closed[f].why = "trim" PROVE FALSE
      OBVIOUS
    <3>1. trade.entry # closed[f].entry
      BY <2>1, <2>3, <2>4
    <3>2. \E j \in 1..Len(closed) : f < j /\ closed[j].entry = closed[f].entry
      BY <2>3, <3>1 DEF TradeInv, TrimOK
    <3> QED
      BY <2>3, <3>2
  <2>7. closed[f].why = "session_close" \/ (closed[f].why = "trim" /\ setup.stake = 1)
    BY <2>1, <2>5, <2>6 DEF Exempt
  <2> QED
    BY <2>7 DEF f
<1> QED
  BY <1>1, InitType, InitTrade, TypeInvStep, TradeInvStep, PTL DEF Spec

-----------------------------------------------------------------------------
(* The engines agree.                                                      *)

\* The last bar of a session has none left, and every other one more than the next.
LEMMA BarsLeftFacts ==
    ASSUME setup \in Setups, NEW i \in 0..LastBar
    PROVE  /\ BarsLeft(i) \in Nat
           /\ _is_last_bar_of_session(i) <=> BarsLeft(i) = 0
           /\ i < LastBar /\ Date(i + 1) = Date(i) => BarsLeft(i) = BarsLeft(i + 1) + 1
<1> DEFINE After(k) == {j \in (k + 1)..LastBar : Date(j) = Date(k)}
<1>1. LastBar \in Nat
  BY SetupFacts
<1>2. \A k \in Int : IsFiniteSet(After(k)) /\ Cardinality(After(k)) \in Nat
  <2> TAKE k \in Int
  <2>1. IsFiniteSet((k + 1)..LastBar)
    BY <1>1, FS_Interval
  <2>2. After(k) \in SUBSET ((k + 1)..LastBar)
    OBVIOUS
  <2>3. IsFiniteSet(After(k))
    BY <2>1, <2>2, FS_Subset
  <2> QED
    BY <2>3, FS_CardinalityType
<1>3. \A k : BarsLeft(k) = Cardinality(After(k))
  BY DEF BarsLeft
<1>4. BarsLeft(i) = 0 <=> After(i) = {}
  <2> HIDE DEF After
  <2> QED
    BY <1>2, <1>3, FS_EmptySet
<1>5. _is_last_bar_of_session(i) => After(i) = {}
  <2> SUFFICES ASSUME _is_last_bar_of_session(i), NEW j \in (i + 1)..LastBar, Date(j) = Date(i)
               PROVE  FALSE
    OBVIOUS
  <2>1. i + 1 \in 0..LastBar /\ i < LastBar /\ i + 1 <= j /\ j \in 0..LastBar
    BY <1>1
  <2>2. Date(i) # Date(i + 1)
    BY <1>1, <2>1 DEF _is_last_bar_of_session
  <2>3. /\ Date(i) <= Date(i + 1) /\ Date(i + 1) <= Date(j)
        /\ Date(i) \in Nat /\ Date(i + 1) \in Nat /\ Date(j) \in Nat
    BY <1>1, <2>1, DateFacts
  <2> QED
    BY <2>2, <2>3
<1>6. After(i) = {} => _is_last_bar_of_session(i)
  <2> SUFFICES ASSUME ~_is_last_bar_of_session(i) PROVE i + 1 \in After(i)
    OBVIOUS
  <2>1. i < LastBar /\ Date(i + 1) = Date(i)
    BY <1>1 DEF _is_last_bar_of_session
  <2> QED
    BY <1>1, <2>1
<1>7. ASSUME i < LastBar, Date(i + 1) = Date(i)
      PROVE  BarsLeft(i) = BarsLeft(i + 1) + 1
  <2>1. After(i) = After(i + 1) \union {i + 1} /\ i + 1 \notin After(i + 1)
    BY <1>1, <1>7
  <2>2. IsFiniteSet(After(i + 1))
    BY <1>2
  <2> HIDE DEF After
  <2>3. Cardinality(After(i)) = Cardinality(After(i + 1)) + 1
    BY <2>1, <2>2, FS_AddElement
  <2> QED
    BY <1>3, <2>3
<1> HIDE DEF After
<1> QED
  BY <1>2, <1>3, <1>4, <1>5, <1>6, <1>7

\* On the same trade the exit rule and the masks give the same answer, but that
\* the masks' time is up no later.
LEMMA RulesAgree ==
    ASSUME TypeInv, NEW m, m.exec = trade.entry, trade.entry <= bar, m.trimmed = core.trimmed
    PROVE  \/ ExitOnBar = MaskRule(m)
           \/ MaskRule(m) = "time" /\ ExitOnBar \in {"eod", "hold"}
<1> DEFINE due == bar - m.exec + 1 >= setup.hold
           held == _bars_held >= setup.hold
<1>1. /\ bar \in Nat /\ trade.entry \in Nat /\ setup.first \in {0, 1} /\ setup.hold \in Nat \ {0}
  BY Basics, SetupFacts
<1>2. _bars_held \in Nat /\ _bars_held <= bar - trade.entry
  BY <1>1 DEF _bars_held
<1>3. held => due
  BY <1>1, <1>2
<1>4. ExitOnBar = IF now.level = "stop" THEN "stop"
                  ELSE IF ~core.trimmed /\ now.level = "target" THEN "trim"
                  ELSE IF core.trimmed /\ now.level = "low" THEN "breakeven"
                  ELSE IF now.weak THEN "weak"
                  ELSE IF held THEN "time"
                  ELSE IF Late(bar) THEN "eod"
                  ELSE "hold"
  BY DEF ExitOnBar
<1>5. MaskRule(m) = IF now.level = "stop" THEN "stop"
                    ELSE IF ~core.trimmed /\ now.level = "target" THEN "trim"
                    ELSE IF core.trimmed /\ now.level = "low" THEN "breakeven"
                    ELSE IF now.weak THEN "weak"
                    ELSE IF due THEN "time"
                    ELSE IF Late(bar) THEN "eod"
                    ELSE "hold"
  BY DEF MaskRule
<1> HIDE DEF due, held
<1> QED
  BY <1>3, <1>4, <1>5

Idle == masks.exec = None /\ masks.pending = None

\* The core may take a trade in bar b's session; MasksFree says it of the masks.
CoreFree(b) == core.date \in {None, Date(b)} => core.count = 0

\* The masks execute an entry on bar b.
Entering(b) ==
    /\ 1 <= b /\ Date(b - 1) = Date(b) /\ BarsLeft(b) >= 1
    /\ ~MasksFree(b) /\ masks.exec = None /\ masks.pending = b /\ ~core.trimmed

\* The open trade was signalled in bar b's session.
Since(b) ==
    1 <= trade.entry /\ trade.entry <= b /\ Date(trade.entry - 1) = Date(b) /\ ~MasksFree(b)

\* The masks hold the broker's trade, or were the first to have left it.
Tracked ==
    \/ masks.exec = trade.entry /\ masks.pending = None /\ masks.trimmed = core.trimmed
    \/ Idle /\ masks.left = "time"

\* The engines as bar b comes: without a trade, about to open it, having opened
\* it, about to close it, or with it open.
Empty(b) == trade.size = 0 /\ orders = <<>> /\ Idle /\ (CoreFree(b) <=> MasksFree(b))
Buying(b) == trade.size = 0 /\ Waits("buy") /\ Entering(b)
Opened(b) == trade.size > 0 /\ trade.entry = b /\ orders = <<>> /\ Entering(b)
Leaving(b) ==
    trade.size > 0 /\ Len(orders) = 1 /\ Waits("close") /\ Idle /\ (CoreFree(b) <=> MasksFree(b))
Open(b) ==
    /\ trade.size > 0 /\ (orders = <<>> \/ (Len(orders) = 1 /\ Waits("trim")))
    /\ Since(b) /\ (BarsLeft(b) = 0 => core.trimmed) /\ Tracked

InStep(b) == Empty(b) \/ Buying(b) \/ Opened(b) \/ Leaving(b) \/ Open(b)

Enters == MayEnter(bar) /\ now.signal /\ MasksFree(bar)

\* The core has decided on an entry ...
Sought ==
    /\ trade.size = 0 /\ Idle
    /\ \/ decision = "entry" /\ Enters /\ Waits("buy") /\ ~core.trimmed
       \/ decision = "hold" /\ ~Enters /\ orders = <<>> /\ (CoreFree(bar) <=> MasksFree(bar))

\* ... or on the open trade, as the masks will.
Managed ==
    /\ trade.size > 0 /\ Since(bar)
    /\ \/ decision = "hold" /\ orders = <<>> /\ BarsLeft(bar) >= 2
       \/ decision = "trim" /\ Len(orders) = 1 /\ Waits("trim") /\ core.trimmed /\ BarsLeft(bar) >= 1
       \/ /\ decision \notin {"hold", "trim", "entry"} /\ Len(orders) = 1 /\ Waits("close")
          /\ core.date = Date(bar) /\ core.count # 0
    /\ \/ /\ Begun.exec = trade.entry
          /\ decision = MaskRule(Begun) \/ (MaskRule(Begun) = "time" /\ decision \in {"eod", "hold"})
          /\ decision = "hold" => Begun.trimmed = core.trimmed
       \/ Idle /\ masks.left = "time"

AgreeInv ==
    /\ bar = 0 /\ turn \in {"broker", "next"} => decision = "hold"
    /\ DecisionsMatchMasks
    /\ Comparable =>
        /\ turn \in {"broker", "next"} => InStep(bar)
        /\ turn = "masks" => Sought \/ Managed
        /\ turn = "walk" /\ bar < LastBar => InStep(bar + 1)

\* The phases speak of the sessions only, which never change.
LEMMA StillPhases ==
    ASSUME setup' = setup, trade' = trade, orders' = orders, core' = core, masks' = masks
    PROVE  \A b : InStep(b)' <=> InStep(b)
<1> TAKE b
<1>1. /\ \A kind : Waits(kind)' <=> Waits(kind)
      /\ Idle' <=> Idle
      /\ Tracked' <=> Tracked
  BY DEF Waits, Idle, Tracked
<1>2. /\ (CoreFree(b)' <=> CoreFree(b)) /\ (MasksFree(b)' <=> MasksFree(b))
      /\ (Since(b)' <=> Since(b)) /\ (Entering(b)' <=> Entering(b)) /\ BarsLeft(b)' = BarsLeft(b)
  BY Still DEF CoreFree, MasksFree, Since, Entering
<1> QED
  BY <1>1, <1>2 DEF InStep, Empty, Buying, Opened, Leaving, Open

LEMMA InitAgree == Init => AgreeInv
<1> SUFFICES ASSUME Init PROVE AgreeInv
  OBVIOUS
<1>1. /\ setup \in Setups /\ bar = 0 /\ turn = "broker" /\ orders = <<>> /\ decision = "hold"
      /\ trade.size = 0 /\ core.date = None /\ core.count = 0
      /\ masks.exec = None /\ masks.pending = None /\ masks.date = None
  BY DEF Init
<1>2. Date(0) # None
  BY <1>1, SetupFacts, DateFacts DEF None
<1>3. Empty(bar)
  BY <1>1, <1>2 DEF Empty, Idle, CoreFree, MasksFree
<1> QED
  BY <1>1, <1>3 DEF AgreeInv, InStep, DecisionsMatchMasks

LEMMA AgreeFill == TypeInv /\ TradeInv /\ AgreeInv /\ Fill => AgreeInv'
<1> SUFFICES ASSUME TypeInv, TradeInv, AgreeInv, Fill PROVE AgreeInv'
  OBVIOUS
<1>1. /\ turn \in {"broker", "settle"} /\ turn' = turn /\ setup' = setup /\ bar' = bar
      /\ core' = core /\ masks' = masks /\ decision' = decision
      /\ orders # <<>> /\ orders' = Tail(orders)
  BY DEF Fill
<1>2. (bar = 0 /\ turn \in {"broker", "next"} => decision = "hold") /\ DecisionsMatchMasks'
  BY <1>1 DEF AgreeInv, DecisionsMatchMasks
<1>3. CASE turn = "settle" \/ ~Comparable
  <2>1. Comparable' <=> Comparable
    BY <1>1 DEF Comparable
  <2> QED
    BY <1>1, <1>2, <1>3, <2>1 DEF AgreeInv
<1>4. CASE turn = "broker" /\ Comparable
  <2>1. InStep(bar)
    BY <1>4 DEF AgreeInv
  <2>2. /\ setup.stake = 2 /\ FillBar = bar /\ trade.size \in 0..2 /\ orders \in Seq(Order)
        /\ bar \in Nat
    BY <1>4, Basics DEF Comparable, FillBar
  <2>3. /\ Len(orders) \in Nat \ {0} /\ Len(orders') = Len(orders) - 1 /\ Head(orders) = orders[1]
        /\ orders' \in Seq(Order)
    BY <1>1, <2>2, Popped
  <2>4. Idle' <=> Idle
    BY <1>1 DEF Idle
  <2>5. /\ (CoreFree(bar)' <=> CoreFree(bar)) /\ (MasksFree(bar)' <=> MasksFree(bar))
        /\ (Entering(bar)' <=> Entering(bar)) /\ BarsLeft(bar)' = BarsLeft(bar)
    BY <1>1, Still DEF CoreFree, MasksFree, Entering
  <2>6. ASSUME Len(orders) = 1
        PROVE  /\ orders' = <<>>
               /\ \A kind : Waits(kind) => Head(orders).kind = kind
    <3>1. orders' = <<>>
      BY <2>3, <2>6
    <3>2. \A i \in 1..Len(orders) : i = 1
      BY <2>6
    <3> QED
      BY <2>3, <3>1, <3>2 DEF Waits
  <2>7. CASE Buying(bar)
    <3>1. Waits("buy") /\ Len(orders) = 1 /\ Head(orders).kind = "buy" /\ Entering(bar)
      BY <2>6, <2>7 DEF Buying, TypeInv, BookOK
    <3>2. orders' = <<>> /\ trade'.size = 2 /\ trade'.entry = bar
      BY <2>2, <3>1, FillCases
    <3>3. Opened(bar)'
      BY <1>1, <2>5, <3>1, <3>2 DEF Opened
    <3> QED
      BY <1>1, <1>2, <1>4, <3>3 DEF AgreeInv, InStep
  <2>8. CASE Leaving(bar)
    <3>1. trade.size > 0 /\ Head(orders).kind = "close" /\ orders' = <<>>
      BY <2>6, <2>8 DEF Leaving
    <3>2. trade'.size = 0
      BY <2>2, <3>1, FillCases
    <3>3. Empty(bar)'
      BY <1>1, <2>4, <2>5, <2>8, <3>1, <3>2 DEF Empty, Leaving
    <3> QED
      BY <1>1, <1>2, <1>4, <3>3 DEF AgreeInv, InStep
  <2>9. CASE Open(bar)
    <3>1. /\ trade.size > 0 /\ Len(orders) = 1 /\ Waits("trim") /\ Since(bar)
          /\ BarsLeft(bar) = 0 => core.trimmed
          /\ Tracked
      BY <1>1, <2>9 DEF Open
    <3>2. Head(orders).kind = "trim" /\ orders' = <<>>
      BY <2>6, <3>1
    <3>3. trade.size = 2
      <4>1. trade.size \in {0, 2}
        BY <1>1, <1>4, <2>2, <3>1 DEF TradeInv, TrimOK
      <4> QED
        BY <3>1, <4>1
    <3>4. trade'.size = 1 /\ trade'.entry = trade.entry
      BY <2>2, <3>2, <3>3, FillCases
    <3>5. Since(bar)' /\ Tracked'
      <4>1. Tracked'
        BY <1>1, <2>4, <3>1, <3>4 DEF Tracked
      <4>2. Date(trade.entry - 1)' = Date(bar)' /\ 1 <= trade'.entry /\ trade'.entry <= bar
        BY <1>1, <3>1, <3>4, Still DEF Since
      <4>3. ~MasksFree(bar)'
        BY <2>5, <3>1 DEF Since
      <4> QED
        BY <1>1, <4>1, <4>2, <4>3 DEF Since
    <3>6. Open(bar)'
      BY <1>1, <2>5, <3>1, <3>2, <3>4, <3>5 DEF Open
    <3> QED
      BY <1>1, <1>2, <1>4, <3>6 DEF AgreeInv, InStep
  <2> QED
    BY <1>1, <2>1, <2>7, <2>8, <2>9 DEF InStep, Empty, Opened
<1> QED
  BY <1>1, <1>3, <1>4

\* The steps that leave what the phases speak of.
LEMMA AgreeQuiet ==
    ASSUME TypeInv, AgreeInv, BrokerNext \/ WalkNext \/ Finalize \/ UNCHANGED vars
    PROVE  AgreeInv'
<1>1. CASE BrokerNext
  <2>1. /\ turn = "broker" /\ turn' = "next" /\ setup' = setup /\ bar' = bar /\ decision' = decision
        /\ trade' = trade /\ orders' = orders /\ core' = core /\ masks' = masks
    BY <1>1 DEF BrokerNext
  <2>2. InStep(bar)' <=> InStep(bar)
    BY <2>1, StillPhases
  <2>3. Comparable' <=> Comparable
    BY <2>1 DEF Comparable
  <2> QED
    BY <2>1, <2>2, <2>3 DEF AgreeInv, DecisionsMatchMasks
<1>2. CASE WalkNext
  <2>1. /\ turn = "walk" /\ turn' = (IF bar < LastBar THEN "broker" ELSE "finish")
        /\ bar' = (IF bar < LastBar THEN bar + 1 ELSE bar) /\ setup' = setup
        /\ trade' = trade /\ orders' = orders /\ core' = core /\ masks' = masks
    BY <1>2 DEF WalkNext
  <2>2. bar \in Nat
    BY Basics
  <2>3. Comparable' <=> Comparable
    BY <2>1 DEF Comparable
  <2>4. ASSUME bar < LastBar, Comparable
        PROVE  InStep(bar)'
    <3>1. bar' = bar + 1 /\ InStep(bar + 1)
      BY <2>1, <2>4 DEF AgreeInv
    <3>2. InStep(bar')
      BY <3>1
    <3>3. ASSUME NEW b, b = bar', InStep(b)
          PROVE  InStep(bar)'
      <4>1. /\ \A kind : Waits(kind)' <=> Waits(kind)
            /\ Idle' <=> Idle
            /\ Tracked' <=> Tracked
        BY <2>1 DEF Waits, Idle, Tracked
      <4>2. Date(b) = Date(bar)' /\ Date(b - 1) = Date(bar - 1)' /\ BarsLeft(b) = BarsLeft(bar)'
            /\ Date(trade.entry - 1)' = Date(trade.entry - 1)
        <5>1. LastBar' = LastBar /\ Date(b) = Date(bar)'
          BY <2>1, <3>3, Still DEF Date
        <5>2. BarsLeft(b) = BarsLeft(bar)'
          BY <2>1, <3>3, <5>1 DEF BarsLeft, Date
        <5> QED
          BY <2>1, <3>3, <5>1, <5>2 DEF Date
      <4>3. /\ (CoreFree(bar)' <=> CoreFree(b)) /\ (MasksFree(bar)' <=> MasksFree(b))
        BY <2>1, <4>2 DEF CoreFree, MasksFree
      <4>4. (Since(bar)' <=> Since(b)) /\ (Entering(bar)' <=> Entering(b))
        BY <2>1, <3>3, <4>2, <4>3 DEF Since, Entering
      <4>5. CASE Empty(b)
        BY <2>1, <4>1, <4>3, <4>5 DEF InStep, Empty
      <4>6. CASE Buying(b)
        BY <2>1, <4>1, <4>4, <4>6 DEF InStep, Buying
      <4>7. CASE Opened(b)
        BY <2>1, <3>3, <4>1, <4>4, <4>7 DEF InStep, Opened
      <4>8. CASE Leaving(b)
        BY <2>1, <4>1, <4>3, <4>8 DEF InStep, Leaving
      <4>9. CASE Open(b)
        BY <2>1, <4>1, <4>2, <4>4, <4>9 DEF InStep, Open
      <4> QED
        BY <3>3, <4>5, <4>6, <4>7, <4>8, <4>9 DEF InStep
    <3> QED
      BY <3>2, <3>3
  <2>5. ~(bar' = 0 /\ turn' \in {"broker", "next"})
    BY <2>1, <2>2
  <2> QED
    BY <2>1, <2>3, <2>4, <2>5 DEF AgreeInv, DecisionsMatchMasks
<1>3. CASE Finalize
  BY <1>3 DEF Finalize, AgreeInv, DecisionsMatchMasks
<1>4. CASE UNCHANGED vars
  <2>1. /\ turn' = turn /\ setup' = setup /\ bar' = bar /\ decision' = decision /\ now' = now
        /\ trade' = trade /\ orders' = orders /\ core' = core /\ masks' = masks
    BY <1>4 DEF vars
  <2>2. (InStep(bar)' <=> InStep(bar)) /\ (InStep(bar + 1)' <=> InStep(bar + 1))
    BY <2>1, StillPhases
  <2>3. (Comparable' <=> Comparable) /\ (DecisionsMatchMasks' <=> DecisionsMatchMasks) /\ LastBar' = LastBar
    BY <2>1, Still DEF Comparable, DecisionsMatchMasks, Overstayed
  <2>4. Sought' <=> Sought
    BY <2>1, Still DEF Sought, Idle, Enters, Waits, CoreFree, MasksFree, MayEnter
  <2>5. Managed' <=> Managed
    <3>1. Begun' = Begun /\ MaskRule(Begun)' = MaskRule(Begun)
      BY <2>1, Still DEF Begun, Started, MaskRule, Late
    <3> QED
      BY <2>1, <3>1, Still DEF Managed, Since, MasksFree, Idle, Waits
  <2> QED
    BY <2>1, <2>2, <2>3, <2>4, <2>5 DEF AgreeInv
<1> QED
  BY <1>1, <1>2, <1>3, <1>4

\* The core's decision without a trade.
LEMMA AgreeSeek ==
    ASSUME TypeInv, Comparable, orders = <<>>, Seek, Empty(bar),
           setup' = setup, bar' = bar, now' = now, trade' = trade, masks' = masks
    PROVE  Sought'
<1>1. /\ setup \in Setups /\ LastBar \in Nat /\ bar \in 0..LastBar /\ core \in Core
      /\ setup.shut \in Nat /\ setup.shut >= 2
  BY Basics, SetupFacts DEF TypeInv, Shapes, Comparable
<1>2. /\ trade.size = 0 /\ decision' \in {"entry", "hold"} /\ core'.date = Date(bar)
      /\ core'.count = (IF core.date \in {None, Date(bar)} THEN core.count ELSE 0)
      /\ decision' = "entry" <=> Buys(_sync_session_state)
      /\ Buys(_sync_session_state) <=> MayEnter(bar) /\ now.signal /\ core'.count = 0
      /\ core'.trimmed = IF decision' = "entry" THEN FALSE ELSE core.trimmed
  BY <1>1, SeekCore
<1>3. core'.count = 0 <=> CoreFree(bar)
  BY <1>2 DEF CoreFree
<1>4. Enters <=> decision' = "entry"
  BY <1>2, <1>3 DEF Enters, Empty
<1>5. (Enters' <=> Enters) /\ Idle'
  BY Still DEF Enters, MayEnter, MasksFree, Empty, Idle
<1>6. CASE decision' = "entry"
  <2>1. BarsLeft(bar) >= setup.shut /\ BarsLeft(bar) \in Nat
    BY <1>1, <1>2, <1>6, BarsLeftFacts DEF MayEnter
  <2>2. ~_is_last_bar_of_session(bar)
    <3>1. BarsLeft(bar) # 0
      BY <1>1, <2>1
    <3> QED
      BY <1>1, <3>1, BarsLeftFacts
  <2>3. orders' # <<>>
    BY <1>2, <1>6, <2>2, SeekQueue
  <2>4. Waits("buy")'
    <3> DEFINE buy == [kind |-> "buy", why |-> "entry"]
    <3>1. orders' = <<buy>>
      BY <2>3, SeekQueue
    <3>2. buy.kind = "buy"
      OBVIOUS
    <3> HIDE DEF buy
    <3>3. Len(orders') = 1 /\ orders'[1] = buy
      BY <3>1
    <3>4. 1 \in 1..Len(orders')
      BY <3>3
    <3> QED
      BY <3>2, <3>3, <3>4 DEF Waits
  <2>5. ~core'.trimmed
    BY <1>2, <1>6
  <2> QED
    BY <1>2, <1>4, <1>5, <1>6, <2>4, <2>5 DEF Sought
<1>7. CASE decision' = "hold"
  <2>1. orders' = <<>>
    BY <1>2, <1>7, SeekQueue
  <2>2. CoreFree(bar)' <=> MasksFree(bar)'
    <3>1. CoreFree(bar)' <=> core'.count = 0
      BY <1>2, Still DEF CoreFree
    <3>2. MasksFree(bar)' <=> MasksFree(bar)
      BY Still DEF MasksFree
    <3> QED
      BY <1>3, <3>1, <3>2 DEF Empty
  <2> QED
    BY <1>2, <1>4, <1>5, <1>7, <2>1, <2>2 DEF Sought
<1> QED
  BY <1>2, <1>6, <1>7

\* A signal of the same session came before the bar the trade is at.
LEMMA SinceFacts ==
    ASSUME setup \in Setups, NEW b \in 0..LastBar, trade.entry \in 0..LastBar, Since(b)
    PROVE  b >= 1 /\ ~_is_new_session(b)
<1>1. /\ LastBar \in Nat /\ 1 <= trade.entry /\ trade.entry <= b
      /\ Date(trade.entry - 1) = Date(b)
  BY SetupFacts DEF Since
<1>2. b \in 1..LastBar /\ b - 1 \in 0..LastBar /\ trade.entry - 1 \in 0..LastBar /\ trade.entry - 1 <= b - 1
  BY <1>1
<1>3. /\ Date(trade.entry - 1) <= Date(b - 1) /\ Date(b - 1) \in Nat /\ Date(b) \in Nat
  BY <1>2, DateFacts
<1>4. ~(Date(b - 1) < Date(b))
  BY <1>1, <1>3
<1> QED
  BY <1>2, <1>4, SessionEdges

\* The core's decision on the open trade.
LEMMA AgreeManage ==
    ASSUME TypeInv, turn = "next", Comparable, orders = <<>>, Manage, Opened(bar) \/ Open(bar),
           setup' = setup, bar' = bar, now' = now, trade' = trade, masks' = masks
    PROVE  Managed'
<1>1. /\ setup \in Setups /\ LastBar \in Nat /\ bar \in 0..LastBar /\ core \in Core
      /\ trade.entry \in 0..LastBar /\ setup.eod \in Nat /\ setup.eod >= 2
      /\ core.count \in Nat /\ core.trimmed \in BOOLEAN /\ masks \in Masks
  BY Basics, SetupFacts DEF TypeInv, Shapes, Comparable, Core
<1>2. trade.size > 0 /\ decision' = ExitOnBar /\ ExitOnBar \in Reasons \union {"hold"}
  BY <1>1, ManageCore, ExitRange
<1>3. Since(bar)
  <2>1. CASE Opened(bar)
    BY <1>1, <2>1 DEF Opened, Entering, Since
  <2>2. CASE Open(bar)
    BY <2>2 DEF Open
  <2> QED
    BY <2>1, <2>2
<1>4. bar >= 1 /\ ~_is_new_session(bar) /\ trade.entry <= bar
  BY <1>1, <1>3, SinceFacts DEF Since
<1>5. BarsLeft(bar) \in Nat /\ (_is_last_bar_of_session(bar) <=> BarsLeft(bar) = 0)
  BY <1>1, BarsLeftFacts
<1>6. /\ _is_last_bar_of_session(bar) => Len(orders') = 1 /\ Waits("close")'
      /\ ~_is_last_bar_of_session(bar) =>
           IF ExitOnBar = "hold" THEN orders' = <<>> ELSE Len(orders') = 1 /\ orders'[1] = RuleOrder
  BY <1>4, ManageQueue
<1>7. Len(orders') = 1 /\ orders'[1] = RuleOrder =>
        IF ExitOnBar = "trim" THEN Waits("trim")' ELSE Waits("close")'
  <2>1. Len(orders') = 1 => 1 \in 1..Len(orders')
    OBVIOUS
  <2>2. RuleOrder.kind = IF ExitOnBar = "trim" THEN "trim" ELSE "close"
    BY DEF RuleOrder
  <2> QED
    BY <2>1, <2>2 DEF Waits
<1>8. \/ decision' = "hold" /\ orders' = <<>> /\ BarsLeft(bar) >= 2 /\ core' = core
      \/ decision' = "trim" /\ Len(orders') = 1 /\ Waits("trim")' /\ core'.trimmed /\ BarsLeft(bar) >= 1
      \/ /\ decision' \notin {"hold", "trim", "entry"} /\ Len(orders') = 1 /\ Waits("close")'
         /\ core'.date = Date(bar) /\ core'.count # 0
  <2>1. CASE ExitOnBar = "hold"
    <3>1. ~Late(bar)
      BY <2>1 DEF ExitOnBar
    <3>2. BarsLeft(bar) >= 2
      BY <1>1, <1>5, <3>1 DEF Late
    <3>3. ~_is_last_bar_of_session(bar)
      BY <1>5, <3>2
    <3> QED
      BY <1>1, <1>2, <1>6, <2>1, <3>2, <3>3, ManageCore
  <2>2. CASE ExitOnBar = "trim"
    <3>1. ~core.trimmed /\ core'.trimmed
      BY <1>1, <2>2, ManageCore
    <3>2. BarsLeft(bar) >= 1
      <4>1. CASE Opened(bar)
        BY <4>1 DEF Opened, Entering
      <4>2. CASE Open(bar)
        BY <1>5, <3>1, <4>2 DEF Open
      <4> QED
        BY <4>1, <4>2
    <3>3. ~_is_last_bar_of_session(bar)
      BY <1>5, <3>2
    <3> QED
      BY <1>2, <1>6, <1>7, <2>2, <3>1, <3>2, <3>3
  <2>3. CASE ExitOnBar \notin {"hold", "trim"}
    <3>1. core'.date = Date(bar) /\ core'.count # 0
      BY <1>1, <2>3, ManageCore
    <3>2. decision' \notin {"hold", "trim", "entry"}
      BY <1>2, <2>3 DEF Reasons
    <3>3. Len(orders') = 1 /\ Waits("close")'
      BY <1>6, <1>7, <2>3
    <3> QED
      BY <3>1, <3>2, <3>3
  <2> QED
    BY <2>1, <2>2, <2>3
<1>9. Begun' = Begun /\ MaskRule(Begun)' = MaskRule(Begun)
  BY Still DEF Begun, Started, MaskRule, Late
<1>10. \/ Begun.exec = trade.entry /\ Begun.trimmed = core.trimmed
       \/ Idle /\ masks.left = "time"
  <2>1. bar # None
    BY <1>1 DEF None
  <2>2. CASE Opened(bar)
    <3>1. Begun.exec = bar /\ ~Begun.trimmed /\ Begun \in Masks
      BY <1>1, <2>2, StartedFacts DEF Begun, Opened, Entering
    <3>2. Begun.trimmed \in BOOLEAN
      BY <3>1 DEF Masks
    <3> QED
      BY <1>1, <2>2, <3>1, <3>2 DEF Opened, Entering
  <2>3. CASE Open(bar)
    <3>1. Tracked
      BY <2>3 DEF Open
    <3>2. masks.pending = None => Begun = masks
      BY <1>1, <2>1, StartedFacts DEF Begun
    <3> QED
      BY <3>1, <3>2 DEF Tracked
  <2> QED
    BY <2>2, <2>3
<1>11. \/ /\ Begun.exec = trade.entry
          /\ decision' = MaskRule(Begun) \/ (MaskRule(Begun) = "time" /\ decision' \in {"eod", "hold"})
          /\ decision' = "hold" => Begun.trimmed = core'.trimmed
       \/ Idle /\ masks.left = "time"
  <2>1. CASE Begun.exec = trade.entry /\ Begun.trimmed = core.trimmed
    <3>1. \/ ExitOnBar = MaskRule(Begun)
          \/ MaskRule(Begun) = "time" /\ ExitOnBar \in {"eod", "hold"}
      BY <1>4, <2>1, RulesAgree
    <3>2. decision' = "hold" => core' = core
      BY <1>1, <1>2, ManageCore
    <3> QED
      BY <1>2, <2>1, <3>1, <3>2
  <2> QED
    BY <1>10, <2>1
<1>12. (Since(bar)' <=> Since(bar)) /\ (Idle' <=> Idle) /\ BarsLeft(bar)' = BarsLeft(bar) /\ Date(bar)' = Date(bar)
  BY Still DEF Since, MasksFree, Idle
<1> QED
  BY <1>2, <1>3, <1>8, <1>9, <1>11, <1>12 DEF Managed

LEMMA AgreeAdapterNext == TypeInv /\ AgreeInv /\ AdapterNext => AgreeInv'
<1> SUFFICES ASSUME TypeInv, AgreeInv, AdapterNext PROVE AgreeInv'
  OBVIOUS
<1>1. /\ turn = "next" /\ turn' = "masks" /\ setup' = setup /\ bar' = bar /\ now' = now
      /\ trade' = trade /\ masks' = masks
      /\ \/ bar < setup.first /\ orders' = orders /\ core' = core /\ decision' = decision
         \/ Manage \/ Seek
  BY DEF AdapterNext
<1>2. /\ setup \in Setups /\ bar \in Nat /\ setup.first \in {0, 1} /\ orders = <<>>
      /\ trade.size \in 0..setup.stake /\ setup.stake \in {1, 2} /\ (trade.size > 0 => bar > 0)
  BY <1>1, Basics, SetupFacts DEF TypeInv, BookOK
<1>3. Comparable' <=> Comparable
  BY <1>1 DEF Comparable
<1>4. ASSUME Comparable PROVE Sought' \/ Managed'
  <2>1. InStep(bar) /\ ~Waits("buy") /\ ~Waits("close")
    BY <1>1, <1>2, <1>4 DEF AgreeInv, Waits
  <2>2. Empty(bar) \/ Opened(bar) \/ Open(bar)
    BY <2>1 DEF InStep, Buying, Leaving
  <2>3. CASE bar < setup.first /\ orders' = orders /\ core' = core /\ decision' = decision
    <3>1. bar = 0 /\ trade.size = 0
      BY <1>2, <2>3
    <3>2. decision = "hold" /\ Empty(bar)
      BY <1>1, <2>2, <3>1 DEF AgreeInv, Opened, Open
    <3>3. ~Enters'
      BY <1>1, <3>1 DEF Enters, MayEnter
    <3> QED
      BY <1>1, <1>2, <2>3, <3>1, <3>2, <3>3, Still DEF Sought, Empty, Idle, CoreFree, MasksFree
  <2>4. CASE Manage
    <3>1. trade.size > 0
      BY <2>4 DEF Manage
    <3>2. Opened(bar) \/ Open(bar)
      BY <2>2, <3>1 DEF Empty
    <3> QED
      BY <1>1, <1>2, <1>4, <2>4, <3>2, AgreeManage
  <2>5. CASE Seek
    <3>1. trade.size = 0
      BY <2>5 DEF Seek
    <3>2. Empty(bar)
      BY <2>2, <3>1 DEF Opened, Open
    <3> QED
      BY <1>1, <1>2, <1>4, <2>5, <3>2, AgreeSeek
  <2> QED
    BY <1>1, <2>3, <2>4, <2>5
<1> QED
  BY <1>1, <1>3, <1>4 DEF AgreeInv, DecisionsMatchMasks

\* What the next bar's session is to the masks and to the core.
LEMMA NextBar ==
    ASSUME TypeInv, setup' = setup, bar' = bar, core' = core, masks'.date = Date(bar), bar < LastBar
    PROVE  /\ Date(bar + 1)' = Date(bar + 1) /\ BarsLeft(bar + 1)' = BarsLeft(bar + 1)
           /\ BarsLeft(bar) \in Nat /\ BarsLeft(bar + 1) \in Nat
           /\ BarsLeft(bar) >= 1 =>
                Date(bar + 1) = Date(bar) /\ BarsLeft(bar + 1) = BarsLeft(bar) - 1
           /\ MasksFree(bar + 1)' <=> (Date(bar + 1) = Date(bar) => masks'.count = 0)
           /\ Date(bar + 1) = Date(bar) => (CoreFree(bar + 1)' <=> CoreFree(bar))
           /\ Date(bar + 1) # Date(bar) => CoreFree(bar + 1)'
<1>1. /\ setup \in Setups /\ LastBar \in Nat /\ bar \in 0..LastBar /\ bar + 1 \in 0..LastBar
      /\ core.date \in {None} \union Nat /\ core.date <= Date(bar) /\ (core.date = None => core.count = 0)
  BY Basics DEF TypeInv, Shapes, Core, CoreOK
<1>2. Date(bar + 1)' = Date(bar + 1) /\ BarsLeft(bar + 1)' = BarsLeft(bar + 1)
  BY Still
<1>3. BarsLeft(bar) \in Nat /\ BarsLeft(bar + 1) \in Nat
  BY <1>1, BarsLeftFacts
<1>4. BarsLeft(bar) >= 1 => Date(bar + 1) = Date(bar) /\ BarsLeft(bar + 1) = BarsLeft(bar) - 1
  <2> SUFFICES ASSUME BarsLeft(bar) >= 1
               PROVE  Date(bar + 1) = Date(bar) /\ BarsLeft(bar + 1) = BarsLeft(bar) - 1
    OBVIOUS
  <2>1. BarsLeft(bar) # 0
    BY <1>3
  <2>2. ~_is_last_bar_of_session(bar)
    BY <1>1, <2>1, BarsLeftFacts
  <2>3. Date(bar + 1) = Date(bar)
    BY <2>2 DEF _is_last_bar_of_session
  <2>4. BarsLeft(bar) = BarsLeft(bar + 1) + 1
    BY <1>1, <2>3, BarsLeftFacts
  <2> QED
    BY <1>3, <2>3, <2>4
<1>5. MasksFree(bar + 1)' <=> (Date(bar + 1) = Date(bar) => masks'.count = 0)
  BY <1>2 DEF MasksFree
<1>6. Date(bar + 1) = Date(bar) => (CoreFree(bar + 1)' <=> CoreFree(bar))
  BY <1>2 DEF CoreFree
<1>7. Date(bar + 1) # Date(bar) => CoreFree(bar + 1)'
  <2> SUFFICES ASSUME Date(bar + 1) # Date(bar), core.date \in {None, Date(bar + 1)}
               PROVE  core.count = 0
    BY <1>2 DEF CoreFree
  <2>1. Date(bar) <= Date(bar + 1) /\ Date(bar) \in Nat /\ Date(bar + 1) \in Nat
    BY <1>1, DateFacts
  <2>2. core.date # Date(bar + 1)
    BY <1>1, <2>1
  <2> QED
    BY <1>1, <2>2
<1> QED
  BY <1>2, <1>3, <1>4, <1>5, <1>6, <1>7

\* The masks' answer where the core looked for an entry.
LEMMA SoughtMasks ==
    ASSUME TypeInv, Comparable, turn = "masks", MasksNext, Sought
    PROVE  /\ \/ decision' = "entry" /\ masks'.entry
              \/ decision' = masks'.flag /\ ~masks'.entry
           /\ bar < LastBar => InStep(bar + 1)'
<1>1. /\ setup' = setup /\ bar' = bar /\ trade' = trade /\ orders' = orders /\ core' = core
      /\ decision' = decision /\ masks' = build_masks(Enter(masks))
  BY DEF MasksNext
<1>2. /\ setup \in Setups /\ bar \in 0..LastBar /\ LastBar \in Nat
      /\ setup.shut \in Nat /\ setup.shut >= 2 /\ Shapes
  BY Basics, SetupFacts DEF TypeInv, Comparable
<1>3. Begun = masks /\ masks.exec = None /\ masks.pending = None /\ Rule = "hold" /\ trade.size = 0
  BY BegunFacts DEF Sought, Idle, Rule
<1>4. /\ masks' \in Masks /\ masks'.flag = "hold" /\ masks'.date = Date(bar) /\ masks'.exec = None
      /\ masks'.entry <=> Enters
      /\ masks'.count = (IF masks'.entry THEN 1 ELSE IF masks.date = Date(bar) THEN masks.count ELSE 0)
      /\ masks'.pending = (IF masks'.entry THEN bar + 1 ELSE None)
  BY <1>1, <1>2, <1>3, MasksStep DEF Enters
<1>5. \A kind : Waits(kind)' <=> Waits(kind)
  BY <1>1 DEF Waits
<1>6. CASE decision = "entry" /\ Enters /\ Waits("buy") /\ ~core.trimmed
  <2>1. masks'.entry /\ masks'.count = 1 /\ masks'.pending = bar + 1
    BY <1>4, <1>6
  <2>2. ASSUME bar < LastBar PROVE Buying(bar + 1)'
    <3>1. BarsLeft(bar) >= setup.shut /\ BarsLeft(bar) \in Nat
      BY <1>2, <1>6, BarsLeftFacts DEF Enters, MayEnter
    <3>2. Date(bar + 1)' = Date(bar + 1) /\ BarsLeft(bar + 1)' = BarsLeft(bar + 1)
          /\ BarsLeft(bar + 1) >= 1 /\ Date(bar + 1) = Date(bar) /\ ~MasksFree(bar + 1)'
      BY <1>1, <1>2, <1>4, <2>1, <2>2, <3>1, NextBar
    <3>3. (bar + 1) - 1 = bar /\ 1 <= bar + 1
      BY <1>2
    <3>4. Date((bar + 1) - 1)' = Date(bar)
      BY <1>1, <3>3, Still
    <3>5. Entering(bar + 1)'
      BY <1>1, <1>4, <1>6, <2>1, <3>2, <3>3, <3>4 DEF Entering
    <3> QED
      BY <1>1, <1>3, <1>5, <1>6, <3>5 DEF Buying
  <2> QED
    BY <1>1, <1>6, <2>1, <2>2 DEF InStep
<1>7. CASE decision = "hold" /\ ~Enters /\ orders = <<>> /\ (CoreFree(bar) <=> MasksFree(bar))
  <2>1. ~masks'.entry /\ Idle'
    BY <1>4, <1>7 DEF Idle
  <2>2. masks'.count = 0 <=> MasksFree(bar)
    BY <1>4, <2>1 DEF MasksFree
  <2>3. ASSUME bar < LastBar PROVE CoreFree(bar + 1)' <=> MasksFree(bar + 1)'
    BY <1>1, <1>4, <1>7, <2>2, <2>3, NextBar
  <2>4. bar < LastBar => Empty(bar + 1)'
    BY <1>1, <1>3, <1>7, <2>1, <2>3 DEF Empty
  <2> QED
    BY <1>1, <1>4, <1>7, <2>1, <2>4 DEF InStep
<1> QED
  BY <1>6, <1>7 DEF Sought

\* The masks' answer on the open trade.
LEMMA ManagedMasks ==
    ASSUME TypeInv, Comparable, turn = "masks", MasksNext, Managed
    PROVE  /\ ~masks'.entry /\ decision' # "entry"
           /\ decision' = masks'.flag \/ Overstayed'
           /\ bar < LastBar => InStep(bar + 1)'
<1>1. /\ setup' = setup /\ bar' = bar /\ trade' = trade /\ orders' = orders /\ core' = core
      /\ decision' = decision /\ masks' = build_masks(Enter(masks))
  BY DEF MasksNext
<1>2. /\ setup \in Setups /\ bar \in 0..LastBar /\ LastBar \in Nat /\ Shapes
      /\ trade.entry \in 0..LastBar /\ trade.size > 0 /\ Since(bar) /\ Begun.pending = None
  BY Basics, BegunFacts DEF TypeInv, Managed
<1>3. ~MasksFree(bar) /\ masks.date = Date(bar) /\ masks.count # 0
  BY <1>2 DEF Since, MasksFree
<1>4. /\ masks'.flag = Rule /\ ~masks'.entry /\ masks'.date = Date(bar) /\ masks'.count # 0
      /\ masks' \in Masks
  BY <1>1, <1>2, <1>3, MasksStep
<1>5. \A kind : Waits(kind)' <=> Waits(kind)
  BY <1>1 DEF Waits
<1>6. \/ masks'.exec = trade.entry /\ masks'.pending = None /\ decision = Rule /\ Rule = "hold"
         /\ masks'.trimmed = core.trimmed
      \/ masks'.exec = trade.entry /\ masks'.pending = None /\ decision = Rule /\ Rule = "trim" /\ masks'.trimmed
      \/ Idle' /\ decision = Rule /\ Rule \notin {"hold", "trim"}
      \/ Idle' /\ masks'.left = "time"
  <2>1. CASE /\ Begun.exec = trade.entry
             /\ decision = MaskRule(Begun) \/ (MaskRule(Begun) = "time" /\ decision \in {"eod", "hold"})
             /\ decision = "hold" => Begun.trimmed = core.trimmed
    <3>1. Rule = MaskRule(Begun)
      BY <1>2, <2>1 DEF Rule, None
    <3>2. CASE Rule = "hold"
      BY <1>1, <1>2, <1>4, <2>1, <3>1, <3>2, MasksStep
    <3>3. CASE Rule = "trim"
      BY <1>1, <1>2, <1>4, <2>1, <3>1, <3>3, MasksStep
    <3>4. CASE Rule \notin {"hold", "trim"}
      <4>1. Idle' /\ masks'.left = Rule
        BY <1>1, <1>2, <3>4, MasksStep DEF Idle
      <4> QED
        BY <2>1, <3>1, <3>4, <4>1
    <3> QED
      BY <3>2, <3>3, <3>4
  <2>2. CASE Idle /\ masks.left = "time"
    <3>1. Begun = masks /\ Rule = "hold"
      BY <2>2, BegunFacts DEF Idle, Rule
    <3>2. Idle' /\ masks'.left = "time"
      BY <1>1, <1>2, <1>4, <2>2, <3>1, MasksStep DEF Idle
    <3> QED
      BY <3>2
  <2> QED
    BY <2>1, <2>2 DEF Managed
<1>7. decision # "entry"
  BY DEF Managed
<1>8. Overstayed' <=> masks'.exec = None /\ masks'.left = "time"
  BY <1>1, <1>2 DEF Overstayed
<1>9. decision = masks'.flag \/ Overstayed'
  BY <1>4, <1>6, <1>8 DEF Idle
<1>10. ASSUME bar < LastBar PROVE InStep(bar + 1)'
  <2>1. /\ Date(bar + 1)' = Date(bar + 1) /\ BarsLeft(bar + 1)' = BarsLeft(bar + 1)
        /\ BarsLeft(bar) \in Nat /\ BarsLeft(bar + 1) \in Nat
        /\ BarsLeft(bar) >= 1 =>
             Date(bar + 1) = Date(bar) /\ BarsLeft(bar + 1) = BarsLeft(bar) - 1
        /\ MasksFree(bar + 1)' <=> Date(bar + 1) # Date(bar)
        /\ Date(bar + 1) = Date(bar) => (CoreFree(bar + 1)' <=> CoreFree(bar))
        /\ Date(bar + 1) # Date(bar) => CoreFree(bar + 1)'
    BY <1>1, <1>4, <1>10, NextBar
  <2>2. ASSUME BarsLeft(bar) >= 1 PROVE Since(bar + 1)'
    <3>1. 1 <= trade.entry /\ trade.entry <= bar + 1 /\ Date(trade.entry - 1) = Date(bar)
      BY <1>2 DEF Since
    <3>2. Date(trade.entry - 1)' = Date(trade.entry - 1)
      BY <1>1, Still
    <3> QED
      BY <1>1, <2>1, <2>2, <3>1, <3>2 DEF Since
  <2>3. CASE decision = "hold" /\ orders = <<>> /\ BarsLeft(bar) >= 2
    <3>1. Tracked'
      BY <1>1, <1>6, <2>3 DEF Tracked, Idle
    <3>2. Open(bar + 1)'
      BY <1>1, <1>2, <2>1, <2>2, <2>3, <3>1 DEF Open
    <3> QED
      BY <3>2 DEF InStep
  <2>4. CASE decision = "trim" /\ Len(orders) = 1 /\ Waits("trim") /\ core.trimmed /\ BarsLeft(bar) >= 1
    <3>1. masks'.trimmed \in BOOLEAN /\ core.trimmed \in BOOLEAN
      BY <1>2, <1>4 DEF Masks, Shapes, Core
    <3>2. Tracked'
      BY <1>1, <1>6, <2>4, <3>1 DEF Tracked, Idle
    <3>3. Open(bar + 1)'
      BY <1>1, <1>2, <1>5, <2>1, <2>2, <2>4, <3>2 DEF Open
    <3> QED
      BY <3>3 DEF InStep
  <2>5. CASE /\ decision \notin {"hold", "trim", "entry"} /\ Len(orders) = 1 /\ Waits("close")
             /\ core.date = Date(bar) /\ core.count # 0
    <3>1. Idle'
      BY <1>6, <2>5
    <3>2. ~CoreFree(bar)
      BY <2>5 DEF CoreFree
    <3>3. CoreFree(bar + 1)' <=> MasksFree(bar + 1)'
      BY <2>1, <3>2
    <3>4. Leaving(bar + 1)'
      BY <1>1, <1>2, <1>5, <2>5, <3>1, <3>3 DEF Leaving
    <3> QED
      BY <3>4 DEF InStep
  <2> QED
    BY <2>3, <2>4, <2>5 DEF Managed
<1> QED
  BY <1>1, <1>4, <1>7, <1>9, <1>10

LEMMA AgreeMasksNext == TypeInv /\ AgreeInv /\ MasksNext => AgreeInv'
<1> SUFFICES ASSUME TypeInv, AgreeInv, MasksNext PROVE AgreeInv'
  OBVIOUS
<1>1. turn = "masks" /\ turn' = "walk" /\ setup' = setup /\ bar' = bar
  BY DEF MasksNext
<1>2. (Comparable' <=> Comparable) /\ LastBar' = LastBar
  BY <1>1, Still DEF Comparable
<1>3. CASE ~Comparable
  BY <1>1, <1>2, <1>3 DEF AgreeInv, DecisionsMatchMasks
<1>4. CASE Comparable
  <2>1. Sought \/ Managed
    BY <1>1, <1>4 DEF AgreeInv
  <2>2. /\ \/ decision' = "entry" /\ masks'.entry
           \/ decision' = masks'.flag /\ ~masks'.entry
           \/ Overstayed' /\ decision' # "entry"
        /\ bar < LastBar => InStep(bar + 1)'
    BY <1>1, <1>4, <2>1, SoughtMasks, ManagedMasks
  <2>3. DecisionsMatchMasks'
    BY <2>2 DEF DecisionsMatchMasks
  <2> QED
    BY <1>1, <1>2, <2>2, <2>3 DEF AgreeInv
<1> QED
  BY <1>3, <1>4

LEMMA AgreeInvStep == TypeInv /\ TradeInv /\ AgreeInv /\ [Next]_vars => AgreeInv'
BY AgreeFill, AgreeQuiet, AgreeAdapterNext, AgreeMasksNext DEF Next

\* In every setup in which the engines can be held against each other the core
\* decides on every bar what the masks flag, but for the masks' earlier time
\* stop, and in every setup the walk holds what the masks hold
\* (exit_rules.py:575, vectorbt_support.py:202).
THEOREM SameAnswers == Spec => []EnginesAgree
<1>1. Init => WalkInv
  BY DEF Init, WalkInv, Holding, Flat, None
<1>2. Init => TradeInv
  BY InitTrade
<1>3. WalkInv /\ AgreeInv => EnginesAgree
  BY DEF EnginesAgree, WalkInv, WalkFollowsMasks, Holding, AgreeInv
<1> QED
  BY <1>1, <1>2, <1>3, InitType, InitAgree, TypeInvStep, WalkInvStep, TradeInvStep, AgreeInvStep,
     PTL DEF Spec
=============================================================================
