------------------------- MODULE WalkForward_proofs -------------------------
(***************************************************************************)
(* Theorems about walk-forward training, for every dataset, configuration  *)
(* and length of a day: type correctness, that scaled windows fit the      *)
(* history, that the holdout is kept and that covered labels are past.     *)
(***************************************************************************)
EXTENDS WalkForward, TLAPS

-----------------------------------------------------------------------------
(* Times and sessions.                                                     *)

\* A session that comes before another ends before the other begins.
LEMMA DaysApart ==
    ASSUME NEW a \in Nat, NEW b \in Nat, a < b, NEW D \in Nat
    PROVE  a * D + D <= b * D
<1>1. PICK c \in Nat : b = a + 1 + c
  <2>1. b - a - 1 \in Nat /\ b = a + 1 + (b - a - 1)
    OBVIOUS
  <2> QED
    BY <2>1
<1>2. b * D = a * D + D + c * D
  BY <1>1
<1>3. c * D \in Nat
  OBVIOUS
<1>4. a * D \in Nat /\ b * D \in Nat
  OBVIOUS
<1> QED
  BY <1>2, <1>3, <1>4

\* What is known of a dataset, in the terms of the steps.
LEMMA DatasetFacts ==
    ASSUME NEW d \in Datasets
    PROVE  /\ d.rows \in Seq(Nat) /\ d.rows # <<>>
           /\ d.until \in Seq(Nat) /\ DOMAIN d.until = DOMAIN d.rows
           /\ d.dates \in Seq(Nat) /\ Len(d.dates) \in Nat /\ DOMAIN d.dates = 1 .. Len(d.dates)
           /\ \A i \in DOMAIN d.rows : d.rows[i] \in Nat /\ d.until[i] \in Nat
           /\ \A k \in DOMAIN d.dates : d.dates[k] \in Nat /\ d.dates[k] * Day \in Nat
           /\ \A i, j \in DOMAIN d.rows : i < j => d.rows[i] < d.rows[j]
<1>1. IsDataset(d) /\ Day \in Nat
  BY WalkForwardAssumption
<1>2. d.rows \in Seq(Nat) /\ d.until \in Seq(Nat) /\ d.dates \in Seq(Nat) /\ Len(d.until) = Len(d.rows)
  BY <1>1 DEF IsDataset
<1>3. DOMAIN d.until = DOMAIN d.rows
  BY <1>2
<1>4. \A i \in DOMAIN d.rows : d.rows[i] \in Nat /\ d.until[i] \in Nat
  BY <1>2, <1>3
<1>5. \A k \in DOMAIN d.dates : d.dates[k] \in Nat
  BY <1>2
<1>6. \A n \in Nat : n * Day \in Nat
  BY <1>1
<1>7. d.rows # <<>> /\ \A i, j \in DOMAIN d.rows : i < j => d.rows[i] < d.rows[j]
  BY <1>1 DEF IsDataset, Increasing
<1>8. Len(d.dates) \in Nat /\ DOMAIN d.dates = 1 .. Len(d.dates)
  BY <1>2
<1> QED
  BY <1>2, <1>3, <1>4, <1>5, <1>6, <1>7, <1>8, Zenon

\* The sessions of a dataset follow one another.
LEMMA SessionsApart ==
    ASSUME NEW d \in Datasets, NEW k \in DOMAIN d.dates, NEW m \in DOMAIN d.dates, k < m
    PROVE  d.dates[k] * Day + Day <= d.dates[m] * Day
<1>1. d.dates[k] < d.dates[m] /\ Day \in Nat
  BY WalkForwardAssumption DEF IsDataset, Increasing
<1> QED
  BY <1>1, DatasetFacts, DaysApart

\* The session of a row.
LEMMA RowSession ==
    ASSUME NEW d \in Datasets, NEW i \in DOMAIN d.rows
    PROVE  \E k \in DOMAIN d.dates :
               d.dates[k] * Day <= d.rows[i] /\ d.rows[i] < d.dates[k] * Day + Day
BY WalkForwardAssumption DEF IsDataset

-----------------------------------------------------------------------------
(* The inductive invariant.                                                *)

BeforeFolds == {"start", "scale", "trim"}

\* The windows that Scale starts from are the configured ones, and positive.
ScaleOK ==
    stage = "scale" => /\ kind = "daily" /\ cfg.train > 0 /\ cfg.valid > 0 /\ cfg.test > 0
                       /\ size = [train |-> cfg.train, valid |-> cfg.valid, test |-> cfg.test]

\* A run starts with the configured windows.
StartOK == stage = "start" => size = [train |-> cfg.train, valid |-> cfg.valid, test |-> cfg.test]

\* A daily run has three sessions or more before the holdout, and one in it.
HistoryOK ==
    kind = "daily" /\ stage \notin {"start", "failed"} =>
        3 <= history /\ history + 1 \in DOMAIN data.dates

\* What a fold learns from and what it scores are an embargo apart, and a daily
\* fold ends before the holdout.
TimeApart(f) == f.trainEnd + Embargo <= f.testStart /\ f.validEnd + Embargo <= f.testStart

SessionsApartBy(f, k, m) ==
    /\ k + cfg.embargo < m /\ m <= history
    /\ f.trainEnd <= data.dates[k] * Day + Day /\ f.validEnd <= data.dates[k] * Day + Day
    /\ data.dates[m] * Day <= f.testStart
    /\ f.testEnd <= data.dates[history] * Day + Day

FoldOK(f) ==
    IF kind = "daily" THEN \E k, m \in DOMAIN data.dates : SessionsApartBy(f, k, m)
    ELSE TimeApart(f)

FinalUse == [fit |-> Row \ Holdout, tune |-> {}, score |-> Holdout]

UsesOK ==
    \A u \in uses : \/ \E f \in folds : u \in UsesOf(f)
                    \/ kind = "daily" /\ u = FinalUse

StagesOK ==
    /\ stage \in BeforeFolds \union {"failed"} => folds = {}
    /\ stage \notin {"final", "done"} => uses = {}
    /\ stage = "trim" \/ stage = "final" => kind = "daily"
    /\ kind # "daily" => stage # "scale"
    /\ uses # {} \/ folds # {} => stage \notin {"start", "failed"}

IInv ==
    TypeOK /\ StartOK /\ ScaleOK /\ HistoryOK /\ StagesOK /\ (\A f \in folds : FoldOK(f)) /\ UsesOK

-----------------------------------------------------------------------------
(* Type correctness.                                                       *)

LEMMA InitIInv == Init => IInv
<1> SUFFICES ASSUME Init PROVE IInv
  OBVIOUS
<1>1. cfg \in [Sizes -> Nat]
  BY WalkForwardAssumption DEF Init
<1>2. size \in [Windows -> Nat]
  BY <1>1 DEF Init, Sizes, Windows
<1>3. TypeOK
  BY <1>2 DEF Init, TypeOK, Stage
<1>4. StartOK /\ ScaleOK /\ HistoryOK /\ StagesOK
  BY DEF Init, StartOK, ScaleOK, HistoryOK, StagesOK
<1> QED
  BY <1>3, <1>4 DEF IInv, Init, UsesOK

\* The numbers of a configuration.
LEMMA ConfigFacts ==
    ASSUME NEW c \in Configs
    PROVE  /\ c.train \in Nat /\ c.valid \in Nat /\ c.test \in Nat /\ c.step \in Nat
           /\ c.embargo \in Nat /\ c.holdout \in Nat /\ c.holdout > 0
           /\ [train |-> c.train, valid |-> c.valid, test |-> c.test] \in [Windows -> Nat]
<1>1. c \in [Sizes -> Nat] /\ c.holdout > 0
  BY WalkForwardAssumption
<1>2. /\ c.train \in Nat /\ c.valid \in Nat /\ c.test \in Nat /\ c.step \in Nat
      /\ c.embargo \in Nat /\ c.holdout \in Nat
  BY <1>1 DEF Sizes
<1> QED
  BY <1>1, <1>2 DEF Windows

\* A step that leaves the run's inputs, embargo and history alone keeps what is
\* known of a fold and of its uses.
LEMMA Frame ==
    ASSUME UNCHANGED <<inputs, delta, history>>, NEW f
    PROVE  FoldOK(f)' = FoldOK(f) /\ UsesOf(f)' = UsesOf(f) /\ FinalUse' = FinalUse
<1>1. FoldOK(f)' = FoldOK(f)
  BY DEF inputs, FoldOK, TimeApart, SessionsApartBy, Embargo
<1>2. UsesOf(f)' = UsesOf(f)
  BY DEF inputs, UsesOf, RiskUses, IntradayUses, DailyUses, Train, Valid, Test, Between, Row
<1>3. FinalUse' = FinalUse
  BY DEF inputs, FinalUse, Holdout, From, DayStart, Row
<1> QED
  BY <1>1, <1>2, <1>3

\* Steps that make no fold and do no fit keep the rest of the invariant.
LEMMA Quiet ==
    ASSUME IInv, UNCHANGED <<inputs, folds, uses>>,
           UNCHANGED <<delta, history>> \/ (folds = {} /\ uses = {})
    PROVE  (\A f \in folds' : FoldOK(f)') /\ UsesOK'
<1>1. CASE UNCHANGED <<delta, history>>
  BY <1>1, Frame DEF IInv, UsesOK, inputs
<1>2. CASE folds = {} /\ uses = {}
  BY <1>2 DEF UsesOK
<1> QED
  BY <1>1, <1>2

\* The middle gaps of a dataset give a whole number.
LEMMA MedianIsNat == ASSUME TypeOK PROVE MedianDelta \subseteq Nat
<1>1. \A i \in Gaps : Gap(i) \in Nat
  <2> SUFFICES ASSUME NEW i \in Gaps PROVE Gap(i) \in Nat
    OBVIOUS
  <2>0. data \in Datasets
    BY DEF TypeOK
  <2>1. i \in DOMAIN data.rows /\ i + 1 \in DOMAIN data.rows /\ i < i + 1
    BY <2>0, DatasetFacts DEF Gaps, Row
  <2>2. data.rows[i] < data.rows[i + 1] /\ data.rows[i] \in Nat /\ data.rows[i + 1] \in Nat
    BY <2>0, <2>1, DatasetFacts
  <2> QED
    BY <2>2 DEF Gap
<1>2. Middle \subseteq Gaps
  BY DEF Middle
<1> SUFFICES ASSUME NEW n \in MedianDelta PROVE n \in Nat
  OBVIOUS
<1>3. CASE Gaps = {}
  <2>1. MedianDelta = {0}
    BY <1>3 DEF MedianDelta
  <2> QED
    BY <2>1
<1>4. CASE Gaps # {}
  <2> DEFINE Inner(q) == \A i \in Middle : Gap(q[1]) <= Gap(i) /\ Gap(i) <= Gap(q[2])
             Mid(q) == (Gap(q[1]) + Gap(q[2])) \div 2
  <2> HIDE DEF Inner, Mid
  <2>0. MedianDelta = {Mid(p) : p \in {q \in Middle \X Middle : Inner(q)}}
    BY <1>4, Zenon DEF MedianDelta, Inner, Mid
  <2>1. PICK p \in Middle \X Middle : n = (Gap(p[1]) + Gap(p[2])) \div 2
    BY <2>0 DEF Mid
  <2>2. Gap(p[1]) \in Nat /\ Gap(p[2]) \in Nat
    BY <1>1, <1>2, <2>1
  <2> QED
    BY <2>1, <2>2
<1> QED
  BY <1>3, <1>4

\* A step that ends a run.
LEMMA FailStep == ASSUME IInv, Fail, folds = {}, uses = {} PROVE IInv'
<1>1. TypeOK'
  BY DEF IInv, TypeOK, Fail, inputs, Stage, Row
<1>2. StartOK' /\ ScaleOK' /\ HistoryOK' /\ StagesOK'
  BY DEF IInv, StartOK, ScaleOK, HistoryOK, StagesOK, Fail, inputs
<1> QED
  BY <1>1, <1>2, Quiet DEF IInv, Fail

LEMMA AnchorStep == ASSUME IInv, Anchor PROVE IInv'
<1>1. data.rows[1] \in Nat
  BY DatasetFacts DEF IInv, TypeOK
<1>2. TypeOK'
  BY <1>1, MedianIsNat DEF IInv, TypeOK, Anchor, inputs, Stage, Row
<1>3. StartOK' /\ ScaleOK' /\ HistoryOK' /\ StagesOK'
  BY DEF IInv, StartOK, ScaleOK, HistoryOK, StagesOK, BeforeFolds, Anchor, inputs
<1> QED
  BY <1>2, <1>3, Quiet DEF IInv, StagesOK, Anchor

LEMMA ReserveStep == ASSUME IInv, Reserve PROVE IInv'
<1>1. data \in Datasets /\ cfg \in Configs
  BY DEF IInv, TypeOK
<1>2. cfg.holdout \in Nat /\ cfg.holdout > 0
  BY <1>1, ConfigFacts
<1>3. Sessions \in Nat /\ DOMAIN data.dates = 1 .. Sessions
  BY <1>1, DatasetFacts DEF Sessions
<1>4. history' \in Nat /\ 3 <= history' /\ history' + 1 \in DOMAIN data.dates
  BY <1>2, <1>3 DEF Reserve, HoldoutDays
<1>5. TypeOK'
  BY <1>4 DEF IInv, TypeOK, Reserve, inputs, Stage, Row
<1>6. size = [train |-> cfg.train, valid |-> cfg.valid, test |-> cfg.test]
  BY DEF IInv, StartOK, Reserve
<1>7. ScaleOK'
  BY <1>1, <1>2, <1>6, ConfigFacts DEF ScaleOK, Reserve, Positive, inputs
<1>8. StartOK' /\ HistoryOK' /\ StagesOK'
  BY <1>4 DEF IInv, StartOK, HistoryOK, StagesOK, BeforeFolds, Reserve, inputs
<1> QED
  BY <1>5, <1>7, <1>8, Quiet DEF IInv, StagesOK, Reserve, inputs, StartOK

\* A scaled window is one or more.
LEMMA ScaledIsPositive ==
    ASSUME NEW days \in Nat, history \in Nat, Total(cfg) \in Nat, Total(cfg) > 0, NEW n \in Scaled(days)
    PROVE  n \in Nat /\ n > 0
<1> DEFINE exact == days * history
<1>1. exact \in Nat
  OBVIOUS
<1>2. exact \div Total(cfg) \in Int
  BY <1>1
<1>3. PICK k \in {exact \div Total(cfg)}
                 \union (IF exact % Total(cfg) = 0 THEN {exact \div Total(cfg) - 1} ELSE {}) :
          n = IF k < 1 THEN 1 ELSE k
  BY DEF Scaled
<1>4. k \in Int
  BY <1>2, <1>3
<1> QED
  BY <1>3, <1>4

LEMMA ScaleStep == ASSUME IInv, Scale PROVE IInv'
<1>1. data \in Datasets /\ cfg \in Configs /\ history \in Nat
  BY DEF IInv, TypeOK
<1>2. kind = "daily" /\ size = [train |-> cfg.train, valid |-> cfg.valid, test |-> cfg.test]
  BY DEF IInv, ScaleOK, Scale
<1>3. /\ cfg.train \in Nat /\ cfg.valid \in Nat /\ cfg.test \in Nat
      /\ cfg.train > 0 /\ cfg.valid > 0 /\ cfg.test > 0
  BY <1>1, ConfigFacts DEF IInv, ScaleOK, Scale
<1>4. Total(cfg) \in Nat /\ Total(cfg) > 0
  BY <1>3 DEF Total
<1>5. size' \in [Windows -> Nat] /\ \A w \in Windows : size'[w] > 0
  <2>1. CASE history >= Total(cfg)
    BY <1>2, <1>3, <2>1 DEF Scale, Windows
  <2>2. CASE ~(history >= Total(cfg))
    <3>1. PICK t \in Scaled(cfg.train), v \in Scaled(cfg.valid), e \in Scaled(cfg.test) :
              size' = [train |-> t, valid |-> v, test |-> e]
      BY <2>2 DEF Scale
    <3>2. t \in Nat /\ t > 0 /\ v \in Nat /\ v > 0 /\ e \in Nat /\ e > 0
      BY <1>1, <1>3, <1>4, <3>1, ScaledIsPositive
    <3> QED
      BY <3>1, <3>2 DEF Windows
  <2> QED
    BY <2>1, <2>2
<1>6. TypeOK'
  BY <1>5 DEF IInv, TypeOK, Scale, inputs, Stage, Row
<1>7. StartOK' /\ ScaleOK' /\ HistoryOK' /\ StagesOK'
  BY <1>2 DEF IInv, StartOK, ScaleOK, HistoryOK, StagesOK, BeforeFolds, Scale, inputs
<1> QED
  BY <1>6, <1>7, Quiet DEF IInv, StartOK, Scale

LEMMA TrimStep == ASSUME IInv, Trim PROVE IInv'
<1>1. PICK w \in Windows : size[w] > 1 /\ size' = [size EXCEPT ![w] = @ - 1]
  BY DEF Trim
<1>2. size \in [Windows -> Nat] /\ \A x \in Windows : size[x] > 0
  BY DEF IInv, TypeOK, StagesOK, Trim
<1>3. size' \in [Windows -> Nat] /\ \A x \in Windows : size'[x] > 0
  BY <1>1, <1>2
<1>4. TypeOK'
  BY <1>3 DEF IInv, TypeOK, Trim, inputs, Stage, Row
<1>5. StartOK' /\ ScaleOK' /\ HistoryOK' /\ StagesOK'
  BY DEF IInv, StartOK, ScaleOK, HistoryOK, StagesOK, BeforeFolds, Trim, inputs
<1> QED
  BY <1>4, <1>5, Quiet DEF IInv, StartOK, Trim

LEMMA TrimmedStep == ASSUME IInv, Trimmed PROVE IInv'
<1>1. TypeOK'
  BY DEF IInv, TypeOK, StagesOK, Trimmed, inputs, Stage, Row
<1>2. StartOK' /\ ScaleOK' /\ HistoryOK' /\ StagesOK'
  BY DEF IInv, StartOK, ScaleOK, HistoryOK, StagesOK, BeforeFolds, Trimmed, inputs
<1> QED
  BY <1>1, <1>2, Quiet DEF IInv, StartOK, Trimmed

-----------------------------------------------------------------------------
(* Folds.                                                                  *)

LEMMA DayProduct == \A n \in Nat : Day * n \in Nat /\ n * Day \in Nat
BY WalkForwardAssumption

\* A fold of a risk or an intraday run.
LEMMA TimeFold ==
    ASSUME IInv, kind # "daily", NEW f \in Candidates
    PROVE  f \in Fold /\ FoldOK(f)
<1>1. cfg \in Configs /\ anchor \in Nat /\ delta \in Nat /\ kind \in Kind
  BY DEF IInv, TypeOK
<1>2. cfg.train \in Nat /\ cfg.valid \in Nat /\ cfg.test \in Nat /\ cfg.embargo \in Nat
  BY <1>1, ConfigFacts
<1>3. /\ Day * cfg.train \in Nat /\ Day * cfg.test \in Nat /\ Day * (cfg.train + cfg.valid) \in Nat
      /\ Day * cfg.train <= Day * (cfg.train + cfg.valid)
  <2>1. Day * (cfg.train + cfg.valid) = Day * cfg.train + Day * cfg.valid /\ Day * cfg.valid \in Nat
    BY <1>2, WalkForwardAssumption
  <2> QED
    BY <1>2, <2>1, DayProduct
<1>4. Embargo \in Nat
  BY <1>1, <1>2 DEF Embargo
<1>5. CASE kind = "risk"
  <2>1. FitEnd \in Nat
    BY <1>1, <1>3, <1>5 DEF FitEnd
  <2>2. PICK s \in Splits : f = RiskFold(s)
    BY <1>5 DEF Candidates
  <2>3. s \in Nat
    BY <1>1, <2>1 DEF Splits
  <2> QED
    BY <1>1, <1>3, <1>4, <1>5, <2>1, <2>2, <2>3 DEF RiskFold, Fold, FoldOK, TimeApart
<1>6. CASE kind = "intraday"
  <2>1. FitEnd \in Nat /\ anchor + Day * cfg.train \in Nat /\ anchor + Day * cfg.train <= FitEnd
    BY <1>1, <1>3, <1>6 DEF FitEnd
  <2>2. f = IntradayFold
    BY <1>6 DEF Candidates
  <2> QED
    BY <1>1, <1>3, <1>4, <1>6, <2>1, <2>2 DEF IntradayFold, Fold, FoldOK, TimeApart
<1> QED
  BY <1>1, <1>5, <1>6 DEF Kind

\* A fold of a daily run: all its windows are sessions before the holdout.
LEMMA SessionFold ==
    ASSUME IInv, kind = "daily", stage = "folds", More, NEW f \in Candidates
    PROVE  f \in Fold /\ FoldOK(f)
<1>1. data \in Datasets /\ cfg \in Configs /\ anchor \in Nat /\ history \in Nat
  BY DEF IInv, TypeOK
<1>2. /\ size.train \in Nat /\ size.valid \in Nat /\ size.test \in Nat
      /\ size.train > 0 /\ size.valid > 0 /\ size.test > 0
  BY DEF IInv, TypeOK, Windows
<1>3. cfg.embargo \in Nat
  BY <1>1, ConfigFacts
<1>4. Sessions \in Nat /\ DOMAIN data.dates = 1 .. Sessions /\ history + 1 <= Sessions
  BY <1>1, DatasetFacts DEF Sessions, IInv, HistoryOK
<1> DEFINE ended == Tested + size.test
<1>5. /\ anchor + 1 \in 1 .. history /\ Trained \in 1 .. history /\ Fitted \in 1 .. history
      /\ Tested + 1 \in 1 .. history /\ ended \in 1 .. history
      /\ Trained < Fitted /\ Fitted + cfg.embargo < Tested + 1
  BY <1>1, <1>2, <1>3 DEF More, Total, Trained, Fitted, Tested
<1> DEFINE start(n) == data.dates[n] * Day
<1>6. \A n \in 1 .. history : n \in DOMAIN data.dates /\ start(n) \in Nat /\ start(n) + Day \in Nat
  BY <1>1, <1>4, DatasetFacts, WalkForwardAssumption
<1>7. /\ DayStart(anchor) = start(anchor + 1) /\ DayStart(Tested) = start(Tested + 1)
      /\ DayEnd(Trained - 1) = start(Trained) + Day /\ DayEnd(Fitted - 1) = start(Fitted) + Day
      /\ DayEnd(Tested + size.test - 1) = start(ended) + Day
  <2>1. Tested \in Nat /\ ended \in Nat
    BY <1>1, <1>2, <1>3 DEF Trained, Fitted, Tested
  <2>2. Tested + size.test - 1 + 1 = ended
    BY <1>2, <2>1
  <2> QED
    BY <1>5, <2>2 DEF DayStart, DayEnd
<1> HIDE DEF start, ended
<1>8. f = [trainStart |-> start(anchor + 1), trainEnd |-> start(Trained) + Day,
           validStart |-> start(Trained) + Day, validEnd |-> start(Fitted) + Day,
           testStart |-> start(Tested + 1), testEnd |-> start(ended) + Day]
  <2>1. f = DailyFold
    BY DEF Candidates
  <2> QED
    BY <1>7, <2>1, Zenon DEF DailyFold
<1>9. f \in Fold
  BY <1>5, <1>6, <1>8 DEF Fold
<1>10. start(Trained) + Day <= start(Fitted) + Day
  <2>1. start(Trained) + Day <= start(Fitted)
    BY <1>1, <1>5, <1>6, SessionsApart DEF start
  <2> QED
    BY <1>5, <1>6, <2>1, WalkForwardAssumption
<1>11. start(ended) + Day <= start(history) + Day
  <2>1. CASE ended = history
    BY <1>5, <1>6, <2>1, WalkForwardAssumption
  <2>2. CASE ended # history
    <3>1. ended < history /\ history \in 1 .. history
      BY <1>1, <1>5, <2>2
    <3>2. start(ended) + Day <= start(history)
      BY <1>1, <1>5, <1>6, <3>1, SessionsApart DEF start
    <3> QED
      BY <1>5, <1>6, <3>1, <3>2, WalkForwardAssumption
  <2> QED
    BY <2>1, <2>2
<1>12. SessionsApartBy(f, Fitted, Tested + 1)
  BY <1>1, <1>5, <1>6, <1>8, <1>10, <1>11, WalkForwardAssumption DEF SessionsApartBy, start
<1> QED
  BY <1>5, <1>6, <1>9, <1>12 DEF FoldOK

LEMMA StepIsNat == ASSUME TypeOK PROVE anchor + Step \in Nat
<1>1. cfg.step \in Nat /\ anchor \in Nat
  BY ConfigFacts DEF TypeOK
<1> QED
  BY <1>1, DayProduct DEF Step

LEMMA MakeFoldStep == ASSUME IInv, MakeFold PROVE IInv'
<1>1. PICK f \in Candidates : folds' = folds \union {f}
  BY DEF MakeFold
<1>2. f \in Fold /\ FoldOK(f)
  BY TimeFold, SessionFold DEF MakeFold
<1>3. TypeOK'
  BY <1>1, <1>2, StepIsNat DEF IInv, TypeOK, MakeFold, inputs, Stage, Row
<1>4. StartOK' /\ ScaleOK' /\ HistoryOK' /\ StagesOK'
  BY DEF IInv, StartOK, ScaleOK, HistoryOK, StagesOK, BeforeFolds, MakeFold, inputs
<1>5. \A g \in folds' : FoldOK(g)'
  BY <1>1, <1>2, Frame DEF IInv, MakeFold
<1>6. UsesOK'
  BY DEF IInv, StagesOK, UsesOK, MakeFold
<1> QED
  BY <1>3, <1>4, <1>5, <1>6 DEF IInv

LEMMA SkipFoldStep == ASSUME IInv, SkipFold PROVE IInv'
<1>1. TypeOK'
  BY StepIsNat DEF IInv, TypeOK, SkipFold, inputs, Stage, Row
<1>2. StartOK' /\ ScaleOK' /\ HistoryOK' /\ StagesOK'
  BY DEF IInv, StartOK, ScaleOK, HistoryOK, StagesOK, BeforeFolds, SkipFold, inputs
<1> QED
  BY <1>1, <1>2, Quiet DEF IInv, SkipFold

LEMMA FoldsMadeStep == ASSUME IInv, FoldsMade PROVE IInv'
<1>1. TypeOK'
  BY DEF IInv, TypeOK, FoldsMade, inputs, Stage, Row
<1>2. StartOK' /\ ScaleOK' /\ HistoryOK' /\ StagesOK'
  BY DEF IInv, StartOK, ScaleOK, HistoryOK, StagesOK, BeforeFolds, FoldsMade, inputs
<1> QED
  BY <1>1, <1>2, Quiet DEF IInv, FoldsMade

-----------------------------------------------------------------------------
(* Fits.                                                                   *)

LEMMA UsesType ==
    ASSUME NEW f, kind \in Kind, NEW u \in UsesOf(f)
    PROVE  u \in [fit : SUBSET Row, tune : SUBSET Row, score : SUBSET Row]
BY DEF UsesOf, Kind, RiskUses, IntradayUses, DailyUses, Train, Valid, Test, Between

LEMMA TrainFoldsStep == ASSUME IInv, TrainFolds PROVE IInv'
<1>1. uses' \subseteq [fit : SUBSET Row, tune : SUBSET Row, score : SUBSET Row]
  BY UsesType DEF IInv, TypeOK, TrainFolds
<1>2. TypeOK'
  BY <1>1 DEF IInv, TypeOK, TrainFolds, inputs, Stage, Row
<1>3. StartOK' /\ ScaleOK' /\ HistoryOK' /\ StagesOK'
  BY DEF IInv, StartOK, ScaleOK, HistoryOK, StagesOK, BeforeFolds, TrainFolds, inputs
<1>4. \A g \in folds' : FoldOK(g)'
  BY Frame DEF IInv, TrainFolds
<1>5. UsesOK'
  <2>1. \A u \in uses' : \E f \in folds : u \in UsesOf(f)
    BY DEF TrainFolds
  <2> QED
    BY <2>1, Frame DEF UsesOK, TrainFolds
<1> QED
  BY <1>2, <1>3, <1>4, <1>5 DEF IInv

LEMMA FitFinalStep == ASSUME IInv, FitFinal PROVE IInv'
<1>0. uses' = uses \union {FinalUse}
  BY DEF FitFinal, FinalUse
<1>1. FinalUse \in [fit : SUBSET Row, tune : SUBSET Row, score : SUBSET Row]
  BY DEF FinalUse, Holdout, From
<1>2. TypeOK'
  BY <1>0, <1>1 DEF IInv, TypeOK, FitFinal, inputs, Stage, Row
<1>3. StartOK' /\ ScaleOK' /\ HistoryOK' /\ StagesOK'
  BY DEF IInv, StartOK, ScaleOK, HistoryOK, StagesOK, BeforeFolds, FitFinal, inputs
<1>4. \A g \in folds' : FoldOK(g)'
  BY Frame DEF IInv, FitFinal
<1>5. UsesOK'
  BY <1>0, Frame DEF IInv, StagesOK, UsesOK, FitFinal, inputs
<1> QED
  BY <1>2, <1>3, <1>4, <1>5 DEF IInv

LEMMA StutterStep == ASSUME IInv, UNCHANGED vars PROVE IInv'
<1>1. TypeOK'
  BY DEF IInv, TypeOK, vars, inputs, Row
<1>2. StartOK' /\ ScaleOK' /\ HistoryOK' /\ StagesOK'
  BY DEF IInv, StartOK, ScaleOK, HistoryOK, StagesOK, vars, inputs
<1> QED
  BY <1>1, <1>2, Quiet DEF IInv, vars

LEMMA NextIInv == IInv /\ [Next]_vars => IInv'
<1> SUFFICES ASSUME IInv, [Next]_vars PROVE IInv'
  OBVIOUS
<1>1. CASE Reject
  BY <1>1, FailStep DEF IInv, StagesOK, BeforeFolds, Reject
<1>2. CASE ReserveFails
  BY <1>2, FailStep DEF IInv, StagesOK, BeforeFolds, ReserveFails
<1>3. CASE NoFolds
  BY <1>3, FailStep DEF IInv, StagesOK, NoFolds
<1>4. CASE Anchor \/ Reserve \/ Scale \/ Trim \/ Trimmed
  BY <1>4, AnchorStep, ReserveStep, ScaleStep, TrimStep, TrimmedStep
<1>5. CASE MakeFold \/ SkipFold \/ FoldsMade \/ TrainFolds \/ FitFinal
  BY <1>5, MakeFoldStep, SkipFoldStep, FoldsMadeStep, TrainFoldsStep, FitFinalStep
<1>6. CASE UNCHANGED vars
  BY <1>6, StutterStep
<1> QED
  BY <1>1, <1>2, <1>3, <1>4, <1>5, <1>6 DEF Next

\* The invariant that the properties follow from.
THEOREM Invariance == Spec => []IInv
BY InitIInv, NextIInv, PTL DEF Spec

\* Every value has its type, and no window of a daily run is ever without a day
\* (_scale_window_sizes).
THEOREM TypeCorrect == Spec => []TypeOK
<1>1. IInv => TypeOK
  BY DEF IInv
<1> QED
  BY <1>1, Invariance, PTL

-----------------------------------------------------------------------------
(* What the properties say.                                                *)

\* The windows of a daily run shrink until they fit its history, however the
\* rounding came out: there is always one to cut (the ValueError after
\* _scale_window_sizes cannot be raised).
CanTrim ==
    stage = "trim" /\ Total(size) > history =>
        \E w \in Windows : size[w] > 1 /\ \A x \in Windows : size[x] <= size[w]

THEOREM WindowsFit == Spec => []CanTrim
<1>1. IInv => CanTrim
  <2> SUFFICES ASSUME IInv, stage = "trim", Total(size) > history
               PROVE  \E w \in Windows : size[w] > 1 /\ \A x \in Windows : size[x] <= size[w]
    BY DEF CanTrim
  <2>1. 3 <= history /\ history \in Nat
    BY DEF IInv, TypeOK, StagesOK, HistoryOK
  <2>2. size.train \in Nat /\ size.valid \in Nat /\ size.test \in Nat
    BY DEF IInv, TypeOK, Windows
  <2>3. size.train + size.valid + size.test > 3
    BY <2>1, <2>2 DEF Total
  <2>4. CASE size.valid <= size.train /\ size.test <= size.train
    BY <2>2, <2>3, <2>4 DEF Windows
  <2>5. CASE size.train <= size.valid /\ size.test <= size.valid
    BY <2>2, <2>3, <2>5 DEF Windows
  <2>6. CASE size.train <= size.test /\ size.valid <= size.test
    BY <2>2, <2>3, <2>6 DEF Windows
  <2> QED
    BY <2>2, <2>4, <2>5, <2>6
<1> QED
  BY <1>1, Invariance, PTL

\* The rows of a daily run from its holdout's first session on.
LEMMA HoldoutFacts ==
    ASSUME IInv, kind = "daily", stage \notin {"start", "failed"}
    PROVE  /\ Holdout = {i \in Row : data.rows[i] >= data.dates[history + 1] * Day}
           /\ data.dates[history + 1] * Day \in Nat /\ history \in 1 .. history
           /\ \A k \in DOMAIN data.dates :
                  k <= history => data.dates[k] * Day + Day <= data.dates[history + 1] * Day
<1>1. data \in Datasets /\ history \in Nat /\ history >= 3 /\ history + 1 \in DOMAIN data.dates
  BY DEF IInv, TypeOK, HistoryOK
<1>2. Holdout = {i \in Row : data.rows[i] >= data.dates[history + 1] * Day}
  BY DEF Holdout, From, DayStart
<1>3. data.dates[history + 1] * Day \in Nat /\ history \in 1 .. history
  BY <1>1, DatasetFacts
<1>4. ASSUME NEW k \in DOMAIN data.dates, k <= history
      PROVE  data.dates[k] * Day + Day <= data.dates[history + 1] * Day
  <2>1. k \in Nat
    BY <1>1, DatasetFacts
  <2>2. k < history + 1
    BY <1>1, <1>4, <2>1
  <2> QED
    BY <1>1, <2>2, SessionsApart
<1> QED
  BY <1>2, <1>3, <1>4

\* The rows a fold learns from, and those it scores, lie in its bounds.
LEMMA UseBounds ==
    ASSUME kind \in Kind, NEW f, NEW u \in UsesOf(f)
    PROVE  /\ u.fit \union u.tune \union u.score \subseteq Row
           /\ \A i \in u.fit \union u.tune :
                  data.rows[i] < f.trainEnd \/ data.rows[i] < f.validEnd
           /\ \A j \in u.score : f.testStart <= data.rows[j] /\ data.rows[j] < f.testEnd
<1>1. CASE kind = "risk"
  BY <1>1 DEF UsesOf, RiskUses, Train, Valid, Test, Between
<1>2. CASE kind = "intraday"
  BY <1>2 DEF UsesOf, IntradayUses, Train, Valid, Test, Between
<1>3. CASE kind = "daily"
  BY <1>3 DEF UsesOf, DailyUses, Train, Valid, Test, Between
<1> QED
  BY <1>1, <1>2, <1>3 DEF Kind

\* A row a daily fold learns from comes before the holdout, and so does one it scores.
LEMMA FoldBeforeHoldout ==
    ASSUME IInv, kind = "daily", NEW f \in folds, NEW u \in UsesOf(f)
    PROVE  \A i \in u.fit \union u.tune \union u.score : i \notin Holdout
<1>1. data \in Datasets /\ kind \in Kind /\ f \in Fold /\ stage \notin {"start", "failed"} /\ Day \in Nat
  BY WalkForwardAssumption DEF IInv, TypeOK, StagesOK
<1>2. PICK k, m \in DOMAIN data.dates : SessionsApartBy(f, k, m)
  BY DEF IInv, FoldOK
<1> DEFINE last == data.dates[history + 1] * Day
<1>3. k \in Nat /\ m \in Nat /\ cfg.embargo \in Nat /\ history \in Nat /\ k <= history
  <2>1. cfg \in Configs /\ history \in Nat
    BY DEF IInv, TypeOK
  <2>2. k \in Nat /\ m \in Nat
    <3>1. DOMAIN data.dates = 1 .. Len(data.dates) /\ Len(data.dates) \in Nat
      BY <1>1, DatasetFacts
    <3> QED
      BY <1>2, <3>1
  <2>3. cfg.embargo \in Nat
    BY <2>1, ConfigFacts
  <2> QED
    BY <1>2, <2>1, <2>2, <2>3 DEF SessionsApartBy
<1>4. history \in DOMAIN data.dates /\ data.dates[history] * Day \in Nat /\ data.dates[k] * Day \in Nat
  <2>1. history + 1 \in DOMAIN data.dates /\ history >= 3
    BY <1>1 DEF IInv, HistoryOK
  <2>2. history \in DOMAIN data.dates
    BY <1>1, <1>3, <2>1, DatasetFacts
  <2> QED
    BY <1>1, <2>2, DatasetFacts
<1>5. last \in Nat /\ data.dates[k] * Day + Day <= last /\ data.dates[history] * Day + Day <= last
  BY <1>1, <1>3, <1>4, HoldoutFacts
<1> HIDE DEF last
<1>6. f.trainEnd <= last /\ f.validEnd <= last /\ f.testEnd <= last
  <2>1. f.trainEnd \in Nat /\ f.validEnd \in Nat /\ f.testEnd \in Nat
    BY <1>1 DEF Fold
  <2> QED
    BY <1>1, <1>2, <1>4, <1>5, <2>1 DEF SessionsApartBy
<1>7. ASSUME NEW i \in u.fit \union u.tune \union u.score PROVE i \notin Holdout
  <2>1. i \in Row /\ data.rows[i] \in Nat
    BY <1>1, UseBounds, DatasetFacts DEF Row
  <2>2. data.rows[i] < f.trainEnd \/ data.rows[i] < f.validEnd \/ data.rows[i] < f.testEnd
    BY <1>1, <1>7, UseBounds
  <2>3. data.rows[i] < last
    BY <1>1, <1>5, <1>6, <2>1, <2>2 DEF Fold
  <2> QED
    BY <1>1, <1>5, <2>1, <2>3, HoldoutFacts DEF last
<1> QED
  BY <1>7

\* The holdout of a daily run decides nothing before the final score
\* (train_daily_index_model).
THEOREM HoldoutKept == Spec => []HoldoutIsKept
<1>1. IInv => HoldoutIsKept
  <2> SUFFICES ASSUME IInv, kind = "daily", NEW u \in uses
               PROVE  /\ (u.fit \union u.tune) \cap Holdout = {}
                      /\ u.score = Holdout \/ u.score \cap Holdout = {}
    BY DEF HoldoutIsKept
  <2>1. CASE \E f \in folds : u \in UsesOf(f)
    BY <2>1, FoldBeforeHoldout
  <2>2. CASE u = FinalUse
    BY <2>2 DEF FinalUse
  <2> QED
    BY <2>1, <2>2 DEF IInv, UsesOK
<1> QED
  BY <1>1, Invariance, PTL

\* In a risk or an intraday run a covered label ends before the test window begins.
LEMMA TimeUseIsPast ==
    ASSUME IInv, kind # "daily", NEW f \in folds, NEW u \in UsesOf(f),
           NEW i \in u.fit \union u.tune, NEW j \in u.score, Covered(i, j)
    PROVE  data.until[i] < data.rows[j]
<1>1. data \in Datasets /\ kind \in Kind /\ f \in Fold
  BY DEF IInv, TypeOK
<1>2. /\ data.rows[i] \in Nat /\ data.until[i] \in Nat /\ data.rows[j] \in Nat
      /\ f.trainEnd \in Nat /\ f.validEnd \in Nat /\ f.testStart \in Nat
  BY <1>1, UseBounds, DatasetFacts DEF Row, Fold
<1>3. Embargo \in Nat
  <2>1. delta \in Nat /\ cfg.embargo \in Nat
    BY ConfigFacts DEF IInv, TypeOK
  <2> QED
    BY <2>1 DEF Embargo
<1>4. data.until[i] - data.rows[i] <= Embargo
  BY DEF Covered
<1>5. f.trainEnd + Embargo <= f.testStart /\ f.validEnd + Embargo <= f.testStart
  BY DEF IInv, FoldOK, TimeApart
<1>6. data.rows[i] < f.trainEnd \/ data.rows[i] < f.validEnd
  BY <1>1, UseBounds
<1>7. f.testStart <= data.rows[j]
  BY <1>1, UseBounds
<1> QED
  BY <1>2, <1>3, <1>4, <1>5, <1>6, <1>7

\* In a daily fold it ends by the last session of the embargo.
LEMMA SessionUseIsPast ==
    ASSUME IInv, kind = "daily", NEW f \in folds, NEW u \in UsesOf(f),
           NEW i \in u.fit \union u.tune, NEW j \in u.score, Covered(i, j)
    PROVE  data.until[i] < data.rows[j]
<1>1. data \in Datasets /\ kind \in Kind /\ f \in Fold /\ Day \in Nat
  BY WalkForwardAssumption DEF IInv, TypeOK
<1>2. PICK k, m \in DOMAIN data.dates : SessionsApartBy(f, k, m)
  BY DEF IInv, FoldOK
<1> DEFINE e == k + cfg.embargo
<1>3. e \in DOMAIN data.dates /\ e < m
  <2>1. cfg \in Configs
    BY DEF IInv, TypeOK
  <2>2. DOMAIN data.dates = 1 .. Len(data.dates) /\ Len(data.dates) \in Nat /\ cfg.embargo \in Nat
    BY <1>1, <2>1, DatasetFacts, ConfigFacts
  <2> QED
    BY <1>2, <2>2 DEF SessionsApartBy
<1>4. /\ data.rows[i] \in Nat /\ data.until[i] \in Nat /\ data.rows[j] \in Nat
      /\ f.trainEnd \in Nat /\ f.validEnd \in Nat /\ f.testStart \in Nat
      /\ data.dates[k] * Day \in Nat /\ data.dates[e] * Day \in Nat /\ data.dates[m] * Day \in Nat
  BY <1>1, <1>3, UseBounds, DatasetFacts DEF Row, Fold
<1>5. data.rows[i] < data.dates[k] * Day + Day
  <2>1. data.rows[i] < f.trainEnd \/ data.rows[i] < f.validEnd
    BY <1>1, UseBounds
  <2>2. f.trainEnd <= data.dates[k] * Day + Day /\ f.validEnd <= data.dates[k] * Day + Day
    BY <1>2 DEF SessionsApartBy
  <2> QED
    BY <1>1, <1>4, <2>1, <2>2
<1>6. EndsWithin(i, cfg.embargo)
  BY FoldBeforeHoldout DEF Covered
<1>7. data.until[i] < data.dates[e] * Day + Day
  BY <1>3, <1>5, <1>6 DEF EndsWithin
<1>8. data.dates[e] * Day + Day <= data.dates[m] * Day
  BY <1>1, <1>3, SessionsApart
<1>9. data.dates[m] * Day <= f.testStart /\ f.testStart <= data.rows[j]
  BY <1>1, <1>2, UseBounds DEF SessionsApartBy
<1> HIDE DEF e
<1> QED
  BY <1>1, <1>4, <1>7, <1>8, <1>9

\* And before the holdout one that ends with its own session has ended.
LEMMA FinalUseIsPast ==
    ASSUME IInv, kind = "daily", stage \notin {"start", "failed"},
           NEW i \in Row \ Holdout, NEW j \in Holdout, Covered(i, j)
    PROVE  data.until[i] < data.rows[j]
<1>1. data \in Datasets /\ Day \in Nat /\ j \in Row
  BY HoldoutFacts, WalkForwardAssumption DEF IInv, TypeOK
<1>2. history \in Nat /\ history + 1 \in DOMAIN data.dates
  BY DEF IInv, TypeOK, HistoryOK
<1> DEFINE last == data.dates[history + 1] * Day
<1>3. data.rows[i] \in Nat /\ data.until[i] \in Nat /\ data.rows[j] \in Nat /\ last \in Nat
  BY <1>1, <1>2, DatasetFacts DEF Row
<1>4. data.rows[i] < last /\ last <= data.rows[j]
  <2>1. ~(data.rows[i] >= last) /\ data.rows[j] >= last
    BY HoldoutFacts
  <2> QED
    BY <1>3, <2>1
<1>5. PICK k \in DOMAIN data.dates :
          data.dates[k] * Day <= data.rows[i] /\ data.rows[i] < data.dates[k] * Day + Day
  BY <1>1, RowSession DEF Row
<1>6. k \in Nat /\ data.dates[k] * Day \in Nat
  BY <1>1, DatasetFacts
<1>7. k <= history
  <2> SUFFICES ASSUME k > history PROVE FALSE
    BY <1>2, <1>6
  <2>1. last <= data.dates[k] * Day
    <3>1. CASE k = history + 1
      BY <1>6, <3>1
    <3>2. CASE history + 1 < k
      <4>1. last + Day <= data.dates[k] * Day
        BY <1>1, <1>2, <3>2, SessionsApart
      <4> QED
        BY <1>1, <1>3, <1>6, <4>1
    <3> QED
      BY <1>2, <1>6, <3>1, <3>2
  <2> QED
    BY <1>3, <1>4, <1>5, <1>6, <2>1
<1>8. data.dates[k] * Day + Day <= last
  BY <1>7, HoldoutFacts
<1>9. k + 0 = k
  BY <1>6
<1>10. data.until[i] < data.dates[k] * Day + Day
  <2>1. EndsWithin(i, 0)
    BY DEF Covered
  <2> QED
    BY <1>5, <1>9, <2>1 DEF EndsWithin
<1> HIDE DEF last
<1> QED
  BY <1>1, <1>3, <1>4, <1>6, <1>8, <1>10

\* No score meets what its model was fitted to or tuned with: where the embargo
\* covers a label, all it looked at is over before the first row scored
\* (make_walk_forward_folds of the three families and what is trained on them).
THEOREM LabelsPast == Spec => []LabelsArePast
<1>1. IInv => LabelsArePast
  <2> SUFFICES ASSUME IInv, NEW u \in uses, NEW i \in u.fit \union u.tune, NEW j \in u.score, Covered(i, j)
               PROVE  data.until[i] < data.rows[j]
    BY DEF LabelsArePast
  <2>1. CASE \E f \in folds : u \in UsesOf(f)
    BY <2>1, TimeUseIsPast, SessionUseIsPast
  <2>2. CASE kind = "daily" /\ u = FinalUse
    <3>1. stage \notin {"start", "failed"}
      BY DEF IInv, StagesOK
    <3>2. i \in Row \ Holdout /\ j \in Holdout
      BY <2>2 DEF FinalUse
    <3> QED
      BY <2>2, <3>1, <3>2, FinalUseIsPast
  <2> QED
    BY <2>1, <2>2 DEF IInv, UsesOK
<1> QED
  BY <1>1, Invariance, PTL
=============================================================================
