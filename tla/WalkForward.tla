---------------------------- MODULE WalkForward ----------------------------
(***************************************************************************)
(* Walk-forward training of the three model families: risk                 *)
(* (risk/walk_forward.py and the two training steps), intraday             *)
(* (intraday/walk_forward.py, pipeline.py) and daily index                 *)
(* (daily_index_forecast/walk_forward.py, pipeline.py).  A run lays folds  *)
(* of training, validation and test windows over its dataset and then fits *)
(* models on some rows, tunes them on others and scores them on the rest.  *)
(* What can go wrong is leakage: a row, or what a row's label looks at,    *)
(* reaches a score it should not.                                          *)
(*                                                                         *)
(* Times are natural numbers, Day of them to a day; features, scores and   *)
(* models are left out.  A dataset holds its rows' times in order, for     *)
(* each row the time of the last bar its label looks at, and its sessions. *)
(* Rows that share a time are one row.                                     *)
(***************************************************************************)
EXTENDS Integers, Sequences, FiniteSets

CONSTANTS
    Day,        \* time units in a day
    Datasets,   \* the datasets a run may be given
    Configs     \* the configurations a run may be given

Increasing(s) == \A i, j \in DOMAIN s : i < j => s[i] < s[j]

IsDataset(d) ==
    /\ d.rows \in Seq(Nat) /\ d.rows # <<>> /\ Increasing(d.rows)
    /\ d.until \in Seq(Nat) /\ Len(d.until) = Len(d.rows)
    /\ d.dates \in Seq(Nat) /\ Increasing(d.dates)
    /\ \A i \in DOMAIN d.rows :
           \E k \in DOMAIN d.dates :
               d.dates[k] * Day <= d.rows[i] /\ d.rows[i] < d.dates[k] * Day + Day

Sizes == {"train", "valid", "test", "step", "embargo", "holdout",
          "minTrain", "minValid", "minTest", "minHoldout"}

ASSUME WalkForwardAssumption ==
    /\ Day \in Nat \ {0}
    /\ \A d \in Datasets : IsDataset(d)
    /\ Configs \subseteq [Sizes -> Nat]
    /\ \A c \in Configs : c.holdout > 0     \* DailyIndexWalkForwardConfig

Kind == {"risk", "intraday", "daily"}
Stage == {"start", "scale", "trim", "folds", "train", "final", "done", "failed"}
Fold == [trainStart : Nat, trainEnd : Nat, validStart : Nat, validEnd : Nat,
         testStart : Nat, testEnd : Nat]

VARIABLES
    kind,       \* the model family
    data,       \* its dataset
    cfg,        \* WalkForwardConfig
    stage,
    size,       \* the window sizes in use: cfg's, or scaled to the history (daily)
    delta,      \* _median_bar_delta
    history,    \* the number of sessions before the holdout (daily)
    anchor,     \* where the next fold begins: a time, or a session's index (daily)
    folds,      \* the folds made
    uses        \* the fits done: rows fitted on, tuned on, scored on

inputs == <<kind, data, cfg>>
vars == <<inputs, stage, size, delta, history, anchor, folds, uses>>

Row == DOMAIN data.rows

\* The rows of a time window, its end excluded.
Between(from, to) == {i \in Row : from <= data.rows[i] /\ data.rows[i] < to}

Enough(train, valid, test) ==
    /\ Cardinality(train) >= cfg.minTrain
    /\ Cardinality(valid) >= cfg.minValid
    /\ Cardinality(test) >= cfg.minTest

-----------------------------------------------------------------------------
(* The start of a run.                                                     *)

Positive == cfg.train > 0 /\ cfg.test > 0 /\ cfg.step > 0 /\ (kind = "risk" \/ cfg.valid > 0)

Init ==
    /\ kind \in Kind /\ data \in Datasets /\ cfg \in Configs
    /\ stage = "start"
    /\ size = [train |-> cfg.train, valid |-> cfg.valid, test |-> cfg.test]
    /\ delta = 0 /\ history = 0 /\ anchor = 0
    /\ folds = {} /\ uses = {}

Fail ==
    /\ stage' = "failed"
    /\ UNCHANGED <<inputs, size, delta, history, anchor, folds, uses>>

\* "window sizes must be positive".
Reject == stage = "start" /\ ~Positive /\ Fail

\* The middle one or two of the gaps between successive times.
Gap(i) == data.rows[i + 1] - data.rows[i]
Gaps == {i \in Row : i + 1 \in Row}
Middle == {i \in Gaps : /\ 2 * Cardinality({j \in Gaps : Gap(j) < Gap(i)}) <= Cardinality(Gaps)
                        /\ 2 * Cardinality({j \in Gaps : Gap(j) > Gap(i)}) <= Cardinality(Gaps)}

\* _median_bar_delta: a set of one.
MedianDelta ==
    IF Gaps = {} THEN {0}
    ELSE {(Gap(p[1]) + Gap(p[2])) \div 2 :
              p \in {q \in Middle \X Middle :
                         \A i \in Middle : Gap(q[1]) <= Gap(i) /\ Gap(i) <= Gap(q[2])}}

\* A risk or an intraday run anchors at the first row.
Anchor ==
    /\ stage = "start" /\ Positive /\ kind # "daily"
    /\ delta' \in MedianDelta
    /\ anchor' = data.rows[1]
    /\ stage' = "folds"
    /\ UNCHANGED <<inputs, size, history, folds, uses>>

Sessions == Len(data.dates)
HoldoutDays == IF cfg.holdout < Sessions - 3 THEN cfg.holdout ELSE Sessions - 3

\* The bounds of the session with an index, counted from 0.
DayStart(k) == data.dates[k + 1] * Day
DayEnd(k) == DayStart(k) + Day

From(time) == {i \in Row : data.rows[i] >= time}
Holdout == From(DayStart(history))

\* A daily run keeps its last sessions for the holdout.
Reserve ==
    /\ stage = "start" /\ Positive /\ kind = "daily" /\ Sessions >= 4
    /\ history' = Sessions - HoldoutDays
    /\ Cardinality(From(DayStart(history'))) >= cfg.minHoldout
    /\ stage' = "scale"
    /\ UNCHANGED <<inputs, size, delta, anchor, folds, uses>>

\* Too few sessions, or too few rows in the holdout.
ReserveFails ==
    /\ stage = "start" /\ Positive /\ kind = "daily"
    /\ \/ Sessions < 4
       \/ /\ Sessions >= 4
          /\ Cardinality(From(DayStart(Sessions - HoldoutDays))) < cfg.minHoldout
    /\ Fail

Windows == {"train", "valid", "test"}
Total(sz) == sz.train + sz.valid + sz.test

\* Mutant: a window may vanish.
ScaledToNothing(days) == {(days * history) \div Total(cfg)}

\* max(1, int(day_count * scale)): the product is a floating-point number and
\* one that should be whole may come out just below.
Scaled(days) ==
    LET exact == days * history IN
    {IF k < 1 THEN 1 ELSE k :
        k \in {exact \div Total(cfg)}
              \union (IF exact % Total(cfg) = 0 THEN {exact \div Total(cfg) - 1} ELSE {})}

\* _scale_window_sizes: a history too short for the windows shrinks them all ...
Scale ==
    /\ stage = "scale"
    /\ IF history >= Total(cfg) THEN size' = size
       ELSE \E t \in Scaled(cfg.train), v \in Scaled(cfg.valid), e \in Scaled(cfg.test) :
                size' = [train |-> t, valid |-> v, test |-> e]
    /\ stage' = "trim"
    /\ UNCHANGED <<inputs, delta, history, anchor, folds, uses>>

\* ... and the largest is cut while rounding up has left them too long.  (That
\* they fit in the end is theorem WindowsFit: the error the code would raise
\* otherwise cannot happen.)
Trim ==
    /\ stage = "trim" /\ Total(size) > history
    /\ \E w \in Windows :
           /\ size[w] > 1 /\ \A x \in Windows : size[x] <= size[w]
           /\ size' = [size EXCEPT ![w] = @ - 1]
    /\ UNCHANGED <<inputs, stage, delta, history, anchor, folds, uses>>

Trimmed ==
    /\ stage = "trim" /\ Total(size) <= history
    /\ stage' = "folds"
    /\ UNCHANGED <<inputs, size, delta, history, anchor, folds, uses>>

-----------------------------------------------------------------------------
(* make_walk_forward_folds, an iteration of its loop in each step.         *)

\* The last row of a risk or an intraday fold that is not for testing, and the
\* embargo after it, in time: so many median gaps between rows.
FitEnd == anchor + Day * (IF kind = "risk" THEN cfg.train ELSE cfg.train + cfg.valid)
Embargo == delta * cfg.embargo

\* A risk fold splits its training window at a quantile of its rows' times: as
\* the fraction is any number between 0 and 1, at any time among them.
Splits ==
    LET rows == Between(anchor, FitEnd) IN
    {s \in anchor .. FitEnd : \E i, j \in rows : data.rows[i] <= s /\ s <= data.rows[j]}

RiskFold(split) ==
    [trainStart |-> anchor, trainEnd |-> FitEnd, validStart |-> split, validEnd |-> FitEnd,
     testStart |-> FitEnd + Embargo, testEnd |-> FitEnd + Embargo + Day * cfg.test]

IntradayFold ==
    LET split == anchor + Day * cfg.train IN
    [trainStart |-> anchor, trainEnd |-> split, validStart |-> split, validEnd |-> FitEnd,
     testStart |-> FitEnd + Embargo, testEnd |-> FitEnd + Embargo + Day * cfg.test]

\* The sessions at which the windows of a daily fold begin.
Trained == anchor + size.train
Fitted == Trained + size.valid
Tested == Fitted + cfg.embargo

\* Mutant: the embargo is left out of the test window's start.
DailyFoldUnembargoed ==
    [trainStart |-> DayStart(anchor), trainEnd |-> DayEnd(Trained - 1),
     validStart |-> DayEnd(Trained - 1), validEnd |-> DayEnd(Fitted - 1),
     testStart |-> DayStart(Fitted), testEnd |-> DayEnd(Fitted + size.test - 1)]

\* In a daily fold windows and embargo are counted in sessions; a window ends
\* at the midnight after its last session.
DailyFold ==
    [trainStart |-> DayStart(anchor), trainEnd |-> DayEnd(Trained - 1),
     validStart |-> DayEnd(Trained - 1), validEnd |-> DayEnd(Fitted - 1),
     testStart |-> DayStart(Tested), testEnd |-> DayEnd(Tested + size.test - 1)]

\* step_days: of time, or of sessions.
Step == IF kind = "daily" THEN cfg.step ELSE Day * cfg.step

\* Mutant: a daily run's loop goes on to the last session of all.
MoreOfAll ==
    IF kind = "daily" THEN anchor + Total(size) + cfg.embargo <= Sessions
    ELSE FitEnd + Embargo <= data.rows[Len(data.rows)]

\* The loop goes on: the test window begins within the data, or lies within the
\* history.
More ==
    IF kind = "daily" THEN anchor + Total(size) + cfg.embargo <= history
    ELSE FitEnd + Embargo <= data.rows[Len(data.rows)]

Train(f) == Between(f.trainStart, IF kind = "risk" THEN f.validStart ELSE f.trainEnd)
Valid(f) == Between(f.validStart, f.validEnd)
Test(f) == Between(f.testStart, f.testEnd)

Candidates ==
    CASE kind = "risk" -> {RiskFold(s) : s \in Splits}
      [] kind = "intraday" -> {IntradayFold}
      [] kind = "daily" -> {DailyFold}

Usable(f) ==
    /\ kind = "risk" => f.trainStart < f.validStart /\ f.validStart < f.trainEnd
    /\ Enough(Train(f), Valid(f), Test(f))

MakeFold ==
    /\ stage = "folds" /\ More
    /\ \E f \in Candidates : Usable(f) /\ folds' = folds \union {f}
    /\ anchor' = anchor + Step
    /\ UNCHANGED <<inputs, stage, size, delta, history, uses>>

\* Too few rows in a window, or a split at its edge.
SkipFold ==
    /\ stage = "folds" /\ More
    /\ \/ Candidates = {}
       \/ \E f \in Candidates : ~Usable(f)
    /\ anchor' = anchor + Step
    /\ UNCHANGED <<inputs, stage, size, delta, history, folds, uses>>

FoldsMade ==
    /\ stage = "folds" /\ ~More /\ folds # {}
    /\ stage' = "train"
    /\ UNCHANGED <<inputs, size, delta, history, anchor, folds, uses>>

\* "No walk-forward folds could be created".
NoFolds == stage = "folds" /\ ~More /\ folds = {} /\ Fail

-----------------------------------------------------------------------------
(* The training pipelines.                                                 *)

\* The risk steps fit on train_start .. train_end, which holds the validation
\* rows too, calibrate on those, and score the test rows with the result.
RiskUses(f) == {[fit |-> Between(f.trainStart, f.trainEnd), tune |-> Valid(f), score |-> Test(f)]}

\* The intraday pipeline selects its parameters on the validation rows, then
\* fits on training and validation rows with them.
IntradayUses(f) ==
    {[fit |-> Train(f), tune |-> Valid(f), score |-> {}],
     [fit |-> Between(f.trainStart, f.validEnd), tune |-> {}, score |-> Test(f)]}

DailyUses(f) == {[fit |-> Train(f), tune |-> Valid(f), score |-> Test(f)]}

UsesOf(f) ==
    CASE kind = "risk" -> RiskUses(f)
      [] kind = "intraday" -> IntradayUses(f)
      [] kind = "daily" -> DailyUses(f)

\* The loop over the folds.
TrainFolds ==
    /\ stage = "train"
    /\ uses' = UNION {UsesOf(f) : f \in folds}
    /\ stage' = IF kind = "daily" THEN "final" ELSE "done"
    /\ UNCHANGED <<inputs, size, delta, history, anchor, folds>>

\* The daily model is fitted again on all rows before the holdout and scored there.
FitFinal ==
    /\ stage = "final"
    /\ uses' = uses \union {[fit |-> Row \ Holdout, tune |-> {}, score |-> Holdout]}
    /\ stage' = "done"
    /\ UNCHANGED <<inputs, size, delta, history, anchor, folds>>

Next ==
    \/ Reject \/ Anchor \/ Reserve \/ ReserveFails \/ Scale \/ Trim \/ Trimmed
    \/ MakeFold \/ SkipFold \/ FoldsMade \/ NoFolds \/ TrainFolds \/ FitFinal

Spec == Init /\ [][Next]_vars

-----------------------------------------------------------------------------
(* Properties.                                                             *)

TypeOK ==
    /\ kind \in Kind /\ data \in Datasets /\ cfg \in Configs
    /\ stage \in Stage
    /\ size \in [Windows -> Nat]
    /\ kind = "daily" /\ stage \in {"trim", "folds"} => \A w \in Windows : size[w] > 0
    /\ delta \in Nat /\ history \in Nat /\ anchor \in Nat
    /\ folds \subseteq Fold
    /\ uses \subseteq [fit : SUBSET Row, tune : SUBSET Row, score : SUBSET Row]

\* What the label of a row looks at ends with the n-th session after its own.
EndsWithin(i, n) ==
    \A k \in DOMAIN data.dates :
        k + n \in DOMAIN data.dates /\ data.rows[i] < data.dates[k] * Day + Day =>
            data.until[i] < data.dates[k + n] * Day + Day

\* The embargo covers the label of row i where row j is scored: a time in the
\* risk and intraday runs, sessions in the daily ones, which keep none before
\* the holdout.
Covered(i, j) ==
    IF kind = "daily" THEN EndsWithin(i, IF j \in Holdout THEN 0 ELSE cfg.embargo)
    ELSE data.until[i] - data.rows[i] <= Embargo

\* No score meets what its model was fitted to or tuned with: where the embargo
\* covers a label, all it looked at is over before the first row scored.
LabelsArePast ==
    \A u \in uses : \A i \in u.fit \union u.tune, j \in u.score :
        Covered(i, j) => data.until[i] < data.rows[j]

\* The holdout of a daily run decides nothing before the final score: no model
\* is fitted, tuned or, in a fold, scored on a row of it.
HoldoutIsKept ==
    kind = "daily" =>
        \A u \in uses : /\ (u.fit \union u.tune) \cap Holdout = {}
                        /\ u.score = Holdout \/ u.score \cap Holdout = {}

\* Refuted (WalkForwardTuning).  modelFamilyPages.tsx:330: the calibration fraction of the training window
\* is held back.  So what is tuned on was not fitted on.
TuningIsHeldBack == \A u \in uses : u.fit \cap u.tune = {}
=============================================================================
