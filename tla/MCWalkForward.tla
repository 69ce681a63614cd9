--------------------------- MODULE MCWalkForward ---------------------------
(* Datasets and configurations for the model checker.                      *)
EXTENDS WalkForward

SmallDay == 4

\* Bars at the given times whose labels look one bar ahead; the last bar has
\* no label and no row.
Bars(times, days) ==
    [rows |-> SubSeq(times, 1, Len(times) - 1), until |-> Tail(times), dates |-> days]

\* Bars around the clock; and sessions of three bars with their nights and a
\* weekend in between.
RoundTheClock == Bars(<<0, 1, 2, 3, 4, 5, 6, 7, 8, 9, 10, 11, 12, 13, 14, 15, 16>>, <<0, 1, 2, 3, 4>>)
Trading == Bars(<<0, 1, 2, 4, 5, 6, 8, 9, 10, 20, 21, 22, 24, 25, 26>>, <<0, 1, 2, 5, 6>>)

\* A row or two in each session at the decision times, labels to the close.
Daily(rows, days) ==
    [rows |-> rows,
     until |-> [i \in 1 .. Len(rows) |-> SmallDay * (rows[i] \div SmallDay) + 3],
     dates |-> days]

\* The same with labels to the next row, a session later.
Overnight(rows, days) == [Daily(rows, days) EXCEPT !.until = Append(Tail(rows), rows[Len(rows)] + 1)]

RunDatasets ==
    {RoundTheClock, Trading,
     Daily(<<1, 5, 9, 21, 25, 29, 33, 37>>, <<0, 1, 2, 5, 6, 7, 8, 9>>),
     Daily(<<1, 2, 5, 6, 17, 18, 21, 22, 25, 26, 29, 30>>, <<0, 1, 4, 5, 6, 7>>),
     Overnight(<<1, 5, 9, 21, 25, 29>>, <<0, 1, 2, 5, 6, 7>>),
     Daily(<<1, 5, 9>>, <<0, 1, 2>>)}

RunConfigs ==
    {[train |-> t, valid |-> v, test |-> 1, step |-> 1, embargo |-> e, holdout |-> h,
      minTrain |-> m, minValid |-> 1, minTest |-> 1, minHoldout |-> 2] :
          t \in {0, 1, 2}, v \in {1, 2}, e \in {0, 1}, h \in {1, 2}, m \in {1, 3}}
    \union
    {[train |-> t, valid |-> 2, test |-> 1, step |-> 2, embargo |-> e, holdout |-> 2,
      minTrain |-> 1, minValid |-> 1, minTest |-> 1, minHoldout |-> 1] : t \in {6, 20}, e \in {0, 1}}
=============================================================================
