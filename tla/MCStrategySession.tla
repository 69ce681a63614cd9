------------------------- MODULE MCStrategySession -------------------------
(* Setups for the model checker.                                           *)
EXTENDS StrategySession

\* Two sessions the engines are compared on, with a time stop of one bar and of two.
ComparedRuns ==
    { [dates |-> <<1, 1, 1, 1, 1, 1, 2, 2, 2, 2>>, fill |-> "next_bar", stake |-> 2,
       eod |-> 2, shut |-> 2, hold |-> h, first |-> f] : h \in {1, 2}, f \in {0, 1} }

\* The default parameters: one share, fills at the close, a flatten on the
\* last bar; and two shares with no flatten and an open window, in either fill
\* model.
DefaultRuns ==
    { [dates |-> <<1, 1, 1, 1, 1, 2, 2>>, fill |-> "close", stake |-> 1,
       eod |-> 1, shut |-> 1, hold |-> 3, first |-> 1],
      [dates |-> <<1, 1, 1, 2, 2, 2>>, fill |-> "next_bar", stake |-> 2,
       eod |-> 0, shut |-> 0, hold |-> 2, first |-> 1],
      [dates |-> <<1, 1, 1, 2, 2, 2>>, fill |-> "close", stake |-> 2,
       eod |-> 0, shut |-> 0, hold |-> 2, first |-> 0] }

\* Daily bars, and a single bar before a session of several.
DailyRuns ==
    { [dates |-> <<1, 2, 3, 4>>, fill |-> f, stake |-> 2, eod |-> 0, shut |-> 0, hold |-> 2, first |-> 1] :
        f \in {"close", "next_bar"} }
    \union
    { [dates |-> <<1, 2, 3, 3, 3, 3>>, fill |-> f, stake |-> 1, eod |-> 0, shut |-> 0, hold |-> 2, first |-> 0] :
        f \in {"close", "next_bar"} }

\* A last session of a single bar, whose window is open: what it orders is
\* filled when the trades are finalized.
LastBarRuns ==
    { [dates |-> <<1, 1, 1, 1, 2>>, fill |-> f, stake |-> k, eod |-> 0, shut |-> 0, hold |-> 2, first |-> 0] :
        f \in {"close", "next_bar"}, k \in {1, 2} }

RunSetups == ComparedRuns \union DefaultRuns \union DailyRuns \union LastBarRuns
============================================================================
