------------------------- MODULE MCDatasetPipeline -------------------------
(* Requests for the model checker.                                         *)
EXTENDS DatasetPipeline

\* Three symbols in two shards with enough work for a hundred per cent, with
\* and without options; two in two whose progress never gets there; three
\* that do not fit.
RunRequests ==
    { [symbols |-> 3, units |-> 250, options |-> FALSE, limit |-> 2, maxShards |-> 3, target |-> 5000],
      [symbols |-> 2, units |-> 250, options |-> TRUE, limit |-> 1, maxShards |-> 3, target |-> 5000],
      [symbols |-> 2, units |-> 20, options |-> FALSE, limit |-> 1, maxShards |-> 3, target |-> 5000],
      [symbols |-> 3, units |-> 20, options |-> FALSE, limit |-> 1, maxShards |-> 2, target |-> 5000] }

\* One request for the run in which nobody lends a hand.
WaitRequests ==
    { [symbols |-> 2, units |-> 250, options |-> FALSE, limit |-> 1, maxShards |-> 3, target |-> 5000] }

\* Every shape of a plan of up to seven symbols.
SmallPlans ==
    [symbols : 1..7, units : {1, 3}, options : {FALSE}, limit : 1..4, maxShards : 1..4, target : {2, 5}]
============================================================================
