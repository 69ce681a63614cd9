\* Two concurrent requests beside the controller; one of the three may die.
SPECIFICATION FairSpec
CONSTANTS
    Contract = {"c1"}
    Symbol = {"AAPL", "MSFT"}
    Shard = {0, 1}
    ShardOf <- MCShardOf
    Handler = {"r1", "r2"}
    Controller = "controller"
    NoRow = NoRow
    NotGiven = NotGiven
    MaxTime = 1
    ClosedTimes = {1}
    MaxRevision = 2
    MaxVersion = 0
    MaxFailures = 1
INVARIANTS TypeOK ChangeIsRevoked
PROPERTIES DeletedIsFinal AssignmentsConverge
