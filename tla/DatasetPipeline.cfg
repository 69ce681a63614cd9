\* Two pods killed, one retry of every step, and a combine run by hand.
SPECIFICATION FairSpec
CONSTANTS
    Requests <- RunRequests
    PlanInputs <- SmallPlans
    Absent = Absent
    Retries = 1
    MaxKills = 2
    ByHand = TRUE
INVARIANTS TypeOK PlanIsWhole 
PROPERTIES  HandEndsTheWait
CHECK_DEADLOCK FALSE
