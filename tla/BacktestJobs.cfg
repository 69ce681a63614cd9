\* One request at a time beside the reconciler, one relaunch or edit, a crash.
SPECIFICATION FairSpec
CONSTANTS
    Handler = {"h1"}
    Reconciler = "reconciler"
    NoRow = NoRow
    MaxChanges = 1
    MaxCrashes = 1
    Runs = 1
    MergeRetries = 0
INVARIANT CompletedHasReport
PROPERTIES JobEnds  LocalJobEnds
CHECK_DEADLOCK FALSE
