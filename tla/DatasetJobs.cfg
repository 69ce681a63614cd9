\* Two polling requests beside the submission and the deletion.
SPECIFICATION FairJobSpec
CONSTANTS
    Poller = {"list", "status"}
    NoRow = NoRow
    Budget = 1
INVARIANTS JobTypeOK DeletedIsGone
  
CHECK_DEADLOCK FALSE
