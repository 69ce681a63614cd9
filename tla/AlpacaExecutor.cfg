\* Two bars, orders of two units, lost answers and crashes anywhere.
SPECIFICATION Spec
CONSTANTS
    MaxBar = 2
    Stake = 2
    MaxHold = 1
    Corrupt = Corrupt
INVARIANTS  OpenOrderIsNotResent
CHECK_DEADLOCK FALSE
