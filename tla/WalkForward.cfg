\* Bars around the clock and in sessions, daily rows; every family.
SPECIFICATION Spec
CONSTANTS
    Day <- SmallDay
    Datasets <- RunDatasets
    Configs <- RunConfigs
INVARIANTS TypeOK  HoldoutIsKept
CHECK_DEADLOCK FALSE
