\* Intraday and daily bars, both fill models, comparable engines and not.
SPECIFICATION Spec
CONSTANT Setups <- RunSetups
INVARIANTS TypeOK FlatBySession OneTradeASession EnginesAgree
CHECK_DEADLOCK FALSE
