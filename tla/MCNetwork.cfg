SPECIFICATION Spec
INVARIANTS StreamsIntact CallersGetTheirOwn HoldingsAreTheirs
PROPERTY EveryRequestEnds
CHECK_DEADLOCK FALSE
