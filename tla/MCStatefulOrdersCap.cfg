SPECIFICATION Spec
CHECK_DEADLOCK FALSE
CONSTANTS
    Setups <- CapSetups
    MaxLeverage = 1
    MaintDen = 4
    Capital = 3
INVARIANTS StaysWithinCap
