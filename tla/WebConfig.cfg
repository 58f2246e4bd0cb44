SPECIFICATION Spec
CONSTANTS
    MaxInstalls = 2
    MaxOthers = 1
INVARIANTS
    SetupServes
    TeardownLeavesNothing
PROPERTIES
    TheirsSurvive
    DropInTakesOver
CHECK_DEADLOCK FALSE
