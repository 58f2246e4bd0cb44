SPECIFICATION Spec
CONSTANTS
    Invs = {i1, i2}
    Pids = {p1, p2}
    NoPid = NoPid
    Pid1 = Pid1
    Commands = {"start", "restart", "netguard", "remove", "add"}
    Others = {}
    CanRunScopes = {TRUE}
    MaxActive = 2
    MaxBirths = 2
    MaxFaults = 0
SYMMETRY NumbersAndSlots
INVARIANTS
    ChildIsHeld
    OneAppPerScope
PROPERTIES
    OneInstance
