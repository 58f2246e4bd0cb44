SPECIFICATION Spec
CONSTANTS
    Invs = {i1}
    Pids = {p1, p2, p3}
    NoPid = NoPid
    Pid1 = Pid1
    Commands = {"start", "stop"}
    Others = {}
    CanRunScopes = {TRUE}
    MaxActive = 1
    MaxBirths = 2
    MaxFaults = 0
INVARIANTS
    StartedIsReachable
