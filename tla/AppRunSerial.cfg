SPECIFICATION Spec
CONSTANTS
    Invs = {i1}
    Pids = {p1, p2, p3}
    NoPid = NoPid
    Pid1 = Pid1
    Commands = {"start", "stop", "restart", "remove", "add", "netguard", "boot"}
    Others = {"helper", "kin"}
    CanRunScopes = {TRUE, FALSE}
    MaxActive = 1
    MaxBirths = 3
    MaxFaults = 1
SYMMETRY Numbers
INVARIANTS
    TypeOK
    RunningIsTracked
    StatusIsTruthful
    RemovedLeavesNothing
    RoutedIsIntended
    StopIsDown
