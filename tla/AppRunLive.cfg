SPECIFICATION BootSpec
CONSTANTS
    Invs = {i1}
    Pids = {p1, p2, p3}
    NoPid = NoPid
    Pid1 = Pid1
    Commands = {"start", "stop", "restart", "netguard", "boot"}
    Others = {"helper", "kin"}
    CanRunScopes = {TRUE, FALSE}
    MaxActive = 1
    MaxBirths = 2
    MaxFaults = 1
PROPERTIES
    EveryCommandEnds
    EnabledComesBack
