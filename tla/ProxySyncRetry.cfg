SPECIFICATION Spec
CONSTANTS
    a1 = a1
    a2 = a2
    b1 = b1
    b2 = b2
    Apps <- ThreeApps
    Order <- ThreeInOrder
    Route <- RouteOf
    Host <- HostOf
    Sweeps = {s1}
    NoSweep = NoSweep
    NoFile = NoFile
    MaxChanges = 3
    MaxFailures = 1
    Killable = FALSE
PROPERTIES
    ClearedOnlyWhenLive
