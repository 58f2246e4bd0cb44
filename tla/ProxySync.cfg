SPECIFICATION FairSpec
CONSTANTS
    a1 = a1
    a2 = a2
    b1 = b1
    b2 = b2
    Apps <- FourApps
    Order <- FourInOrder
    Route <- RouteOf
    Host <- HostOf
    Sweeps = {s1, s2}
    NoSweep = NoSweep
    NoFile = NoFile
    MaxChanges = 5
    MaxFailures = 2
    Killable = TRUE
INVARIANTS
    ReloadsWhatItCollected
    OneHandlerPerHost
    ServesTheFile
PROPERTIES
    Converges
