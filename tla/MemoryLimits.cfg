SPECIFICATION FairSpec
CONSTANTS
    Apps = {a1, a2}
    Invs = {i1, i2}
    Allowances = {100}
    Pins = {40}
    NoLimit = NoLimit
    NoLimits = NoLimits
    NoSlice = NoSlice
    NoApp = NoApp
    FLOOR = 20
    HEADROOM = 8
    Commands = {"start", "restart", "stop", "remove", "add", "set-memory-max", "stats", "sync"}
    MaxActive = 2
    MaxChanges = 2
INVARIANTS
    TypeOK
    LimitsAreOrdered
    SettledGuaranteesFit
    CeilingIsCurrent
PROPERTIES
    SiblingsShrinkFirst
    LimitsConverge
