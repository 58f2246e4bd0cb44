SPECIFICATION Spec
CONSTANTS
    Apps = {a1, a2}
    Invs = {i1, i2}
    Entries = {e1, e2}
    Nodes = {n1}
    Caps = {m1}
    BadValue = BadValue
    NoValue = NoValue
    NoReg = NoReg
    NoApp = NoApp
    NoRun = NoRun
    Sandbox = TRUE
    Commands = {"add", "set-entry", "set-node-version", "set-memory-max", "remove", "start", "set-isolated"}
    MaxActive = 2
    MaxBegins = 2
    MaxFaults = 1
SYMMETRY Symmetry
INVARIANTS
    RefusalsChangeNothing
    AnswersAreEffects
    RestartIsAsked
    SwitchCoversAccount
CHECK_DEADLOCK FALSE
