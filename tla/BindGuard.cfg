SPECIFICATION Spec
CONSTANTS
    Addresses4 <- MCAddresses4
    Addresses6 <- MCAddresses6
    Ports <- MCPorts
    NoContext = NoContext
    Apps = {a1}
    Invs = {i1, i2}
    NoApp = NoApp
    MaxBegins = 2
    MaxSockets = 1
INVARIANTS
    OwedAreGuarded
    DecidesTheRule
PROPERTIES
    ListenersAreStopped
CHECK_DEADLOCK FALSE
