SPECIFICATION Spec
CONSTANTS
    Accounts = {ann, bob}
    Services = {apache}
    Root = Root
    Nobody = Nobody
    Unset = Unset
    Issued = {"install", "sweep", "policy", "account"}
    Invs = {i1, i2}
    MaxActive = 2
    MaxBegins = 2
    MaxChanges = 1
SYMMETRY Symmetry
INVARIANTS
    ActsWithinAuthority
    DropIsComplete
PROPERTIES
    TreesStayWithOwners
CHECK_DEADLOCK FALSE
