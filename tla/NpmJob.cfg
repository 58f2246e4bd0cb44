SPECIFICATION FairSpec
CONSTANTS
    Invs = {i1, i2}
    Jobs = {j1, j2}
    NoJob = NoJob
    NoFile = NoFile
    Commands = {"run-job", "stop-job", "netguard", "remove", "add"}
    MaxActive = 2
INVARIANTS
    TypeOK
    OneJobAtATime
    StoppedIsDown
    JobIsShown
PROPERTY
    JobsEnd
