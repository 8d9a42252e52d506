SPECIFICATION LiveDirSpec
CONSTANTS
    MaxJobs = 2
    KindOf <- TwoGate1
    Capacity <- MCCapacity
    Providers = {}
    Budget <- MCBudget
    NoProvider = NoProvider
    Lease = 1
    MaxStale = 0
    Cleaners = {c1}
INVARIANTS
    DirInv
    WorkersKeepTheirDirs
    CleanedIsGone
PROPERTIES
    TerminalIsCleaned
