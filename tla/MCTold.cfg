SPECIFICATION Spec
CONSTANTS
    MaxJobs = 2
    KindOf <- TwoGate1
    Capacity <- MCCapacity
    Providers = {}
    Budget <- MCBudget
    NoProvider = NoProvider
    Lease = 1
    MaxStale = 0
INVARIANTS
    ToldMeansCancelled
