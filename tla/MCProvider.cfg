SPECIFICATION LiveSpec
CONSTANTS
    MaxJobs = 2
    KindOf <- TwoGate2
    Capacity <- MCCapacity
    Providers = {p}
    Budget <- MCBudget
    NoProvider = NoProvider
    Lease = 2
    MaxStale = 1
INVARIANTS
    Consistent
    ProviderBudget
    SlotsAreLive
    CallsAreBudgeted
    WaitersAreLive
PROPERTIES
    LapsedWorkerOnlyFails
    ProviderIsServed
