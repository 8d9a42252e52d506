SPECIFICATION LiveSpec
CONSTANTS
    MaxJobs = 2
    KindOf <- TwoGate1
    Capacity <- MCCapacity
    Providers = {p}
    Budget <- MCBudget
    NoProvider = NoProvider
    Lease = 2
    MaxStale = 1
INVARIANTS
    LocalCapacity
    AdmissionIsFifo
    NoSuccessAfterCancel
    QueuedIsNotCancelled
PROPERTIES
    ImplementsContract
    QueueIsServed
