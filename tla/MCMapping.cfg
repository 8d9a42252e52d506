SPECIFICATION Spec
INVARIANTS
    MappingInv
    SentOnce
    OneAtATime
    CompleteIsEarned
    NothingIsForgotten
    CompleteIsLast
PROPERTIES
    ReopenedByLateFailureOnly
    ImplementsLedger
SYMMETRY Sameness
CHECK_DEADLOCK FALSE
CONSTANTS
    None = None
    NBatches = 2
    Procs = {p1, p2}
    Currencies = {c1, c2}
    Prompts = {q1, q2}
    MaxSetbacks = 2
