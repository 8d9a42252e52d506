SPECIFICATION Spec
INVARIANTS
    VersionsInv
    PointerIsActive
    ReadIsWhole
    ReadersFailOnlyOnLoss
PROPERTIES
    ActivatedIsWhole
    FinalReplacesBase
    ImplementsHistory
SYMMETRY Symmetry
CHECK_DEADLOCK FALSE
CONSTANTS
    r1 = r1
    a1 = a1
    a2 = a2
    k1 = k1
    m = m
    c1 = c1
    Nothing = Nothing
    Manifest = m
    Runs <- OneRun
    MaxVersions = 2
    Actors <- TwoActors
    Readers <- OneReader
    Chunks <- OneChunk
    Modes = {"batch", "stream"}
