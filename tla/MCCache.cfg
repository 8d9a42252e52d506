SPECIFICATION Spec
INVARIANTS
    TypeOK
    GoneFactsAreOwned
SYMMETRY Symmetry
CONSTANTS
    v1 = v1
    None = None
    Case = Case
    Facts = Facts
    NDocs = 2
    Versions <- OneVersion
    MaxAnn = 1
    About <- OneOfTwo
    Procs = {p1, p2}
