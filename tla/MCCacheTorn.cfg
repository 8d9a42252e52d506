SPECIFICATION Spec
INVARIANTS
    NothingStaleIsServed
CONSTANTS
    v1 = v1
    None = None
    Case = Case
    Facts = Facts
    NDocs = 1
    Versions <- OneVersion
    MaxAnn = 2
    About <- AnnotatedTwice
    Procs = {p1, p2}
