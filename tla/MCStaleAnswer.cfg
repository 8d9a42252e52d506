SPECIFICATION Spec
PROPERTIES
    StaleAnswersFail
CHECK_DEADLOCK FALSE
CONSTANTS
    None = None
    NBatches = 2
    Procs = {p1, p2}
    Currencies = {c1, c2}
    Prompts = {q1}
    MaxSetbacks = 2
