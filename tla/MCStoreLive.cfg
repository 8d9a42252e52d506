SPECIFICATION LiveSpec
PROPERTY
    PurgeEnds
CONSTANTS
    a1 = a1
    a2 = a2
    w1 = w1
    w2 = w2
    Nothing = Nothing
    Torn = Torn
    Writers <- OneWriter
    Scopes <- WholeScope
    Ids <- TwoIds
    Contents = {x}
    Claims = {c1, c2}
