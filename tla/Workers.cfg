SPECIFICATION FairSpec
CONSTANTS
    workers = 2
    Rounds = 2
    MaxSignals = 1
    MaxConns = 1
    MaxEdits = 1
PROPERTY
    ReloadHandled
CHECK_DEADLOCK FALSE
