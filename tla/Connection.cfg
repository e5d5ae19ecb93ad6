SPECIFICATION Spec
CONSTANTS
    MaxIn = 1
    MaxOut = 1
    MaxEagain = 1
INVARIANT
    FreedLast
PROPERTIES
    ReadsArrive
    
CHECK_DEADLOCK FALSE
