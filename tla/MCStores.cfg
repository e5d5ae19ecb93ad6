SPECIFICATION StoresSpec
CONSTANTS
    Readers = {r1}
    Workers = {p1, p2}
    None = none
    NoPrefix = noprefix
INVARIANTS
    TreeSound
    
    
    
    
CHECK_DEADLOCK FALSE
