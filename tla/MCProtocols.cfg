SPECIFICATION ProtocolsSpec
CONSTANTS
    Clients = {c1, c2}
    Outs = {o1, o2}
    NoConn = noconn
    Fds = {1, 2}
    EXT_CONN_TABLE_SIZE = 4
    MaxQueries = 2
    MaxRelay = 3
    Links = {l1, l2}
SYMMETRY Symmetry
INVARIANTS
    AnswersReachOwner
    NoSessionLeft
    
    
    HandshakeSound
    QueriesAnswered
    ClientSound
    
    HttpSound
    
CHECK_DEADLOCK FALSE
