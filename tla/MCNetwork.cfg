SPECIFICATION NetSpec
CONSTANTS
    Listeners = {l1, l2}
    Conns = {x1, x2}
    max_special_connections = 1
    max_accept_rate = 1
    max_connection_fd = 2
    MaxArrivals = 2
    Getters = {g1, g2}
    Socks = {s1, s2}
    NoSock = nosock
    EVT_RWX = {"r"}
    MaxStamp = 2
    MaxTime = 3
    MaxSets = 2
    workers = 2
    Rounds = 2
    MaxSignals = 2
    MaxConns = 1
    MaxEdits = 1
INVARIANTS
    PortsReopen
    GetterHoldsLiveJob
    HeapsSound
PROPERTIES
    Served
    TimersFire
    AllGone
CHECK_DEADLOCK FALSE
