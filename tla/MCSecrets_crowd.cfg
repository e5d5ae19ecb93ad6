SPECIFICATION Spec
CONSTANTS
    k1 = k1
    k2 = k2
    k3 = k3
    k4 = k4
    Keys = {k1, k2, k3, k4}
    Conns = {c1}
    IPs = {i1}
    Limits = {0, 1}
    PinnedEntries <- OnePinned
    Configs <- Crowd
    MaxActive = 2
    MaxSlots = 4
    MaxTracked = 1
    MaxRetries = 1
    DrainTimeout = 1
    Workers = 0
    Modes = {FALSE}
    MaxBytes = 1
    MaxLinks = 1
    MaxCount = 2
INVARIANTS
    ActiveBound
