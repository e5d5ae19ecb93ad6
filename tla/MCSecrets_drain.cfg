SPECIFICATION FairSpec
CONSTANTS
    k1 = k1
    k2 = k2
    k3 = k3
    k4 = k4
    Keys = {k1, k2, k3}
    Conns = {c1, c2}
    IPs = {i1}
    Limits = {0, 1}
    PinnedEntries <- NoPinned
    Configs <- Swap
    MaxActive = 1
    MaxSlots = 2
    MaxTracked = 1
    MaxRetries = 1
    DrainTimeout = 1
    Workers = 0
    Modes = {FALSE, TRUE}
    MaxBytes = 1
    MaxLinks = 1
    MaxCount = 2
INVARIANTS
    SecretsInv
PROPERTIES
    ProxyDrainEnds
