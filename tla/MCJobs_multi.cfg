SPECIFICATION Spec
CONSTANTS
    w4 = w4
    w5 = w5
    mainLoop = mainLoop
    nested = nested
    q4 = q4
    q5 = q5
    qMain = qMain
    NoOne = NoOne
    Agents <- MultiAgents
    Refs = {r1, r2, r3}
    Queues = {q4, q5, qMain}
    Signals <- Signals4
    SigClass <- SocketClass
    Fast = {}
    SelfSignals <- SocketSelf
    MayDrop = {}
    Mask <- MultiMask
    TopLevel <- MultiTop
    QueueOf <- MultiQueueOf
    Polls <- MultiPolls
    MaxSends = 2
SYMMETRY RefSymmetry
CHECK_DEADLOCK FALSE
INVARIANTS
    MutualExclusion
    AssertsHold
    NoUseAfterFree
    NoLostSignal
    IndInv
PROPERTIES
    Mailbox
