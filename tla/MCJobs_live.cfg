SPECIFICATION FairSpec
CONSTANTS
    w4 = w4
    w5 = w5
    mainLoop = mainLoop
    nested = nested
    q4 = q4
    q5 = q5
    qMain = qMain
    NoOne = NoOne
    Agents <- PairAgents
    Refs = {r1, r2, r3}
    Queues = {q4, q5, qMain}
    Signals <- Signals3
    SigClass <- ListClass
    Fast = {7}
    SelfSignals <- NoSelf
    MayDrop <- ListDrop
    Mask <- PairMask
    TopLevel <- PairAgents
    QueueOf <- MultiQueueOf
    Polls <- PairPolls
    MaxSends = 2
CHECK_DEADLOCK FALSE
PROPERTIES
    Delivered
    Destroyed
