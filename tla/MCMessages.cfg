SPECIFICATION MessagesSpec
CONSTANTS
    Pushers = {p1, p2}
    Poppers = {c1, c2}
    QueueBlocks = {b1, b2, b3}
    Null = null
    BufferThreads = {t1, t2}

    
    
PROPERTY
    AllPopped
CHECK_DEADLOCK FALSE
