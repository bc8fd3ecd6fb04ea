SPECIFICATION FairSpec
CONSTANTS
    Threads = {t1, t2}
    Peers = {helper}
    Addresses = {0, 1}
    Pieces = 2
    ReplyLengths = {2}
    InboxCapacity = 1
    MaxAllocFailures = 0
    MaxLost = 0
INVARIANT NoStrandedReader
PROPERTIES CallsReturn ImplementsBlockService
