\* Two processes answer every request, and calls of kzalloc in sjfs_read_block fail.
SPECIFICATION FairSpec
CONSTANTS
    Threads = {t1, t2}
    Peers = {helper, other}
    Addresses = {0}
    Pieces = 1
    ReplyLengths = {1}
    InboxCapacity = 1
    MaxAllocFailures = 2
    MaxLost = 0
INVARIANT NoStrandedReader
PROPERTY CallsReturn
