\* A failed kzalloc lets a thread release cn_sem without having taken it.
SPECIFICATION Spec
CONSTANTS
    Threads = {t1, t2, t3}
    Peers = {helper}
    Addresses = {0}
    Pieces = 1
    ReplyLengths = {1}
    InboxCapacity = 1
    MaxAllocFailures = 1
    MaxLost = 0
INVARIANT OneSender
CHECK_DEADLOCK FALSE
