\* A second process answers: its answer comes when no read waits for it.
SPECIFICATION Spec
CONSTANTS
    Threads = {t1, t2}
    Peers = {helper, other}
    Addresses = {0, 1}
    Pieces = 2
    ReplyLengths = {2}
    InboxCapacity = 1
    MaxAllocFailures = 0
    MaxLost = 0
PROPERTY UnneededMessageIgnored
