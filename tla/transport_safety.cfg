\* Three threads, the one peer that main.c's lock file allows, requests may be lost.
SPECIFICATION Spec
CONSTANTS
    Threads = {t1, t2, t3}
    Peers = {helper}
    Addresses = {1, 8194}
    Pieces = 2
    ReplyLengths = {2, 3}
    InboxCapacity = 1
    MaxAllocFailures = 0
    MaxLost = 1
SYMMETRY ThreadSymmetry
INVARIANTS TypeOK MutualExclusion ReadReturnsRequestedBlock SignalNeverAccumulates
PROPERTY UnneededMessageIgnored
\* A lost request blocks its reader for good: there is no timeout.
CHECK_DEADLOCK FALSE
