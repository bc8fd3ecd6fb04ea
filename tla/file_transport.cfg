\* Two threads, two peers of which none, one or two answer, two insmods, one fault.
SPECIFICATION Spec
CONSTANTS
    Threads = {t1, t2}
    Peers = {helper, other}
    Requests = {1, 2}
    Bytes <- TwoLengths
    InboxCapacity = 1
    MaxLoads = 2
    MaxFaults = 1
SYMMETRY FileSymmetry
INVARIANTS TypeOK MutualExclusion ReadGetsOwnAnswer NoStrandedReader
PROPERTY OnlyReturnLosesCode
\* A request that was not sent blocks its reader for good.
CHECK_DEADLOCK FALSE
