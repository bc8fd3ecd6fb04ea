\* Two invocations at a time, three in all; calls fail, processes are killed.
SPECIFICATION FairSpec
CONSTANTS
    Processes = {p1, p2}
    CommandLines <- AllCommandLines
    DiskLengths <- SmallDisks
    PointerSize = 2
    QueueCapacity = 2
    MaxStarts = 3
    MaxMessages = 2
    MaxFaults = 2
INVARIANTS TypeOK SingleInstance ServesItsFormat
PROPERTIES ServedDiskIsStable StartSettles MessagesConsumed
\* All invocations may have ended.
CHECK_DEADLOCK FALSE
