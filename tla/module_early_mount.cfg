\* A mount right after insmod.
SPECIFICATION FairSpec
CONSTANTS
    Threads = {t1, t2}
    Disks <- SomeDisks
    HelperStates = {"off"}
    HelperAnswers = {TRUE}
    MaxFaults = 0
PROPERTY EarlyMountSettles
\* The module may be unusable for good after an oops.
CHECK_DEADLOCK FALSE
