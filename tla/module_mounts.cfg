\* Three threads load, mount, unmount and unload; allocations fail.
SPECIFICATION FairSpec
CONSTANTS
    Threads = {t1, t2, t3}
    Disks <- SomeDisks
    HelperStates = {"off", "bound"}
    HelperAnswers = {TRUE, FALSE}
    MaxFaults = 2
INVARIANTS TypeOK LinkedWhileMounted CallbackHasOwner MountFindsNoSuperblock
PROPERTY MountSettles
\* The module may be unusable for good after an oops.
CHECK_DEADLOCK FALSE
