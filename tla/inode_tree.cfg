\* Four inodes, two names, one failed allocation, both kinds of file system.
SPECIFICATION Spec
CONSTANTS
    Inodes = {i1, i2, i3, i4}
    Names = {a, b}
    None = None
    Variants = {"ramfs_test", "plan"}
    MaxFailures = 1
SYMMETRY TreeSymmetry
INVARIANTS TypeOK LinkCounts NoLeakedInode EntriesPinned
