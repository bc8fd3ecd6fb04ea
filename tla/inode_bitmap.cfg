\* Does the bitmap record the files?
SPECIFICATION Spec
CONSTANTS
    Names = {a, b}
    None = None
    Bits = 2
    ScanBytes = 2
    CacheBytes = 3
    IntBytes = 4
    MappedBytes = {3, 6}
SYMMETRY NameSymmetry
INVARIANT BitmapRecordsFiles
