SPECIFICATION Spec
CONSTANTS
    Tables = {t1, t2}
    Keys = {k1, k2}
    None = None
    Blank = Blank
    Damaged = Damaged
    NotOpen = NotOpen
    Dir = Dir
    MaxCrashes = 2
    MaxFaults = 1
SYMMETRY StorageSymmetry
CHECK_DEADLOCK FALSE
INVARIANTS
    TypeOK
    CrashConfined
    Durable
PROPERTIES
    OpensUnlessHurt
    RowsKept
