SPECIFICATION Spec
CONSTANTS
    MaxPages = 3
    Data = {a, b}
    Zero = Zero
    Torn = Torn
    Capacities = {0, 1, 2}
SYMMETRY DataSymmetry
INVARIANTS
    TypeOK
    CacheSound
    CleanMatchesFile
    FlushReachesFile
    NoLostPage
    PendingCurrent
