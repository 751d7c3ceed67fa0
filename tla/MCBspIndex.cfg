SPECIFICATION Spec
CONSTANTS
    NumKeys = 7
    LongKeys = {}
    LongLen = 9
    BulkSizes = {}
    Keys <- MCKeys
    KeyLen <- MCKeyLen
    BulkKeys <- MCBulkKeys
    Rids = {1, 2}
    PageSize = 107
    MaxPages = 5
    FromEmpty = TRUE
INVARIANTS
    TypeOK
    FindCorrect
    ScanCorrect
    SuperblockCurrent
    NoInternalFailure
