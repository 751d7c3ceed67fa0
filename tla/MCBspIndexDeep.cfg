SPECIFICATION Spec
CONSTANTS
    NumKeys = 7
    LongKeys = {}
    LongLen = 9
    BulkSizes = {7}
    Keys <- MCKeys
    KeyLen <- MCKeyLen
    BulkKeys <- MCBulkKeys
    Rids = {1}
    PageSize = 50
    MaxPages = 9
    FromEmpty = FALSE
INVARIANTS
    FindCorrect
    ScanCorrect
    BoundsCorrect
    TreeShape
