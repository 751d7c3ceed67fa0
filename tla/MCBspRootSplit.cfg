SPECIFICATION Spec
CONSTANTS
    NumKeys = 6
    LongKeys = {}
    LongLen = 9
    BulkSizes = {}
    Keys <- MCKeys
    KeyLen <- MCKeyLen
    BulkKeys <- MCBulkKeys
    Rids = {1}
    PageSize = 50
    MaxPages = 6
    FromEmpty = TRUE
INVARIANTS
    NoCorruptPage
