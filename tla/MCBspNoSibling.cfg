SPECIFICATION Spec
CONSTANTS
    NumKeys = 5
    LongKeys = {}
    LongLen = 9
    BulkSizes = {5}
    Keys <- MCKeys
    KeyLen <- MCKeyLen
    BulkKeys <- MCBulkKeys
    Rids = {1}
    PageSize = 50
    MaxPages = 6
    FromEmpty = FALSE
INVARIANTS
    HasSibling
