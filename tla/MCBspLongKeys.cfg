SPECIFICATION Spec
CONSTANTS
    NumKeys = 16
    LongKeys = {9, 10, 11, 12, 13, 14, 15, 16}
    LongLen = 512
    BulkSizes = {15}
    Keys <- MCKeys
    KeyLen <- MCKeyLen
    BulkKeys <- MCBulkKeys
    Rids = {1}
    PageSize = 4096
    MaxPages = 2
    FromEmpty = FALSE
INVARIANTS
    NoPageOverflow
