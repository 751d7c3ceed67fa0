SPECIFICATION Spec
CONSTANTS
    NumCols = 2
    Indexed = {1}
    NotNull = {}
    DefaultValue = a
    Default <- MCDefault
    Plain = {a, b}
    TooLong = {long}
    Values <- MCValues
    Rows <- MCRows
    Null = Null
    WrongType = WrongType
    MaxId = 2
    MaxFaults = 2
    Faults = FALSE
INVARIANTS
    IndexedIsUnique
