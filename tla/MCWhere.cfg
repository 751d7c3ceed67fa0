SPECIFICATION Spec
CONSTANTS
    Columns = {1, 2, 3}
    Type <- MCType
    Indexed = {1, 2}
    Tables <- MCTables
    Exprs <- MCExprs
    Depth <- MCDepth
    Items <- MCItems
    Regex <- MCRegex
    NotUtf8 <- MCNotUtf8
INVARIANTS
    TypeOK
    SelectsExactly
    AnswersInOrder
    NoSpuriousError
    AggregatesExact
