CONSTANTS
    EmptyCell = ""
    Cells <- MCCells
    Numeric <- MCNumeric
    SecondDigit <- MCSecondDigit
    NumberOf <- MCNumberOf
    Tables <- MCTables
    Catalog <- MCCatalog
    ColumnsOf <- MCColumnsOf
    ColumnOrder <- MCNameOrder
    Keys <- MCKeys
    KeyOrder <- MCKeyOrder
    Garbage <- MCGarbage
    GarbageNames = {"?", "c"}
    Databases <- MCFewDatabases
    Queries <- AllQueries
    GarbageCounts = {0, 3}
SPECIFICATION Spec
INVARIANTS
    TypeOK
    EntriesStayLoaded
    JoinFilesRemoved
    LastFileWritten
