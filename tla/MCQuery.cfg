CONSTANTS
    EmptyCell = ""
    Cells <- MCCells
    Numeric <- MCNumeric
    SecondDigit <- MCSecondDigit
    NumberOf <- MCNumberOf
    Tables <- MCTables
    Catalog <- MCCatalog
    ColumnsOf <- MCColumnsOf
    ColumnOrder <- MCColumnOrder
    Keys <- MCKeys
    KeyOrder <- MCKeyOrder
    Garbage <- MCGarbage
    GarbageNames = {}
    Databases <- MCDatabases
    Queries <- AnsweredQueries
    GarbageCounts = {0, 1, 3}
SPECIFICATION Spec
INVARIANTS
    EveryTableJoinedOnce
    IndexesStayLoaded
PROPERTIES
    GivesTheAnswer
