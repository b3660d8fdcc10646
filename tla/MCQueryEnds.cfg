CONSTANTS
    EmptyCell = ""
    Cells <- MCCells
    Numeric <- MCNumeric
    SecondDigit <- MCSecondDigit
    NumberOf <- MCNumberOf
    Tables <- MCTables
    Catalog <- MCCatalog
    ColumnsOf <- MCColumnsOf
    ColumnOrder <- MCColumnOrder
    Keys <- MCKeys
    KeyOrder <- MCKeyOrder
    Garbage <- MCGarbage
    GarbageNames = {}
    Databases <- MCTwoDatabases
    Queries <- EndingQueries
    GarbageCounts = {0, 3}
SPECIFICATION FairSpec
PROPERTY QueriesEnd
