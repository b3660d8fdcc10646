CONSTANTS
    EmptyCell = ""
    Cells <- MCCells
    Numeric <- MCNumeric
    SecondDigit <- MCSecondDigit
    NumberOf <- MCNumberOf
    Tables <- MCTables
    Catalog <- MCCatalog
    ColumnsOf <- MCColumnsOf
    ColumnOrder <- MCColumnOrder
    Keys <- MCKeys
    KeyOrder <- MCKeyOrder
    Garbage <- MCGarbage
    GarbageNames = {}
    Databases <- MCSmallDatabases
    Queries <- IllTypedThenEqual
    GarbageCounts = {0, 1}
SPECIFICATION Spec
INVARIANTS
    WhereJoins
