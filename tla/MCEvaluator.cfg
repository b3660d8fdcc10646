CONSTANTS
    EmptyCell = ""
    Cells <- MCCells
    Numeric <- MCNumeric
    SecondDigit <- MCSecondDigit
    NumberOf <- MCNumberOf
    Rows <- MCRows
    Comparisons <- MCComparisons
    MoreComparisons <- MCMoreComparisons
    MaxComparisons = 3
SPECIFICATION ChainSpec
CHECK_DEADLOCK FALSE
INVARIANT AnswersWhatTheChainMeans
