CONSTANTS
    a = a
    Values = {0, 1, 2, 3, 4, 5, 6, 7}
    KeyOf <- OwnKey
    NodeValues = 4
    Unique = TRUE
    MaxSize = 7
SPECIFICATION Spec
VIEW View
INVARIANT Verified
PROPERTY ImplementsMultimap
