CONSTANTS
    a = a
    Values = {0, 1}
    KeyOf <- OwnKey
    NodeValues = 3
    Unique = FALSE
    MaxSize = 11
SPECIFICATION Spec
VIEW View
INVARIANT SearchesAgree
PROPERTY ImplementsMultimap
