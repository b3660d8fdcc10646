CONSTANTS
    a = a
    Values = {a}
    KeyOf <- SameKey
    NodeValues = 3
    Unique = FALSE
    MaxSize = 15
SPECIFICATION Spec
VIEW View
INVARIANTS
    TypeOK
    Verified
    Balanced
    RoomIsMade
    IteratorsWalk
PROPERTY ImplementsMultimap
