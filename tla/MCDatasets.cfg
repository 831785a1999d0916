\* Datasets of every kind; seeded ones up to indices of two digits.
SPECIFICATION Spec
CONSTANTS
    Chars <- MCChars
    KSeed <- MCSeed
    Repeats <- MCRepeats
    KSizes = {0, 1, 6, 9}
    Counts <- MCCounts
    Pairs <- MCPairs
    Id = "ds"
    Width = 16
    MaxItems = 13
INVARIANTS
    IterationExact
    KeysDistinct
    
CHECK_DEADLOCK FALSE
