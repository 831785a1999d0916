\* One NEWDATASET of each kind and type.
SPECIFICATION Spec
CONSTANTS
    Chars <- MCChars
    KSeed <- MCSeed
    Repeats <- MCRepeats
    KSizes = {0, 1, 6, 9}
    Counts <- MCCounts
    Pairs <- MCPairs
    Id = "ds"
    Width = 16
    MaxItems = 13
INVARIANT IdRegisters
CHECK_DEADLOCK FALSE
