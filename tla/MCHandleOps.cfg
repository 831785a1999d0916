\* Datasets of up to four items, windows of one to three, batches of two.
SPECIFICATION FairSpec
CONSTANTS
    IterWaits = {0, 1, 2, 3}
    Counts = {0, 1, 4}
    BatchSize = 2
    MaxIssued = 5
INVARIANTS
    TypeOK
    RemainingCounts
    WindowBounded
    
PROPERTIES
    LoopsEnd
    RequestsAwaited
