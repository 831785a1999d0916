\* Three handles opened at once; two scopes of two collections.
SPECIFICATION FairSpec
CONSTANTS
    Handles = {h1, h2, h3}
    Scopes = 2
    PerScope = 2
    KeyNumbers = {0, 1, 2, 3, 7, 998}
INVARIANTS
    TypeOK
    RaceHarmless
    NoGaps
    GeneratorFindsAll
PROPERTIES
    CollectionsComplete
CHECK_DEADLOCK FALSE
