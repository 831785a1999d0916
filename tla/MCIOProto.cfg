\* Up to three lines in any pieces; the connection may end at any moment.
SPECIFICATION FairSpec
CONSTANTS
    MaxLines = 3
    LineKinds = {"request", "invalid", "close", "empty"}
PROPERTIES
    RequestsServed
    EofTakesAll
    RequestAnswered
CHECK_DEADLOCK FALSE
