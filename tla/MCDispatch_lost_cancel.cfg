\* A CANCEL between the request and the start of its loop.
SPECIFICATION FairSpec
CONSTANTS
    Workers = {w1}
    HandleIds = {1}
    Ops = {"batch_continuous"}
    NULL = NULL
    Main = Main
    EarlyIds = {1}
PROPERTY CancelEndsAnyOp
