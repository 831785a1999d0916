\* A NEWHANDLE without a handle ID.
SPECIFICATION Spec
CONSTANTS
    Workers = {w1}
    HandleIds = {0}
    Ops = {"load"}
    NULL = NULL
    Main = Main
    EarlyIds = {}
INVARIANT MapEntryLiveAll
