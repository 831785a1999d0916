\* NEWHANDLE against a cluster that does not open.
SPECIFICATION Spec
CONSTANTS
    Workers = {w1}
    HandleIds = {1}
    Ops = {"load"}
    NULL = NULL
    Main = Main
    EarlyIds = {1}
INVARIANT HandleAnswered
