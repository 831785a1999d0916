\* Two connections; the harness may leave out the ID, clash with 1, and is careful with 2.
SPECIFICATION Spec
CONSTANTS
    Workers = {w1, w2}
    HandleIds = {0, 1, 2}
    Ops = {"batch_continuous", "no_dataset"}
    NULL = NULL
    Main = Main
    EarlyIds = {1}
SYMMETRY WorkerSymmetry
INVARIANTS
    TypeOK
    MapEntryLive
    CancelTargetsItsHandle
    
    NoDeadHandleUsed
    
PROPERTY DestroyedByItsThread
