\* One connection at a time under the fairness of the threads.
SPECIFICATION FairSpec
CONSTANTS
    Workers = {w1}
    HandleIds = {1}
    Ops = {"batch_continuous", "load", "load_continuous", "no_dataset"}
    NULL = NULL
    Main = Main
    EarlyIds = {1}
PROPERTIES
    LoopsEnd
    CancelEndsOp
    
    ShutdownCompletes
