\* See MCThreadPool.tla for the choice of the instance.
CONSTANTS
    Submitters = {s1, s2}
    NumWorkers <- MCNumWorkers
    Items      = {v1, v2}
    MaxQueue   <- MCMaxQueue
    Nobody     = Nobody
    NoItem     = NoItem
SPECIFICATION FairSpec
INVARIANTS TypeOK TaskReady WorkersCovered
PROPERTIES ImplementsFifo TasksRun
