\* See MCChannels.tla for the choice of the instance.
CONSTANTS
    Chosen = {"shm_pipe", "shm"}
    Procs = {0, 1, 2, 3, 4, 5}
    Pipes = {1, 2, 3, 4}
    Capacity = 2
    NumProcesses = 3
    NumMessages = 3
    NumReaders = 3
    NumClients = 2
    Segments = {1, 2, 3, 4}
    MaxLines = 3
    MaxStarts = 3
SPECIFICATION Spec
INVARIANTS TypeOK NeverStale
PROPERTIES QuitEnds
CHECK_DEADLOCK FALSE
