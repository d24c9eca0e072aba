\* The instance of MCShm.cfg.
CONSTANTS
    Chosen = {"shm_pipe"}
    Procs = {0, 1, 2, 3, 4, 5}
    Pipes = {1, 2, 3, 4}
    Capacity = 2
    NumProcesses = 3
    NumMessages = 3
    NumReaders = 3
    NumClients = 2
    Segments = {1, 2, 3, 4}
    MaxLines = 3
    MaxStarts = 3
SPECIFICATION Spec
INVARIANT FifoRemoved
CHECK_DEADLOCK FALSE
