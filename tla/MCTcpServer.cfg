\* See MCTcpServer.tla for the choice of the instance.
CONSTANTS
    Clients   = {c1, c2, c3}
    Workers   = {w1, w2}
    Main      = Main
    NoTask    = NoTask
    Nobody    = Nobody
    a = a
    b = b
    Fds       <- MCFds
    Lines     <- MCLines
    MaxFlight = 2
SPECIFICATION FairSpec
INVARIANTS TypeOK DescriptorsOwned SurvivesWholeLines
PROPERTIES ImplementsEcho Answered
\* The server process ends on SIGPIPE.
CHECK_DEADLOCK FALSE
