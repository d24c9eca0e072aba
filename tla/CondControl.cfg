\* Two threads and two turns: one thread can be served while the other is
\* between its test of quit and its wait.
CONSTANTS
    Thrds  = {t1, t2}
    Turns  = 2
    Nobody = Nobody
SPECIFICATION FairSpec
PROPERTIES AllJoined
CHECK_DEADLOCK FALSE
