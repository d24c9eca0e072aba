\* See MCDemos.tla for the choice of the instance.
CONSTANTS
    Chosen = {"tickets", "printers", "buffer", "forked", "signals", "waiting"}
    NumThreads = 3
    Total = 2
    MaxN = 5
    NumMessages = 4
    Sigs = {2, 3, 8, 9}
    Looks = 3
    Last = 10
    Ticks = 2
    Callers = {t1, t2}
    NumParts = 1
    Nobody = Nobody
    Null = Null
SPECIFICATION Spec
INVARIANTS TypeOK EachOnce
PROPERTIES AllComeToAnEnd
CHECK_DEADLOCK FALSE
