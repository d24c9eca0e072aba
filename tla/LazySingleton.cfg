\* Four callers, so that some find the pointer Null and some find it set, and a
\* constructor that takes three stores, as many as g_thread_num.
CONSTANTS
    Chosen = {"singleton"}
    NumThreads = 1
    Total = 1
    MaxN = 1
    NumMessages = 1
    Sigs = {2}
    Looks = 1
    Last = 1
    Ticks = 1
    Callers  = {t1, t2, t3, t4}
    NumParts = 3
    Nobody   = Nobody
    Null     = Null
SPECIFICATION Spec
INVARIANTS TypeOK OneInstance NeverHalfBuilt
PROPERTIES CallsReturn
