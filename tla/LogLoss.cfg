SPECIFICATION Spec
CONSTANTS
    Threads = {t1, t2}
    FlushThread = flusher
    Free = Free
    Blocks = {b1, b2}
    MaxLsn = 3
    Names = {n1, n2, n3}
CHECK_DEADLOCK FALSE
INVARIANT PersistentMeansWritten
