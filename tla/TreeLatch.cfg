SPECIFICATION Spec
CONSTANTS
    Threads = {t1, t2}
    None = None
PROPERTIES CallsReturn
CHECK_DEADLOCK FALSE
