SPECIFICATION Spec
CONSTANTS
    Threads = {t1, t2}
    Commands = {"reload"}
    Sessions = {s1}
    Attempts = 1
    Limit = 1
    Times = {1, 2}
    MaxRecords = 2
    None = None
INVARIANT Fifo
