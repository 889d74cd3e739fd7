SPECIFICATION Spec
CONSTANTS
    Threads = {t1, t2}
    Commands = {"start", "stop", "restart", "reload"}
    Sessions = {s1}
    Attempts = 2
    Limit = 1
    Times = {1, 2}
    MaxRecords = 2
    None = None
INVARIANT TypeOK
INVARIANT ListingRight
INVARIANT FifoIfInOrder
INVARIANT AnswerHolds
PROPERTY ControlAnswered
PROPERTY ServerSpec
