SPECIFICATION Spec
CONSTANTS
    Clients = {c1, c2}
    Operations <- MCOperations
    Dates = {today}
    None = None
    PoolSize = 1
    MaxPosts = 2
    MaxDeletes = 1
    MaxFaults = 1
INVARIANT TypeOK
INVARIANT AcceptedIsTask
INVARIANT DoneMeansRun
INVARIANT CancelFinds
INVARIANT ListsRight
PROPERTY LifeSpec
