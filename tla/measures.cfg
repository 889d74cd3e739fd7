SPECIFICATION Spec
CONSTANTS
    Apis = {a1}
    Collector = c
    None = None
    Keep = 0
    MaxTime = 1
    MaxTotal = 2
    MaxBoots = 2
INVARIANT TypeOK
INVARIANT CountedOnce
INVARIANT CountedAll
INVARIANT FreshBase
INVARIANT OneFailureOneGap
