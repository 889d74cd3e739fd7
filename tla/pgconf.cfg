SPECIFICATION FairSpec
CONSTANTS
    Requests = {r1, r2}
    reloaded = reloaded
    restarted = restarted
    boot = boot
    other = other
    zero = zero
    Boot = boot
    Reset = Reset
    Bad = Bad
    Refused = Refused
    Nil = {zero}
    Names <- TwoNames
    Restart = {restarted}
    Values <- ThreeValues
    Posts <- RacingPosts
INVARIANT TypeOK
INVARIANT Announced
INVARIANT UnitsRight
PROPERTY PostedIsStoredIfSynced
PROPERTY Converges
