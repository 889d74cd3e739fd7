SPECIFICATION Spec
CONSTANTS
    Requests = {r1}
    reloaded = reloaded
    restarted = restarted
    boot = boot
    other = other
    zero = zero
    Boot = boot
    Reset = Reset
    Bad = Bad
    Refused = Refused
    Nil = {}
    Names <- TwoNames
    Restart = {restarted}
    Values <- TwoValues
    Posts <- FewPosts
PROPERTY PostedIsStored
