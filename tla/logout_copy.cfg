SPECIFICATION Spec
CONSTANTS
    Threads = {t1, t2}
    Sids = {s1, s2, s3}
    Users = {u1, u2}
    NoSid = NoSid
    NoUser = NoUser
    Routes = {"other", "logout"}
    N = 2
    TTL = 0
SYMMETRY Symmetry
PROPERTY LogoutEnds
