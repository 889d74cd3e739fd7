SPECIFICATION Spec
CONSTANTS
    Threads = {t1}
    Sids = {s1, s2, s3}
    Users = {u1, u2}
    NoSid = NoSid
    NoUser = NoUser
    Routes = {"other"}
    N = 2
    TTL = 1
PROPERTY PurgesExpiredOnly
