SPECIFICATION FairSpec
CONSTANTS
    Threads = {t1}
    Sids = {s1, s2, s3}
    Users = {u1, u2}
    NoSid = NoSid
    NoUser = NoUser
    Routes = {"other", "logout", "profile"}
    N = 2
    TTL = 1
INVARIANT OneSessionPerUser
PROPERTY LogoutEnds
PROPERTY EndsByRule
PROPERTY RefusedOnlyIfGone
PROPERTY ExpiredGoes
