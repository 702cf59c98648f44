\* Two users, two requests: liveness, so no symmetry.
CONSTANTS
    Users = {u1, u2}
    Tokens = {t1, t2}
    Requests = {r1, r2}
    NoUser = NoUser
    NoToken = NoToken
    NotRevoked = NotRevoked
    TTL = 1
    MaxClock = 0
    Unsteady = {u1}
    RoleReads = {TRUE, FALSE}
    ExpiredReads = {TRUE, FALSE}
SPECIFICATION FairSpec
PROPERTIES RequestsFinish ImplementsSessions
