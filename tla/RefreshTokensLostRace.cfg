\* Two refreshes with one token; an attribute read after a rollback raises.
CONSTANTS
    Users = {u1}
    Tokens = {t1, t2}
    Requests = {r1, r2}
    NoUser = NoUser
    NoToken = NoToken
    NotRevoked = NotRevoked
    TTL = 1
    MaxClock = 1
    Unsteady = {}
    RoleReads = {TRUE}
    ExpiredReads = {FALSE}
SPECIFICATION Spec
PROPERTIES LostRotationBurns
