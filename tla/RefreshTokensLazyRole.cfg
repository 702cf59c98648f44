\* The repository of the running backend: the role of a user is not loaded.
CONSTANTS
    Users = {u1}
    Tokens = {t1, t2}
    Requests = {r1, r2}
    NoUser = NoUser
    NoToken = NoToken
    NotRevoked = NotRevoked
    TTL = 1
    MaxClock = 1
    Unsteady = {}
    RoleReads = {FALSE}
    ExpiredReads = {FALSE}
SPECIFICATION Spec
PROPERTIES LoginIssuesPair
