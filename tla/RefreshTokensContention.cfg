\* Three requests of one user race for three token names.
CONSTANTS
    Users = {u1}
    Tokens = {t1, t2, t3}
    Requests = {r1, r2, r3}
    NoUser = NoUser
    NoToken = NoToken
    NotRevoked = NotRevoked
    TTL = 1
    MaxClock = 1
    Unsteady = {}
    RoleReads = {TRUE}
    ExpiredReads = {TRUE}
SPECIFICATION Spec
SYMMETRY Interchangeable
INVARIANTS TypeOK SingleUse BurnsOnlyOnReuse
PROPERTIES BurnLeavesNoSession ImplementsSessions
