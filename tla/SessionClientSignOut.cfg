\* Somebody signs out.
CONSTANTS
    Users = {u1, u2}
    Tokens = {t1, t2}
    Requests = {r1, r2}
    Roles <- MCRoles
    FirstRole = "detection_engineer"
    NoUser = NoUser
    NoToken = NoToken
    NoClaims = NoClaims
    AccessTTL = 1
    MaxClock = 1
    Unsteady = {u1}
    Pages = {p1}
    NoPage = NoPage
SPECIFICATION Spec
SYMMETRY Interchangeable
PROPERTIES SignOutRevokes
