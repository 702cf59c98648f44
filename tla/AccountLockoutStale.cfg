\* A right password read before the lock, and a wrong one after it.
CONSTANTS
    Users = {u1}
    Requests = {r1, r2}
    NotLocked = NotLocked
    MaxFailed = 2
    LockoutDuration = 1
    CountMax = 5
    MaxClock = 1
SPECIFICATION Spec
PROPERTIES ActiveLockStays
