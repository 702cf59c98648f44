\* Three logins of one account, two attempts before the lock.
CONSTANTS
    Users = {u1}
    Requests = {r1, r2, r3}
    NotLocked = NotLocked
    MaxFailed = 2
    LockoutDuration = 1
    CountMax = 5
    MaxClock = 3
SPECIFICATION Spec
SYMMETRY Interchangeable
INVARIANTS TypeOK ThresholdLocks GuessesAreBounded
PROPERTIES LockoutsEaseByRule
