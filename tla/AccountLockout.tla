--------------------------- MODULE AccountLockout ---------------------------
(***************************************************************************)
(* The lockout of AuthService.login (app/auth/service.py): what concurrent *)
(* logins do to users.failed_login_count and users.locked_until.  Every    *)
(* repository call is one UPDATE of one row and its COMMIT; the row is     *)
(* locked from the one to the other, so a call is a single step here.      *)
(* Between two calls of a handler any other handler may run, and a handler *)
(* may die.  Issuing the token pair is RefreshTokens' concern.             *)
(***************************************************************************)
EXTENDS Naturals, FiniteSets

CONSTANTS
    Users,
    Requests,         \* concurrently running login handlers
    NotLocked,        \* the NULL of locked_until
    MaxFailed,        \* settings.max_failed_login_attempts
    LockoutDuration,  \* settings.lockout_duration_seconds, in ticks
    CountMax,         \* the largest failed_login_count its SMALLINT column holds
    MaxClock          \* bound: the clock stops here

ASSUME LockoutAssumption ==
    /\ IsFiniteSet(Requests)
    /\ NotLocked \notin Nat
    /\ MaxFailed \in Nat \ {0}
    /\ LockoutDuration \in Nat \ {0}
    /\ CountMax \in Nat
    /\ MaxClock \in Nat

VARIABLES
    failedCount,   \* users.failed_login_count
    lockedUntil,   \* users.locked_until
    active,        \* users.is_active
    pc,            \* the repository call a handler is about to make
    account,       \* the user its e-mail names
    verdict,       \* the call that its password and its snapshot lead to
    now,           \* its datetime.now() after the first read
    until,         \* the end of the lockout it is about to set
    clock,
    interrupted,   \* history: accounts with a handler that died before it could lock
    outpaced       \* history: accounts with a handler that was running across a tick

rows == <<failedCount, lockedUntil>>
locals == <<account, verdict, now, until>>
vars == <<failedCount, lockedUntil, active, pc, account, verdict, now, until, clock,
          interrupted, outpaced>>
history == <<interrupted, outpaced>>

PCs == {"idle", "reset_expired_lockout", "increment_failed_login", "set_locked_until",
        "reset_failed_login"}

Init ==
    /\ failedCount = [u \in Users |-> 0]
    /\ lockedUntil = [u \in Users |-> NotLocked]
    /\ active = [u \in Users |-> TRUE]
    /\ pc = [r \in Requests |-> "idle"]
    /\ account \in [Requests -> Users]
    /\ verdict = [r \in Requests |-> "idle"]
    /\ now = [r \in Requests |-> 0]
    /\ until = [r \in Requests |-> 0]
    /\ clock = 0
    /\ interrupted = {}
    /\ outpaced = {}

-----------------------------------------------------------------------------
Locked(u) == lockedUntil[u] # NotLocked /\ lockedUntil[u] > clock
LockExpired(u) == lockedUntil[u] # NotLocked /\ lockedUntil[u] <= clock

Goto(r, p) == pc' = [pc EXCEPT ![r] = p]

\* The response is sent.
Finish(r) ==
    /\ Goto(r, "idle")
    /\ verdict' = [verdict EXCEPT ![r] = "idle"]
    /\ now' = [now EXCEPT ![r] = 0]
    /\ until' = [until EXCEPT ![r] = 0]

-----------------------------------------------------------------------------
(* Faulty variants of definitions below, for mutation runs. *)

\* The two columns of the reset change places.
Forgive_Swapped(u) ==
    /\ failedCount' = [failedCount EXCEPT ![u] = NotLocked]
    /\ lockedUntil' = [lockedUntil EXCEPT ![u] = 0]

\* reset_expired_lockout trusts the read of locked_until its caller did.
StillExpired_Trusted(r) == TRUE

\* One failure more than the setting allows.
Reached_OffByOne(n) == n > MaxFailed

\* The password is looked at before the lock.
Open_Unchecked(u) == ~LockExpired(u)

-----------------------------------------------------------------------------
\* failed_login_count = 0, locked_until = NULL
Forgive(u) ==
    /\ failedCount' = [failedCount EXCEPT ![u] = 0]
    /\ lockedUntil' = [lockedUntil EXCEPT ![u] = NotLocked]

\* Where a handler is headed with a wrong or a right password, unless a lock
\* stops it.  An inactive account is refused either way.
Verdicts(u) ==
    IF active[u] THEN {"increment_failed_login", "reset_failed_login"} ELSE {"idle"}

\* The first read finds no lock.
Open(u) == lockedUntil[u] = NotLocked

Begin(r, u, v, p) ==
    /\ account' = [account EXCEPT ![r] = u]
    /\ verdict' = [verdict EXCEPT ![r] = v]
    /\ now' = [now EXCEPT ![r] = clock]
    /\ Goto(r, p)
    /\ UNCHANGED <<rows, active, until, clock, history>>

\* get_by_email found no lock: the password decides.
Login(r, u, v) ==
    /\ pc[r] = "idle"
    /\ Open(u)
    /\ v \in Verdicts(u)
    /\ Begin(r, u, v, v)

\* It found a lock that has expired, to be cleared before the password counts.
LoginAfterLockout(r, u, v) ==
    /\ pc[r] = "idle"
    /\ LockExpired(u)
    /\ v \in Verdicts(u)
    /\ Begin(r, u, v, "reset_expired_lockout")

\* It found an active lock: refused on the spot, right password or not.
LoginRefused(r, u) ==
    /\ pc[r] = "idle"
    /\ Locked(u)
    /\ UNCHANGED vars

\* The WHERE clause of reset_expired_lockout, on the row as it is now.
StillExpired(r) ==
    LET u == account[r] IN lockedUntil[u] # NotLocked /\ lockedUntil[u] <= now[r]

ResetExpiredLockout(r) ==
    /\ pc[r] = "reset_expired_lockout"
    /\ StillExpired(r)
    /\ Forgive(account[r])
    /\ Goto(r, verdict[r])
    /\ UNCHANGED <<active, locals, clock, history>>

\* The lock was cleared or replaced since: the UPDATE matches no row.
ResetExpiredLockoutMiss(r) ==
    /\ pc[r] = "reset_expired_lockout"
    /\ ~StillExpired(r)
    /\ Goto(r, verdict[r])
    /\ UNCHANGED <<rows, active, locals, clock, history>>

Reached(n) == n >= MaxFailed

\* The UPDATE adds one and returns the new count, which may call for a lockout.
IncrementFailedLogin(r) ==
    LET u == account[r]
        count == failedCount[u] + 1
    IN /\ pc[r] = "increment_failed_login"
       /\ count <= CountMax
       /\ failedCount' = [failedCount EXCEPT ![u] = count]
       /\ IF Reached(count)
          THEN /\ Goto(r, "set_locked_until")
               /\ until' = [until EXCEPT ![r] = clock + LockoutDuration]
               /\ UNCHANGED <<account, verdict, now>>
          ELSE Finish(r) /\ UNCHANGED account
       /\ UNCHANGED <<lockedUntil, active, clock, history>>

\* The count is out of the range of its column: the UPDATE raises.
IncrementOverflow(r) ==
    /\ pc[r] = "increment_failed_login"
    /\ failedCount[account[r]] = CountMax
    /\ Finish(r)
    /\ UNCHANGED <<rows, active, account, clock, history>>

\* A second transaction; the row may have been reset or locked in between.
SetLockedUntil(r) ==
    /\ pc[r] = "set_locked_until"
    /\ lockedUntil' = [lockedUntil EXCEPT ![account[r]] = until[r]]
    /\ Finish(r)
    /\ UNCHANGED <<failedCount, active, account, clock, history>>

\* The password was right: whatever the row holds by now is forgiven.
ResetFailedLogin(r) ==
    /\ pc[r] = "reset_failed_login"
    /\ Forgive(account[r])
    /\ interrupted' = interrupted \ {account[r]}
    /\ Finish(r)
    /\ UNCHANGED <<active, account, clock, outpaced>>

\* The handler dies; its last COMMIT stands.
Abort(r) ==
    /\ pc[r] # "idle"
    /\ Finish(r)
    /\ interrupted' =
         IF pc[r] = "set_locked_until" THEN interrupted \cup {account[r]} ELSE interrupted
    /\ UNCHANGED <<rows, active, account, clock, outpaced>>

\* An administrator's change to users.is_active, outside this code.
SetActive(u) ==
    /\ active' = [active EXCEPT ![u] = ~@]
    /\ UNCHANGED <<rows, pc, locals, clock, history>>

Tick ==
    /\ clock < MaxClock
    /\ clock' = clock + 1
    /\ outpaced' = outpaced \cup {account[r] : r \in {q \in Requests : pc[q] # "idle"}}
    /\ UNCHANGED <<rows, active, pc, locals, interrupted>>

Handler(r) ==
    \/ \E u \in Users, v \in PCs : Login(r, u, v)
    \/ \E u \in Users, v \in PCs : LoginAfterLockout(r, u, v)
    \/ \E u \in Users : LoginRefused(r, u)
    \/ ResetExpiredLockout(r) \/ ResetExpiredLockoutMiss(r)
    \/ IncrementFailedLogin(r) \/ IncrementOverflow(r) \/ SetLockedUntil(r)
    \/ ResetFailedLogin(r)
    \/ Abort(r)

Next ==
    \/ \E r \in Requests : Handler(r)
    \/ \E u \in Users : SetActive(u)
    \/ Tick

Spec == Init /\ [][Next]_vars

-----------------------------------------------------------------------------
(* Properties *)

TypeOK ==
    /\ failedCount \in [Users -> Nat]
    /\ lockedUntil \in [Users -> Nat \cup {NotLocked}]
    /\ active \in [Users -> BOOLEAN]
    /\ pc \in [Requests -> PCs]
    /\ account \in [Requests -> Users]
    /\ verdict \in [Requests -> PCs]
    /\ now \in [Requests -> Nat]
    /\ until \in [Requests -> Nat]
    /\ clock \in Nat
    /\ interrupted \in SUBSET Users
    /\ outpaced \in SUBSET Users

\* An account that has used up its attempts is locked, or the handler that
\* counted the last of them is about to lock it, or that handler died between
\* the two transactions (login: increment_failed_login, then set_locked_until).
ThresholdLocks ==
    \A u \in Users :
        failedCount[u] >= MaxFailed /\ lockedUntil[u] = NotLocked =>
            \/ \E r \in Requests : account[r] = u /\ pc[r] = "set_locked_until"
            \/ u \in interrupted

\* A handler of the account is about to report a right password.
RightPassword(u) == \E r \in Requests : account[r] = u /\ pc[r] = "reset_failed_login"

\* A handler that counted its failure before the present, and is yet to set the lock.
Late(r) == pc[r] = "set_locked_until" /\ until[r] < clock + LockoutDuration

\* Guessing in parallel gains less than one guess per handler over the setting,
\* as long as no handler dies before it can lock and none is so slow that the
\* clock moves on under it.
GuessesAreBounded ==
    \A u \in Users \ (interrupted \cup outpaced) :
        failedCount[u] < MaxFailed + Cardinality(Requests)

\* The three ways a lockout gets milder.  Failures are forgotten, or a lock is
\* lifted, by a right password or once the lock has run out, never by a handler
\* that saw an older lock expire (comment of reset_expired_lockout).  The end of a
\* lock is moved forward only by a wrong password whose handler the clock has
\* overtaken between its two transactions (login, lines 144-149): whoever sets a
\* lock at the instant it counted never shortens another's.
LockoutsEaseByRule ==
    [][\A u \in Users :
        /\ \/ failedCount'[u] < failedCount[u]
           \/ lockedUntil[u] # NotLocked /\ lockedUntil'[u] = NotLocked
           => LockExpired(u) \/ RightPassword(u)
        /\ NotLocked \notin {lockedUntil[u], lockedUntil'[u]} /\ lockedUntil'[u] < lockedUntil[u]
           => \E r \in Requests : account[r] = u /\ Late(r)]_vars

\* An active lock is not lifted before its time: "an active lockout cannot be
\* cleared by a stale request" (repository_sqlalchemy.py, lines 48-49).
ActiveLockStays ==
    [][\A u \in Users : Locked(u) => lockedUntil'[u] # NotLocked]_vars
=============================================================================
