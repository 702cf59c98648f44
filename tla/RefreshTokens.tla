--------------------------- MODULE RefreshTokens ---------------------------
(***************************************************************************)
(* The refresh-token lifecycle of the backend: AuthService (app/auth/      *)
(* service.py) over the SQLAlchemy repositories (app/auth/                 *)
(* repository_sqlalchemy.py) and PostgreSQL.  One request handler runs per *)
(* element of Requests; an action is what a handler does between two       *)
(* awaits, which is at most one SQL statement or one COMMIT.               *)
(*                                                                         *)
(* PostgreSQL is external.  What the code relies on is modelled: READ      *)
(* COMMITTED reads see committed rows only, SELECT ... FOR UPDATE excludes *)
(* every other lock on the user row, the INSERT of a refresh token holds a *)
(* KEY SHARE lock on the user row its foreign key names until its COMMIT,  *)
(* an UPDATE of the user row waits for FOR UPDATE only, any UPDATE waits   *)
(* for the writers of its rows and then rechecks its WHERE clause, and     *)
(* locks and uncommitted writes go when a transaction ends.                *)
(* A lock is not a variable: a request holds those its pc and its staged   *)
(* writes say it holds.                                                    *)
(***************************************************************************)
EXTENDS Naturals, FiniteSets

CONSTANTS
    Users,         \* rows of users
    Tokens,        \* the raw refresh tokens that may ever be generated
    Requests,      \* concurrently running request handlers
    NoUser, NoToken, NotRevoked,  \* the NULLs of the three columns
    TTL,           \* jwt_refresh_token_ttl_seconds, in ticks
    MaxClock,      \* bound: the clock stops here
    Unsteady,      \* bound: the users an administrator may (de)activate
    RoleReads,     \* outcomes of reading user.role.name
    ExpiredReads   \* outcomes of reading an attribute after a rollback

\* A read in RoleReads or ExpiredReads is TRUE when it yields the value and
\* FALSE when it raises.  A repository that returns plain objects with the
\* role attached gives {TRUE}.  The SQLAlchemy one gives {FALSE}: the role is a
\* lazy relationship and a rollback expires every loaded attribute, and
\* an AsyncSession cannot load either outside an awaited call.
ASSUME ConstantsAssumption ==
    /\ NoUser \notin Users
    /\ NoToken \notin Tokens
    /\ NotRevoked \notin Nat
    /\ TTL \in Nat
    /\ MaxClock \in Nat
    /\ Unsteady \in SUBSET Users
    /\ RoleReads \in (SUBSET BOOLEAN) \ {{}}
    /\ ExpiredReads \in (SUBSET BOOLEAN) \ {{}}

VARIABLES
    \* committed rows
    owner,       \* refresh_tokens.user_id; NoUser: there is no such row
    expires,     \* refresh_tokens.expires_at
    revoked,     \* refresh_tokens.revoked_at
    active,      \* users.is_active
    \* the requests
    pc,          \* the await a handler is suspended at
    subject,     \* the user the handler works for
    presented,   \* the token the client presented
    minted,      \* the token the handler generates, if it gets that far
    now,         \* the instant its transaction stamps revoked_at with
    expiry,      \* expires_at of the token it generates
    targets,     \* the rows the snapshot of its UPDATE of many rows has found
    staged,      \* the tokens whose revoked_at its transaction has written
    raised,      \* the slots whose last request ended in an unhandled exception
    \* the rest of the world
    clock,
    delivered,   \* the raw tokens that have left the server in a response
    parent       \* history: the token whose rotation inserted this one

rows == <<owner, expires, revoked>>
world == <<active, clock>>
locals == <<subject, presented, minted>>
times == <<now, expiry>>
writes == <<targets, staged>>
vars == <<owner, expires, revoked, active, pc, subject, presented, minted, now,
          expiry, targets, staged, raised, clock, delivered, parent>>

RotatePcs == {"consume", "insert"}
BurnPcs == {"burn_lock", "burn_scan", "burn_update", "burn_commit"}
RefreshPcs == {"read_user", "rotate_lock", "lost", "answer"} \cup RotatePcs
LoginPcs == {"reset", "create", "create_commit", "deliver"}
LogoutPcs == {"revoke", "revoke_commit"}
PCs == {"idle"} \cup LoginPcs \cup RefreshPcs \cup BurnPcs \cup LogoutPcs

-----------------------------------------------------------------------------
Issued(t) == owner[t] # NoUser

\* SELECT users.id ... FOR UPDATE, until the transaction ends.
HoldsUserRow(r, u) ==
    /\ subject[r] = u
    /\ pc[r] \in RotatePcs \cup {"burn_scan", "burn_update", "burn_commit"}

\* The KEY SHARE lock of the INSERT of a refresh token, until its COMMIT.
SharesUserRow(r, u) == subject[r] = u /\ pc[r] = "create_commit"

UserRowFree(r, u) ==
    \A q \in Requests \ {r} : ~HoldsUserRow(q, u) /\ ~SharesUserRow(q, u)

\* For a KEY SHARE lock, or the UPDATE of a column that is no key.
UserRowShareable(r, u) == \A q \in Requests \ {r} : ~HoldsUserRow(q, u)

TokenRowFree(r, t) == \A q \in Requests \ {r} : t \notin staged[q]

\* secrets.token_urlsafe(48): a name nobody has and no other handler will draw.
Fresh(n) == ~Issued(n) /\ \A q \in Requests : minted[q] # n

-----------------------------------------------------------------------------
Init ==
    /\ owner = [t \in Tokens |-> NoUser]
    /\ expires = [t \in Tokens |-> 0]
    /\ revoked = [t \in Tokens |-> NotRevoked]
    /\ active = [u \in Users |-> TRUE]
    /\ pc = [r \in Requests |-> "idle"]
    /\ subject = [r \in Requests |-> NoUser]
    /\ presented = [r \in Requests |-> NoToken]
    /\ minted = [r \in Requests |-> NoToken]
    /\ now = [r \in Requests |-> 0]
    /\ expiry = [r \in Requests |-> 0]
    /\ targets = [r \in Requests |-> {}]
    /\ staged = [r \in Requests |-> {}]
    /\ raised = {}
    /\ clock = 0
    /\ delivered = {}
    /\ parent = [t \in Tokens |-> NoToken]

\* A handler starts and goes on to the await p.  Its datetime.now() is i, or 0
\* when it takes none before that await.
Begin(r, p, u, t, n, i) ==
    /\ pc' = [pc EXCEPT ![r] = p]
    /\ subject' = [subject EXCEPT ![r] = u]
    /\ presented' = [presented EXCEPT ![r] = t]
    /\ minted' = [minted EXCEPT ![r] = n]
    /\ now' = [now EXCEPT ![r] = i]
    /\ raised' = raised \ {r}
    /\ UNCHANGED <<expiry, writes>>

Goto(r, p) ==
    /\ pc' = [pc EXCEPT ![r] = p]
    /\ UNCHANGED <<locals, raised>>

\* The handler is over, and get_db closes its session.
End(r) ==
    /\ pc' = [pc EXCEPT ![r] = "idle"]
    /\ subject' = [subject EXCEPT ![r] = NoUser]
    /\ presented' = [presented EXCEPT ![r] = NoToken]
    /\ minted' = [minted EXCEPT ![r] = NoToken]
    /\ now' = [now EXCEPT ![r] = 0]
    /\ expiry' = [expiry EXCEPT ![r] = 0]
    /\ targets' = [targets EXCEPT ![r] = {}]
    /\ staged' = [staged EXCEPT ![r] = {}]

\* The response is sent; which one, no property tells apart.
Finish(r) == End(r) /\ UNCHANGED raised

\* An exception no handler maps to a response: 500.
Raise(r) == End(r) /\ raised' = raised \cup {r}

\* A request answered from its first read alone.
AnswerAtOnce(r) ==
    /\ raised' = raised \ {r}
    /\ UNCHANGED <<pc, locals, times, writes>>

\* The row of a new refresh token becomes visible.
InsertToken(r) ==
    /\ owner' = [owner EXCEPT ![minted[r]] = subject[r]]
    /\ expires' = [expires EXCEPT ![minted[r]] = expiry[r]]

\* The staged revocations of r's transaction become visible.
PublishRevocations(r) ==
    revoked' = [t \in Tokens |-> IF t \in staged[r] THEN now[r] ELSE revoked[t]]

Unstage(r) == staged' = [staged EXCEPT ![r] = {}]

-----------------------------------------------------------------------------
(* Faulty variants of some of the actions below, each a slip the code is    *)
(* written to avoid.  They stand for the actions in mutation runs only.     *)

\* The client gets the token it presented instead of the new one.
Deliver_Presented(r) ==
    /\ pc[r] = "deliver"
    /\ delivered' = delivered \cup {presented[r]}
    /\ Finish(r)
    /\ UNCHANGED <<rows, world, parent>>

\* rotate_if_active without its SELECT ... FOR UPDATE.
RotateLock_Skipped(r) ==
    /\ pc[r] = "rotate_lock"
    /\ Goto(r, "consume")
    /\ UNCHANGED <<rows, world, times, writes, delivered, parent>>

\* The UPDATE of the presented token trusts the row get_by_hash returned.
Consumable_Unconditional(r) == owner[presented[r]] = subject[r]

\* The UPDATE compares expires_at with a clock read after the service's check.
Consumable_LateClock(r) ==
    /\ owner[presented[r]] = subject[r]
    /\ revoked[presented[r]] = NotRevoked
    /\ expires[presented[r]] > clock

\* The replacement is committed and the old token kept.
RotateCommit_KeepsOld(r) ==
    /\ pc[r] = "insert"
    /\ InsertToken(r)
    /\ parent' = [parent EXCEPT ![minted[r]] = presented[r]]
    /\ Unstage(r)
    /\ Goto(r, "answer")
    /\ UNCHANGED <<revoked, world, times, targets, delivered>>

\* A failed rotation is tried again.
RotationLost_Retry(r) ==
    /\ pc[r] = "lost"
    /\ Goto(r, "rotate_lock")
    /\ UNCHANGED <<rows, times, writes, world, delivered, parent>>

\* The UPDATE of revoke_all_for_user without its user_id.
BurnScan_EveryUser(r) ==
    /\ pc[r] = "burn_scan"
    /\ now' = [now EXCEPT ![r] = clock]
    /\ targets' = [targets EXCEPT ![r] =
                    {t \in Tokens : Issued(t) /\ revoked[t] = NotRevoked}]
    /\ Goto(r, "burn_update")
    /\ UNCHANGED <<rows, expiry, staged, world, delivered, parent>>

-----------------------------------------------------------------------------
(* login: from verify_password having succeeded on. *)

\* The user row read at the start was active; n is the name the handler's
\* generate_refresh_token will draw.
Login(r, u, n) ==
    /\ pc[r] = "idle"
    /\ active[u]
    /\ Fresh(n)
    /\ Begin(r, "reset", u, NoToken, n, 0)
    /\ UNCHANGED <<rows, world, delivered, parent>>

\* reset_failed_login (an UPDATE of the user row and its COMMIT), then the
\* access token, which reads user.role.name, and the refresh token.
ResetFailedLogin(r) ==
    /\ pc[r] = "reset"
    /\ UserRowShareable(r, subject[r])
    /\ TRUE \in RoleReads
    /\ Goto(r, "create")
    /\ expiry' = [expiry EXCEPT ![r] = clock + TTL]
    /\ UNCHANGED <<rows, world, now, writes, delivered, parent>>

\* The same, and reading the role raises.
ResetAndRaise(r) ==
    /\ pc[r] = "reset"
    /\ UserRowShareable(r, subject[r])
    /\ FALSE \in RoleReads
    /\ Raise(r)
    /\ UNCHANGED <<rows, world, delivered, parent>>

\* The INSERT of RefreshTokenRepository.create and the lock of its foreign key.
CreateInsert(r) ==
    /\ pc[r] = "create"
    /\ UserRowShareable(r, subject[r])
    /\ Goto(r, "create_commit")
    /\ UNCHANGED <<rows, world, times, writes, delivered, parent>>

CreateCommit(r) ==
    /\ pc[r] = "create_commit"
    /\ InsertToken(r)
    /\ Goto(r, "deliver")
    /\ UNCHANGED <<revoked, world, times, writes, delivered, parent>>

Deliver(r) ==
    /\ pc[r] = "deliver"
    /\ delivered' = delivered \cup {minted[r]}
    /\ Finish(r)
    /\ UNCHANGED <<rows, world, parent>>

-----------------------------------------------------------------------------
(* refresh *)

\* get_by_hash returned a live row; n is the name the handler will draw.
Refresh(r, t, n) ==
    /\ pc[r] = "idle"
    /\ revoked[t] = NotRevoked
    /\ expires[t] > clock
    /\ Fresh(n)
    /\ Begin(r, "read_user", owner[t], t, n, clock)
    /\ UNCHANGED <<rows, world, delivered, parent>>

\* get_by_hash returned a revoked row: reuse, whether or not it has expired.
RefreshReused(r, t) ==
    /\ pc[r] = "idle"
    /\ revoked[t] # NotRevoked
    /\ Begin(r, "burn_lock", owner[t], t, NoToken, 0)
    /\ UNCHANGED <<rows, world, delivered, parent>>

RefreshExpired(r, t) ==
    /\ pc[r] = "idle"
    /\ revoked[t] = NotRevoked
    /\ expires[t] <= clock
    /\ AnswerAtOnce(r)
    /\ UNCHANGED <<rows, world, delivered, parent>>

\* No row has the hash of the token.
RefreshUnknown(r) ==
    /\ pc[r] = "idle"
    /\ AnswerAtOnce(r)
    /\ UNCHANGED <<rows, world, delivered, parent>>

\* get_by_id, then the replacement is generated.
ReadUser(r) ==
    /\ pc[r] = "read_user"
    /\ active[subject[r]]
    /\ Goto(r, "rotate_lock")
    /\ expiry' = [expiry EXCEPT ![r] = clock + TTL]
    /\ UNCHANGED <<rows, world, now, writes, delivered, parent>>

ReadInactiveUser(r) ==
    /\ pc[r] = "read_user"
    /\ ~active[subject[r]]
    /\ Finish(r)
    /\ UNCHANGED <<rows, world, delivered, parent>>

\* rotate_if_active: SELECT ... FOR UPDATE
RotateLock(r) ==
    /\ pc[r] = "rotate_lock"
    /\ UserRowFree(r, subject[r])
    /\ Goto(r, "consume")
    /\ UNCHANGED <<rows, world, times, writes, delivered, parent>>

\* The WHERE clause of its UPDATE, as the row is once no one else writes it.
Consumable(r) ==
    /\ owner[presented[r]] = subject[r]
    /\ revoked[presented[r]] = NotRevoked
    /\ expires[presented[r]] > now[r]

\* rotate_if_active: the UPDATE matches the row.
RotateConsume(r) ==
    /\ pc[r] = "consume"
    /\ TokenRowFree(r, presented[r])
    /\ Consumable(r)
    /\ staged' = [staged EXCEPT ![r] = {presented[r]}]
    /\ Goto(r, "insert")
    /\ UNCHANGED <<rows, world, times, targets, delivered, parent>>

\* It matches none: the transaction is rolled back, the user row released.
RotateMiss(r) ==
    /\ pc[r] = "consume"
    /\ TokenRowFree(r, presented[r])
    /\ ~Consumable(r)
    /\ Goto(r, "lost")
    /\ UNCHANGED <<rows, world, times, writes, delivered, parent>>

\* rotate_if_active: the INSERT of the replacement and the COMMIT of both.
RotateCommit(r) ==
    /\ pc[r] = "insert"
    /\ PublishRevocations(r)
    /\ InsertToken(r)
    /\ parent' = [parent EXCEPT ![minted[r]] = presented[r]]
    /\ Unstage(r)
    /\ Goto(r, "answer")
    /\ UNCHANGED <<world, times, targets, delivered>>

\* The rotation failed: the handler reads existing.user_id again.
RotationLost(r) ==
    /\ pc[r] = "lost"
    /\ TRUE \in ExpiredReads
    /\ Goto(r, "burn_lock")
    /\ UNCHANGED <<rows, world, times, writes, delivered, parent>>

RotationLostAndRaise(r) ==
    /\ pc[r] = "lost"
    /\ FALSE \in ExpiredReads
    /\ Raise(r)
    /\ UNCHANGED <<rows, world, delivered, parent>>

\* The access token of the response reads user.role.name.
Answer(r) ==
    /\ pc[r] = "answer"
    /\ TRUE \in RoleReads
    /\ delivered' = delivered \cup {minted[r]}
    /\ Finish(r)
    /\ UNCHANGED <<rows, world, parent>>

AnswerAndRaise(r) ==
    /\ pc[r] = "answer"
    /\ FALSE \in RoleReads
    /\ Raise(r)
    /\ UNCHANGED <<rows, world, delivered, parent>>

-----------------------------------------------------------------------------
(* logout, logout_all and revoke_all_for_user *)

\* logout: get_by_hash returned a row not yet revoked.
Logout(r, t) ==
    /\ pc[r] = "idle"
    /\ revoked[t] = NotRevoked
    /\ Begin(r, "revoke", owner[t], t, NoToken, 0)
    /\ UNCHANGED <<rows, world, delivered, parent>>

\* A revoked row, or none: nothing to do.
LogoutIdle(r) ==
    /\ pc[r] = "idle"
    /\ AnswerAtOnce(r)
    /\ UNCHANGED <<rows, world, delivered, parent>>

\* revoke: an UPDATE by id, whatever the row holds by now.
RevokeUpdate(r) ==
    /\ pc[r] = "revoke"
    /\ TokenRowFree(r, presented[r])
    /\ now' = [now EXCEPT ![r] = clock]
    /\ staged' = [staged EXCEPT ![r] = {presented[r]}]
    /\ Goto(r, "revoke_commit")
    /\ UNCHANGED <<rows, expiry, targets, world, delivered, parent>>

RevokeCommit(r) ==
    /\ pc[r] = "revoke_commit"
    /\ PublishRevocations(r)
    /\ Finish(r)
    /\ UNCHANGED <<owner, expires, world, delivered, parent>>

\* logout_all, once get_current_user has read an active user.
LogoutAll(r, u) ==
    /\ pc[r] = "idle"
    /\ active[u]
    /\ Begin(r, "burn_lock", u, NoToken, NoToken, 0)
    /\ UNCHANGED <<rows, world, delivered, parent>>

\* revoke_all_for_user: SELECT ... FOR UPDATE
BurnLock(r) ==
    /\ pc[r] = "burn_lock"
    /\ UserRowFree(r, subject[r])
    /\ Goto(r, "burn_scan")
    /\ UNCHANGED <<rows, world, times, writes, delivered, parent>>

\* revoke_all_for_user: the UPDATE takes its snapshot, and with it the set of
\* rows it will ever look at.
BurnScan(r) ==
    /\ pc[r] = "burn_scan"
    /\ now' = [now EXCEPT ![r] = clock]
    /\ targets' = [targets EXCEPT ![r] =
                    {t \in Tokens : owner[t] = subject[r] /\ revoked[t] = NotRevoked}]
    /\ Goto(r, "burn_update")
    /\ UNCHANGED <<rows, expiry, staged, world, delivered, parent>>

\* It waits for the writers of those rows, and leaves out those revoked since.
BurnUpdate(r) ==
    /\ pc[r] = "burn_update"
    /\ \A t \in targets[r] : TokenRowFree(r, t)
    /\ staged' = [staged EXCEPT ![r] = {t \in targets[r] : revoked[t] = NotRevoked}]
    /\ Goto(r, "burn_commit")
    /\ UNCHANGED <<rows, times, targets, world, delivered, parent>>

\* revoke_all_for_user: COMMIT.
BurnCommit(r) ==
    /\ pc[r] = "burn_commit"
    /\ PublishRevocations(r)
    /\ Finish(r)
    /\ UNCHANGED <<owner, expires, world, delivered, parent>>

-----------------------------------------------------------------------------
(* failures and the environment *)

\* The connection, the client or the worker goes away, or a statement raises:
\* PostgreSQL rolls the open transaction back.
Abort(r) ==
    /\ pc[r] # "idle"
    /\ Finish(r)
    /\ UNCHANGED <<rows, world, delivered, parent>>

\* An administrator's change to users.is_active, outside this code.
SetActive(u) ==
    /\ active' = [active EXCEPT ![u] = ~@]
    /\ UNCHANGED <<rows, pc, locals, times, writes, raised, clock, delivered, parent>>

Tick ==
    /\ clock < MaxClock
    /\ clock' = clock + 1
    /\ UNCHANGED <<rows, active, pc, locals, times, writes, raised, delivered, parent>>

\* What a handler does on its own once it has begun.
Step(r) ==
    \/ ResetFailedLogin(r) \/ ResetAndRaise(r)
    \/ CreateInsert(r) \/ CreateCommit(r) \/ Deliver(r)
    \/ ReadUser(r) \/ ReadInactiveUser(r)
    \/ RotateLock(r) \/ RotateConsume(r) \/ RotateMiss(r) \/ RotateCommit(r)
    \/ RotationLost(r) \/ RotationLostAndRaise(r)
    \/ Answer(r) \/ AnswerAndRaise(r)
    \/ RevokeUpdate(r) \/ RevokeCommit(r)
    \/ BurnLock(r) \/ BurnScan(r) \/ BurnUpdate(r) \/ BurnCommit(r)

\* Clients present the tokens they were given, as often as they like.
Arrive(r) ==
    \/ \E u \in Users, n \in Tokens : Login(r, u, n)
    \/ \E u \in Users : LogoutAll(r, u)
    \/ \E t \in delivered, n \in Tokens : Refresh(r, t, n)
    \/ \E t \in delivered : RefreshReused(r, t)
    \/ \E t \in delivered : RefreshExpired(r, t)
    \/ \E t \in delivered : Logout(r, t)
    \/ RefreshUnknown(r)
    \/ LogoutIdle(r)

Next ==
    \/ \E r \in Requests : Step(r) \/ Arrive(r) \/ Abort(r)
    \/ \E u \in Unsteady : SetActive(u)
    \/ Tick

Spec == Init /\ [][Next]_vars

\* The event loop resumes every handler, and PostgreSQL queues the waiters of
\* a row lock, so a handler whose statement can run again and again runs it.
FairSpec == Spec /\ \A r \in Requests : SF_vars(Step(r))

-----------------------------------------------------------------------------
(* Properties *)

TypeOK ==
    /\ owner \in [Tokens -> Users \cup {NoUser}]
    /\ expires \in [Tokens -> Nat]
    /\ revoked \in [Tokens -> Nat \cup {NotRevoked}]
    /\ active \in [Users -> BOOLEAN]
    /\ pc \in [Requests -> PCs]
    /\ subject \in [Requests -> Users \cup {NoUser}]
    /\ presented \in [Requests -> Tokens \cup {NoToken}]
    /\ minted \in [Requests -> Tokens \cup {NoToken}]
    /\ now \in [Requests -> Nat]
    /\ expiry \in [Requests -> Nat]
    /\ targets \in [Requests -> SUBSET Tokens]
    /\ staged \in [Requests -> SUBSET Tokens]
    /\ raised \in SUBSET Requests
    /\ clock \in Nat
    /\ delivered \in SUBSET Tokens
    /\ parent \in [Tokens -> Tokens \cup {NoToken}]

\* A refresh token is exchanged at most once: however many requests present it,
\* no two tokens were inserted by its rotation (rotate_if_active).
SingleUse ==
    \A a, b \in Tokens : parent[a] = parent[b] /\ parent[a] # NoToken => a = b

\* A user's sessions are burned for a reason: a refresh that is on its way to
\* revoke_all_for_user presents a token of that very user which is revoked
\* already, so a rotation is never lost to mere expiry (service.refresh).
BurnsOnlyOnReuse ==
    \A r \in Requests :
        pc[r] \in BurnPcs \cup {"lost"} /\ presented[r] # NoToken =>
            /\ owner[presented[r]] = subject[r]
            /\ revoked[presented[r]] # NotRevoked

\* When revoke_all_for_user commits, no live token of the user is left, not even
\* one whose login or rotation ran while the UPDATE did.
BurnLeavesNoSession ==
    [][\A r \in Requests :
        BurnCommit(r) => \A t \in Tokens : owner'[t] = subject[r] => revoked'[t] # NotRevoked]_vars

\* Every request is eventually answered or dropped: the row locks that logins,
\* rotations, revocations and logouts wait for never form a cycle.
RequestsFinish == \A r \in Requests : pc[r] # "idle" ~> pc[r] = "idle"

\* A login whose password was right is answered with a token pair, never with
\* an unhandled exception after its counter was reset (docs/subsystems/auth/
\* HOW_IT_WORKS.md, step 5 of login).
LoginIssuesPair == [][\A r \in Requests : pc[r] = "reset" => r \notin raised']_vars

\* A refresh that lost the race for its token goes on to revoke every token of
\* the user, unless its request dies (docstring of service.py, lines 11-14).
LostRotationBurns == [][\A r \in Requests : pc[r] = "lost" => r \notin raised']_vars

\* The tables seen as the sessions they stand for.
LiveTokens == [u \in Users |-> {t \in Tokens : owner[t] = u /\ revoked[t] = NotRevoked}]
IssuedTokens == {t \in Tokens : Issued(t)}

Abstract == INSTANCE Sessions WITH
    sessions <- LiveTokens, used <- IssuedTokens, origin <- parent

\* The interleaved statements, locks and crashes of the handlers implement the
\* one-step operations of Sessions: a rotation consumes a live token and inserts
\* its replacement at once, a user-wide revocation closes every session of that
\* user and of nobody else, and no other step touches a session.
ImplementsSessions == Abstract!SessionsSpec

=============================================================================
