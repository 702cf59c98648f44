---------------------------- MODULE AccessControl ----------------------------
(***************************************************************************)
(* Who the backend lets in, from one request to the next: JWT access       *)
(* tokens (app/core/security.py), get_current_user and require_permission  *)
(* (app/core/dependencies.py) and the endpoints of app/auth/router.py,     *)
(* over the sessions that RefreshTokens implements.  A token keeps the     *)
(* role it was issued for until it expires, while an administrator changes *)
(* the user row at any moment.  An action is what a handler does up to the *)
(* await after its next database access.  Lockouts are AccountLockout's    *)
(* concern; refresh tokens outlast the clock of this module.  A read that  *)
(* raises ends a handler the way Abort does.                               *)
(***************************************************************************)
EXTENDS Sessions, Naturals

CONSTANTS
    Requests,      \* concurrently running request handlers
    Roles,         \* the roles an administrator may assign
    FirstRole,     \* bound: the role all users start with
    NoUser, NoClaims,
    AccessTTL,     \* jwt_access_token_ttl_seconds, in ticks
    MaxClock,      \* bound: the clock stops here
    Unsteady       \* bound: the users an administrator changes

Claims == [sub : Users, role : Roles, exp : 0..(MaxClock + AccessTTL)]

ASSUME AccessAssumption ==
    /\ FirstRole \in Roles
    /\ NoUser \notin Users /\ NoToken \notin Tokens /\ NoClaims \notin Claims
    /\ AccessTTL \in Nat \ {0} /\ MaxClock \in Nat
    /\ Unsteady \in SUBSET Users

VARIABLES
    role, active,  \* users.role_id and users.is_active
    clock,
    job,           \* what each handler is doing and for whom
    awaiting,      \* the call in a page that its response is for, if any
    answer,        \* that response, until the page takes it in
    known,         \* the claims of the access tokens that have left the server
    holder,        \* the user each refresh token that has left the server is for
    entitled       \* history: at some instant since the request began, its user
                   \* was active and allowed what the request asks for

accounts == <<role, active, clock>>
outside == <<known, holder>>
avars == <<sessions, used, origin, role, active, clock, job, awaiting, answer, known, holder, entitled>>

Endpoints == {"none", "login", "refresh", "me", "logout_all", "rules"}

\* at: the database access a handler is suspended at.  claims: those of its
\* access token, presented or to be issued.  fresh: the name it will draw.
Jobs == [at : {"idle", "issue", "open", "read_user", "rotate", "answer", "lookup",
               "perform", "close_all"},
         endpoint : Endpoints, user : Users \cup {NoUser}, claims : Claims \cup {NoClaims},
         token : Tokens \cup {NoToken}, fresh : Tokens \cup {NoToken}]

NoJob == [at |-> "idle", endpoint |-> "none", user |-> NoUser, claims |-> NoClaims,
          token |-> NoToken, fresh |-> NoToken]

\* A response that is neither a profile nor a token pair.
Other == [status |-> "other"]
Profile(u) == [status |-> "user", user |-> u]
Pair(c, t) == [status |-> "pair", claims |-> c, token |-> t]

-----------------------------------------------------------------------------
RolePermissions ==
    [admin |-> {"*"},
     detection_lead |-> {"rule:create", "rule:submit_review", "rule:approve", "rule:deploy",
        "fp:report", "ai:generate_rule", "ai:summarize_alert", "coverage:view"},
     detection_engineer |-> {"rule:create", "rule:submit_review", "fp:report",
        "ai:generate_rule", "coverage:view"},
     analyst |-> {"fp:report", "ai:summarize_alert", "coverage:view"},
     researcher |-> {"research:manage_corpus", "research:run_experiments",
        "ai:generate_rule", "research:view_reports", "coverage:view"}]

\* A role that is not in the table is granted nothing.
Granted(name, code) ==
    name \in DOMAIN RolePermissions /\ {"*", code} \cap RolePermissions[name] # {}

\* Every route of the drafts asks for one and the same permission.
Allowed(u, name, endpoint) == active[u] /\ (endpoint = "rules" => Granted(name, "rule:create"))

Entitled(u, endpoint) == u # NoUser /\ Allowed(u, role[u], endpoint)

Fresh(n) == n \notin used /\ \A r \in Requests : job[r].fresh # n

AccessInit ==
    /\ SessionsInit
    /\ role = [u \in Users |-> FirstRole]
    /\ active = [u \in Users |-> TRUE]
    /\ clock = 0
    /\ job = [r \in Requests |-> NoJob]
    /\ awaiting = [r \in Requests |-> "none"]
    /\ answer = [r \in Requests |-> Other]
    /\ known = {}
    /\ holder = [t \in Tokens |-> NoUser]
    /\ entitled = [r \in Requests |-> FALSE]

At(r, where) == job[r].at = where

Begin(r, where, endpoint, u, c, t, n) ==
    /\ At(r, "idle")
    /\ job' = [job EXCEPT ![r] = [at |-> where, endpoint |-> endpoint, user |-> u,
                                  claims |-> c, token |-> t, fresh |-> n]]
    /\ entitled' = [entitled EXCEPT ![r] = Entitled(u, endpoint)]
    /\ answer' = [answer EXCEPT ![r] = Other]
    /\ UNCHANGED <<svars, accounts, outside>>

Goto(r, where) ==
    /\ job' = [job EXCEPT ![r].at = where]
    /\ UNCHANGED <<accounts, answer, outside, entitled>>

\* It goes on with what it will sign.
GotoWith(r, where, c) ==
    /\ job' = [job EXCEPT ![r].at = where, ![r].claims = c]
    /\ UNCHANGED <<accounts, answer, outside, entitled>>

\* The claims that follow from the user row as it is read: the object keeps its role
\* (expire_on_commit=False), while the expiry is still to come.
Snapshot(u) == [sub |-> u, role |-> role[u], exp |-> 0]

\* The handler is over; a response that is a token pair makes it known.
Respond(r, a) ==
    /\ job' = [job EXCEPT ![r] = NoJob]
    /\ answer' = [answer EXCEPT ![r] = IF awaiting[r] = "none" THEN Other ELSE a]
    /\ entitled' = [entitled EXCEPT ![r] = FALSE]
    /\ IF a.status = "pair"
       THEN /\ known' = known \cup {a.claims}
            /\ holder' = [holder EXCEPT ![a.token] = job[r].user]
       ELSE UNCHANGED outside
    /\ UNCHANGED accounts

-----------------------------------------------------------------------------
(* Faulty variants of definitions below, for mutation runs. *)

\* The role claim of the token decides.
CurrentRole_Claimed(r) == job[r].claims.role

\* A refresh trusts the session without looking at the account.
ReadUser_Trusting(r) ==
    /\ At(r, "read_user")
    /\ GotoWith(r, "rotate", Snapshot(job[r].user))
    /\ UNCHANGED svars

-----------------------------------------------------------------------------
(* Requests that need no access token. *)

\* login, its password being right.
Login(r, u, n) ==
    /\ active[u]
    /\ Fresh(n)
    /\ Begin(r, "issue", "login", u, Snapshot(u), NoToken, n)

\* refresh and its get_by_hash.
Refresh(r, t, n) ==
    /\ t \in sessions[holder[t]]
    /\ Fresh(n)
    /\ Begin(r, "read_user", "refresh", holder[t], NoClaims, t, n)

RefreshReused(r, t) ==
    /\ t \notin sessions[holder[t]]
    /\ Begin(r, "close_all", "refresh", holder[t], NoClaims, t, NoToken)

\* A request refused before it reads anything that matters here: a wrong
\* password, an unknown refresh token, no bearer or one that does not decode.
Refused(r) ==
    /\ At(r, "idle")
    /\ Respond(r, Other)
    /\ UNCHANGED svars

\* logout asks for no access token.
Logout(r, t) ==
    /\ At(r, "idle")
    /\ Close(holder[t], t)
    /\ Respond(r, Other)

-----------------------------------------------------------------------------
(* Their handlers. *)

\* create_access_token: of the user as it was read, at the present time.
Mint(r) == [job[r].claims EXCEPT !.exp = clock + AccessTTL]

\* _issue_token_pair: the access token before the refresh token.
IssueAccess(r) ==
    /\ At(r, "issue")
    /\ GotoWith(r, "open", Mint(r))
    /\ UNCHANGED svars

OpenSession(r) ==
    /\ At(r, "open")
    /\ Open(job[r].user, job[r].fresh)
    /\ Respond(r, Pair(job[r].claims, job[r].fresh))

\* refresh: the user row is read once, before the rotation.
ReadUser(r) ==
    /\ At(r, "read_user")
    /\ active[job[r].user]
    /\ GotoWith(r, "rotate", Snapshot(job[r].user))
    /\ UNCHANGED svars

ReadInactiveUser(r) ==
    /\ At(r, "read_user")
    /\ ~active[job[r].user]
    /\ Respond(r, Other)
    /\ UNCHANGED svars

Rotate(r) ==
    /\ At(r, "rotate")
    /\ Renew(job[r].user, job[r].token, job[r].fresh)
    /\ Goto(r, "answer")

RotationLost(r) ==
    /\ At(r, "rotate")
    /\ job[r].token \notin sessions[job[r].user]
    /\ Goto(r, "close_all")
    /\ UNCHANGED svars

\* The access token of a refresh comes after the rotation.
Answer(r) ==
    /\ At(r, "answer")
    /\ Respond(r, Pair(Mint(r), job[r].fresh))
    /\ UNCHANGED svars

\* revoke_all_for_user, for logout_all or on reuse.
CloseEverySession(r) ==
    /\ At(r, "close_all")
    /\ CloseAll(job[r].user)
    /\ Respond(r, Other)

-----------------------------------------------------------------------------
(* Requests with an access token. *)

\* decode_access_token accepts it, and get_by_id is next.
Authenticate(r, c, endpoint) ==
    /\ c.exp > clock
    /\ Begin(r, "lookup", endpoint, c.sub, c, NoToken, NoToken)

\* user.role.name, of the row just read.
CurrentRole(r) == role[job[r].user]

Admitted(r) == Allowed(job[r].user, CurrentRole(r), job[r].endpoint)

\* me answers from the row.
Me(r) ==
    /\ At(r, "lookup") /\ Admitted(r)
    /\ job[r].endpoint = "me"
    /\ Respond(r, Profile(job[r].user))
    /\ UNCHANGED svars

\* The endpoint's own work begins.
Admit(r) ==
    /\ At(r, "lookup") /\ Admitted(r)
    /\ \/ job[r].endpoint = "logout_all" /\ Goto(r, "close_all")
       \/ job[r].endpoint = "rules" /\ Goto(r, "perform")
    /\ UNCHANGED svars

\* 401 or 403
Deny(r) ==
    /\ At(r, "lookup") /\ ~Admitted(r)
    /\ Respond(r, Other)
    /\ UNCHANGED svars

\* A draft is created, revised or read: RuleDrafts has the details.
Perform(r) ==
    /\ At(r, "perform")
    /\ Respond(r, Other)
    /\ UNCHANGED svars

-----------------------------------------------------------------------------
\* The handler dies or raises; what it has committed stays.
Abort(r) ==
    /\ ~At(r, "idle")
    /\ Respond(r, Other)
    /\ UNCHANGED svars

\* The administrator's changes to the user row, outside this code.
Administer ==
    /\ \E u \in Unsteady :
          \/ active' = [active EXCEPT ![u] = ~@] /\ UNCHANGED role
          \/ \E name \in Roles : role' = [role EXCEPT ![u] = name] /\ UNCHANGED active
    /\ UNCHANGED <<svars, clock, job, answer, outside>>
    /\ entitled' = [r \in Requests |->
                      entitled[r] \/ Entitled(job[r].user, job[r].endpoint)']

Tick ==
    /\ clock < MaxClock
    /\ clock' = clock + 1
    /\ UNCHANGED <<svars, role, active, job, answer, outside, entitled>>

Serve(r) ==
    \/ IssueAccess(r) \/ OpenSession(r)
    \/ ReadUser(r) \/ ReadInactiveUser(r) \/ Rotate(r) \/ RotationLost(r) \/ Answer(r)
    \/ CloseEverySession(r)
    \/ Me(r) \/ Admit(r) \/ Deny(r) \/ Perform(r)

\* Whoever holds a token may send any request with it, again and again.
Arrive(r) ==
    \/ \E u \in Users, n \in Tokens : Login(r, u, n)
    \/ Refused(r)
    \/ \E t \in {x \in Tokens : holder[x] # NoUser} :
          \/ \E n \in Tokens : Refresh(r, t, n)
          \/ RefreshReused(r, t)
          \/ Logout(r, t)
    \/ \E c \in known, endpoint \in {"me", "logout_all", "rules"} : Authenticate(r, c, endpoint)

-----------------------------------------------------------------------------
(* Properties *)

AccessTypeOK ==
    /\ role \in [Users -> Roles] /\ active \in [Users -> BOOLEAN] /\ clock \in 0..MaxClock
    /\ job \in [Requests -> Jobs]
    /\ answer \in [Requests -> {Other} \cup {Profile(u) : u \in Users}
                               \cup {Pair(c, t) : c \in Claims, t \in Tokens}]
    /\ known \in SUBSET Claims
    /\ holder \in [Tokens -> Users \cup {NoUser}]
    /\ entitled \in [Requests -> BOOLEAN]

\* A deactivation or demotion takes effect within one request: whatever role the
\* bearer's token still claims, a request that began after it, with nothing
\* restored since, neither touches a draft nor reads a profile
\* (docs/ARCHITECTURE_WALKTHROUGH.md, lines 142-145).
EffectsAreCurrent ==
    [][\A r \in Requests : Perform(r) \/ Me(r) => entitled[r]]_avars

\* A user who is deactivated gets no new tokens either, except from a login or a
\* refresh that was under way at the time: the one read of is_active is enough.
PairsAreCurrent ==
    [][\A r \in Requests : OpenSession(r) \/ Rotate(r) => entitled[r]]_avars
=============================================================================
