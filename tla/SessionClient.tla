---------------------------- MODULE SessionClient ----------------------------
(***************************************************************************)
(* The front end (frontend/src: lib/apiClient.ts, App.tsx and              *)
(* features/auth/LoginPage.tsx) over the backend of AccessControl.  A page *)
(* keeps both tokens and the signed-in user in memory.  An action is what  *)
(* its single thread does between two awaits.  A fetch in flight is the    *)
(* request handler it runs as; the answer may get lost on its way back.    *)
(***************************************************************************)
EXTENDS AccessControl, FiniteSets

CONSTANTS Pages, NoPage

ASSUME PagesAssumption == NoPage \notin Pages

VARIABLES
    accessToken, refreshToken,  \* the module variables of apiClient.ts
    currentUser,   \* the state of App
    isSubmitting,  \* the state of LoginPage
    page           \* the page a fetch is from

tokens == <<accessToken, refreshToken>>
screen == <<currentUser, isSubmitting>>
cvars == <<accessToken, refreshToken, currentUser, isSubmitting, page>>
vars == <<avars, cvars>>

Init ==
    /\ AccessInit
    /\ accessToken = [b \in Pages |-> NoClaims]
    /\ refreshToken = [b \in Pages |-> NoToken]
    /\ currentUser = [b \in Pages |-> NoUser]
    /\ isSubmitting = [b \in Pages |-> FALSE]
    /\ page = [r \in Requests |-> NoPage]

Await(r, call, b) ==
    /\ awaiting' = [awaiting EXCEPT ![r] = call]
    /\ page' = [page EXCEPT ![r] = b]

\* The answer has been taken in.
Consume(r) ==
    /\ answer' = [answer EXCEPT ![r] = Other]
    /\ Await(r, "none", NoPage)
    /\ UNCHANGED <<svars, accounts, job, outside, entitled>>

-----------------------------------------------------------------------------
(* Faulty variants of definitions below, for mutation runs. *)

\* The button stays enabled.
Enabled_Always(b) == currentUser[b] = NoUser

\* The refresh token goes where the access token belongs.
Keep_Swapped(b, c, t) ==
    /\ accessToken' = [accessToken EXCEPT ![b] = t]
    /\ refreshToken' = [refreshToken EXCEPT ![b] = c]

\* setIsSubmitting(false) without its finally.
Rejected_Stuck(r) ==
    /\ Consume(r)
    /\ UNCHANGED <<tokens, screen>>

-----------------------------------------------------------------------------
\* App shows LoginPage while nobody is signed in, and its button is disabled
\* while a submission is under way.
Enabled(b) == currentUser[b] = NoUser /\ ~isSubmitting[b]

\* handleSubmit, up to the answer of login.
Submit(b, r) ==
    /\ Enabled(b)
    /\ awaiting[r] = "none"
    /\ \/ \E u \in Users, n \in Tokens : Login(r, u, n)
       \/ Refused(r)
    /\ isSubmitting' = [isSubmitting EXCEPT ![b] = TRUE]
    /\ Await(r, "login", b)
    /\ UNCHANGED <<tokens, currentUser>>

Settled(r, call) == awaiting[r] = call /\ At(r, "idle")

Keep(b, c, t) ==
    /\ accessToken' = [accessToken EXCEPT ![b] = c]
    /\ refreshToken' = [refreshToken EXCEPT ![b] = t]

\* login keeps the pair, and fetchCurrentUser presents the new token.
LoggedIn(r) ==
    /\ Settled(r, "login")
    /\ answer[r].status = "pair"
    /\ Keep(page[r], answer[r].claims, answer[r].token)
    /\ \/ Authenticate(r, answer[r].claims, "me")
       \/ answer[r].claims.exp <= clock /\ Refused(r)
    /\ Await(r, "me", page[r])
    /\ UNCHANGED screen

\* fetchCurrentUser returns, and onLoginSuccess shows the user.
SignedIn(r) ==
    /\ Settled(r, "me")
    /\ answer[r].status = "user"
    /\ currentUser' = [currentUser EXCEPT ![page[r]] = answer[r].user]
    /\ isSubmitting' = [isSubmitting EXCEPT ![page[r]] = FALSE]
    /\ Consume(r)
    /\ UNCHANGED tokens

\* The catch and the finally of handleSubmit.  Tokens it has kept stay.
Rejected(r) ==
    /\ isSubmitting' = [isSubmitting EXCEPT ![page[r]] = FALSE]
    /\ Consume(r)
    /\ UNCHANGED <<tokens, currentUser>>

\* An error status; or the connection fails, whatever the handler still does.
SubmitFails(r) ==
    /\ awaiting[r] # "none"
    /\ Rejected(r)

\* The button's clearSession, then handleLogout: logout finds no refresh token.
SignOut(b) ==
    /\ currentUser[b] # NoUser
    /\ Keep(b, NoClaims, NoToken)
    /\ currentUser' = [currentUser EXCEPT ![b] = NoUser]
    /\ UNCHANGED <<avars, isSubmitting, page>>

\* The page is closed or loaded again: its memory and its awaits are gone.
Reload(b) ==
    /\ Keep(b, NoClaims, NoToken)
    /\ currentUser' = [currentUser EXCEPT ![b] = NoUser]
    /\ isSubmitting' = [isSubmitting EXCEPT ![b] = FALSE]
    /\ awaiting' = [r \in Requests |-> IF page[r] = b THEN "none" ELSE awaiting[r]]
    /\ answer' = [r \in Requests |-> IF page[r] = b THEN Other ELSE answer[r]]
    /\ page' = [r \in Requests |-> IF page[r] = b THEN NoPage ELSE page[r]]
    /\ UNCHANGED <<svars, accounts, job, outside, entitled>>

\* Requests that are not this front end's: scripts, other tools, stale copies.
Elsewhere(r) == awaiting[r] = "none" /\ Arrive(r)

Backend ==
    /\ \/ \E r \in Requests : Serve(r) \/ Elsewhere(r) \/ Abort(r)
       \/ Administer
       \/ Tick
    /\ UNCHANGED <<cvars, awaiting>>

React(r) == LoggedIn(r) \/ SignedIn(r) \/ SubmitFails(r)

Next ==
    \/ Backend
    \/ \E b \in Pages, r \in Requests : Submit(b, r)
    \/ \E r \in Requests : React(r)
    \/ \E b \in Pages : SignOut(b) \/ Reload(b)

Spec == Init /\ [][Next]_vars

-----------------------------------------------------------------------------
(* Properties *)

TypeOK ==
    /\ AccessTypeOK
    /\ accessToken \in [Pages -> Claims \cup {NoClaims}]
    /\ refreshToken \in [Pages -> Tokens \cup {NoToken}]
    /\ currentUser \in [Pages -> Users \cup {NoUser}]
    /\ isSubmitting \in [Pages -> BOOLEAN]
    /\ awaiting \in [Requests -> {"none", "login", "me"}]
    /\ page \in [Requests -> Pages \cup {NoPage}]

\* The page shows the user its tokens are for, and shows nobody without a token:
\* the answers of two submissions never mix (LoginPage, handleSubmit).
ScreenMatchesTokens ==
    \A b \in Pages : currentUser[b] # NoUser =>
        accessToken[b] # NoClaims /\ accessToken[b].sub = currentUser[b]

\* The form is disabled exactly while one fetch of the page is out, so no failure
\* and no lost answer leaves it disabled for good (handleSubmit, finally).
DisabledWhileWaiting ==
    \A b \in Pages :
        Cardinality({r \in Requests : page[r] = b}) = IF isSubmitting[b] THEN 1 ELSE 0

\* Signing out revokes the refresh token the page held ("Revoke the presented
\* refresh token", docs/API_SPECIFICATION.md, logout).
SignOutRevokes ==
    [][\A b \in Pages, u \in Users : SignOut(b) => refreshToken[b] \notin sessions'[u]]_vars
=============================================================================
