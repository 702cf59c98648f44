------------------------- MODULE SessionClientProofs -------------------------
(***************************************************************************)
(* Theorems about SessionClient, and about AccessControl below it, for any *)
(* number of pages, users, tokens and requests, with proofs checked by     *)
(* TLAPS.                                                                  *)
(***************************************************************************)
EXTENDS SessionClient, SessionsProofs, FiniteSetTheorems, TLAPS

\* What a handler knows at each of its awaits.
JobOK(r) ==
    /\ At(r, "idle") => job[r] = NoJob
    /\ ~At(r, "idle") => job[r].user \in Users
    /\ job[r].at \in {"issue", "open"} => job[r].endpoint = "login" /\ job[r].fresh \in Tokens
    /\ job[r].at \in {"issue", "open", "rotate", "answer"} => job[r].claims \in Claims
    /\ job[r].at \in {"read_user", "rotate", "answer"} =>
          /\ job[r].endpoint = "refresh"
          /\ job[r].token \in Tokens /\ job[r].fresh \in Tokens
    /\ At(r, "perform") => job[r].endpoint = "rules"

JobInv == \A r \in Requests : JobOK(r)

\* The history variable never misses an instant at which the request was in order,
\* and every handler that is past its one look at the user row had such an instant.
EntitledOK(r) ==
    /\ ~At(r, "idle") /\ Entitled(job[r].user, job[r].endpoint) => entitled[r]
    /\ job[r].at \in {"issue", "open", "rotate", "perform"} => entitled[r]

EntitledInv == \A r \in Requests : EntitledOK(r)

\* A page has at most one fetch out, exactly while its form is disabled, and shows
\* nobody meanwhile.
FetchInv ==
    /\ \A r \in Requests : awaiting[r] = "none" <=> page[r] = NoPage
    /\ \A r, q \in Requests : page[r] # NoPage /\ page[q] = page[r] => q = r
    /\ \A r \in Requests : page[r] # NoPage => isSubmitting[page[r]]
    /\ \A b \in Pages : isSubmitting[b] => /\ currentUser[b] = NoUser
                                           /\ \E r \in Requests : page[r] = b

\* A page awaits the answer to what it asked: the profile it gets is of the user
\* its access token is for.
AnswerOK(r) ==
    /\ awaiting[r] = "login" =>
          /\ answer[r].status # "user"
          /\ ~At(r, "idle") => job[r].endpoint = "login"
    /\ awaiting[r] = "me" =>
          /\ accessToken[page[r]] # NoClaims
          /\ ~At(r, "idle") => job[r].endpoint = "me" /\ job[r].user = accessToken[page[r]].sub
          /\ answer[r].status = "user" => answer[r].user = accessToken[page[r]].sub

AnswerInv == \A r \in Requests : AnswerOK(r)

IInv ==
    TypeOK /\ JobInv /\ EntitledInv /\ FetchInv /\ AnswerInv /\ ScreenMatchesTokens

-----------------------------------------------------------------------------
(* The shapes a step of the backend may have. *)

\* Answers are told apart by their status.
LEMMA Answers ==
    ASSUME AccessTypeOK, NEW r \in Requests
    PROVE  /\ answer[r].status = "user" => answer[r].user \in Users
           /\ answer[r].status = "pair" => answer[r].claims \in Claims /\ answer[r].token \in Tokens
BY DEF AccessTypeOK, Other, Profile, Pair

\* What comes in: from elsewhere, or from a page that presents its new token.
Starts(r) == Arrive(r) \/ \E c \in Claims : Authenticate(r, c, "me")

\* A handler changes no other request, and no account.
LEMMA OthersUntouched ==
    ASSUME TypeOK, NEW r \in Requests, Serve(r) \/ Starts(r) \/ Abort(r),
           NEW q \in Requests \ {r}
    PROVE  UNCHANGED <<job[q], answer[q], entitled[q]>>
<1> USE DEF TypeOK, AccessTypeOK
<1>1. CASE Serve(r)
  <2>1. CASE IssueAccess(r) \/ ReadUser(r)
    BY <2>1 DEF IssueAccess, ReadUser, GotoWith
  <2>2. CASE Rotate(r) \/ RotationLost(r) \/ Admit(r)
    BY <2>2 DEF Rotate, RotationLost, Admit, Goto
  <2>3. CASE \/ OpenSession(r) \/ ReadInactiveUser(r) \/ Answer(r)
             \/ CloseEverySession(r) \/ Me(r) \/ Deny(r) \/ Perform(r)
    BY <2>3 DEF OpenSession, ReadInactiveUser, Answer, CloseEverySession, Me, Deny, Perform, Respond
  <2> QED BY <1>1, <2>1, <2>2, <2>3 DEF Serve
<1>2. CASE Starts(r)
  BY <1>2 DEF Starts, Arrive, Login, Refused, Refresh, RefreshReused, Logout, Authenticate, Begin, Respond
<1>3. CASE Abort(r)
  BY <1>3 DEF Abort, Respond
<1> QED BY <1>1, <1>2, <1>3

Responses == {Other} \cup {Profile(u) : u \in Users} \cup {Pair(c, t) : c \in Claims, t \in Tokens}
Places == {"idle", "issue", "open", "read_user", "rotate", "answer", "lookup", "perform", "close_all"}

\* Types of the three ways a handler moves.
LEMMA BeginType ==
    ASSUME AccessTypeOK, NEW r \in Requests, NEW where \in Places, NEW endpoint \in Endpoints,
           NEW u \in Users, NEW c \in Claims \cup {NoClaims}, NEW t \in Tokens \cup {NoToken},
           NEW n \in Tokens \cup {NoToken}, Begin(r, where, endpoint, u, c, t, n)
    PROVE  AccessTypeOK'
<1> DEFINE begun == [at |-> where, endpoint |-> endpoint, user |-> u,
                     claims |-> c, token |-> t, fresh |-> n]
<1>1. begun \in Jobs
  BY DEF Jobs, Places
<1>2. job' = [job EXCEPT ![r] = begun]
  BY DEF Begin
<1> HIDE DEF begun
<1>3. job' \in [Requests -> Jobs]
  BY <1>1, <1>2 DEF AccessTypeOK
<1>4. answer' \in [Requests -> Responses]
  BY DEF AccessTypeOK, Begin, Responses
<1>5. entitled' \in [Requests -> BOOLEAN]
  BY DEF AccessTypeOK, Begin, Entitled, Allowed
<1> QED BY <1>3, <1>4, <1>5 DEF AccessTypeOK, Begin, Responses, accounts, outside

\* The handler goes on to its next await.
LEMMA GotoType ==
    ASSUME AccessTypeOK, NEW r \in Requests, NEW where \in Places, Goto(r, where)
    PROVE  AccessTypeOK'
<1>1. job' \in [Requests -> Jobs]
  BY DEF AccessTypeOK, Goto, Jobs, Places
<1> QED BY <1>1 DEF AccessTypeOK, Goto, accounts, outside

\* A job that goes on with what it will sign.
LEMMA JobGoesOn ==
    ASSUME NEW j \in Jobs, NEW where \in Places, NEW c \in Claims
    PROVE  [j EXCEPT !.at = where, !.claims = c] \in Jobs
BY DEF Jobs, Places

\* Such a step, and what it leaves alone.
LEMMA GotoWithMoves ==
    ASSUME AccessTypeOK, NEW r \in Requests, NEW where \in Places, NEW c \in Claims,
           GotoWith(r, where, c)
    PROVE  /\ AccessTypeOK'
           /\ job'[r].at = where /\ job'[r].claims = c
           /\ job'[r].endpoint = job[r].endpoint /\ job'[r].user = job[r].user
           /\ job'[r].token = job[r].token /\ job'[r].fresh = job[r].fresh
           /\ UNCHANGED <<role, active, answer, entitled>>
<1>1. job \in [Requests -> Jobs] /\ job[r] \in Jobs
  BY DEF AccessTypeOK
<1>2. /\ job'[r].at = where /\ job'[r].claims = c
      /\ job'[r].endpoint = job[r].endpoint /\ job'[r].user = job[r].user
      /\ job'[r].token = job[r].token /\ job'[r].fresh = job[r].fresh
  BY <1>1 DEF GotoWith, Jobs
<1>3. job' \in [Requests -> Jobs]
  <2>1. job' = [job EXCEPT ![r] = [@ EXCEPT !.at = where, !.claims = c]]
    BY <1>1 DEF GotoWith
  <2>2. [job[r] EXCEPT !.at = where, !.claims = c] \in Jobs
    BY <1>1, JobGoesOn
  <2> QED BY <1>1, <2>1, <2>2
<1>4. UNCHANGED <<role, active, clock, answer, known, holder, entitled>>
  BY DEF GotoWith, accounts, outside
<1>5. AccessTypeOK'
  BY <1>3, <1>4 DEF AccessTypeOK
<1> QED BY <1>2, <1>4, <1>5

\* It answers, which may let a token pair out.
LEMMA RespondType ==
    ASSUME AccessTypeOK, NEW r \in Requests, NEW a \in Responses, Respond(r, a),
           a.status = "pair" => job[r].user \in Users
    PROVE  AccessTypeOK'
<1>1. NoJob \in Jobs
  BY DEF NoJob, Jobs, Endpoints
<1>2. job' \in [Requests -> Jobs]
  BY <1>1 DEF AccessTypeOK, Respond
<1>3. answer' \in [Requests -> Responses]
  BY DEF AccessTypeOK, Respond, Responses
<1>4. known' \in SUBSET Claims /\ holder' \in [Tokens -> Users \cup {NoUser}]
  <2>1. CASE a.status = "pair"
    <3>1. a.claims \in Claims /\ a.token \in Tokens
      BY <2>1 DEF Responses, Other, Profile, Pair
    <3> QED BY <2>1, <3>1 DEF AccessTypeOK, Respond
  <2>2. CASE a.status # "pair"
    BY <2>2 DEF AccessTypeOK, Respond, outside
  <2> QED BY <2>1, <2>2
<1>5. entitled' \in [Requests -> BOOLEAN]
  BY DEF AccessTypeOK, Respond
<1> QED BY <1>2, <1>3, <1>4, <1>5 DEF AccessTypeOK, Respond, Responses, accounts

\* What is read for an access token, and the token as it is issued.
LEMMA SnapshotType ==
    ASSUME AccessTypeOK, NEW u \in Users
    PROVE  Snapshot(u) \in Claims
BY AccessAssumption DEF AccessTypeOK, Snapshot, Claims

LEMMA MintType ==
    ASSUME AccessTypeOK, NEW r \in Requests, job[r].claims \in Claims
    PROVE  Mint(r) \in Claims
<1>1. clock + AccessTTL \in 0..(MaxClock + AccessTTL)
  BY AccessAssumption DEF AccessTypeOK
<1> QED BY <1>1 DEF AccessTypeOK, Mint, Claims

\* The two steps that go on with claims.
LEMMA Signing ==
    ASSUME AccessTypeOK, NEW r \in Requests, JobOK(r)
    PROVE  /\ IssueAccess(r) => At(r, "issue") /\ \E c \in Claims : GotoWith(r, "open", c)
           /\ ReadUser(r) => At(r, "read_user") /\ \E c \in Claims : GotoWith(r, "rotate", c)
<1>1. CASE IssueAccess(r)
  <2>1. Mint(r) \in Claims
    BY <1>1, MintType DEF IssueAccess, JobOK, At
  <2> QED BY <1>1, <2>1 DEF IssueAccess, ReadUser, At
<1>2. CASE ReadUser(r)
  <2>1. Snapshot(job[r].user) \in Claims
    BY <1>2, SnapshotType DEF ReadUser, JobOK, At
  <2> QED BY <1>2, <2>1 DEF IssueAccess, ReadUser, At
<1> QED BY <1>1, <1>2

-----------------------------------------------------------------------------
(* What the steps of a handler have in common. *)

\* Types after a step of a handler.
LEMMA ServeType ==
    ASSUME TypeOK, JobInv, NEW r \in Requests, Serve(r)
    PROVE  AccessTypeOK'
<1>0. AccessTypeOK /\ Other \in Responses
  BY DEF TypeOK, Responses
<1>1. CASE IssueAccess(r) \/ ReadUser(r)
  <2>1. \E where \in Places, c \in Claims : GotoWith(r, where, c)
    BY <1>0, <1>1, Signing DEF JobInv, Places
  <2> QED BY <1>0, <2>1, GotoWithMoves
<1>2. CASE OpenSession(r)
  <2>1. job[r].user \in Users /\ job[r].claims \in Claims /\ job[r].fresh \in Tokens
    BY <1>2 DEF OpenSession, JobInv, JobOK, At
  <2>2. Pair(job[r].claims, job[r].fresh) \in Responses
    BY <2>1 DEF Responses
  <2> QED BY <1>0, <1>2, <2>1, <2>2, RespondType DEF OpenSession
<1>3. CASE Answer(r)
  <2>1. job[r].user \in Users /\ job[r].claims \in Claims /\ job[r].fresh \in Tokens
    BY <1>3 DEF Answer, JobInv, JobOK, At
  <2>2. Pair(Mint(r), job[r].fresh) \in Responses
    BY <1>0, <2>1, MintType DEF Responses
  <2> QED BY <1>0, <1>3, <2>1, <2>2, RespondType DEF Answer
<1>4. CASE Me(r)
  <2>1. Profile(job[r].user) \in Responses /\ Profile(job[r].user).status = "user"
    BY <1>4 DEF Me, JobInv, JobOK, At, Responses, Profile
  <2> QED BY <1>0, <1>4, <2>1, RespondType DEF Me
<1>5. CASE ReadInactiveUser(r) \/ CloseEverySession(r) \/ Deny(r) \/ Perform(r)
  <2>1. Other.status # "pair" /\ Respond(r, Other)
    BY <1>5 DEF Other, ReadInactiveUser, CloseEverySession, Deny, Perform
  <2> QED BY <1>0, <2>1, RespondType
<1>6. CASE Rotate(r) \/ RotationLost(r) \/ Admit(r)
  <2>1. \E where \in Places : Goto(r, where)
    BY <1>6 DEF Rotate, RotationLost, Admit, Places
  <2> QED BY <1>0, <2>1, GotoType
<1> QED BY <1>1, <1>2, <1>3, <1>4, <1>5, <1>6 DEF Serve

\* Types after a request has come in.
LEMMA StartsType ==
    ASSUME TypeOK, NEW r \in Requests, Starts(r)
    PROVE  AccessTypeOK'
<1>0. AccessTypeOK /\ Other \in Responses /\ Other.status # "pair"
  BY DEF TypeOK, Responses, Other
<1>1. ASSUME NEW u \in Users, NEW n \in Tokens, Login(r, u, n) PROVE AccessTypeOK'
  BY <1>0, <1>1, BeginType, SnapshotType DEF Login, Places, Endpoints
<1>2. ASSUME NEW t \in {x \in Tokens : holder[x] # NoUser},
             Logout(r, t) \/ RefreshReused(r, t) \/ \E n \in Tokens : Refresh(r, t, n)
      PROVE  AccessTypeOK'
  <2>1. t \in Tokens /\ holder[t] \in Users
    BY <1>0 DEF AccessTypeOK
  <2>2. CASE Logout(r, t)
    BY <1>0, <2>2, RespondType DEF Logout
  <2>3. CASE RefreshReused(r, t)
    BY <1>0, <2>1, <2>3, BeginType DEF RefreshReused, Places, Endpoints
  <2>4. ASSUME NEW n \in Tokens, Refresh(r, t, n) PROVE AccessTypeOK'
    BY <1>0, <2>1, <2>4, BeginType DEF Refresh, Places, Endpoints
  <2> QED BY <1>2, <2>2, <2>3, <2>4
<1>3. CASE Refused(r)
  BY <1>0, <1>3, RespondType DEF Refused
<1>4. ASSUME NEW c \in Claims, NEW endpoint \in {"me", "logout_all", "rules"},
             Authenticate(r, c, endpoint)
      PROVE  AccessTypeOK'
  <2>1. c.sub \in Users
    BY DEF Claims
  <2> QED BY <1>0, <1>4, <2>1, BeginType DEF Authenticate, Places, Endpoints
<1>5. known \in SUBSET Claims
  BY <1>0 DEF AccessTypeOK
<1> QED BY <1>1, <1>2, <1>3, <1>4, <1>5 DEF Starts, Arrive

\* Types after a handler has died.
LEMMA AbortType ==
    ASSUME TypeOK, NEW r \in Requests, Abort(r)
    PROVE  AccessTypeOK'
BY RespondType DEF TypeOK, Responses, Other, Abort

\* Where a handler goes next.
LEMMA JobMoves ==
    ASSUME TypeOK, JobInv, NEW r \in Requests, Serve(r) \/ Starts(r) \/ Abort(r)
    PROVE  JobOK(r)'
<1> USE DEF JobOK, At
<1>0. /\ JobOK(r) /\ job \in [Requests -> Jobs] /\ holder \in [Tokens -> Users \cup {NoUser}]
      /\ known \in SUBSET Claims /\ AccessTypeOK
  BY DEF JobInv, TypeOK, AccessTypeOK
<1>1. ASSUME NEW a, Respond(r, a) PROVE JobOK(r)'
  <2>1. job'[r] = NoJob
    BY <1>0, <1>1 DEF Respond
  <2> QED BY <2>1 DEF NoJob
<1>2. CASE IssueAccess(r) \/ ReadUser(r)
  <2>1. CASE IssueAccess(r)
    <3>1. PICK c \in Claims : At(r, "issue") /\ GotoWith(r, "open", c)
      BY <1>0, <2>1, Signing
    <3>2. /\ job'[r].at = "open" /\ job'[r].claims = c /\ job'[r].endpoint = job[r].endpoint
          /\ job'[r].user = job[r].user /\ job'[r].fresh = job[r].fresh
      BY <1>0, <3>1, GotoWithMoves DEF Places
    <3> QED BY <1>0, <3>1, <3>2
  <2>2. CASE ReadUser(r)
    <3>1. PICK c \in Claims : At(r, "read_user") /\ GotoWith(r, "rotate", c)
      BY <1>0, <2>2, Signing
    <3>2. /\ job'[r].at = "rotate" /\ job'[r].claims = c /\ job'[r].endpoint = job[r].endpoint
          /\ job'[r].user = job[r].user /\ job'[r].token = job[r].token
          /\ job'[r].fresh = job[r].fresh
      BY <1>0, <3>1, GotoWithMoves DEF Places
    <3> QED BY <1>0, <3>1, <3>2
  <2> QED BY <1>2, <2>1, <2>2
<1>3. CASE Rotate(r) \/ RotationLost(r) \/ Admit(r)
  <2>1. ASSUME NEW where \in Places, Goto(r, where)
        PROVE  /\ job'[r].at = where /\ job'[r].endpoint = job[r].endpoint
               /\ job'[r].user = job[r].user /\ job'[r].fresh = job[r].fresh
               /\ job'[r].claims = job[r].claims /\ job'[r].token = job[r].token
    BY <1>0, <2>1 DEF Goto, Jobs
  <2> QED BY <1>0, <1>3, <2>1 DEF Rotate, RotationLost, Admit, Places
<1>4. CASE \/ OpenSession(r) \/ ReadInactiveUser(r) \/ Answer(r) \/ CloseEverySession(r)
           \/ Me(r) \/ Deny(r) \/ Perform(r) \/ Abort(r)
  BY <1>1, <1>4
     DEF OpenSession, ReadInactiveUser, Answer, CloseEverySession, Me, Deny, Perform, Abort
<1>5. CASE Starts(r)
  <2>1. ASSUME NEW u \in Users, NEW n \in Tokens, Login(r, u, n) PROVE JobOK(r)'
    BY <1>0, <2>1, SnapshotType DEF Login, Begin
  <2>2. CASE ~\E u \in Users, n \in Tokens : Login(r, u, n)
    BY <1>0, <1>1, <1>5, <2>2
       DEF Starts, Arrive, Refused, Refresh, RefreshReused, Logout, Authenticate, Begin, Claims
  <2> QED BY <2>1, <2>2
<1> QED BY <1>2, <1>3, <1>4, <1>5 DEF Serve

\* A handler gets past its look at the user row only if that is in order, and the
\* row was in order the moment it looked.
LEMMA EntitledMoves ==
    ASSUME TypeOK, JobInv, EntitledInv, NEW r \in Requests, Serve(r) \/ Starts(r) \/ Abort(r)
    PROVE  EntitledOK(r)'
<1> USE DEF EntitledOK, At
<1>0. /\ JobOK(r) /\ EntitledOK(r) /\ job \in [Requests -> Jobs]
      /\ entitled \in [Requests -> BOOLEAN] /\ NoUser \notin Users
      /\ active \in [Users -> BOOLEAN] /\ AccessTypeOK
  BY AccessAssumption DEF JobInv, EntitledInv, TypeOK, AccessTypeOK
<1>1. ASSUME NEW a, Respond(r, a) PROVE EntitledOK(r)'
  <2>1. job'[r] = NoJob
    BY <1>0, <1>1 DEF Respond
  <2> QED BY <2>1 DEF NoJob
<1>2. CASE IssueAccess(r) \/ ReadUser(r)
  <2>1. CASE IssueAccess(r)
    <3>1. job'[r].at = "open" /\ entitled' = entitled
      BY <1>0, <2>1, Signing, GotoWithMoves DEF Places
    <3> QED BY <1>0, <2>1, <3>1 DEF IssueAccess
  <2>2. CASE ReadUser(r)
    <3>1. Entitled(job[r].user, job[r].endpoint)
      BY <1>0, <2>2 DEF ReadUser, JobOK, Entitled, Allowed
    <3>2. job'[r].at = "rotate" /\ entitled' = entitled
      BY <1>0, <2>2, Signing, GotoWithMoves DEF Places
    <3> QED BY <1>0, <2>2, <3>1, <3>2 DEF ReadUser
  <2> QED BY <1>2, <2>1, <2>2
<1>3. CASE Rotate(r) \/ RotationLost(r) \/ Admit(r)
  <2>1. ASSUME NEW where \in Places, Goto(r, where)
        PROVE  /\ job'[r].at = where /\ job'[r].endpoint = job[r].endpoint
               /\ job'[r].user = job[r].user /\ entitled' = entitled
               /\ role' = role /\ active' = active
    BY <1>0, <2>1 DEF Goto, Jobs, accounts
  <2>2. Entitled(job[r].user, job[r].endpoint)' = Entitled(job[r].user, job[r].endpoint)
    BY <1>3, <2>1 DEF Rotate, RotationLost, Admit, Places, Entitled, Allowed
  <2>3. CASE Admit(r)
    <3>1. Entitled(job[r].user, job[r].endpoint)
      BY <1>0, <2>3 DEF Admit, Admitted, CurrentRole, JobOK, Entitled
    <3> QED BY <1>0, <2>1, <2>3, <3>1 DEF Admit, Places
  <2>4. CASE Rotate(r) \/ RotationLost(r)
    BY <1>0, <2>1, <2>2, <2>4 DEF Rotate, RotationLost, Places
  <2> QED BY <1>3, <2>3, <2>4
<1>4. CASE \/ OpenSession(r) \/ ReadInactiveUser(r) \/ Answer(r) \/ CloseEverySession(r)
           \/ Me(r) \/ Deny(r) \/ Perform(r) \/ Abort(r)
  BY <1>1, <1>4
     DEF OpenSession, ReadInactiveUser, Answer, CloseEverySession, Me, Deny, Perform, Abort
<1>5. ASSUME NEW where, NEW endpoint, NEW u, NEW c, NEW t, NEW n,
             Begin(r, where, endpoint, u, c, t, n),
             where \in {"issue", "open", "rotate", "perform"} => Entitled(u, endpoint)
      PROVE  EntitledOK(r)'
  <2>1. /\ job'[r].at = where /\ job'[r].user = u /\ job'[r].endpoint = endpoint
        /\ entitled'[r] = Entitled(u, endpoint) /\ role' = role /\ active' = active
    BY <1>0, <1>5 DEF Begin, accounts
  <2> QED BY <1>5, <2>1 DEF Entitled, Allowed
<1>6. CASE Starts(r)
  <2>1. ASSUME NEW u \in Users, NEW n \in Tokens, Login(r, u, n) PROVE EntitledOK(r)'
    BY <1>0, <1>5, <2>1 DEF Login, Entitled, Allowed
  <2>2. ASSUME NEW t \in Tokens,
               Logout(r, t) \/ RefreshReused(r, t) \/ \E n \in Tokens : Refresh(r, t, n)
        PROVE  EntitledOK(r)'
    BY <1>1, <1>5, <2>2 DEF Logout, RefreshReused, Refresh
  <2>3. ASSUME NEW c, NEW endpoint, Authenticate(r, c, endpoint) PROVE EntitledOK(r)'
    BY <1>5, <2>3 DEF Authenticate
  <2> QED BY <1>1, <1>6, <2>1, <2>2, <2>3 DEF Starts, Arrive, Refused
<1> QED BY <1>2, <1>3, <1>4, <1>6 DEF Serve

-----------------------------------------------------------------------------
(* Every step keeps the invariant: one lemma for each of its parts. *)

\* Each part of the state stays in its range.
LEMMA TypeStep == IInv /\ [Next]_vars => TypeOK'
<1> SUFFICES ASSUME IInv, [Next]_vars PROVE TypeOK'
  OBVIOUS
<1>0. TypeOK /\ AccessTypeOK /\ JobInv /\ FetchInv
  BY DEF IInv, TypeOK
<1>1. CASE UNCHANGED vars
  BY <1>0, <1>1 DEF TypeOK, AccessTypeOK, vars, avars, cvars
<1>2. CASE Backend
  <2>1. ASSUME NEW r \in Requests, Serve(r) \/ Elsewhere(r) \/ Abort(r) PROVE AccessTypeOK'
    BY <1>0, <2>1, ServeType, StartsType, AbortType DEF Elsewhere, Starts
  <2>2. ASSUME Administer PROVE AccessTypeOK'
    <3>0. role \in [Users -> Roles] /\ active \in [Users -> BOOLEAN]
      BY <1>0 DEF AccessTypeOK
    <3>1. role' \in [Users -> Roles] /\ active' \in [Users -> BOOLEAN]
      <4>1. ASSUME NEW u \in Users, active' = [active EXCEPT ![u] = ~@]
            PROVE  active' \in [Users -> BOOLEAN]
        BY <3>0, <4>1
      <4>2. ASSUME NEW u \in Users, NEW name \in Roles, role' = [role EXCEPT ![u] = name]
            PROVE  role' \in [Users -> Roles]
        BY <3>0, <4>2
      <4> QED BY <2>2, <3>0, <4>1, <4>2, AccessAssumption DEF Administer
    <3>2. entitled' \in [Requests -> BOOLEAN]
      BY <1>0, <2>2 DEF Administer, AccessTypeOK, Entitled, Allowed
    <3> QED BY <1>0, <2>2, <3>1, <3>2 DEF Administer, AccessTypeOK, outside
  <2>3. ASSUME Tick PROVE AccessTypeOK'
    BY <1>0, <2>3, AccessAssumption DEF Tick, AccessTypeOK, outside
  <2>4. AccessTypeOK'
    BY <1>2, <2>1, <2>2, <2>3 DEF Backend
  <2> QED BY <1>0, <1>2, <2>4 DEF Backend, TypeOK, cvars
<1>3. ASSUME NEW b \in Pages, NEW r \in Requests, Submit(b, r) PROVE TypeOK'
  <2>1. AccessTypeOK'
    BY <1>0, <1>3, StartsType DEF Submit, Starts, Arrive
  <2> QED BY <1>0, <1>3, <2>1 DEF Submit, Await, TypeOK, tokens
<1>4. ASSUME NEW r \in Requests, Consume(r) PROVE AccessTypeOK'
  BY <1>0, <1>4 DEF Consume, AccessTypeOK, accounts, outside
<1>5. ASSUME NEW r \in Requests, LoggedIn(r) PROVE TypeOK'
  <2>1. awaiting[r] = "login" /\ answer[r].status = "pair"
    BY <1>5 DEF LoggedIn, Settled
  <2>2. answer[r].claims \in Claims /\ answer[r].token \in Tokens /\ page[r] \in Pages
    BY <1>0, <2>1, Answers DEF FetchInv, TypeOK
  <2>3. AccessTypeOK'
    BY <1>0, <1>5, <2>2, StartsType DEF LoggedIn, Starts, Arrive
  <2> QED BY <1>0, <1>5, <2>2, <2>3 DEF LoggedIn, Keep, Await, TypeOK, screen
<1>6. ASSUME NEW r \in Requests, SignedIn(r) PROVE TypeOK'
  <2>1. answer[r].user \in Users
    BY <1>0, <1>6, Answers DEF SignedIn
  <2> QED BY <1>0, <1>4, <1>6, <2>1 DEF SignedIn, Consume, Await, TypeOK, tokens
<1>7. ASSUME NEW r \in Requests, SubmitFails(r) PROVE TypeOK'
  BY <1>0, <1>4, <1>7 DEF SubmitFails, Rejected, Consume, Await, TypeOK, tokens
<1>8. ASSUME NEW b \in Pages, SignOut(b) PROVE TypeOK'
  BY <1>0, <1>8 DEF SignOut, Keep, TypeOK, AccessTypeOK, avars
<1>9. ASSUME NEW b \in Pages, Reload(b) PROVE TypeOK'
  <2>1. AccessTypeOK'
    BY <1>0, <1>9 DEF Reload, AccessTypeOK, accounts, outside
  <2> QED BY <1>0, <1>9, <2>1 DEF Reload, Keep, TypeOK
<1> QED BY <1>1, <1>2, <1>3, <1>5, <1>6, <1>7, <1>8, <1>9 DEF Next, React

\* A page that reacts to an answer starts no handler but the one of its next fetch.
LEMMA HandlersStep ==
    ASSUME IInv, [Next]_vars
    PROVE  \/ \E r \in Requests : Serve(r) \/ Starts(r) \/ Abort(r)
           \/ Administer
           \/ UNCHANGED <<svars, role, active, job, entitled>>
<1>1. ASSUME NEW r \in Requests, LoggedIn(r) PROVE Starts(r)
  <2>1. answer[r].claims \in Claims
    BY <1>1, Answers DEF LoggedIn, IInv, TypeOK
  <2> QED BY <1>1, <2>1 DEF LoggedIn, Starts, Arrive
<1>2. ASSUME NEW r \in Requests, SignedIn(r) \/ SubmitFails(r)
      PROVE  UNCHANGED <<svars, role, active, job, entitled>>
  BY <1>2 DEF SignedIn, SubmitFails, Rejected, Consume, accounts
<1>3. ASSUME NEW b \in Pages, SignOut(b) \/ Reload(b)
      PROVE  UNCHANGED <<svars, role, active, job, entitled>>
  BY <1>3 DEF SignOut, Reload, avars, accounts, svars
<1>4. ASSUME NEW b \in Pages, NEW r \in Requests, Submit(b, r) PROVE Starts(r)
  BY <1>4 DEF Submit, Starts, Arrive
<1>5. CASE Backend
  BY <1>5 DEF Backend, Elsewhere, Starts, Tick
<1>6. CASE UNCHANGED vars
  BY <1>6 DEF vars, avars, svars
<1> QED BY <1>1, <1>2, <1>3, <1>4, <1>5, <1>6 DEF Next, React

\* One handler moves, the others stay where they are.
LEMMA JobStep == IInv /\ [Next]_vars => JobInv'
<1> SUFFICES ASSUME IInv, [Next]_vars, NEW q \in Requests PROVE JobOK(q)'
  BY DEF JobInv
<1>0. TypeOK /\ JobInv /\ JobOK(q)
  BY DEF IInv, JobInv
<1>1. ASSUME NEW r \in Requests, Serve(r) \/ Starts(r) \/ Abort(r) PROVE JobOK(q)'
  <2>1. CASE q = r
    BY <1>0, <1>1, <2>1, JobMoves
  <2>2. CASE q # r
    <3>1. job'[q] = job[q]
      BY <1>0, <1>1, <2>2, OthersUntouched
    <3> QED BY <1>0, <3>1 DEF JobOK, At
  <2> QED BY <2>1, <2>2
<1>2. CASE Administer \/ UNCHANGED <<svars, role, active, job, entitled>>
  BY <1>0, <1>2 DEF Administer, JobOK, At
<1> QED BY <1>1, <1>2, HandlersStep

\* The administrator's changes are noted for whoever is running.
LEMMA EntitledStep == IInv /\ [Next]_vars => EntitledInv'
<1> SUFFICES ASSUME IInv, [Next]_vars, NEW q \in Requests PROVE EntitledOK(q)'
  BY DEF EntitledInv
<1>0. TypeOK /\ JobInv /\ EntitledInv /\ EntitledOK(q)
  BY DEF IInv, EntitledInv
<1>1. ASSUME NEW r \in Requests, Serve(r) \/ Starts(r) \/ Abort(r) PROVE EntitledOK(q)'
  <2>1. CASE q = r
    BY <1>0, <1>1, <2>1, EntitledMoves
  <2>2. CASE q # r
    <3>1. job'[q] = job[q] /\ entitled'[q] = entitled[q]
      BY <1>0, <1>1, <2>2, OthersUntouched
    <3>2. role' = role /\ active' = active
      BY <1>1 DEF Serve, IssueAccess, OpenSession, ReadUser, ReadInactiveUser, Rotate, RotationLost,
         Answer, CloseEverySession, Me, Admit, Deny, Perform, Respond, Goto, GotoWith, Starts, Arrive,
         Login, Refused, Refresh, RefreshReused, Logout, Authenticate, Begin, Abort, accounts
    <3> QED BY <1>0, <3>1, <3>2 DEF EntitledOK, At, Entitled, Allowed
  <2> QED BY <2>1, <2>2
<1>2. CASE Administer
  <2>1. /\ job' = job
        /\ entitled'[q] = (entitled[q] \/ Entitled(job[q].user, job[q].endpoint)')
    BY <1>2 DEF Administer
  <2> QED BY <1>0, <2>1 DEF EntitledOK, At
<1>3. CASE UNCHANGED <<svars, role, active, job, entitled>>
  BY <1>0, <1>3 DEF EntitledOK, At, Entitled, Allowed
<1> QED BY <1>1, <1>2, <1>3, HandlersStep

\* A fetch goes out when the form is disabled and comes back when it is enabled.
LEMMA FetchStep == IInv /\ [Next]_vars => FetchInv'
<1> SUFFICES ASSUME IInv, [Next]_vars PROVE FetchInv'
  OBVIOUS
<1> USE PagesAssumption DEF FetchInv
<1>0. /\ FetchInv
      /\ awaiting \in [Requests -> {"none", "login", "me"}]
      /\ page \in [Requests -> Pages \cup {NoPage}]
      /\ isSubmitting \in [Pages -> BOOLEAN]
      /\ currentUser \in [Pages -> Users \cup {NoUser}]
  BY DEF IInv, TypeOK
<1>1. CASE UNCHANGED <<awaiting, page, isSubmitting, currentUser>>
  BY <1>0, <1>1
<1>2. ASSUME NEW b \in Pages, NEW r \in Requests, Submit(b, r) PROVE FetchInv'
  <2>1. /\ awaiting' = [awaiting EXCEPT ![r] = "login"] /\ page' = [page EXCEPT ![r] = b]
        /\ isSubmitting' = [isSubmitting EXCEPT ![b] = TRUE] /\ currentUser' = currentUser
        /\ ~isSubmitting[b] /\ currentUser[b] = NoUser /\ awaiting[r] = "none"
    BY <1>2 DEF Submit, Await, Enabled
  <2> QED BY <1>0, <2>1
<1>3. ASSUME NEW r \in Requests, LoggedIn(r) PROVE FetchInv'
  <2>1. /\ awaiting' = [awaiting EXCEPT ![r] = "me"] /\ awaiting[r] = "login"
        /\ page' = [page EXCEPT ![r] = page[r]]
        /\ isSubmitting' = isSubmitting /\ currentUser' = currentUser
    BY <1>3 DEF LoggedIn, Settled, Await, screen
  <2> QED BY <1>0, <2>1
<1>4. ASSUME NEW r \in Requests, SignedIn(r) \/ SubmitFails(r) PROVE FetchInv'
  <2>1. /\ awaiting' = [awaiting EXCEPT ![r] = "none"] /\ awaiting[r] # "none"
        /\ page' = [page EXCEPT ![r] = NoPage]
        /\ isSubmitting' = [isSubmitting EXCEPT ![page[r]] = FALSE]
        /\ \A b \in Pages \ {page[r]} : currentUser'[b] = currentUser[b]
    BY <1>0, <1>4 DEF SignedIn, Settled, SubmitFails, Rejected, Consume, Await
  <2> QED BY <1>0, <2>1
<1>5. ASSUME NEW b \in Pages, SignOut(b) PROVE FetchInv'
  <2>1. /\ awaiting' = awaiting /\ page' = page /\ isSubmitting' = isSubmitting
        /\ currentUser' = [currentUser EXCEPT ![b] = NoUser]
    BY <1>5 DEF SignOut, avars
  <2> QED BY <1>0, <2>1
<1>6. ASSUME NEW b \in Pages, Reload(b) PROVE FetchInv'
  <2>1. /\ awaiting' = [r \in Requests |-> IF page[r] = b THEN "none" ELSE awaiting[r]]
        /\ page' = [r \in Requests |-> IF page[r] = b THEN NoPage ELSE page[r]]
        /\ isSubmitting' = [isSubmitting EXCEPT ![b] = FALSE]
        /\ currentUser' = [currentUser EXCEPT ![b] = NoUser]
    BY <1>6 DEF Reload
  <2> QED BY <1>0, <2>1
<1>7. CASE Backend \/ UNCHANGED vars
  BY <1>1, <1>7 DEF Backend, vars, avars, cvars
<1> QED BY <1>2, <1>3, <1>4, <1>5, <1>6, <1>7 DEF Next, React

\* A handler answers with a profile only when it was asked for one.
LEMMA ServeAnswers ==
    ASSUME TypeOK, JobInv, NEW r \in Requests, Serve(r) \/ Abort(r)
    PROVE  /\ ~At(r, "idle")
           /\ \/ /\ job'[r] = NoJob
                 /\ answer'[r].status = "user" =>
                       job[r].endpoint = "me" /\ answer'[r].user = job[r].user
              \/ /\ answer'[r] = answer[r]
                 /\ job'[r].endpoint = job[r].endpoint /\ job'[r].user = job[r].user
<1>0. /\ job \in [Requests -> Jobs] /\ answer \in [Requests -> Responses]
      /\ AccessTypeOK /\ JobOK(r)
  BY DEF TypeOK, AccessTypeOK, Responses, JobInv
<1>1. ASSUME NEW a, Respond(r, a) PROVE job'[r] = NoJob /\ answer'[r] \in {Other, a}
  BY <1>0, <1>1 DEF Respond
<1>2. CASE Me(r)
  BY <1>1, <1>2 DEF Me, At, Profile, Other
<1>3. CASE OpenSession(r) \/ Answer(r)
  BY <1>1, <1>3 DEF OpenSession, Answer, At, Pair, Other
<1>4. CASE ReadInactiveUser(r) \/ CloseEverySession(r) \/ Deny(r) \/ Perform(r) \/ Abort(r)
  BY <1>1, <1>4 DEF ReadInactiveUser, CloseEverySession, Deny, Perform, Abort, At, Other
<1>5. CASE Rotate(r) \/ RotationLost(r) \/ Admit(r)
  <2>1. ASSUME NEW where, Goto(r, where)
        PROVE  /\ answer'[r] = answer[r]
               /\ job'[r].endpoint = job[r].endpoint /\ job'[r].user = job[r].user
    BY <1>0, <2>1 DEF Goto, Jobs
  <2> QED BY <1>5, <2>1 DEF Rotate, RotationLost, Admit, At
<1>6. CASE IssueAccess(r) \/ ReadUser(r)
  <2>1. /\ answer'[r] = answer[r]
        /\ job'[r].endpoint = job[r].endpoint /\ job'[r].user = job[r].user
    BY <1>0, <1>6, Signing, GotoWithMoves DEF Places
  <2> QED BY <1>6, <2>1 DEF IssueAccess, ReadUser, At
<1> QED BY <1>2, <1>3, <1>4, <1>5, <1>6 DEF Serve

\* No answer reaches a page that asked for something else: a page that gave up a
\* fetch forgets it, and what its handler still answers is dropped.
LEMMA AnswerStep == IInv /\ [Next]_vars => AnswerInv'
<1> SUFFICES ASSUME IInv, [Next]_vars, NEW q \in Requests PROVE AnswerOK(q)'
  BY DEF AnswerInv
<1> USE PagesAssumption, AccessAssumption
<1>0. /\ TypeOK /\ JobInv /\ FetchInv /\ AnswerOK(q)
      /\ awaiting \in [Requests -> {"none", "login", "me"}]
      /\ page \in [Requests -> Pages \cup {NoPage}]
      /\ accessToken \in [Pages -> Claims \cup {NoClaims}]
  BY DEF IInv, AnswerInv, TypeOK
<1>1. ASSUME UNCHANGED <<job[q], answer[q], awaiting[q], page[q]>>,
             awaiting[q] = "me" => UNCHANGED accessToken[page[q]]
      PROVE  AnswerOK(q)'
  BY <1>0, <1>1 DEF AnswerOK, At
<1>2. CASE Backend
  <2>1. UNCHANGED <<awaiting, page, accessToken>>
    BY <1>2 DEF Backend, cvars
  <2>2. ASSUME NEW r \in Requests \ {q}, Serve(r) \/ Elsewhere(r) \/ Abort(r) PROVE AnswerOK(q)'
    BY <1>0, <1>1, <2>1, <2>2, OthersUntouched DEF Elsewhere, Starts
  <2>3. CASE Serve(q) \/ Abort(q)
    BY <1>0, <2>1, <2>3, ServeAnswers DEF AnswerOK, At, NoJob
  <2>4. CASE Elsewhere(q)
    BY <2>1, <2>4 DEF Elsewhere, AnswerOK
  <2>5. CASE Administer \/ Tick
    BY <1>1, <2>1, <2>5 DEF Administer, Tick
  <2> QED BY <1>2, <2>2, <2>3, <2>4, <2>5 DEF Backend
<1>3. ASSUME NEW b \in Pages, NEW r \in Requests, Submit(b, r) PROVE AnswerOK(q)'
  <2>1. /\ awaiting' = [awaiting EXCEPT ![r] = "login"] /\ page' = [page EXCEPT ![r] = b]
        /\ accessToken' = accessToken /\ awaiting[r] = "none" /\ Starts(r)
    BY <1>3 DEF Submit, Await, tokens, Starts, Arrive
  <2>2. CASE q # r
    BY <1>0, <1>1, <2>1, <2>2, OthersUntouched
  <2>3. CASE q = r
    <3>1. job'[r] = NoJob \/ job'[r].endpoint = "login"
      BY <1>0, <1>3 DEF Submit, Login, Refused, Begin, Respond, TypeOK, AccessTypeOK
    <3>2. answer'[r] = Other
      BY <1>0, <1>3, <2>1 DEF Submit, Login, Refused, Begin, Respond, TypeOK, AccessTypeOK
    <3> QED BY <1>0, <2>1, <2>3, <3>1, <3>2 DEF AnswerOK, At, NoJob, Other
  <2> QED BY <2>2, <2>3
<1>4. ASSUME NEW r \in Requests, LoggedIn(r) PROVE AnswerOK(q)'
  <2> DEFINE c == answer[r].claims
             b == page[r]
  <2>1. awaiting[r] = "login" /\ b \in Pages /\ c \in Claims
    BY <1>0, <1>4, Answers DEF LoggedIn, Settled, FetchInv, TypeOK
  <2>2. /\ awaiting' = [awaiting EXCEPT ![r] = "me"] /\ page' = [page EXCEPT ![r] = b]
        /\ accessToken' = [accessToken EXCEPT ![b] = c]
    BY <1>4 DEF LoggedIn, Await, Keep
  <2>3. CASE q # r
    <3>1. page[q] # b
      BY <1>0, <2>1, <2>3 DEF FetchInv
    <3>2. Starts(r)
      BY <1>4, <2>1 DEF LoggedIn, Starts, Arrive
    <3>3. UNCHANGED <<job[q], answer[q]>>
      BY <1>0, <2>3, <3>2, OthersUntouched
    <3>4. awaiting[q] = "me" => page[q] \in Pages
      BY <1>0 DEF FetchInv
    <3> QED BY <1>0, <1>1, <2>1, <2>2, <2>3, <3>1, <3>3, <3>4
  <2>4. CASE q = r
    <3>1. \/ job'[r] = NoJob
          \/ job'[r].endpoint = "me" /\ job'[r].user = c.sub
      BY <1>0, <1>4 DEF LoggedIn, Authenticate, Refused, Begin, Respond, TypeOK, AccessTypeOK
    <3>2. answer'[r] = Other
      BY <1>0, <1>4 DEF LoggedIn, Authenticate, Refused, Begin, Respond, TypeOK, AccessTypeOK
    <3>3. awaiting'[r] = "me" /\ page'[r] = b /\ accessToken'[b] = c /\ c # NoClaims
      BY <1>0, <2>1, <2>2
    <3> QED BY <2>4, <3>1, <3>2, <3>3 DEF AnswerOK, At, NoJob, Other
  <2> QED BY <2>3, <2>4
<1>5. ASSUME NEW r \in Requests, SignedIn(r) \/ SubmitFails(r) PROVE AnswerOK(q)'
  <2>1. /\ awaiting' = [awaiting EXCEPT ![r] = "none"] /\ page' = [page EXCEPT ![r] = NoPage]
        /\ answer' = [answer EXCEPT ![r] = Other]
        /\ accessToken' = accessToken /\ job' = job
    BY <1>5 DEF SignedIn, SubmitFails, Rejected, Consume, Await, tokens
  <2>2. CASE q # r
    BY <1>1, <2>1, <2>2
  <2>3. CASE q = r
    BY <1>0, <2>1, <2>3 DEF AnswerOK
  <2> QED BY <2>2, <2>3
<1>6. ASSUME NEW b \in Pages, SignOut(b) PROVE AnswerOK(q)'
  <2>1. UNCHANGED <<job, answer, awaiting, page>> /\ accessToken' = [accessToken EXCEPT ![b] = NoClaims]
    BY <1>6 DEF SignOut, Keep, avars
  <2>2. page[q] # b
    BY <1>0, <1>6 DEF SignOut, FetchInv
  <2> QED BY <1>0, <1>1, <2>1, <2>2 DEF FetchInv
<1>7. ASSUME NEW b \in Pages, Reload(b) PROVE AnswerOK(q)'
  <2>1. /\ awaiting'[q] = IF page[q] = b THEN "none" ELSE awaiting[q]
        /\ answer'[q] = IF page[q] = b THEN Other ELSE answer[q]
        /\ page'[q] = IF page[q] = b THEN NoPage ELSE page[q]
        /\ job' = job /\ accessToken' = [accessToken EXCEPT ![b] = NoClaims]
    BY <1>7 DEF Reload, Keep
  <2>2. CASE page[q] = b
    BY <2>1, <2>2 DEF AnswerOK
  <2>3. CASE page[q] # b
    BY <1>0, <1>1, <2>1, <2>3 DEF FetchInv
  <2> QED BY <2>2, <2>3
<1>8. CASE UNCHANGED vars
  BY <1>1, <1>8 DEF vars, avars, cvars
<1> QED BY <1>2, <1>3, <1>4, <1>5, <1>6, <1>7, <1>8 DEF Next, React

\* The page shows a user only after a profile for the token it keeps.
LEMMA ScreenStep == IInv /\ [Next]_vars => ScreenMatchesTokens'
<1> SUFFICES ASSUME IInv, [Next]_vars, NEW b \in Pages, currentUser'[b] # NoUser
             PROVE  accessToken'[b] # NoClaims /\ accessToken'[b].sub = currentUser'[b]
  BY DEF ScreenMatchesTokens
<1> USE PagesAssumption
<1>0. /\ FetchInv /\ AnswerInv /\ ScreenMatchesTokens
      /\ page \in [Requests -> Pages \cup {NoPage}]
      /\ accessToken \in [Pages -> Claims \cup {NoClaims}]
      /\ currentUser \in [Pages -> Users \cup {NoUser}]
  BY DEF IInv, TypeOK
<1>1. CASE UNCHANGED <<accessToken[b], currentUser[b]>>
  BY <1>0, <1>1 DEF ScreenMatchesTokens
<1>2. ASSUME NEW r \in Requests, LoggedIn(r)
      PROVE  UNCHANGED <<accessToken[b], currentUser[b]>>
  <2>1. isSubmitting[page[r]] /\ page[r] \in Pages
    BY <1>0, <1>2 DEF LoggedIn, Settled, FetchInv
  <2>2. page[r] # b
    BY <1>0, <1>2, <2>1 DEF LoggedIn, screen, FetchInv
  <2> QED BY <1>0, <1>2, <2>2 DEF LoggedIn, Keep, screen
<1>3. ASSUME NEW r \in Requests, SignedIn(r)
      PROVE  accessToken'[b] # NoClaims /\ accessToken'[b].sub = currentUser'[b]
  <2>1. CASE page[r] = b
    BY <1>0, <1>3, <2>1 DEF SignedIn, Settled, AnswerInv, AnswerOK, tokens
  <2>2. CASE page[r] # b
    BY <1>0, <1>1, <1>3, <2>2 DEF SignedIn, tokens
  <2> QED BY <2>1, <2>2
<1>4. ASSUME NEW a \in Pages, SignOut(a) \/ Reload(a)
      PROVE  UNCHANGED <<accessToken[b], currentUser[b]>>
  BY <1>0, <1>4 DEF SignOut, Reload, Keep
<1>5. CASE Backend \/ UNCHANGED vars
  BY <1>1, <1>5 DEF Backend, vars, cvars
<1>6. ASSUME NEW r \in Requests, SubmitFails(r) \/ \E a \in Pages : Submit(a, r)
      PROVE  UNCHANGED <<accessToken[b], currentUser[b]>>
  BY <1>6 DEF SubmitFails, Rejected, Submit, tokens
<1> QED BY <1>1, <1>2, <1>3, <1>4, <1>5, <1>6 DEF Next, React

\* Nothing runs, and no page has signed in.
LEMMA InitInv == Init => IInv
<1> SUFFICES ASSUME Init PROVE IInv
  OBVIOUS
<1> USE AccessAssumption, PagesAssumption DEF Init, AccessInit
<1>1. NoJob \in Jobs /\ NoJob.at = "idle"
  BY DEF NoJob, Jobs, Endpoints
<1>2. TypeOK
  BY <1>1 DEF TypeOK, AccessTypeOK
<1>3. JobInv /\ EntitledInv
  BY <1>1 DEF JobInv, JobOK, EntitledInv, EntitledOK, At
<1>4. FetchInv /\ AnswerInv /\ ScreenMatchesTokens
  BY DEF FetchInv, AnswerInv, AnswerOK, ScreenMatchesTokens
<1> QED BY <1>2, <1>3, <1>4 DEF IInv

\* The parts of the invariant together carry each other.
LEMMA NextInv == IInv /\ [Next]_vars => IInv'
BY TypeStep, JobStep, EntitledStep, FetchStep, AnswerStep, ScreenStep DEF IInv

\* In every reachable state the invariant holds.
THEOREM InvariantHolds == Spec => []IInv
BY InitInv, NextInv, PTL DEF Spec

-----------------------------------------------------------------------------
(* What follows from it. *)

\* Type correctness of the front end and the access control below it.
THEOREM TypeCorrect == Spec => []TypeOK
<1>1. IInv => TypeOK
  BY DEF IInv
<1> QED BY <1>1, InvariantHolds, PTL

\* The page shows the user its tokens are for: the answers of two submissions
\* never mix, however late they come (LoginPage, handleSubmit).
THEOREM ScreenIsTrue == Spec => []ScreenMatchesTokens
<1>1. IInv => ScreenMatchesTokens
  BY DEF IInv
<1> QED BY <1>1, InvariantHolds, PTL

\* The form is disabled exactly while one fetch of the page is out (handleSubmit).
THEOREM OneFetchDisables == Spec => []DisabledWhileWaiting
<1>1. IInv => DisabledWhileWaiting
  <2> SUFFICES ASSUME IInv, NEW b \in Pages
               PROVE  Cardinality({r \in Requests : page[r] = b}) = IF isSubmitting[b] THEN 1 ELSE 0
    BY DEF DisabledWhileWaiting
  <2> DEFINE out == {r \in Requests : page[r] = b}
  <2>0. FetchInv /\ b # NoPage /\ isSubmitting[b] \in BOOLEAN
    BY PagesAssumption DEF IInv, TypeOK
  <2>1. CASE isSubmitting[b]
    <3>1. PICK r \in Requests : page[r] = b
      BY <2>0, <2>1 DEF FetchInv
    <3>2. out = {r}
      BY <2>0, <3>1 DEF FetchInv
    <3> QED BY <2>1, <3>2, FS_Singleton
  <2>2. CASE ~isSubmitting[b]
    <3>1. out = {}
      BY <2>0, <2>2 DEF FetchInv
    <3> QED BY <2>2, <3>1, FS_EmptySet
  <2> QED BY <2>1, <2>2
<1> QED BY <1>1, InvariantHolds, PTL

\* Whatever role the bearer's token still claims, nothing is done for a user who has
\* not been active and allowed it since the request began (get_current_user,
\* require_permission).
THEOREM AccessIsCurrent == Spec => EffectsAreCurrent
<1> DEFINE Current == \A r \in Requests : Perform(r) \/ Me(r) => entitled[r]
<1>1. ASSUME IInv, NEW r \in Requests, Perform(r) \/ Me(r) PROVE entitled[r]
  <2>1. /\ JobOK(r) /\ EntitledOK(r) /\ NoUser \notin Users
        /\ entitled[r] \in BOOLEAN
    BY <1>1, AccessAssumption DEF IInv, JobInv, EntitledInv, TypeOK, AccessTypeOK
  <2>2. CASE Perform(r)
    BY <2>1, <2>2 DEF Perform, EntitledOK, At
  <2>3. CASE Me(r)
    BY <2>1, <2>3 DEF Me, Admitted, CurrentRole, Entitled, EntitledOK, JobOK, At
  <2> QED BY <1>1, <2>2, <2>3
<1>2. IInv /\ [Next]_vars => [Current]_avars
  BY <1>1
<1> HIDE DEF Current
<1>3. Spec => [][Current]_avars
  BY <1>2, InvariantHolds, PTL DEF Spec
<1> QED BY <1>3 DEF EffectsAreCurrent, Current

\* A deactivated user gets no new pair, except from a login or a refresh that was
\* under way: the one read of is_active is enough (login, refresh).
THEOREM NewPairsAreCurrent == Spec => PairsAreCurrent
<1> DEFINE Current == \A r \in Requests : OpenSession(r) \/ Rotate(r) => entitled[r]
<1>1. IInv => Current
  BY DEF IInv, EntitledInv, EntitledOK, At, OpenSession, Rotate
<1>2. IInv /\ [Next]_vars => [Current]_avars
  BY <1>1
<1> HIDE DEF Current
<1>3. Spec => [][Current]_avars
  BY <1>2, InvariantHolds, PTL DEF Spec
<1> QED BY <1>3 DEF PairsAreCurrent, Current

-----------------------------------------------------------------------------
\* Whatever the pages and the clients elsewhere send, the backend uses the sessions
\* only by the operations that RefreshTokens is proved to implement.
LEMMA HandlersRefine ==
    ASSUME IInv, NEW r \in Requests, Serve(r) \/ Starts(r) \/ Abort(r)
    PROVE  [SessionsNext]_svars
<1>0. JobOK(r) /\ holder \in [Tokens -> Users \cup {NoUser}]
  BY DEF IInv, JobInv, TypeOK, AccessTypeOK
<1>1. CASE OpenSession(r)
  BY <1>0, <1>1 DEF OpenSession, JobOK, At, SessionsNext
<1>2. CASE Rotate(r)
  BY <1>0, <1>2 DEF Rotate, JobOK, At, SessionsNext
<1>3. CASE CloseEverySession(r)
  BY <1>0, <1>3 DEF CloseEverySession, JobOK, At, SessionsNext
<1>4. ASSUME NEW t \in {x \in Tokens : holder[x] # NoUser}, Logout(r, t) PROVE SessionsNext
  BY <1>0, <1>4 DEF Logout, SessionsNext
<1>5. CASE \/ IssueAccess(r) \/ ReadUser(r) \/ ReadInactiveUser(r) \/ RotationLost(r)
           \/ Answer(r) \/ Me(r) \/ Admit(r) \/ Deny(r) \/ Perform(r) \/ Abort(r)
  BY <1>5 DEF IssueAccess, ReadUser, ReadInactiveUser, RotationLost, Answer, Me, Admit, Deny,
     Perform, Abort
<1>6. CASE Starts(r) /\ ~\E t \in {x \in Tokens : holder[x] # NoUser} : Logout(r, t)
  BY <1>6 DEF Starts, Arrive, Login, Refused, Refresh, RefreshReused, Authenticate, Begin
<1> QED BY <1>1, <1>2, <1>3, <1>4, <1>5, <1>6 DEF Serve

\* Access control and front end together stay within what the sessions promise.
THEOREM ImplementsSessionsSpec == Spec => SessionsSpec
<1>1. Init => SessionsInit
  BY DEF Init, AccessInit
<1>2. IInv /\ [Next]_vars => [SessionsNext]_svars
  BY HandlersStep, HandlersRefine DEF Administer
<1> QED BY <1>1, <1>2, InvariantHolds, PTL DEF Spec, SessionsSpec

\* So a session that a logout, a burn or a rotation has closed stays closed, whoever
\* presents its token, and no two users share one.
THEOREM ClosedStaysClosed == Spec => SessionsStayClosed /\ []SessionsAreApart
BY ImplementsSessionsSpec, StayClosed, Apart, PTL
=============================================================================
