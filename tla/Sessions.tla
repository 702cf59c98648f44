------------------------------ MODULE Sessions ------------------------------
(***************************************************************************)
(* What the refresh-token lifecycle promises, with every operation in one  *)
(* step.  A session is a live refresh token.  Renewing a session replaces  *)
(* its token; closing all the sessions of a user leaves none, whatever     *)
(* else is going on; a token is never used for a second session.           *)
(***************************************************************************)
CONSTANTS Users, Tokens, NoToken

VARIABLES
    sessions,   \* the live tokens of each user
    used,       \* every token issued so far
    origin      \* the token a token was issued in exchange for, if any

svars == <<sessions, used, origin>>

SessionsInit ==
    /\ sessions = [u \in Users |-> {}]
    /\ used = {}
    /\ origin = [t \in Tokens |-> NoToken]

Open(u, n) ==
    /\ n \notin used
    /\ sessions' = [sessions EXCEPT ![u] = @ \cup {n}]
    /\ used' = used \cup {n}
    /\ UNCHANGED origin

Renew(u, t, n) ==
    /\ t \in sessions[u]
    /\ n \notin used
    /\ sessions' = [sessions EXCEPT ![u] = (@ \ {t}) \cup {n}]
    /\ used' = used \cup {n}
    /\ origin' = [origin EXCEPT ![n] = t]

Close(u, t) ==
    /\ t \in sessions[u]
    /\ sessions' = [sessions EXCEPT ![u] = @ \ {t}]
    /\ UNCHANGED <<used, origin>>

CloseAll(u) ==
    /\ sessions' = [sessions EXCEPT ![u] = {}]
    /\ UNCHANGED <<used, origin>>

SessionsNext ==
    \E u \in Users :
        \/ \E n \in Tokens : Open(u, n)
        \/ \E t, n \in Tokens : Renew(u, t, n)
        \/ \E t \in Tokens : Close(u, t)
        \/ CloseAll(u)

SessionsSpec == SessionsInit /\ [][SessionsNext]_svars

-----------------------------------------------------------------------------
(* Properties *)

\* A closed session stays closed, and nobody takes it over: a token that was issued
\* before can only be live if it still is, for the same user.
SessionsStayClosed == [][\A u \in Users : sessions'[u] \cap used \subseteq sessions[u]]_svars

\* No two users share a session, and a token that was exchanged is not live.
SessionsAreApart ==
    /\ \A u, v \in Users : u # v => sessions[u] \cap sessions[v] = {}
    /\ \A t \in Tokens, u \in Users : origin[t] # NoToken => origin[t] \notin sessions[u]
=============================================================================
