--------------------------- MODULE SessionsProofs ---------------------------
(***************************************************************************)
(* What Sessions promises about its own history, with proofs checked by    *)
(* TLAPS.  RefreshTokens and AccessControl implement Sessions, so their    *)
(* sessions have these properties, too.                                    *)
(***************************************************************************)
EXTENDS Sessions, TLAPS

\* The inductive invariant: live tokens and exchanged ones have been issued.
SInv ==
    /\ sessions \in [Users -> SUBSET Tokens]
    /\ origin \in [Tokens -> Tokens \cup {NoToken}]
    /\ \A u \in Users : sessions[u] \subseteq used
    /\ \A t \in Tokens : origin[t] # NoToken => origin[t] \in used
    /\ SessionsAreApart

\* Each operation keeps it.
LEMMA SInvStep ==
    ASSUME SInv, [SessionsNext]_svars
    PROVE  SInv'
  <1> USE DEF SInv, SessionsAreApart
  <1>1. ASSUME NEW u \in Users, NEW n \in Tokens, Open(u, n)
        PROVE  SInv'
    BY <1>1 DEF Open
  <1>2. ASSUME NEW u \in Users, NEW t \in Tokens, NEW n \in Tokens, Renew(u, t, n)
        PROVE  SInv'
    BY <1>2 DEF Renew
  <1>3. ASSUME NEW u \in Users, NEW t \in Tokens, Close(u, t)
        PROVE  SInv'
    BY <1>3 DEF Close
  <1>4. ASSUME NEW u \in Users, CloseAll(u)
        PROVE  SInv'
    BY <1>4 DEF CloseAll
  <1>5. CASE UNCHANGED svars
    BY <1>5 DEF svars
  <1> QED BY <1>1, <1>2, <1>3, <1>4, <1>5 DEF SessionsNext

\* Every state has it.
THEOREM SessionsHold == SessionsSpec => []SInv
  <1>1. SessionsInit => SInv
    BY DEF SessionsInit, SInv, SessionsAreApart
  <1> QED BY <1>1, SInvStep, PTL DEF SessionsSpec

\* No two users share a session, and an exchanged token is dead.
THEOREM Apart == SessionsSpec => []SessionsAreApart
  <1>1. SInv => SessionsAreApart
    BY DEF SInv
  <1> QED BY <1>1, SessionsHold, PTL

\* Every token is issued once, so what is closed stays closed.
THEOREM StayClosed == SessionsSpec => SessionsStayClosed
  <1> DEFINE Closed == \A u \in Users : sessions'[u] \cap used \subseteq sessions[u]
  <1>1. ASSUME SInv, [SessionsNext]_svars PROVE Closed \/ UNCHANGED svars
    <2> SUFFICES ASSUME SessionsNext PROVE Closed
      BY <1>1
    <2>1. sessions \in [Users -> SUBSET Tokens]
      BY <1>1 DEF SInv
    <2>2. ASSUME NEW u \in Users, NEW n \in Tokens, Open(u, n) PROVE Closed
      BY <2>1, <2>2 DEF Open
    <2>3. ASSUME NEW u \in Users, NEW t \in Tokens, NEW n \in Tokens, Renew(u, t, n) PROVE Closed
      BY <2>1, <2>3 DEF Renew
    <2>4. ASSUME NEW u \in Users, NEW t \in Tokens, Close(u, t) PROVE Closed
      BY <2>1, <2>4 DEF Close
    <2>5. ASSUME NEW u \in Users, CloseAll(u) PROVE Closed
      BY <2>1, <2>5 DEF CloseAll
    <2> QED BY <2>2, <2>3, <2>4, <2>5 DEF SessionsNext
  <1>2. SInv /\ [SessionsNext]_svars => [Closed]_svars
    BY <1>1
  <1> HIDE DEF Closed
  <1>3. SessionsSpec => [][Closed]_svars
    BY <1>2, SessionsHold, PTL DEF SessionsSpec
  <1> QED BY <1>3 DEF Closed, SessionsStayClosed
=============================================================================
