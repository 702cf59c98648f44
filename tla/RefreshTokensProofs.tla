------------------------ MODULE RefreshTokensProofs ------------------------
(***************************************************************************)
(* Theorems about RefreshTokens for any users, tokens, requests, lifetime  *)
(* and outcomes of the attribute reads, with proofs checked by TLAPS.      *)
(***************************************************************************)
EXTENDS RefreshTokens, TLAPS

\* The pcs at which a request holds the user row, alone or shared.
ExclusivePcs == {"consume", "insert", "burn_scan", "burn_update", "burn_commit"}
MintPcs == {"reset", "create", "create_commit", "read_user", "rotate_lock", "consume", "insert"}

\* Nobody inserts a token of a user, or writes all of them, while another
\* request holds the row of that user.
LockInv ==
    \A r, q \in Requests :
        /\ r # q
        /\ pc[r] \in ExclusivePcs
        /\ pc[q] \in ExclusivePcs \cup {"create_commit"}
        => subject[r] # subject[q]

\* A row of refresh_tokens has at most one uncommitted writer.
WriterInv ==
    \A r, q \in Requests : r # q => staged[r] \cap staged[q] = {}

\* What a handler knows of the names it holds.
NameInv ==
    /\ \A r \in Requests : pc[r] # "idle" => subject[r] \in Users
    /\ \A r \in Requests : pc[r] \in RefreshPcs \cup LogoutPcs =>
          presented[r] \in Tokens /\ owner[presented[r]] = subject[r]
    /\ \A r \in Requests : pc[r] \in MintPcs => minted[r] \in Tokens /\ ~Issued(minted[r])
    /\ \A r \in Requests : pc[r] \in {"deliver", "answer"} =>
          minted[r] \in Tokens /\ Issued(minted[r])
    /\ \A r, q \in Requests : r # q /\ minted[r] = minted[q] => minted[r] = NoToken
    /\ \A t \in delivered : Issued(t)

\* What a transaction has written.
StagedInv ==
    \A r \in Requests :
        /\ staged[r] # {} => pc[r] \in {"insert", "revoke_commit", "burn_commit"}
        /\ pc[r] = "insert" => /\ staged[r] = {presented[r]}
                               /\ revoked[presented[r]] = NotRevoked
        /\ pc[r] = "revoke_commit" => staged[r] = {presented[r]}
        /\ pc[r] \in {"burn_update", "burn_commit"} =>
              \A t \in targets[r] : owner[t] = subject[r]
        /\ pc[r] = "burn_commit" => staged[r] \subseteq targets[r]

\* The snapshot and the writes of a burn miss no live token of the user.
BurnInv ==
    \A r \in Requests, t \in Tokens :
        owner[t] = subject[r] /\ revoked[t] = NotRevoked =>
            /\ pc[r] = "burn_update" => t \in targets[r]
            /\ pc[r] = "burn_commit" => t \in staged[r]

\* A refresh that is to consume its token checked the expiry it will check again.
UnexpiredInv ==
    \A r \in Requests :
        pc[r] \in {"read_user", "rotate_lock", "consume"} => expires[presented[r]] > now[r]

\* A token that was exchanged is revoked, and a revoked token was issued.
ParentInv ==
    \A t \in Tokens :
        /\ parent[t] # NoToken => Issued(t) /\ revoked[parent[t]] # NotRevoked
        /\ revoked[t] # NotRevoked => Issued(t)

IInv ==
    /\ TypeOK
    /\ LockInv
    /\ WriterInv
    /\ NameInv
    /\ StagedInv
    /\ BurnInv
    /\ UnexpiredInv
    /\ ParentInv
    /\ SingleUse
    /\ BurnsOnlyOnReuse

-----------------------------------------------------------------------------
(* The invariant holds initially and every action keeps it. *)

\* No row, no request, no history: the invariant holds trivially at first.
LEMMA InitInv == Init => IInv
BY ConstantsAssumption
   DEF Init, IInv, TypeOK, LockInv, WriterInv, NameInv, StagedInv, BurnInv, UnexpiredInv,
       ParentInv, SingleUse, BurnsOnlyOnReuse, PCs, ExclusivePcs, MintPcs, LoginPcs,
       RefreshPcs, LogoutPcs, BurnPcs, RotatePcs, Issued

USE ConstantsAssumption
USE DEF IInv, TypeOK, LockInv, WriterInv, NameInv, StagedInv, BurnInv, UnexpiredInv,
        ParentInv, SingleUse, BurnsOnlyOnReuse
USE DEF RotatePcs, BurnPcs, RefreshPcs, LoginPcs, LogoutPcs, PCs, ExclusivePcs, MintPcs
USE DEF rows, world, locals, times, writes, Goto, Begin, End, Finish, Raise, AnswerAtOnce,
        InsertToken, PublishRevocations, Unstage, Issued

\* A handler's own steps, one by one.
LEMMA StepInv == ASSUME IInv, NEW r \in Requests, Step(r) PROVE IInv'
<1>1. CASE ResetFailedLogin(r)
  BY <1>1 DEF ResetFailedLogin, UserRowFree
<1>2. CASE ResetAndRaise(r)
  BY <1>2 DEF ResetAndRaise, UserRowFree
<1>3. CASE CreateInsert(r)
  BY <1>3 DEF CreateInsert, UserRowShareable, HoldsUserRow
<1>4. CASE CreateCommit(r)
  BY <1>4 DEF CreateCommit
<1>5. CASE Deliver(r)
  BY <1>5 DEF Deliver
<1>6. CASE ReadUser(r)
  BY <1>6 DEF ReadUser
<1>7. CASE ReadInactiveUser(r)
  BY <1>7 DEF ReadInactiveUser
<1>8. CASE RotateLock(r)
  BY <1>8 DEF RotateLock, UserRowFree, HoldsUserRow, SharesUserRow
<1>9. CASE RotateConsume(r)
  BY <1>9 DEF RotateConsume, TokenRowFree, Consumable
<1>10. CASE RotateMiss(r)
  BY <1>10 DEF RotateMiss, TokenRowFree, Consumable
<1>11. CASE RotateCommit(r)
  BY <1>11 DEF RotateCommit
<1>12. CASE RotationLost(r)
  BY <1>12 DEF RotationLost
<1>13. CASE RotationLostAndRaise(r)
  BY <1>13 DEF RotationLostAndRaise
<1>14. CASE Answer(r)
  BY <1>14 DEF Answer
<1>15. CASE AnswerAndRaise(r)
  BY <1>15 DEF AnswerAndRaise
<1>16. CASE RevokeUpdate(r)
  BY <1>16 DEF RevokeUpdate, TokenRowFree
<1>17. CASE RevokeCommit(r)
  BY <1>17 DEF RevokeCommit
<1>18. CASE BurnLock(r)
  BY <1>18 DEF BurnLock, UserRowFree, HoldsUserRow, SharesUserRow
<1>19. CASE BurnScan(r)
  BY <1>19 DEF BurnScan
<1>20. CASE BurnUpdate(r)
  BY <1>20 DEF BurnUpdate, TokenRowFree
<1>21. CASE BurnCommit(r)
  BY <1>21 DEF BurnCommit
<1> QED
  BY <1>1, <1>2, <1>3, <1>4, <1>5, <1>6, <1>7, <1>8, <1>9, <1>10, <1>11, <1>12,
     <1>13, <1>14, <1>15, <1>16, <1>17, <1>18, <1>19, <1>20, <1>21
     DEF Step

\* The first step of a request.
LEMMA ArriveInv == ASSUME IInv, NEW r \in Requests, Arrive(r) PROVE IInv'
<1>1. ASSUME NEW u \in Users, NEW n \in Tokens, Login(r, u, n) PROVE IInv'
  BY <1>1 DEF Login, Fresh
<1>2. ASSUME NEW u \in Users, LogoutAll(r, u) PROVE IInv'
  BY <1>2 DEF LogoutAll
<1>3. ASSUME NEW t \in delivered, NEW n \in Tokens, Refresh(r, t, n) PROVE IInv'
  BY <1>3 DEF Refresh, Fresh
<1>4. ASSUME NEW t \in delivered, RefreshReused(r, t) PROVE IInv'
  BY <1>4 DEF RefreshReused
<1>5. ASSUME NEW t \in delivered, RefreshExpired(r, t) PROVE IInv'
  BY <1>5 DEF RefreshExpired
<1>6. ASSUME NEW t \in delivered, Logout(r, t) PROVE IInv'
  BY <1>6 DEF Logout
<1>7. CASE RefreshUnknown(r)
  BY <1>7 DEF RefreshUnknown
<1>8. CASE LogoutIdle(r)
  BY <1>8 DEF LogoutIdle
<1> QED
  BY <1>1, <1>2, <1>3, <1>4, <1>5, <1>6, <1>7, <1>8
     DEF Arrive

\* Every step, those of the environment included, keeps the invariant.
LEMMA NextInv == IInv /\ [Next]_vars => IInv'
<1> SUFFICES ASSUME IInv, [Next]_vars PROVE IInv'
  OBVIOUS
<1>1. ASSUME NEW r \in Requests, Abort(r) PROVE IInv'
  BY <1>1 DEF Abort
<1>2. ASSUME NEW u \in Unsteady, SetActive(u) PROVE IInv'
  BY <1>2 DEF SetActive
<1>3. CASE Tick
  BY <1>3 DEF Tick
<1>4. CASE UNCHANGED vars
  BY <1>4 DEF vars
<1> QED
  BY <1>1, <1>2, <1>3, <1>4, StepInv, ArriveInv DEF Next

\* In every reachable state the invariant holds: the lemmas above, for ever.
THEOREM InvariantHolds == Spec => []IInv
BY InitInv, NextInv, PTL DEF Spec

\* Type correctness of the refresh-token lifecycle.
THEOREM TypeCorrect == Spec => []TypeOK
<1>1. IInv => TypeOK
  OBVIOUS
<1> QED
  BY <1>1, InvariantHolds, PTL

\* A refresh token is exchanged at most once (rotate_if_active), whatever the
\* number of requests that present it and the moment any of them dies.
THEOREM TokensAreSingleUse == Spec => []SingleUse
<1>1. IInv => SingleUse
  OBVIOUS
<1> QED
  BY <1>1, InvariantHolds, PTL

\* No user's sessions are burned by a refresh that presents no revoked token of
\* that user (service.refresh), in particular not because a token expired
\* between the check of the service and that of the UPDATE.
THEOREM BurnsAreJustified == Spec => []BurnsOnlyOnReuse
<1>1. IInv => BurnsOnlyOnReuse
  OBVIOUS
<1> QED
  BY <1>1, InvariantHolds, PTL

\* revoke_all_for_user leaves no live token of the user when it commits, however
\* logins and rotations of that user interleave with its statements.
THEOREM BurnsAreComplete == Spec => BurnLeavesNoSession
<1>1. ASSUME IInv, NEW r \in Requests, BurnCommit(r), NEW t \in Tokens, owner'[t] = subject[r]
      PROVE  revoked'[t] # NotRevoked
  BY <1>1 DEF BurnCommit
<1>2. IInv /\ [Next]_vars =>
        [\A r \in Requests :
            BurnCommit(r) => \A t \in Tokens : owner'[t] = subject[r] => revoked'[t] # NotRevoked]_vars
  BY <1>1
<1> QED
  BY <1>2, InvariantHolds, PTL DEF Spec, BurnLeavesNoSession

-----------------------------------------------------------------------------
(* RefreshTokens implements Sessions. *)

\* A step that changes neither a token row nor the history is a stutter.
LEMMA Quiet ==
    ASSUME UNCHANGED <<owner, revoked, parent>>
    PROVE  UNCHANGED Abstract!svars
BY DEF Abstract!svars, LiveTokens, IssuedTokens

\* The live tokens are a function on the users, so that EXCEPT applies to it.
LEMMA LiveTokensFunction ==
    /\ LiveTokens = [u \in Users |-> LiveTokens[u]]
    /\ LiveTokens' = [u \in Users |-> LiveTokens'[u]]
BY DEF LiveTokens

\* The COMMIT of a login opens a session.
LEMMA CreateCommitOpens ==
    ASSUME IInv, NEW r \in Requests, CreateCommit(r)
    PROVE  Abstract!Open(subject[r], minted[r])
<1> USE DEF CreateCommit
<1>1. minted[r] \notin IssuedTokens /\ IssuedTokens' = IssuedTokens \cup {minted[r]}
  BY DEF IssuedTokens
<1>2. LiveTokens' = [LiveTokens EXCEPT ![subject[r]] = @ \cup {minted[r]}]
  <2>1. ASSUME NEW u \in Users
        PROVE  LiveTokens'[u] = IF u = subject[r] THEN LiveTokens[u] \cup {minted[r]} ELSE LiveTokens[u]
    BY DEF LiveTokens
  <2> QED
    BY <2>1, LiveTokensFunction
<1> QED
  BY <1>1, <1>2 DEF Abstract!Open

\* The COMMIT of a rotation exchanges one live token for another.
LEMMA RotateCommitRenews ==
    ASSUME IInv, NEW r \in Requests, RotateCommit(r)
    PROVE  Abstract!Renew(subject[r], presented[r], minted[r])
<1> USE DEF RotateCommit
<1>1. minted[r] \notin IssuedTokens /\ IssuedTokens' = IssuedTokens \cup {minted[r]}
  BY DEF IssuedTokens
<1>2. presented[r] \in LiveTokens[subject[r]]
  BY DEF LiveTokens
<1>3. LiveTokens' =
        [LiveTokens EXCEPT ![subject[r]] = (@ \ {presented[r]}) \cup {minted[r]}]
  <2>1. ASSUME NEW u \in Users
        PROVE  LiveTokens'[u] = IF u = subject[r] THEN (LiveTokens[u] \ {presented[r]}) \cup {minted[r]} ELSE LiveTokens[u]
    BY DEF LiveTokens
  <2> QED
    BY <2>1, LiveTokensFunction
<1> QED
  BY <1>1, <1>2, <1>3 DEF Abstract!Renew

\* The COMMIT of a logout closes the session, if it is still open.
LEMMA RevokeCommitCloses ==
    ASSUME IInv, NEW r \in Requests, RevokeCommit(r)
    PROVE  Abstract!Close(subject[r], presented[r]) \/ UNCHANGED Abstract!svars
<1> USE DEF RevokeCommit
<1>1. IssuedTokens' = IssuedTokens /\ parent' = parent
  BY DEF IssuedTokens
<1>2. CASE revoked[presented[r]] = NotRevoked
  <2>1. presented[r] \in LiveTokens[subject[r]]
    BY <1>2 DEF LiveTokens
  <2>2. LiveTokens' = [LiveTokens EXCEPT ![subject[r]] = @ \ {presented[r]}]
    <3>1. ASSUME NEW u \in Users
          PROVE  LiveTokens'[u] = IF u = subject[r] THEN LiveTokens[u] \ {presented[r]} ELSE LiveTokens[u]
      BY <1>2 DEF LiveTokens
    <3> QED
      BY <3>1, LiveTokensFunction
  <2> QED
    BY <1>1, <2>1, <2>2 DEF Abstract!Close
<1>3. CASE revoked[presented[r]] # NotRevoked
  <2>1. LiveTokens' = LiveTokens
    BY <1>3 DEF LiveTokens
  <2> QED
    BY <1>1, <2>1 DEF Abstract!svars
<1> QED
  BY <1>2, <1>3

\* The COMMIT of revoke_all_for_user closes every session of the user.
LEMMA BurnCommitClosesAll ==
    ASSUME IInv, NEW r \in Requests, BurnCommit(r)
    PROVE  Abstract!CloseAll(subject[r])
<1> USE DEF BurnCommit
<1>1. IssuedTokens' = IssuedTokens /\ parent' = parent
  BY DEF IssuedTokens
<1>2. LiveTokens' = [LiveTokens EXCEPT ![subject[r]] = {}]
  <2>1. ASSUME NEW u \in Users
        PROVE  LiveTokens'[u] = IF u = subject[r] THEN {} ELSE LiveTokens[u]
    BY DEF LiveTokens
  <2> QED
    BY <2>1, LiveTokensFunction
<1> QED
  BY <1>1, <1>2 DEF Abstract!CloseAll

\* Every step of a handler is an operation of Sessions or a stutter.
LEMMA StepRefines ==
    ASSUME IInv, NEW r \in Requests, Step(r)
    PROVE  [Abstract!SessionsNext]_(Abstract!svars)
<1>0. subject[r] \in Users
  BY DEF Step, ResetFailedLogin, ResetAndRaise, CreateInsert, CreateCommit, Deliver, ReadUser,
              ReadInactiveUser, RotateLock, RotateConsume, RotateMiss,
              RotateCommit, RotationLost, RotationLostAndRaise, Answer,
              AnswerAndRaise, RevokeUpdate, RevokeCommit, BurnLock, BurnScan,
              BurnUpdate, BurnCommit
<1>1. CASE CreateCommit(r)
  <2>1. minted[r] \in Tokens
    BY <1>1 DEF CreateCommit
  <2> QED
    BY <1>0, <1>1, <2>1, CreateCommitOpens DEF Abstract!SessionsNext
<1>2. CASE RotateCommit(r)
  <2>1. minted[r] \in Tokens /\ presented[r] \in Tokens
    BY <1>2 DEF RotateCommit
  <2> QED
    BY <1>0, <1>2, <2>1, RotateCommitRenews DEF Abstract!SessionsNext
<1>3. CASE RevokeCommit(r)
  <2>1. presented[r] \in Tokens
    BY <1>3 DEF RevokeCommit
  <2> QED
    BY <1>0, <1>3, <2>1, RevokeCommitCloses DEF Abstract!SessionsNext
<1>4. CASE BurnCommit(r)
  BY <1>0, <1>4, BurnCommitClosesAll DEF Abstract!SessionsNext
<1>5. CASE ~(CreateCommit(r) \/ RotateCommit(r) \/ RevokeCommit(r) \/ BurnCommit(r))
  <2>1. UNCHANGED <<owner, revoked, parent>>
    BY <1>5 DEF Step, ResetFailedLogin, ResetAndRaise, CreateInsert, Deliver, ReadUser,
                ReadInactiveUser, RotateLock, RotateConsume, RotateMiss,
                RotationLost, RotationLostAndRaise, Answer, AnswerAndRaise,
                RevokeUpdate, BurnLock, BurnScan, BurnUpdate
  <2> QED
    BY <2>1, Quiet
<1> QED
  BY <1>1, <1>2, <1>3, <1>4, <1>5

\* So is every step.
LEMMA NextRefines == IInv /\ [Next]_vars => [Abstract!SessionsNext]_(Abstract!svars)
<1> SUFFICES ASSUME IInv, [Next]_vars PROVE [Abstract!SessionsNext]_(Abstract!svars)
  OBVIOUS
<1>1. ASSUME NEW r \in Requests, Arrive(r) \/ Abort(r) PROVE UNCHANGED <<owner, revoked, parent>>
  BY <1>1 DEF Arrive, Abort, Login, LogoutAll, Refresh, RefreshReused, RefreshExpired, Logout,
              RefreshUnknown, LogoutIdle
<1>2. ASSUME (\E u \in Unsteady : SetActive(u)) \/ Tick \/ UNCHANGED vars
      PROVE  UNCHANGED <<owner, revoked, parent>>
  BY <1>2 DEF SetActive, Tick, vars
<1> QED
  BY <1>1, <1>2, Quiet, StepRefines DEF Next

\* The statements of the handlers, interleaved under PostgreSQL's locks and with
\* any request dying at any point, implement the one-step operations of Sessions.
THEOREM ImplementsSessionsSpec == Spec => ImplementsSessions
<1>1. Init => Abstract!SessionsInit
  BY DEF Init, Abstract!SessionsInit, LiveTokens, IssuedTokens
<1> QED
  BY <1>1, NextRefines, InvariantHolds, PTL DEF Spec, ImplementsSessions, Abstract!SessionsSpec

-----------------------------------------------------------------------------
(* What Sessions promises, the tokens keep. *)

Promised == INSTANCE SessionsProofs WITH
    sessions <- LiveTokens, used <- IssuedTokens, origin <- parent

\* No interleaving of rotations, logouts, burns and deaths brings a revoked or an
\* exchanged token back to life, or gives it to another user.
THEOREM RevokedStaysRevoked == Spec => Abstract!SessionsStayClosed
<1>1. Abstract!SessionsInit => Promised!SessionsInit
  BY DEF Abstract!SessionsInit, Promised!SessionsInit
<1>2. [Abstract!SessionsNext]_(Abstract!svars) => [Promised!SessionsNext]_(Promised!svars)
  <2>1. Abstract!SessionsNext => Promised!SessionsNext
    BY DEF Abstract!SessionsNext, Abstract!Open, Abstract!Renew, Abstract!Close, Abstract!CloseAll,
       Promised!SessionsNext, Promised!Open, Promised!Renew, Promised!Close, Promised!CloseAll
  <2> QED BY <2>1 DEF Abstract!svars, Promised!svars
<1>3. Abstract!SessionsSpec => Promised!SessionsSpec
  BY <1>1, <1>2, PTL DEF Abstract!SessionsSpec, Promised!SessionsSpec
<1> DEFINE Closed == \A u \in Users : LiveTokens'[u] \cap IssuedTokens \subseteq LiveTokens[u]
<1>4. Promised!SessionsStayClosed => [][Closed]_(Promised!svars)
  BY DEF Promised!SessionsStayClosed
<1>5. [Closed]_(Promised!svars) => [Closed]_(Abstract!svars)
  BY DEF Abstract!svars, Promised!svars
<1> HIDE DEF Closed
<1>6. [][Closed]_(Promised!svars) => [][Closed]_(Abstract!svars)
  BY <1>5, PTL
<1>7. Spec => [][Closed]_(Abstract!svars)
  BY <1>3, <1>4, <1>6, Promised!StayClosed, ImplementsSessionsSpec, PTL DEF ImplementsSessions
<1> QED BY <1>7 DEF Closed, Abstract!SessionsStayClosed
=============================================================================
