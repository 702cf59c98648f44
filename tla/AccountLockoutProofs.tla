------------------------ MODULE AccountLockoutProofs ------------------------
(***************************************************************************)
(* Theorems about AccountLockout for any number of users and handlers, any *)
(* threshold and any duration of a lock, with proofs checked by TLAPS.     *)
(***************************************************************************)
EXTENDS AccountLockout, FiniteSetTheorems, TLAPS

\* What a handler took for the present is past, so a lock it saw expire has.
SnapshotInv == \A r \in Requests : now[r] <= clock

\* No lock, set or about to be, ends later than one that is decided on by now.
EndInv ==
    /\ \A u \in Users : lockedUntil[u] # NotLocked => lockedUntil[u] <= clock + LockoutDuration
    /\ \A r \in Requests : until[r] <= clock + LockoutDuration

\* ThresholdLocks needs nothing but the types to be inductive.
IInv == TypeOK /\ ThresholdLocks /\ SnapshotInv /\ EndInv

-----------------------------------------------------------------------------
\* Every call leaves each column in its range.
LEMMA TypeStep == TypeOK /\ [Next]_vars => TypeOK'
<1> SUFFICES ASSUME TypeOK, [Next]_vars PROVE TypeOK'
  OBVIOUS
<1> USE LockoutAssumption DEF TypeOK, PCs
<1>1. CASE UNCHANGED vars
  BY <1>1 DEF vars
<1>2. ASSUME NEW r \in Requests, Handler(r) PROVE TypeOK'
  <2>1. ASSUME NEW u \in Users, NEW v \in PCs, Login(r, u, v) PROVE TypeOK'
    BY <2>1 DEF Login, Begin, Goto, rows, history
  <2>2. ASSUME NEW u \in Users, NEW v \in PCs, LoginAfterLockout(r, u, v) PROVE TypeOK'
    BY <2>2 DEF LoginAfterLockout, Begin, Goto, rows, history
  <2>3. ASSUME NEW u \in Users, LoginRefused(r, u) PROVE TypeOK'
    BY <2>3 DEF LoginRefused, vars
  <2>4. CASE ResetExpiredLockout(r)
    BY <2>4 DEF ResetExpiredLockout, Forgive, Goto, locals, history
  <2>5. CASE ResetExpiredLockoutMiss(r)
    BY <2>5 DEF ResetExpiredLockoutMiss, Goto, rows, locals, history
  <2>6. CASE IncrementFailedLogin(r)
    <3>1. failedCount' \in [Users -> Nat]
      BY <2>6 DEF IncrementFailedLogin
    <3>2. until' \in [Requests -> Nat]
      BY <2>6 DEF IncrementFailedLogin, Finish
    <3>3. pc' \in [Requests -> PCs] /\ verdict' \in [Requests -> PCs]
      BY <2>6 DEF IncrementFailedLogin, Finish, Goto
    <3>4. now' \in [Requests -> Nat] /\ account' \in [Requests -> Users]
      BY <2>6 DEF IncrementFailedLogin, Finish
    <3> QED BY <2>6, <3>1, <3>2, <3>3, <3>4 DEF IncrementFailedLogin, history
  <2>7. CASE IncrementOverflow(r)
    BY <2>7 DEF IncrementOverflow, Finish, Goto, rows, history
  <2>8. CASE SetLockedUntil(r)
    BY <2>8 DEF SetLockedUntil, Finish, Goto, history
  <2>9. CASE ResetFailedLogin(r)
    BY <2>9 DEF ResetFailedLogin, Forgive, Finish, Goto
  <2>10. CASE Abort(r)
    BY <2>10 DEF Abort, Finish, Goto, rows
  <2> QED BY <1>2, <2>1, <2>2, <2>3, <2>4, <2>5, <2>6, <2>7, <2>8, <2>9, <2>10 DEF Handler
<1>3. ASSUME NEW u \in Users, SetActive(u) PROVE TypeOK'
  BY <1>3 DEF SetActive, rows, locals, history
<1>4. CASE Tick
  BY <1>4 DEF Tick, rows, locals
<1> QED BY <1>1, <1>2, <1>3, <1>4 DEF Next

\* The clock only moves forward, and a handler takes its `now` from it.
LEMMA SnapshotStep == TypeOK /\ SnapshotInv /\ [Next]_vars => SnapshotInv'
<1> SUFFICES ASSUME TypeOK, SnapshotInv, [Next]_vars, NEW q \in Requests
             PROVE  now'[q] <= clock'
  BY DEF SnapshotInv
<1> USE DEF TypeOK, SnapshotInv
<1>1. CASE UNCHANGED vars
  BY <1>1 DEF vars
<1>2. ASSUME NEW r \in Requests, Handler(r) PROVE now'[q] <= clock'
  <2>1. clock' = clock
    BY <1>2 DEF Handler, Login, LoginAfterLockout, LoginRefused, Begin, ResetExpiredLockout,
         ResetExpiredLockoutMiss, IncrementFailedLogin, IncrementOverflow, SetLockedUntil,
         ResetFailedLogin, Abort, vars
  <2>2. now'[q] \in {now[q], clock, 0}
    BY <1>2 DEF Handler, Login, LoginAfterLockout, LoginRefused, Begin, ResetExpiredLockout,
         ResetExpiredLockoutMiss, IncrementFailedLogin, IncrementOverflow, SetLockedUntil,
         ResetFailedLogin, Abort, Finish, vars, locals
  <2> QED BY <2>1, <2>2
<1>3. ASSUME NEW u \in Users, SetActive(u) PROVE now'[q] <= clock'
  BY <1>3 DEF SetActive, locals
<1>4. CASE Tick
  BY <1>4 DEF Tick, locals
<1> QED BY <1>1, <1>2, <1>3, <1>4 DEF Next

\* A lock is decided on at an instant that is past by the time it is set.
LEMMA EndStep == TypeOK /\ EndInv /\ [Next]_vars => EndInv'
<1> SUFFICES ASSUME TypeOK, EndInv, [Next]_vars PROVE EndInv'
  OBVIOUS
<1> USE LockoutAssumption DEF TypeOK, EndInv
<1>1. CASE UNCHANGED <<lockedUntil, until, clock>>
  BY <1>1
<1>2. ASSUME NEW r \in Requests, Handler(r) PROVE EndInv'
  <2>1. CASE ResetExpiredLockout(r) \/ ResetFailedLogin(r)
    BY <2>1 DEF ResetExpiredLockout, ResetFailedLogin, Forgive, Finish, locals
  <2>2. CASE IncrementFailedLogin(r)
    BY <2>2 DEF IncrementFailedLogin, Finish
  <2>3. CASE SetLockedUntil(r)
    BY <2>3 DEF SetLockedUntil, Finish
  <2>4. CASE ResetExpiredLockoutMiss(r) \/ IncrementOverflow(r) \/ Abort(r)
    BY <2>4 DEF ResetExpiredLockoutMiss, IncrementOverflow, Abort, Finish, rows, locals
  <2>5. ASSUME NEW u \in Users, NEW v \in PCs,
               Login(r, u, v) \/ LoginAfterLockout(r, u, v) \/ LoginRefused(r, u)
        PROVE  EndInv'
    BY <1>1, <2>5 DEF Login, LoginAfterLockout, LoginRefused, Begin, rows, vars
  <2> QED BY <1>2, <2>1, <2>2, <2>3, <2>4, <2>5 DEF Handler
<1>3. CASE Tick
  BY <1>3 DEF Tick, rows, locals
<1>4. CASE (\E u \in Users : SetActive(u)) \/ UNCHANGED vars
  BY <1>1, <1>4 DEF SetActive, rows, locals, vars
<1> QED BY <1>2, <1>3, <1>4 DEF Next

\* An account with its attempts used up stays locked or about to be: whoever takes
\* the lock away clears the count, and whoever was to lock it locks it or dies.
LEMMA ThresholdStep == TypeOK /\ ThresholdLocks /\ [Next]_vars => ThresholdLocks'
<1> DEFINE Due(u) == failedCount[u] >= MaxFailed /\ lockedUntil[u] = NotLocked
           Excused(u) == \/ \E r \in Requests : account[r] = u /\ pc[r] = "set_locked_until"
                         \/ u \in interrupted
<1> SUFFICES ASSUME TypeOK, ThresholdLocks, [Next]_vars, NEW u \in Users, Due(u)'
             PROVE  Excused(u)'
  BY DEF ThresholdLocks
<1> USE LockoutAssumption DEF TypeOK
<1>0. Due(u) => Excused(u)
  BY DEF ThresholdLocks
<1>1. CASE UNCHANGED vars
  BY <1>0, <1>1 DEF vars
<1>2. ASSUME NEW r \in Requests, Handler(r) PROVE Excused(u)'
  <2>1. ASSUME NEW w \in Users, NEW v \in PCs, Login(r, w, v) PROVE Excused(u)'
    BY <1>0, <2>1 DEF Login, Begin, Goto, rows, history
  <2>2. ASSUME NEW w \in Users, NEW v \in PCs, LoginAfterLockout(r, w, v) PROVE Excused(u)'
    BY <1>0, <2>2 DEF LoginAfterLockout, Begin, Goto, rows, history
  <2>3. ASSUME NEW w \in Users, LoginRefused(r, w) PROVE Excused(u)'
    BY <1>0, <2>3 DEF LoginRefused, vars
  <2>4. CASE ResetExpiredLockout(r)
    BY <1>0, <2>4 DEF ResetExpiredLockout, Forgive, Goto, locals, history
  <2>5. CASE ResetExpiredLockoutMiss(r)
    BY <1>0, <2>5 DEF ResetExpiredLockoutMiss, Goto, rows, locals, history
  <2>6. CASE IncrementFailedLogin(r)
    <3>1. CASE account[r] = u
      BY <2>6, <3>1 DEF IncrementFailedLogin, Reached, Finish, Goto
    <3>2. CASE account[r] # u
      <4>1. Due(u)
        BY <2>6, <3>2 DEF IncrementFailedLogin
      <4> QED BY <1>0, <2>6, <4>1 DEF IncrementFailedLogin, Finish, Goto, history
    <3> QED BY <3>1, <3>2
  <2>7. CASE IncrementOverflow(r)
    BY <1>0, <2>7 DEF IncrementOverflow, Finish, Goto, rows, history
  <2>8. CASE SetLockedUntil(r)
    BY <1>0, <2>8 DEF SetLockedUntil, Finish, Goto, history
  <2>9. CASE ResetFailedLogin(r)
    BY <1>0, <2>9 DEF ResetFailedLogin, Forgive, Finish, Goto
  <2>10. CASE Abort(r)
    BY <1>0, <2>10 DEF Abort, Finish, Goto, rows
  <2> QED BY <1>2, <2>1, <2>2, <2>3, <2>4, <2>5, <2>6, <2>7, <2>8, <2>9, <2>10 DEF Handler
<1>3. ASSUME NEW w \in Users, SetActive(w) PROVE Excused(u)'
  BY <1>0, <1>3 DEF SetActive, rows, locals, history
<1>4. CASE Tick
  BY <1>0, <1>4 DEF Tick, rows, locals
<1> QED BY <1>1, <1>2, <1>3, <1>4 DEF Next

\* Nobody has failed and nothing runs at first.
LEMMA InitInv == Init => IInv
BY LockoutAssumption DEF Init, IInv, TypeOK, PCs, ThresholdLocks, SnapshotInv, EndInv

\* The parts of the invariant together carry each other.
LEMMA NextInv == IInv /\ [Next]_vars => IInv'
BY TypeStep, SnapshotStep, EndStep, ThresholdStep DEF IInv

\* In every reachable state the invariant holds.
THEOREM InvariantHolds == Spec => []IInv
BY InitInv, NextInv, PTL DEF Spec

\* Type correctness of the lockout.
THEOREM TypeCorrect == Spec => []TypeOK
<1>1. IInv => TypeOK
  BY DEF IInv
<1> QED BY <1>1, InvariantHolds, PTL

\* An account whose attempts are used up is locked, is about to be, or lost the
\* handler that was to lock it (AuthService.login, two transactions).
THEOREM ThresholdAlwaysLocks == Spec => []ThresholdLocks
<1>1. IInv => ThresholdLocks
  BY DEF IInv
<1> QED BY <1>1, InvariantHolds, PTL

-----------------------------------------------------------------------------
\* Only two calls take anything off an account: one for a right password, and one
\* that rechecks in the row itself that the lock has run out.
LEMMA ForgivingStep ==
    ASSUME IInv, Next, NEW u \in Users,
           \/ failedCount'[u] < failedCount[u]
           \/ lockedUntil[u] # NotLocked /\ lockedUntil'[u] = NotLocked
    PROVE  LockExpired(u) \/ RightPassword(u)
<1> USE LockoutAssumption DEF IInv, TypeOK
<1> DEFINE Kept == failedCount'[u] = failedCount[u] /\ lockedUntil'[u] = lockedUntil[u]
<1>0. ~Kept
  OBVIOUS
<1>1. ASSUME NEW r \in Requests, Handler(r)
      PROVE  \/ LockExpired(u)
             \/ account[r] = u /\ pc[r] = "reset_failed_login"
  <2>1. CASE ResetExpiredLockout(r)
    <3>1. account[r] = u
      BY <1>0, <2>1 DEF ResetExpiredLockout, Forgive
    <3>2. now[r] <= clock
      BY DEF SnapshotInv
    <3> QED BY <2>1, <3>1, <3>2 DEF ResetExpiredLockout, StillExpired, LockExpired
  <2>2. CASE ResetFailedLogin(r)
    BY <1>0, <2>2 DEF ResetFailedLogin, Forgive
  <2>3. CASE IncrementFailedLogin(r)
    <3>1. /\ failedCount'[u] \in {failedCount[u], failedCount[u] + 1}
          /\ lockedUntil' = lockedUntil
      BY <2>3 DEF IncrementFailedLogin
    <3> QED BY <3>1
  <2>4. CASE SetLockedUntil(r)
    <3>1. failedCount' = failedCount
      BY <2>4 DEF SetLockedUntil
    <3>2. lockedUntil'[u] \in {lockedUntil[u], until[r]}
      BY <2>4 DEF SetLockedUntil
    <3> QED BY <3>1, <3>2
  <2>5. CASE ResetExpiredLockoutMiss(r) \/ IncrementOverflow(r) \/ Abort(r)
    BY <1>0, <2>5 DEF ResetExpiredLockoutMiss, IncrementOverflow, Abort, rows
  <2>6. ASSUME NEW w \in Users, NEW v \in PCs, Login(r, w, v) \/ LoginAfterLockout(r, w, v)
        PROVE  FALSE
    BY <1>0, <2>6 DEF Login, LoginAfterLockout, Begin, rows
  <2>7. ASSUME NEW w \in Users, LoginRefused(r, w) PROVE FALSE
    BY <1>0, <2>7 DEF LoginRefused, vars
  <2> QED BY <1>1, <2>1, <2>2, <2>3, <2>4, <2>5, <2>6, <2>7 DEF Handler
<1>2. ASSUME NEW w \in Users, SetActive(w) PROVE FALSE
  BY <1>0, <1>2 DEF SetActive, rows
<1>3. CASE Tick
  BY <1>0, <1>3 DEF Tick, rows
<1> QED BY <1>1, <1>2, <1>3 DEF Next, RightPassword

\* Only set_locked_until replaces the end of a lock by another, and every lock ends at
\* the latest a duration from now: to be moved forward, the new end must be outdated.
LEMMA ShorteningStep ==
    ASSUME IInv, Next, NEW u \in Users,
           lockedUntil[u] # NotLocked, lockedUntil'[u] # NotLocked, lockedUntil'[u] < lockedUntil[u]
    PROVE  \E r \in Requests : account[r] = u /\ Late(r)
<1> USE LockoutAssumption DEF IInv, TypeOK
<1>0. lockedUntil'[u] # lockedUntil[u]
  OBVIOUS
<1>1. ASSUME NEW r \in Requests, Handler(r)
      PROVE  account[r] = u /\ Late(r)
  <2>1. CASE ResetExpiredLockout(r) \/ ResetFailedLogin(r)
    BY <1>0, <2>1 DEF ResetExpiredLockout, ResetFailedLogin, Forgive
  <2>2. CASE SetLockedUntil(r)
    <3>1. account[r] = u /\ lockedUntil'[u] = until[r]
      BY <1>0, <2>2 DEF SetLockedUntil
    <3>2. lockedUntil[u] <= clock + LockoutDuration
      BY DEF EndInv
    <3> QED BY <2>2, <3>1, <3>2 DEF SetLockedUntil, Late
  <2>3. CASE ResetExpiredLockoutMiss(r) \/ IncrementFailedLogin(r) \/ IncrementOverflow(r) \/ Abort(r)
    BY <1>0, <2>3 DEF ResetExpiredLockoutMiss, IncrementFailedLogin, IncrementOverflow, Abort, rows
  <2>4. ASSUME NEW w \in Users, NEW v \in PCs,
               Login(r, w, v) \/ LoginAfterLockout(r, w, v) \/ LoginRefused(r, w)
        PROVE  FALSE
    BY <1>0, <2>4 DEF Login, LoginAfterLockout, LoginRefused, Begin, rows, vars
  <2> QED BY <1>1, <2>1, <2>2, <2>3, <2>4 DEF Handler
<1>2. ASSUME NEW w \in Users, SetActive(w) PROVE FALSE
  BY <1>0, <1>2 DEF SetActive, rows
<1>3. CASE Tick
  BY <1>0, <1>3 DEF Tick, rows
<1> QED BY <1>1, <1>2, <1>3 DEF Next

\* Failures are forgotten and locks lifted by a right password or after the lock has run
\* out, and a lock is shortened only by a wrong password whose handler counted it before
\* the present (login, reset_expired_lockout, set_locked_until).
THEOREM EasingIsByRule == Spec => LockoutsEaseByRule
<1> DEFINE ByRule ==
      \A u \in Users :
        /\ \/ failedCount'[u] < failedCount[u]
           \/ lockedUntil[u] # NotLocked /\ lockedUntil'[u] = NotLocked
           => LockExpired(u) \/ RightPassword(u)
        /\ NotLocked \notin {lockedUntil[u], lockedUntil'[u]} /\ lockedUntil'[u] < lockedUntil[u]
           => \E r \in Requests : account[r] = u /\ Late(r)
<1>1. IInv /\ Next => ByRule
  BY ForgivingStep, ShorteningStep
<1>2. IInv /\ [Next]_vars => [ByRule]_vars
  BY <1>1
<1> HIDE DEF ByRule
<1>3. Spec => [][ByRule]_vars
  BY <1>2, InvariantHolds, PTL DEF Spec
<1> QED BY <1>3 DEF LockoutsEaseByRule, ByRule

-----------------------------------------------------------------------------
(* How many guesses there can be.  The invariant accounts for every handler *)
(* that still has a failure to count or a lock to set.                      *)

\* The handlers that are about to lock u, and those that may yet count a failure.
Locking(u) == {r \in Requests : account[r] = u /\ pc[r] = "set_locked_until"}
Counting(u) ==
    {r \in Requests : account[r] = u /\ pc[r] \in {"reset_expired_lockout", "increment_failed_login"}}

VerdictInv ==
    \A r \in Requests : verdict[r] \in {"idle", "increment_failed_login", "reset_failed_login"}

\* A handler that no tick has overtaken still has the present for its `now`.
PaceInv ==
    \A r \in Requests :
        pc[r] # "idle" /\ account[r] \notin outpaced =>
            /\ now[r] = clock
            /\ pc[r] = "set_locked_until" => until[r] = clock + LockoutDuration

\* While u is open, each failure past the threshold has a handler that will lock it.
\* While it is locked, nobody joins those that may still count.  Once the lock has
\* run out, they are gone.
GuessOK(u) ==
    /\ lockedUntil[u] = NotLocked => failedCount[u] <= MaxFailed - 1 + Cardinality(Locking(u))
    /\ Locked(u) =>
          failedCount[u] + Cardinality(Counting(u)) <= MaxFailed - 1 + Cardinality(Requests)
    /\ LockExpired(u) =>
          /\ failedCount[u] <= MaxFailed - 1 + Cardinality(Requests)
          /\ \A r \in Requests :
                account[r] = u => pc[r] \notin {"increment_failed_login", "set_locked_until"}

GuessInv == \A u \in Users \ (interrupted \cup outpaced) : GuessOK(u)

BoundInv == IInv /\ VerdictInv /\ PaceInv /\ GuessInv

\* No handler is in both sets, so together they are no more than the handlers.
LEMMA Crowd ==
    ASSUME NEW u \in Users
    PROVE  /\ IsFiniteSet(Locking(u)) /\ IsFiniteSet(Counting(u))
           /\ Cardinality(Requests) \in Nat
           /\ Cardinality(Locking(u)) \in Nat /\ Cardinality(Counting(u)) \in Nat
           /\ Cardinality(Locking(u)) + Cardinality(Counting(u)) <= Cardinality(Requests)
<1>1. /\ IsFiniteSet(Locking(u)) /\ IsFiniteSet(Counting(u))
      /\ IsFiniteSet(Locking(u) \cup Counting(u))
      /\ Cardinality(Locking(u) \cup Counting(u)) <= Cardinality(Requests)
  <2>1. /\ Locking(u) \subseteq Requests /\ Counting(u) \subseteq Requests
        /\ Locking(u) \cup Counting(u) \subseteq Requests
    BY DEF Locking, Counting
  <2> QED BY <2>1, FS_Subset, LockoutAssumption
<1>2. /\ Cardinality(Requests) \in Nat
      /\ Cardinality(Locking(u)) \in Nat /\ Cardinality(Counting(u)) \in Nat
  BY <1>1, FS_CardinalityType, LockoutAssumption
<1>3. Locking(u) \cap Counting(u) = {}
  BY DEF Locking, Counting
<1>4. Cardinality(Locking(u) \cup Counting(u)) = Cardinality(Locking(u)) + Cardinality(Counting(u))
  <2>1. Cardinality(Locking(u) \cup Counting(u)) =
          Cardinality(Locking(u)) + Cardinality(Counting(u)) - Cardinality(Locking(u) \cap Counting(u))
    BY <1>1, FS_Union
  <2>2. Cardinality(Locking(u) \cap Counting(u)) = 0
    BY <1>3, FS_EmptySet
  <2> QED BY <1>2, <2>1, <2>2
<1> QED BY <1>1, <1>2, <1>4

\* A password leads to one of two calls, or to none.
LEMMA VerdictStep == BoundInv /\ [Next]_vars => VerdictInv'
<1> SUFFICES ASSUME BoundInv, [Next]_vars, NEW q \in Requests
             PROVE  verdict'[q] \in {"idle", "increment_failed_login", "reset_failed_login"}
  BY DEF VerdictInv
<1>0. TypeOK /\ verdict[q] \in {"idle", "increment_failed_login", "reset_failed_login"}
  BY DEF BoundInv, IInv, VerdictInv
<1>1. ASSUME NEW r \in Requests, Handler(r)
      PROVE  verdict'[q] \in {"idle", "increment_failed_login", "reset_failed_login"}
  BY <1>0, <1>1 DEF Handler, Login, LoginAfterLockout, LoginRefused, Begin, ResetExpiredLockout,
     ResetExpiredLockoutMiss, IncrementFailedLogin, IncrementOverflow, SetLockedUntil,
     ResetFailedLogin, Abort, Finish, Verdicts, TypeOK, vars, locals
<1>2. CASE Tick \/ (\E u \in Users : SetActive(u)) \/ UNCHANGED vars
  BY <1>0, <1>2 DEF Tick, SetActive, vars, locals
<1> QED BY <1>1, <1>2 DEF Next

\* A tick overtakes whoever is running.
LEMMA PaceStep == BoundInv /\ [Next]_vars => PaceInv'
<1> SUFFICES ASSUME BoundInv, [Next]_vars, NEW q \in Requests,
                    pc'[q] # "idle", account'[q] \notin outpaced'
             PROVE  /\ now'[q] = clock'
                    /\ pc'[q] = "set_locked_until" => until'[q] = clock' + LockoutDuration
  BY DEF PaceInv
<1> USE DEF TypeOK
<1>0. TypeOK /\ PaceInv /\ VerdictInv
  BY DEF BoundInv, IInv
<1>1. CASE UNCHANGED <<pc[q], account[q], now[q], until[q], clock, outpaced>>
  BY <1>0, <1>1 DEF PaceInv
<1>2. ASSUME NEW r \in Requests, Handler(r)
      PROVE  /\ now'[q] = clock'
             /\ pc'[q] = "set_locked_until" => until'[q] = clock' + LockoutDuration
  <2>1. clock' = clock /\ outpaced' = outpaced
    BY <1>2 DEF Handler, Login, LoginAfterLockout, LoginRefused, Begin, ResetExpiredLockout,
       ResetExpiredLockoutMiss, IncrementFailedLogin, IncrementOverflow, SetLockedUntil,
       ResetFailedLogin, Abort, vars, history
  <2>2. CASE q # r
    BY <1>0, <1>1, <1>2, <2>1, <2>2
       DEF Handler, Login, LoginAfterLockout, LoginRefused, Begin, ResetExpiredLockout,
       ResetExpiredLockoutMiss, IncrementFailedLogin, IncrementOverflow, SetLockedUntil,
       ResetFailedLogin, Abort, Finish, Goto, vars, locals
  <2>3. CASE q = r
    <3>1. ASSUME NEW u \in Users, NEW v \in PCs, Login(r, u, v) \/ LoginAfterLockout(r, u, v)
          PROVE  now'[q] = clock' /\ pc'[q] # "set_locked_until"
      BY <1>0, <2>1, <2>3, <3>1 DEF Login, LoginAfterLockout, Begin, Goto, Verdicts
    <3>2. CASE ResetExpiredLockout(r) \/ ResetExpiredLockoutMiss(r)
      BY <1>0, <2>1, <2>3, <3>2
         DEF ResetExpiredLockout, ResetExpiredLockoutMiss, Goto, locals, PaceInv, VerdictInv
    <3>3. CASE IncrementFailedLogin(r)
      BY <1>0, <2>1, <2>3, <3>3 DEF IncrementFailedLogin, Finish, Goto, PaceInv
    <3>4. CASE IncrementOverflow(r) \/ SetLockedUntil(r) \/ ResetFailedLogin(r) \/ Abort(r)
      BY <1>0, <2>3, <3>4
         DEF IncrementOverflow, SetLockedUntil, ResetFailedLogin, Abort, Finish, Goto
    <3>5. ASSUME NEW u \in Users, LoginRefused(r, u)
          PROVE  UNCHANGED <<pc[q], account[q], now[q], until[q], clock, outpaced>>
      BY <3>5 DEF LoginRefused, vars
    <3> QED BY <1>1, <1>2, <3>1, <3>2, <3>3, <3>4, <3>5 DEF Handler
  <2> QED BY <2>2, <2>3
<1>3. CASE Tick
  BY <1>0, <1>3 DEF Tick, locals
<1>4. CASE (\E u \in Users : SetActive(u)) \/ UNCHANGED vars
  BY <1>1, <1>4 DEF SetActive, vars, locals, history
<1> QED BY <1>2, <1>3, <1>4 DEF Next

\* An account is no worse off when its row stands and handlers only leave.
LEMMA Fewer ==
    ASSUME TypeOK, NEW u \in Users, GuessOK(u), UNCHANGED <<failedCount[u], lockedUntil[u], clock>>,
           Locking(u)' = Locking(u), Counting(u)' \subseteq Counting(u),
           LockExpired(u) =>
              \A q \in Requests :
                 account'[q] = u => pc'[q] \notin {"increment_failed_login", "set_locked_until"}
    PROVE  GuessOK(u)'
<1> USE LockoutAssumption
<1>1. /\ failedCount[u] \in Nat /\ clock \in Nat
      /\ Cardinality(Requests) \in Nat /\ Cardinality(Locking(u)) \in Nat
      /\ Cardinality(Counting(u)) \in Nat
  BY Crowd DEF TypeOK
<1>2. Cardinality(Counting(u)') \in Nat /\ Cardinality(Counting(u)') <= Cardinality(Counting(u))
  <2>1. IsFiniteSet(Counting(u))
    BY Crowd
  <2> QED BY <2>1, FS_Subset, FS_CardinalityType
<1> QED BY <1>1, <1>2 DEF GuessOK, Locked, LockExpired

\* A handler that begins has not failed yet, and finds no active lock.
LEMMA BeginKeepsBound ==
    ASSUME BoundInv, NEW r \in Requests, NEW w \in Users, NEW v \in PCs,
           Login(r, w, v) \/ LoginAfterLockout(r, w, v), NEW u \in Users, GuessOK(u)
    PROVE  GuessOK(u)'
<1>0. TypeOK /\ NotLocked \notin Nat
  BY LockoutAssumption DEF BoundInv, IInv
<1>1. /\ UNCHANGED <<failedCount, lockedUntil, clock>>
      /\ \A q \in Requests : q # r => account'[q] = account[q] /\ pc'[q] = pc[q]
      /\ pc[r] = "idle" /\ account'[r] = w /\ pc'[r] # "set_locked_until"
      /\ pc'[r] = "increment_failed_login" => lockedUntil[w] = NotLocked
      /\ lockedUntil[w] = NotLocked \/ LockExpired(w)
  BY <1>0 DEF Login, LoginAfterLockout, Begin, Goto, Verdicts, Open, rows, TypeOK
<1>2. Locking(u)' = Locking(u)
  BY <1>1 DEF Locking
<1>3. CASE w # u
  <2>1. Counting(u)' = Counting(u)
    BY <1>1, <1>3 DEF Counting
  <2> QED BY <1>0, <1>1, <1>2, <1>3, <2>1, Fewer DEF GuessOK
<1>4. CASE w = u
  <2>1. ~Locked(u)' /\ failedCount[u] \in Nat
    BY <1>0, <1>1, <1>4 DEF Locked, LockExpired, TypeOK
  <2> QED BY <1>0, <1>1, <1>2, <1>4, <2>1 DEF GuessOK, LockExpired
<1> QED BY <1>3, <1>4

\* A step of a handler of u, while none of u's is dead or overtaken.
LEMMA OwnAccount ==
    ASSUME BoundInv, NEW r \in Requests, NEW u \in Users, account[r] = u,
           \/ ResetExpiredLockout(r) \/ ResetExpiredLockoutMiss(r)
           \/ IncrementFailedLogin(r) \/ IncrementOverflow(r) \/ SetLockedUntil(r)
           \/ ResetFailedLogin(r) \/ Abort(r),
           u \notin (interrupted \cup outpaced)'
    PROVE  GuessOK(u)'
<1> DEFINE C == Cardinality(Counting(u))
           L == Cardinality(Locking(u))
           R == Cardinality(Requests)
<1> USE LockoutAssumption
<1>0. /\ TypeOK /\ verdict[r] \in {"idle", "increment_failed_login", "reset_failed_login"}
      /\ failedCount[u] \in Nat /\ clock \in Nat /\ until[r] \in Nat
      /\ pc \in [Requests -> PCs] /\ failedCount \in [Users -> Nat]
      /\ lockedUntil \in [Users -> Nat \cup {NotLocked}]
  BY DEF BoundInv, IInv, VerdictInv, TypeOK
<1>1. /\ account' = account /\ outpaced' = outpaced /\ clock' = clock
      /\ \A q \in Requests : q # r => pc'[q] = pc[q]
  BY <1>0 DEF ResetExpiredLockout, ResetExpiredLockoutMiss,
     IncrementFailedLogin, IncrementOverflow, SetLockedUntil, ResetFailedLogin, Abort, Finish, Goto,
     locals, history
<1>2. /\ R \in Nat /\ L \in Nat /\ C \in Nat /\ L + C <= R
      /\ IsFiniteSet(Locking(u)) /\ IsFiniteSet(Counting(u))
  BY Crowd
<1>3. CASE ResetExpiredLockout(r) \/ ResetFailedLogin(r)
  <2>1. failedCount'[u] = 0 /\ lockedUntil'[u] = NotLocked
    BY <1>0, <1>3 DEF ResetExpiredLockout, ResetFailedLogin, Forgive
  <2>2. Cardinality(Locking(u)') \in Nat
    <3>1. Locking(u)' \subseteq Requests
      BY DEF Locking
    <3> QED BY <3>1, FS_Subset, FS_CardinalityType
  <2> QED BY <2>1, <2>2 DEF GuessOK, Locked, LockExpired
<1>4. ASSUME ~ResetFailedLogin(r) PROVE u \notin interrupted \cup outpaced
  BY <1>1, <1>4 DEF ResetExpiredLockout, ResetExpiredLockoutMiss,
     IncrementFailedLogin, IncrementOverflow, SetLockedUntil, Abort, history
<1>5. ASSUME ~ResetFailedLogin(r), pc[r] # "idle"
      PROVE  /\ GuessOK(u) /\ now[r] = clock
             /\ pc[r] = "set_locked_until" => until[r] = clock + LockoutDuration
  BY <1>4, <1>5 DEF BoundInv, GuessInv, PaceInv
<1>6. CASE ResetExpiredLockoutMiss(r)
  <2>1. /\ pc[r] = "reset_expired_lockout" /\ pc'[r] = verdict[r]
        /\ UNCHANGED <<failedCount, lockedUntil>> /\ ~StillExpired(r)
    BY <1>0, <1>6 DEF ResetExpiredLockoutMiss, Goto, rows
  <2>2. GuessOK(u) /\ ~LockExpired(u)
    BY <1>5, <1>6, <2>1 DEF ResetFailedLogin, StillExpired, LockExpired
  <2>3. Locking(u)' = Locking(u) /\ Counting(u)' \subseteq Counting(u)
    BY <1>0, <1>1, <2>1 DEF Locking, Counting
  <2> QED BY <1>0, <1>1, <2>1, <2>2, <2>3, Fewer
<1>7. CASE IncrementFailedLogin(r)
  <2>1. /\ pc[r] = "increment_failed_login" /\ lockedUntil' = lockedUntil
        /\ failedCount'[u] = failedCount[u] + 1
        /\ \/ pc'[r] = "set_locked_until"
           \/ pc'[r] = "idle" /\ failedCount[u] + 1 < MaxFailed
    BY <1>0, <1>7 DEF IncrementFailedLogin, Reached, Finish, Goto
  <2>2. GuessOK(u) /\ ~LockExpired(u)
    BY <1>5, <1>7, <2>1 DEF ResetFailedLogin, GuessOK
  <2>3. Cardinality(Counting(u)') = C - 1
    <3>1. Counting(u)' = Counting(u) \ {r} /\ r \in Counting(u)
      BY <1>1, <2>1 DEF Counting
    <3>2. IsFiniteSet(Counting(u))
      BY <1>2
    <3>3. Cardinality(Counting(u) \ {r}) = Cardinality(Counting(u)) - 1
      BY <3>1, <3>2, FS_RemoveElement
    <3> QED BY <3>1, <3>3
  <2>4. CASE pc'[r] = "set_locked_until"
    <3>1. Locking(u)' = Locking(u) \cup {r} /\ r \notin Locking(u)
      BY <1>1, <2>1, <2>4 DEF Locking
    <3>2. Cardinality(Locking(u)') = L + 1
      BY <1>2, <3>1, FS_AddElement
    <3> QED BY <1>0, <1>1, <1>2, <2>1, <2>2, <2>3, <3>2 DEF GuessOK, Locked, LockExpired
  <2>5. CASE pc'[r] = "idle" /\ failedCount[u] + 1 < MaxFailed
    <3>1. Locking(u)' = Locking(u)
      BY <1>1, <2>1, <2>5 DEF Locking
    <3> QED BY <1>0, <1>1, <1>2, <2>1, <2>2, <2>3, <2>5, <3>1 DEF GuessOK, Locked, LockExpired
  <2> QED BY <2>1, <2>4, <2>5
<1>8. CASE IncrementOverflow(r) \/ Abort(r)
  <2>1. /\ pc[r] # "idle" /\ pc[r] # "set_locked_until" /\ pc'[r] = "idle"
        /\ UNCHANGED <<failedCount, lockedUntil>>
    BY <1>0, <1>8 DEF IncrementOverflow, Abort, Finish, Goto, rows
  <2>2. GuessOK(u)
    BY <1>5, <1>8, <2>1 DEF ResetFailedLogin, IncrementOverflow, BoundInv, GuessInv, Abort
  <2>3. Locking(u)' = Locking(u) /\ Counting(u)' \subseteq Counting(u)
    BY <1>1, <2>1 DEF Locking, Counting
  <2> QED BY <1>0, <1>1, <2>1, <2>2, <2>3, Fewer DEF GuessOK
<1>9. CASE SetLockedUntil(r)
  <2>1. /\ pc[r] = "set_locked_until" /\ pc'[r] = "idle" /\ failedCount' = failedCount
        /\ lockedUntil'[u] = until[r]
    BY <1>0, <1>9 DEF SetLockedUntil, Finish, Goto
  <2>2. GuessOK(u) /\ ~LockExpired(u) /\ until[r] = clock + LockoutDuration
    BY <1>5, <1>9, <2>1 DEF ResetFailedLogin, GuessOK
  <2>3. Counting(u)' = Counting(u)
    BY <1>1, <2>1 DEF Counting
  <2>4. failedCount[u] + C <= MaxFailed - 1 + R
    BY <1>0, <1>2, <2>2 DEF GuessOK, Locked, LockExpired
  <2> QED BY <1>0, <1>1, <1>2, <2>1, <2>2, <2>3, <2>4 DEF GuessOK, Locked, LockExpired
<1> QED BY <1>3, <1>6, <1>7, <1>8, <1>9

\* A step of another account's handler is no concern of u.
LEMMA OtherAccount ==
    ASSUME TypeOK, NEW r \in Requests, NEW u \in Users, GuessOK(u), account[r] # u,
           \/ ResetExpiredLockout(r) \/ ResetExpiredLockoutMiss(r)
           \/ IncrementFailedLogin(r) \/ IncrementOverflow(r) \/ SetLockedUntil(r)
           \/ ResetFailedLogin(r) \/ Abort(r)
    PROVE  GuessOK(u)'
<1>1. UNCHANGED <<failedCount[u], lockedUntil[u], clock>>
  BY DEF ResetExpiredLockout, ResetExpiredLockoutMiss, IncrementFailedLogin, IncrementOverflow,
     SetLockedUntil, ResetFailedLogin, Abort, Forgive, rows, TypeOK
<1>2. /\ account' = account
      /\ \A q \in Requests : q # r => pc'[q] = pc[q]
  BY DEF ResetExpiredLockout, ResetExpiredLockoutMiss, IncrementFailedLogin, IncrementOverflow,
     SetLockedUntil, ResetFailedLogin, Abort, Finish, Goto, locals, TypeOK
<1>3. Locking(u)' = Locking(u) /\ Counting(u)' = Counting(u)
  BY <1>2 DEF Locking, Counting
<1> QED BY <1>1, <1>2, <1>3, Fewer DEF GuessOK

\* Each step keeps the account of the guesses.
LEMMA GuessStep == BoundInv /\ [Next]_vars => GuessInv'
<1> SUFFICES ASSUME BoundInv, [Next]_vars, NEW u \in Users, u \notin (interrupted \cup outpaced)'
             PROVE  GuessOK(u)'
  BY DEF GuessInv
<1> USE LockoutAssumption
<1>0. TypeOK /\ GuessInv
  BY DEF BoundInv, IInv
<1>1. ASSUME NEW r \in Requests, Handler(r) PROVE GuessOK(u)'
  <2>1. ASSUME ~ResetFailedLogin(r) PROVE GuessOK(u)
    <3>1. interrupted \subseteq interrupted' /\ outpaced' = outpaced
      BY <1>1, <2>1 DEF Handler, Login, LoginAfterLockout, LoginRefused, Begin, ResetExpiredLockout,
         ResetExpiredLockoutMiss, IncrementFailedLogin, IncrementOverflow, SetLockedUntil, Abort,
         vars, history
    <3> QED BY <1>0, <3>1 DEF GuessInv
  <2>2. ASSUME NEW w \in Users, NEW v \in PCs, Login(r, w, v) \/ LoginAfterLockout(r, w, v)
        PROVE  GuessOK(u)'
    BY <2>1, <2>2, BeginKeepsBound DEF Login, LoginAfterLockout, ResetFailedLogin
  <2>3. ASSUME NEW w \in Users, LoginRefused(r, w) PROVE GuessOK(u)'
    <3>1. GuessOK(u)
      BY <2>1, <2>3 DEF LoginRefused, ResetFailedLogin
    <3> QED BY <2>3, <3>1 DEF LoginRefused, vars, GuessOK, Locking, Counting, Locked, LockExpired
  <2>4. CASE \/ ResetExpiredLockout(r) \/ ResetExpiredLockoutMiss(r)
             \/ IncrementFailedLogin(r) \/ IncrementOverflow(r) \/ SetLockedUntil(r)
             \/ ResetFailedLogin(r) \/ Abort(r)
    <3>1. CASE account[r] = u
      BY <2>4, <3>1, OwnAccount
    <3>2. CASE account[r] # u
      <4>1. GuessOK(u)
        <5>1. u \notin interrupted \cup outpaced
          BY <2>4, <3>2 DEF ResetExpiredLockout, ResetExpiredLockoutMiss, IncrementFailedLogin,
             IncrementOverflow, SetLockedUntil, ResetFailedLogin, Abort, history
        <5> QED BY <1>0, <5>1 DEF GuessInv
      <4> QED BY <1>0, <2>4, <3>2, <4>1, OtherAccount
    <3> QED BY <3>1, <3>2
  <2> QED BY <1>1, <2>2, <2>3, <2>4 DEF Handler
<1>2. CASE Tick
  <2>1. /\ UNCHANGED <<failedCount, lockedUntil, pc, account, interrupted>>
        /\ clock' = clock + 1 /\ clock \in Nat
        /\ outpaced' = outpaced \cup {account[r] : r \in {q \in Requests : pc[q] # "idle"}}
    BY <1>0, <1>2 DEF Tick, rows, locals, TypeOK
  <2>2. \A r \in Requests : account[r] = u => pc[r] = "idle"
    BY <2>1
  <2>3. Locking(u) = {} /\ Counting(u) = {} /\ Locking(u)' = {} /\ Counting(u)' = {}
    BY <2>1, <2>2 DEF Locking, Counting
  <2>4. Cardinality({}) = 0 /\ Cardinality(Requests) \in Nat
    BY FS_EmptySet, Crowd
  <2>5. GuessOK(u)
    BY <1>0, <2>1 DEF GuessInv
  <2>6. failedCount[u] \in Nat /\ lockedUntil[u] \in Nat \cup {NotLocked}
    BY <1>0 DEF TypeOK
  <2> QED BY <2>1, <2>2, <2>3, <2>4, <2>5, <2>6 DEF GuessOK, Locked, LockExpired
<1>3. CASE (\E w \in Users : SetActive(w)) \/ UNCHANGED vars
  <2>1. UNCHANGED <<failedCount, lockedUntil, pc, account, clock, interrupted, outpaced>>
    BY <1>3 DEF SetActive, vars, rows, locals, history
  <2>2. GuessOK(u)
    BY <1>0, <2>1 DEF GuessInv
  <2> QED BY <2>1, <2>2 DEF GuessOK, Locking, Counting, Locked, LockExpired
<1> QED BY <1>1, <1>2, <1>3 DEF Next

\* At first nobody has failed and nothing runs.
LEMMA BoundInit == Init => BoundInv
<1> SUFFICES ASSUME Init PROVE BoundInv
  OBVIOUS
<1>1. VerdictInv /\ PaceInv
  BY DEF Init, VerdictInv, PaceInv
<1>2. ASSUME NEW u \in Users PROVE GuessOK(u)
  BY Crowd, LockoutAssumption DEF Init, GuessOK, Locked, LockExpired
<1> QED BY <1>1, <1>2, InitInv DEF BoundInv, GuessInv

\* Guessing in parallel gains less than one guess per handler over the setting
\* (AuthService.login), unless a handler died or was overtaken by the clock.
THEOREM ParallelGuessesAreBounded == Spec => []GuessesAreBounded
<1>1. BoundInv /\ [Next]_vars => BoundInv'
  <2>1. BoundInv /\ [Next]_vars => IInv'
    BY NextInv DEF BoundInv
  <2> QED BY <2>1, VerdictStep, PaceStep, GuessStep DEF BoundInv
<1>2. BoundInv => GuessesAreBounded
  <2> SUFFICES ASSUME BoundInv, NEW u \in Users \ (interrupted \cup outpaced)
               PROVE  failedCount[u] < MaxFailed + Cardinality(Requests)
    BY DEF GuessesAreBounded
  <2>1. GuessOK(u)
    BY DEF BoundInv, GuessInv
  <2>2. /\ failedCount[u] \in Nat /\ clock \in Nat /\ lockedUntil[u] \in Nat \cup {NotLocked}
    BY DEF BoundInv, IInv, TypeOK
  <2> QED BY <2>1, <2>2, Crowd, LockoutAssumption DEF GuessOK, Locked, LockExpired
<1> QED BY <1>1, <1>2, BoundInit, PTL DEF Spec
=============================================================================
