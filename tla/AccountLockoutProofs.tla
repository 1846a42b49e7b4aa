------------------------ MODULE AccountLockoutProofs ------------------------
(***************************************************************************)
(* Proofs about the two components of module/account_lockout:              *)
(* AccountLockout, for any number of logins, any thresholds and any number *)
(* of fields of the lock, and AuditQueue, for any number of events and any *)
(* batch size, 0 included.                                                 *)
(***************************************************************************)
EXTENDS AccountLockout, AuditQueue, SequenceTheorems, TLAPS

(***************************************************************************)
(* AccountLockout.                                                         *)
(***************************************************************************)
\* A login waits for the breaker or for EXISTS exactly while it checks, and has
\* HSETs left while it locks.
CallsAreChecks ==
  \A a \in Attempts:
    /\ call[a] # "idle" <=> login[a].pc = "check"
    /\ login[a].pc = "setLock" => login[a].left > 0

\* The counter shows no more failures than there were since it was last gone.
FailuresAreCounted == count <= failures

\* What a login learnt of the lock was true at some moment of its check.
SawALock(a) == observed[a] \cap {"bare", "timed"} # {}
SawAGap(a)  == observed[a] \cap {"absent", "bare"} # {}
AnswerWasTrue(a) ==
  /\ login[a].pc = "check" /\ login[a].found => SawALock(a)
  /\ call[a] = "succeeded" /\ ~login[a].found => SawAGap(a)
  /\ login[a].pc = "ttl" => SawALock(a)
  /\ login[a].pc = "cleanup" => SawAGap(a)
AnswersWereTrue == \A a \in Attempts: AnswerWasTrue(a)

LockoutInv ==
  /\ TypeOK
  /\ CallsAreChecks /\ FailuresAreCounted /\ AnswersWereTrue

----------------------------------------------------------------------------
LEMMA InitLockout == Init => LockoutInv
<1> SUFFICES ASSUME Init PROVE LockoutInv
  OBVIOUS
<1>1. Breaker!TypeOK
  BY ConfigAssumption DEF Init, Breaker!Init, Breaker!TypeOK, Breaker!States, Breaker!Steps
<1>2. Idle \in Login
  BY ConfigAssumption DEF Idle, At, Login
<1>3. login \in [Attempts -> Login]
  BY <1>2 DEF Init
<1>4. count \in 0..MaxFailedAttempts /\ failures \in 0..MaxFailedAttempts
  BY ConfigAssumption DEF Init
<1>5. lock \in Locks /\ observed \in [Attempts -> SUBSET Locks]
  BY DEF Init, Locks
<1>6. TypeOK
  BY <1>1, <1>3, <1>4, <1>5, Zenon DEF Init, TypeOK
<1>7. CallsAreChecks /\ AnswersWereTrue
  BY DEF Init, Breaker!Init, Idle, At, CallsAreChecks, AnswersWereTrue, AnswerWasTrue
<1> QED
  BY <1>6, <1>7 DEF Init, LockoutInv, FailuresAreCounted

(***************************************************************************)
(* Types.                                                                  *)
(***************************************************************************)
\* What Observe notes are states of the lock.
LEMMA ObserveTypes ==
  ASSUME TypeOK, lock' \in Locks, Observe PROVE observed' \in [Attempts -> SUBSET Locks]
BY DEF TypeOK, Observe

\* A login moves to a step that has no HSETs left to do, or to another local state.
LEMMA GotoTypes ==
  ASSUME TypeOK, NEW a \in Attempts
  PROVE  /\ Refused \in Login /\ Passed \in Login /\ Locking \in Login
         /\ At("check") \in Login /\ At("ttl") \in Login /\ At("breakerOpen") \in Login
         /\ \A step \in {"cleanup", "increment", "reset", "idle"}:
               Goto(a, step) => login' \in [Attempts -> Login]
         /\ \A changed \in Login: Update(a, changed) => login' \in [Attempts -> Login]
<1>1. Locking \in Login
  BY ConfigAssumption DEF Locking, Login
<1>2. \A step \in {"idle", "breakerOpen", "password", "check", "ttl"}: At(step) \in Login
  BY ConfigAssumption DEF At, Login
<1>3. \A step \in {"cleanup", "increment", "reset", "idle"}:
        Goto(a, step) => login' \in [Attempts -> Login]
  BY DEF TypeOK, Login, Goto
<1>4. \A changed \in Login: Update(a, changed) => login' \in [Attempts -> Login]
  BY DEF TypeOK, Update
<1> QED
  BY <1>1, <1>2, <1>3, <1>4 DEF Refused, Passed, Idle, At

LEMMA TypeStep == ASSUME LockoutInv, [Next]_vars PROVE TypeOK'
<1> USE DEF LockoutInv
<1>1. CASE UNCHANGED vars
  BY <1>1 DEF vars, TypeOK, Breaker!TypeOK
<1>2. ASSUME NEW a \in Attempts, CheckLockStatus(a) PROVE TypeOK'
  BY <1>2, GotoTypes, ObserveTypes DEF CheckLockStatus, Breaker!CanExecute, Breaker!Move,
     Breaker!breaker, environment, TypeOK, Breaker!TypeOK, Breaker!Steps
<1>3. ASSUME NEW a \in Attempts, BreakerOpen(a) \/ ApplyFailMode(a) PROVE TypeOK'
  BY <1>3, GotoTypes, ObserveTypes DEF BreakerOpen, ApplyFailMode, FailMode, breakerVars, environment, TypeOK,
     Breaker!TypeOK
<1>4. ASSUME NEW a \in Attempts, Upgrade(a) PROVE TypeOK'
  BY <1>4, ObserveTypes DEF Upgrade, Breaker!Upgrade, Breaker!Move, redisVars, environment,
     TypeOK, Breaker!TypeOK, Breaker!States, Breaker!Steps
<1>5. ASSUME NEW a \in Attempts, Exists(a) PROVE TypeOK'
  BY <1>5, ObserveTypes DEF Exists, Breaker!Answer, Breaker!Move, Breaker!breaker, redisVars,
     environment, TypeOK, Breaker!TypeOK, Breaker!Steps, Login
<1>6. ASSUME NEW a \in Attempts, RecordFailure(a) PROVE TypeOK'
  <2>1. Breaker!TypeOK'
    <3>1. failureCount \in 0..Threshold /\ failureCount' \in 0..Threshold
      BY <1>6, ConfigAssumption DEF RecordFailure, Breaker!RecordFailure, TypeOK, Breaker!TypeOK
    <3>2. state' = "Closed" => failureCount' = 0 \/ failureCount' < Threshold
      BY <1>6, <3>1, ConfigAssumption DEF RecordFailure, Breaker!RecordFailure
    <3>3. state' \in Breaker!States /\ elapsed' \in BOOLEAN
      BY <1>6 DEF RecordFailure, Breaker!RecordFailure, TypeOK, Breaker!TypeOK, Breaker!States
    <3>4. call' \in [Attempts -> Breaker!Steps]
      BY <1>6 DEF RecordFailure, Breaker!RecordFailure, Breaker!Move, TypeOK, Breaker!TypeOK,
         Breaker!Steps
    <3> QED
      BY <3>1, <3>2, <3>3, <3>4 DEF Breaker!TypeOK
  <2>2. login' \in [Attempts -> Login]
    BY <1>6, GotoTypes DEF RecordFailure, FailMode
  <2> QED
    BY <1>6, <2>1, <2>2, ObserveTypes DEF RecordFailure, redisVars, environment, TypeOK
<1>7. ASSUME NEW a \in Attempts, RecordSuccess(a) PROVE TypeOK'
  BY <1>7, ConfigAssumption, GotoTypes, ObserveTypes DEF RecordSuccess, Breaker!RecordSuccess,
     Breaker!Move,
     redisVars, environment, TypeOK, Breaker!TypeOK, Breaker!States, Breaker!Steps
<1>8. ASSUME NEW a \in Attempts, Ttl(a) PROVE TypeOK'
  BY <1>8, GotoTypes, ObserveTypes DEF Ttl, breakerVars, redisVars, environment, TypeOK,
     Breaker!TypeOK
<1>9. ASSUME NEW a \in Attempts, Cleanup(a) PROVE TypeOK'
  BY <1>9, GotoTypes, ObserveTypes DEF Cleanup, breakerVars, environment, TypeOK,
     Breaker!TypeOK, Locks
<1>10. ASSUME NEW a \in Attempts, ComparePassword(a) PROVE TypeOK'
  BY <1>10, GotoTypes, ObserveTypes DEF ComparePassword, breakerVars, redisVars, environment,
     TypeOK, Breaker!TypeOK
<1>11. ASSUME NEW a \in Attempts, IncrementFailedAttemptCounter(a) PROVE TypeOK'
  BY <1>11, ConfigAssumption, GotoTypes, ObserveTypes DEF IncrementFailedAttemptCounter,
     CountFailure, UpTo, Refused, breakerVars,
     environment, TypeOK, Breaker!TypeOK
<1>12. ASSUME NEW a \in Attempts, SetLockField(a) PROVE TypeOK'
  <2>1. login' \in [Attempts -> Login]
    <3>1. CASE Update(a, Idle)
      BY <3>1, GotoTypes DEF Refused
    <3>2. CASE login' = [login EXCEPT ![a].left = @ - 1,
                           ![a].pc = IF login[a].left = 1 THEN "expireLock" ELSE "setLock"]
      <4>1. login[a] \in Login /\ login[a].left > 0
        BY <1>12 DEF SetLockField, CallsAreChecks, TypeOK
      <4>2. login[a].left - 1 \in 0..LockFields
        BY <4>1, ConfigAssumption DEF Login
      <4> QED
        BY <3>2, <4>2 DEF TypeOK, Login
    <3> QED
      BY <1>12, <3>1, <3>2 DEF SetLockField
  <2>2. lock' \in Locks
    BY <1>12 DEF SetLockField, SetField, TypeOK, Locks
  <2> QED
    BY <1>12, <2>1, <2>2, ObserveTypes DEF SetLockField, breakerVars, environment, TypeOK,
       Breaker!TypeOK
<1>13. ASSUME NEW a \in Attempts, ExpireLock(a) PROVE TypeOK'
  BY <1>13, GotoTypes, ObserveTypes DEF ExpireLock, Refused, breakerVars, environment, TypeOK,
     Breaker!TypeOK, Locks
<1>14. ASSUME NEW a \in Attempts, ResetCounter(a) PROVE TypeOK'
  BY <1>14, ConfigAssumption, GotoTypes, ObserveTypes DEF ResetCounter, ForgetFailures, Refused, breakerVars,
     environment, TypeOK,
     Breaker!TypeOK
<1>15. CASE UnlockAccount \/ DeleteCounter \/ LockExpires \/ CounterExpires
  BY <1>15, ConfigAssumption, ObserveTypes DEF UnlockAccount, DeleteCounter, LockExpires,
     CounterExpires, ForgetFailures,
     breakerVars, environment, TypeOK, Breaker!TypeOK, Locks
<1>16. CASE TimeoutElapses \/ RedisTurns
  BY <1>16, ObserveTypes DEF TimeoutElapses, Breaker!TimeoutElapses, RedisTurns, breakerVars,
     redisVars, environment,
     TypeOK, Breaker!TypeOK
<1>17. CASE Crash
  <2>1. login' \in [Attempts -> Login]
    BY <1>17, ConfigAssumption DEF Crash, Idle, At, Login
  <2> QED
    BY <1>17, <2>1, ConfigAssumption, ObserveTypes DEF Crash, Breaker!Restart, redisVars,
       environment, TypeOK,
       Breaker!TypeOK, Breaker!States, Breaker!Steps
<1> QED
  BY <1>1, <1>2, <1>3, <1>4, <1>5, <1>6, <1>7, <1>8, <1>9, <1>10, <1>11, <1>12, <1>13, <1>14,
     <1>15, <1>16, <1>17 DEF Next, LoginStep

(***************************************************************************)
(* The other parts of the invariant.                                       *)
(***************************************************************************)
\* A step of one login leaves the others where they are.
LEMMA OneLoginMoves ==
  ASSUME TypeOK, NEW a \in Attempts, CheckLockStatus(a) \/ BreakerOpen(a) \/ LoginStep(a)
  PROVE  /\ Observe
         /\ \A b \in Attempts \ {a}: login'[b] = login[b] /\ call'[b] = call[b]
<1> USE DEF TypeOK, Breaker!TypeOK, Update, Goto, Refused, Passed, Idle, At
<1>1. CASE CheckLockStatus(a)
  BY <1>1 DEF CheckLockStatus, Breaker!CanExecute, Breaker!Move
<1>2. CASE BreakerOpen(a) \/ ApplyFailMode(a)
  BY <1>2 DEF BreakerOpen, ApplyFailMode, FailMode, breakerVars
<1>3. CASE Upgrade(a) \/ Exists(a)
  BY <1>3 DEF Upgrade, Exists, Breaker!Upgrade, Breaker!Answer, Breaker!Move
<1>4. CASE RecordFailure(a) \/ RecordSuccess(a)
  BY <1>4 DEF RecordFailure, RecordSuccess, Breaker!RecordFailure, Breaker!RecordSuccess,
     Breaker!Move, FailMode
<1>5. CASE Ttl(a) \/ Cleanup(a) \/ ComparePassword(a)
  BY <1>5 DEF Ttl, Cleanup, ComparePassword, breakerVars
<1>6. CASE IncrementFailedAttemptCounter(a) \/ SetLockField(a)
  BY <1>6 DEF IncrementFailedAttemptCounter, SetLockField, breakerVars
<1>7. CASE ExpireLock(a) \/ ResetCounter(a)
  BY <1>7 DEF ExpireLock, ResetCounter, breakerVars
<1> QED
  BY <1>1, <1>2, <1>3, <1>4, <1>5, <1>6, <1>7 DEF LoginStep

\* What happens beside the logins leaves all of them where they are, or ends them.
LEMMA LoginsStayOrEnd ==
  ASSUME \/ UnlockAccount \/ DeleteCounter \/ LockExpires \/ CounterExpires \/ TimeoutElapses
         \/ RedisTurns \/ Crash
  PROVE  /\ Observe
         /\ \/ UNCHANGED <<login, call>>
            \/ login' = [a \in Attempts |-> Idle] /\ call' = [a \in Attempts |-> "idle"]
<1>1. CASE UnlockAccount \/ DeleteCounter \/ LockExpires \/ CounterExpires
  BY <1>1 DEF UnlockAccount, DeleteCounter, LockExpires, CounterExpires, breakerVars
<1>2. CASE TimeoutElapses \/ RedisTurns
  BY <1>2 DEF TimeoutElapses, Breaker!TimeoutElapses, RedisTurns, breakerVars
<1>3. CASE Crash
  BY <1>3 DEF Crash, Breaker!Restart
<1> QED
  BY <1>1, <1>2, <1>3

LEMMA CallsAreChecksStep == ASSUME LockoutInv, [Next]_vars PROVE CallsAreChecks'
<1> DEFINE Fits(a) == /\ call[a] # "idle" <=> login[a].pc = "check"
                      /\ login[a].pc = "setLock" => login[a].left > 0
<1>1. TypeOK /\ \A a \in Attempts: Fits(a) /\ login[a] \in Login
  BY DEF LockoutInv, TypeOK, CallsAreChecks
<1>2. CASE UNCHANGED vars
  BY <1>1, <1>2 DEF vars, CallsAreChecks
<1>3. ASSUME NEW a \in Attempts, CheckLockStatus(a) \/ BreakerOpen(a) \/ LoginStep(a)
      PROVE  Fits(a)'
  <2> USE <1>1 DEF TypeOK, Breaker!TypeOK, Update, Goto, Refused, Passed, Idle, At
  <2>1. CASE CheckLockStatus(a)
    BY <2>1 DEF CheckLockStatus, Breaker!CanExecute, Breaker!Move
  <2>2. CASE BreakerOpen(a) \/ ApplyFailMode(a)
    BY <2>2 DEF BreakerOpen, ApplyFailMode, FailMode, breakerVars
  <2>3. CASE Upgrade(a) \/ Exists(a)
    BY <2>3 DEF Upgrade, Exists, Breaker!Upgrade, Breaker!Answer, Breaker!Move, Login
  <2>4. CASE RecordFailure(a) \/ RecordSuccess(a)
    BY <2>4 DEF RecordFailure, RecordSuccess, Breaker!RecordFailure, Breaker!RecordSuccess,
       Breaker!Move, FailMode
  <2>5. CASE Ttl(a) \/ Cleanup(a) \/ ComparePassword(a)
    BY <2>5 DEF Ttl, Cleanup, ComparePassword, breakerVars, Login
  <2>6. CASE IncrementFailedAttemptCounter(a)
    BY <2>6, ConfigAssumption DEF IncrementFailedAttemptCounter, Locking, breakerVars
  <2>7. CASE SetLockField(a)
    BY <2>7, ConfigAssumption DEF SetLockField, breakerVars, Login
  <2>8. CASE ExpireLock(a) \/ ResetCounter(a)
    BY <2>8 DEF ExpireLock, ResetCounter, breakerVars
  <2> QED
    BY <1>3, <2>1, <2>2, <2>3, <2>4, <2>5, <2>6, <2>7, <2>8 DEF LoginStep
<1>4. ASSUME NEW a \in Attempts, CheckLockStatus(a) \/ BreakerOpen(a) \/ LoginStep(a)
      PROVE  CallsAreChecks'
  BY <1>1, <1>3, <1>4, OneLoginMoves DEF CallsAreChecks
<1>5. CASE UNCHANGED <<login, call>>
  BY <1>1, <1>5 DEF CallsAreChecks
<1>6. CASE login' = [a \in Attempts |-> Idle] /\ call' = [a \in Attempts |-> "idle"]
  BY <1>6 DEF CallsAreChecks, Idle, At
<1> QED
  BY <1>2, <1>4, <1>5, <1>6, LoginsStayOrEnd DEF Next

\* Only HINCRBY counts, and whatever takes the counter away starts the count anew.
LEMMA CountsStep == ASSUME LockoutInv, [Next]_vars PROVE FailuresAreCounted'
<1> USE ConfigAssumption DEF FailuresAreCounted
<1>1. FailuresAreCounted /\ count \in 0..MaxFailedAttempts /\ failures \in 0..MaxFailedAttempts
  BY DEF LockoutInv, TypeOK
<1>2. CASE UNCHANGED <<count, failures>>
  BY <1>1, <1>2
<1>3. CASE ForgetFailures
  BY <1>3 DEF ForgetFailures
<1>4. CASE CountFailure
  BY <1>1, <1>4 DEF CountFailure, UpTo
<1>5. ASSUME NEW a \in Attempts, CheckLockStatus(a) \/ BreakerOpen(a) \/ LoginStep(a)
      PROVE  UNCHANGED <<count, failures>> \/ ForgetFailures \/ CountFailure
  BY <1>5 DEF LoginStep, CheckLockStatus, BreakerOpen, ApplyFailMode, Upgrade, Exists,
     RecordFailure, RecordSuccess, Ttl, Cleanup, ComparePassword,
     IncrementFailedAttemptCounter, SetLockField, ExpireLock, ResetCounter, redisVars
<1>6. CASE \/ UnlockAccount \/ DeleteCounter \/ LockExpires \/ CounterExpires
           \/ TimeoutElapses \/ RedisTurns \/ Crash
  BY <1>2, <1>3, <1>6 DEF UnlockAccount, DeleteCounter, LockExpires, CounterExpires,
     TimeoutElapses, RedisTurns, Crash, redisVars
<1> QED
  BY <1>2, <1>3, <1>4, <1>5, <1>6 DEF Next, vars

\* While a check goes on, what it has seen of the lock only grows.
LEMMA ObservedGrows ==
  ASSUME TypeOK, Observe, NEW a \in Attempts, Checking(a), Checking(a)'
  PROVE  observed[a] \subseteq observed'[a] /\ lock' \in observed'[a]
BY DEF TypeOK, Observe

\* A login that stays where it is, or that is not checking, has nothing new to answer for.
LEMMA AnswerStays ==
  ASSUME LockoutInv, CallsAreChecks', Observe, NEW a \in Attempts,
         (login'[a] = login[a] /\ call'[a] = call[a]) \/ ~Checking(a)'
  PROVE  AnswerWasTrue(a)'
<1>1. TypeOK /\ AnswerWasTrue(a)
  BY DEF LockoutInv, AnswersWereTrue
<1>2. CASE ~Checking(a)'
  BY <1>2 DEF AnswerWasTrue, Checking, CallsAreChecks
<1>3. CASE Checking(a)' /\ login'[a] = login[a] /\ call'[a] = call[a]
  <2>1. Checking(a)
    BY <1>3 DEF Checking
  <2> QED
    BY <1>1, <1>3, <2>1, ObservedGrows DEF AnswerWasTrue, SawALock, SawAGap
<1> QED
  BY <1>2, <1>3

LEMMA AnswersStep == ASSUME LockoutInv, [Next]_vars PROVE AnswersWereTrue'
<1>1. TypeOK /\ CallsAreChecks /\ AnswersWereTrue /\ CallsAreChecks'
  BY CallsAreChecksStep DEF LockoutInv
<1>2. CASE UNCHANGED vars
  BY <1>1, <1>2 DEF vars, AnswersWereTrue, AnswerWasTrue, SawALock, SawAGap
<1>3. ASSUME NEW a \in Attempts, CheckLockStatus(a) \/ BreakerOpen(a) \/ LoginStep(a)
      PROVE  AnswerWasTrue(a)'
  <2>1. Observe /\ AnswerWasTrue(a)
    BY <1>1, <1>3, OneLoginMoves DEF AnswersWereTrue
  <2> USE <1>1, <2>1 DEF TypeOK, Update, Goto, Refused, Passed, Idle, At
  <2>2. CASE CheckLockStatus(a)
    BY <2>2 DEF CheckLockStatus, Breaker!CanExecute, Breaker!Move, Breaker!TypeOK, AnswerWasTrue
  <2>3. CASE Upgrade(a)
    BY <2>3, ObservedGrows DEF Upgrade, Breaker!Upgrade, Breaker!Move, Breaker!TypeOK,
       CallsAreChecks, Checking,
       AnswerWasTrue, SawALock, SawAGap
  <2>4. CASE Exists(a)
    <3>1. login[a].pc = "check" /\ login[a] \in Login /\ lock' = lock
      BY <2>4 DEF Exists, Breaker!Answer, CallsAreChecks, redisVars
    <3>2. login'[a].pc = "check" /\ (login'[a].found <=> call'[a] = "succeeded" /\ lock # "absent")
      BY <2>4, <3>1 DEF Exists, Login
    <3>3. lock \in observed'[a]
      BY <3>1, <3>2, ObservedGrows DEF Checking
    <3> QED
      BY <3>1, <3>2, <3>3 DEF Locks, AnswerWasTrue, SawALock, SawAGap
  <2>5. CASE RecordSuccess(a) /\ login[a].found
    BY <2>5, ObservedGrows DEF RecordSuccess, Breaker!RecordSuccess, Breaker!Move,
       Breaker!TypeOK, CallsAreChecks, Checking,
       AnswerWasTrue, SawALock
  <2>6. CASE Ttl(a) /\ login'[a].pc = "cleanup"
    BY <2>6, ObservedGrows DEF Ttl, Checking, redisVars, breakerVars, Locks, CallsAreChecks,
       AnswerWasTrue, SawAGap
  <2>7. CASE ~Checking(a)'
    BY <1>1, <2>1, <2>7, AnswerStays
  <2>8. CASE RecordFailure(a)
    BY <2>7, <2>8 DEF RecordFailure, FailMode, Checking
  <2>9. CASE RecordSuccess(a) /\ ~login[a].found
    BY <2>7, <2>9 DEF RecordSuccess, Checking
  <2>10. CASE Ttl(a) \/ Cleanup(a) \/ ComparePassword(a) \/ IncrementFailedAttemptCounter(a)
    BY <2>6, <2>7, <2>10 DEF Ttl, Cleanup, ComparePassword, IncrementFailedAttemptCounter,
       Locking, Login, Checking
  <2>11. CASE SetLockField(a) \/ ExpireLock(a) \/ ResetCounter(a)
    BY <2>7, <2>11 DEF SetLockField, ExpireLock, ResetCounter, Login, Checking
  <2>12. CASE BreakerOpen(a)
    BY <2>12, <1>1 DEF BreakerOpen, AnswerWasTrue, CallsAreChecks, breakerVars
  <2>13. CASE ApplyFailMode(a)
    BY <2>7, <2>13 DEF ApplyFailMode, FailMode, Checking
  <2> QED
    BY <1>3, <2>2, <2>3, <2>4, <2>5, <2>8, <2>9, <2>10, <2>11, <2>12, <2>13 DEF LoginStep
<1>4. ASSUME NEW a \in Attempts, CheckLockStatus(a) \/ BreakerOpen(a) \/ LoginStep(a)
      PROVE  AnswersWereTrue'
  BY <1>1, <1>3, <1>4, OneLoginMoves, AnswerStays DEF AnswersWereTrue
<1>5. CASE Observe /\ UNCHANGED <<login, call>>
  BY <1>1, <1>5, AnswerStays DEF AnswersWereTrue
<1>6. CASE Observe /\ login' = [a \in Attempts |-> Idle]
  BY <1>1, <1>6, AnswerStays DEF AnswersWereTrue, Checking, Idle, At
<1> QED
  BY <1>2, <1>4, <1>5, <1>6, LoginsStayOrEnd DEF Next

LEMMA LockoutStep == ASSUME LockoutInv, [Next]_vars PROVE LockoutInv'
BY TypeStep, CallsAreChecksStep, CountsStep, AnswersStep DEF LockoutInv

LEMMA LockoutInvariant == Spec => []LockoutInv
<1>1. LockoutInv /\ [Next]_vars => LockoutInv'
  BY LockoutStep
<1> QED
  BY <1>1, InitLockout, PTL DEF Spec

(***************************************************************************)
(* Theorems.                                                               *)
(***************************************************************************)
\* The breaker, the two keys and the logins keep their types, however logins,
\* unlocks, expiries, failures of Redis and crashes interleave; a closed breaker
\* has counted fewer failures than the threshold.
THEOREM TypeCorrect == Spec => []TypeOK
<1>1. LockoutInv => TypeOK
  BY DEF LockoutInv
<1> QED
  BY <1>1, LockoutInvariant, PTL

\* No login begins to lock the account but with the last of MaxFailedAttempts failures
\* since the counter was last gone, and no other login makes a lock.
THEOREM LocksNeedFailures == Spec => LockNeedsFailures
<1> DEFINE Begins(a) == login[a].pc # "setLock" /\ login'[a].pc = "setLock"
           Appears == lock = "absent" /\ lock' # "absent"
<1>1. ASSUME LockoutInv, Next, NEW a \in Attempts, Begins(a) PROVE failures' = MaxFailedAttempts
  <2> USE DEF Update, Goto, Refused, Passed, Idle, At
  <2>1. /\ TypeOK /\ FailuresAreCounted /\ login[a] \in Login
        /\ count \in 0..MaxFailedAttempts /\ failures \in 0..MaxFailedAttempts
    BY <1>1 DEF LockoutInv, TypeOK
  <2>2. CheckLockStatus(a) \/ BreakerOpen(a) \/ LoginStep(a)
    BY <1>1, <2>1, OneLoginMoves, LoginsStayOrEnd DEF Next
  <2>3. ~CheckLockStatus(a) /\ ~BreakerOpen(a) /\ ~ApplyFailMode(a)
    BY <1>1, <2>1 DEF CheckLockStatus, BreakerOpen, ApplyFailMode, FailMode, TypeOK
  <2>4. ~Upgrade(a) /\ ~Exists(a) /\ ~RecordFailure(a) /\ ~RecordSuccess(a)
    BY <1>1, <2>1 DEF Upgrade, Exists, RecordFailure, RecordSuccess, FailMode, TypeOK, Login
  <2>5. ~Ttl(a) /\ ~Cleanup(a) /\ ~ComparePassword(a) /\ ~SetLockField(a)
    BY <1>1, <2>1 DEF Ttl, Cleanup, ComparePassword, SetLockField, TypeOK, Login
  <2>6. ~ExpireLock(a) /\ ~ResetCounter(a)
    BY <1>1, <2>1 DEF ExpireLock, ResetCounter, TypeOK
  <2>7. IncrementFailedAttemptCounter(a)
    BY <2>2, <2>3, <2>4, <2>5, <2>6 DEF LoginStep
  <2>8. CountFailure /\ count + 1 >= MaxFailedAttempts
    BY <1>1, <2>1, <2>7 DEF IncrementFailedAttemptCounter, TypeOK
  <2> QED
    BY <2>1, <2>8, ConfigAssumption DEF CountFailure, UpTo, FailuresAreCounted
<1>2. ASSUME LockoutInv, Next, Appears PROVE \E a \in Attempts: login[a].pc = "setLock"
  <2>1. ASSUME NEW a \in Attempts, CheckLockStatus(a) \/ BreakerOpen(a) \/ LoginStep(a)
        PROVE  login[a].pc = "setLock"
    BY <1>2, <2>1 DEF LoginStep, CheckLockStatus, BreakerOpen, ApplyFailMode, Upgrade, Exists,
       RecordFailure, RecordSuccess, Ttl, Cleanup, ComparePassword,
       IncrementFailedAttemptCounter, SetLockField, ExpireLock, ResetCounter, redisVars
  <2>2. /\ ~UnlockAccount /\ ~DeleteCounter /\ ~LockExpires /\ ~CounterExpires
        /\ ~TimeoutElapses /\ ~RedisTurns /\ ~Crash
    BY <1>2 DEF UnlockAccount, DeleteCounter, LockExpires, CounterExpires, TimeoutElapses,
       RedisTurns, Crash, redisVars
  <2> QED
    BY <1>2, <2>1, <2>2 DEF Next
<1>3. LockoutInv /\ [Next]_vars
      => [/\ \A a \in Attempts: Begins(a) => failures' = MaxFailedAttempts
          /\ Appears => \E a \in Attempts: login[a].pc = "setLock"]_vars
  BY <1>1, <1>2
<1> QED
  BY <1>3, LockoutInvariant, PTL DEF Spec, LockNeedsFailures

\* In the mode REDIS_FAIL_THEN_LOCK a login passes the check only if at some moment of
\* the check no finished lock was there, failing Redis and open breaker or not.
THEOREM NoLoginPassesALock == Spec => PassedThroughAGap
<1> DEFINE Passes(a) ==
      config.failMode = "FailThenLock" /\ login[a].pc # "password" /\ login'[a].pc = "password"
<1>1. ASSUME LockoutInv, Next, NEW a \in Attempts, Passes(a)
      PROVE  observed[a] \cap {"absent", "bare"} # {}
  <2> USE DEF Update, Goto, Refused, Passed, Idle, At
  <2>1. TypeOK /\ AnswerWasTrue(a) /\ login[a] \in Login
    BY <1>1 DEF LockoutInv, AnswersWereTrue, TypeOK
  <2>2. CheckLockStatus(a) \/ BreakerOpen(a) \/ LoginStep(a)
    BY <1>1, <2>1, OneLoginMoves, LoginsStayOrEnd DEF Next
  <2>3. ~CheckLockStatus(a) /\ ~BreakerOpen(a) /\ ~ApplyFailMode(a)
    BY <1>1, <2>1 DEF CheckLockStatus, BreakerOpen, ApplyFailMode, FailMode, TypeOK
  <2>4. ~Upgrade(a) /\ ~Exists(a) /\ ~RecordFailure(a) /\ ~Ttl(a)
    BY <1>1, <2>1 DEF Upgrade, Exists, RecordFailure, FailMode, Ttl, TypeOK, Login
  <2>5. ~ComparePassword(a) /\ ~IncrementFailedAttemptCounter(a) /\ ~SetLockField(a)
    BY <1>1, <2>1 DEF ComparePassword, IncrementFailedAttemptCounter, SetLockField, Locking,
       TypeOK, Login
  <2>6. ~ExpireLock(a) /\ ~ResetCounter(a)
    BY <1>1, <2>1 DEF ExpireLock, ResetCounter, TypeOK
  <2>7. CASE RecordSuccess(a)
    <3>1. call[a] = "succeeded" /\ ~login[a].found
      BY <1>1, <2>1, <2>7 DEF RecordSuccess, Breaker!RecordSuccess, TypeOK
    <3> QED
      BY <2>1, <3>1 DEF AnswerWasTrue, SawAGap
  <2>8. CASE Cleanup(a)
    BY <2>1, <2>8 DEF Cleanup, AnswerWasTrue, SawAGap
  <2> QED
    BY <2>2, <2>3, <2>4, <2>5, <2>6, <2>7, <2>8 DEF LoginStep
<1>2. LockoutInv /\ [Next]_vars
      => [\A a \in Attempts: Passes(a) => observed[a] \cap {"absent", "bare"} # {}]_vars
  BY <1>1
<1> QED
  BY <1>2, LockoutInvariant, PTL DEF Spec, PassedThroughAGap

\* In the mode REDIS_FAIL_KEEP_UNLOCK only a lock turns a login away at the check: not a
\* failing Redis and not an open breaker.
THEOREM OnlyALockRefuses == Spec => RefusedByALock
<1> DEFINE IsRefused(a) ==
      /\ config.failMode = "KeepUnlock"
      /\ Checking(a) /\ login'[a].pc = "idle" /\ ~Crash
<1>1. ASSUME LockoutInv, Next, NEW a \in Attempts, IsRefused(a)
      PROVE  observed[a] \cap {"bare", "timed"} # {}
  <2> USE DEF Update, Goto, Refused, Passed, Idle, At, Checking
  <2>1. TypeOK /\ AnswerWasTrue(a) /\ login[a] \in Login
    BY <1>1 DEF LockoutInv, AnswersWereTrue, TypeOK
  <2>2. CheckLockStatus(a) \/ BreakerOpen(a) \/ LoginStep(a)
    <3>1. login'[a] # login[a]
      BY <1>1
    <3>2. ASSUME NEW b \in Attempts \ {a}
          PROVE  ~(CheckLockStatus(b) \/ BreakerOpen(b) \/ LoginStep(b))
      BY <2>1, <3>1, OneLoginMoves
    <3>3. /\ ~UnlockAccount /\ ~DeleteCounter /\ ~LockExpires /\ ~CounterExpires
          /\ ~TimeoutElapses /\ ~RedisTurns
      BY <3>1 DEF UnlockAccount, DeleteCounter, LockExpires, CounterExpires, TimeoutElapses,
         RedisTurns
    <3> QED
      BY <1>1, <3>2, <3>3 DEF Next
  <2>3. ~CheckLockStatus(a) /\ ~BreakerOpen(a) /\ ~ApplyFailMode(a)
    BY <1>1, <2>1 DEF CheckLockStatus, BreakerOpen, ApplyFailMode, FailMode, TypeOK
  <2>4. ~Upgrade(a) /\ ~Exists(a) /\ ~RecordFailure(a) /\ ~RecordSuccess(a) /\ ~Cleanup(a)
    BY <1>1, <2>1 DEF Upgrade, Exists, RecordFailure, FailMode, RecordSuccess, Cleanup, TypeOK,
       Login
  <2>5. ~ComparePassword(a) /\ ~IncrementFailedAttemptCounter(a) /\ ~SetLockField(a)
    BY <1>1, <2>1 DEF ComparePassword, IncrementFailedAttemptCounter, SetLockField
  <2>6. ~ExpireLock(a) /\ ~ResetCounter(a)
    BY <1>1, <2>1 DEF ExpireLock, ResetCounter
  <2>7. CASE Ttl(a)
    BY <2>1, <2>7 DEF Ttl, AnswerWasTrue, SawALock
  <2> QED
    BY <2>2, <2>3, <2>4, <2>5, <2>6, <2>7 DEF LoginStep
<1>2. LockoutInv /\ [Next]_vars
      => [\A a \in Attempts: IsRefused(a) => observed[a] \cap {"bare", "timed"} # {}]_vars
  BY <1>1
<1> QED
  BY <1>2, LockoutInvariant, PTL DEF Spec, RefusedByALock

\* The answer of a check that was let through before the breaker opened never closes
\* it: short of a restart an open breaker goes through half-open.
THEOREM OpenBreakerProbesFirst == Spec => OpenGoesThroughHalfOpen
<1>1. ASSUME Next, state = "Open", state' = "Closed" PROVE Crash
  <2>1. ASSUME NEW a \in Attempts, CheckLockStatus(a) \/ BreakerOpen(a) PROVE FALSE
    BY <1>1, <2>1 DEF CheckLockStatus, BreakerOpen, Breaker!CanExecute, Breaker!breaker, breakerVars
  <2>2. ASSUME NEW a \in Attempts, Upgrade(a) \/ Exists(a) \/ RecordFailure(a) \/ RecordSuccess(a)
        PROVE  FALSE
    BY <1>1, <2>2 DEF Upgrade, Exists, RecordFailure, RecordSuccess, Breaker!Upgrade,
       Breaker!Answer, Breaker!RecordFailure, Breaker!RecordSuccess, Breaker!breaker
  <2>3. ASSUME NEW a \in Attempts,
               \/ Ttl(a) \/ Cleanup(a) \/ ComparePassword(a) \/ IncrementFailedAttemptCounter(a)
               \/ SetLockField(a) \/ ExpireLock(a) \/ ResetCounter(a) \/ ApplyFailMode(a)
        PROVE  FALSE
    BY <1>1, <2>3 DEF ApplyFailMode, Ttl, Cleanup, ComparePassword, IncrementFailedAttemptCounter,
       SetLockField, ExpireLock, ResetCounter, breakerVars
  <2>4. CASE \/ UnlockAccount \/ DeleteCounter \/ LockExpires \/ CounterExpires
             \/ TimeoutElapses \/ RedisTurns
    BY <1>1, <2>4 DEF UnlockAccount, DeleteCounter, LockExpires, CounterExpires, TimeoutElapses,
       Breaker!TimeoutElapses, RedisTurns, breakerVars
  <2> QED
    BY <1>1, <2>1, <2>2, <2>3, <2>4 DEF Next, LoginStep
<1>2. [Next]_vars => [(state = "Open" /\ state' = "Closed") => Crash]_vars
  BY <1>1
<1> QED
  BY <1>2, PTL DEF Spec, OpenGoesThroughHalfOpen

(***************************************************************************)
(* AuditQueue: every event is in one place, and the audit log implements   *)
(* AuditTrail.                                                             *)
(***************************************************************************)
(***************************************************************************)
(* What the sequence operators do to Contents and NoRepeats.               *)
(***************************************************************************)
LEMMA EmptyContents == Contents(<< >>) = {} /\ NoRepeats(<< >>)
  BY DEF Contents, NoRepeats

LEMMA AppendContents ==
  ASSUME NEW S, NEW s \in Seq(S), NEW e \in S
  PROVE  /\ Append(s, e) \in Seq(S) /\ Len(Append(s, e)) = Len(s) + 1
         /\ Contents(Append(s, e)) = Contents(s) \cup {e}
         /\ NoRepeats(s) /\ e \notin Contents(s) => NoRepeats(Append(s, e))
<1> DEFINE t == Append(s, e)
<1>1. /\ t \in Seq(S) /\ Len(t) = Len(s) + 1 /\ Len(s) \in Nat
      /\ DOMAIN s = 1 .. Len(s) /\ DOMAIN t = 1 .. Len(s) + 1
      /\ t[Len(s) + 1] = e /\ \A i \in 1 .. Len(s): t[i] = s[i]
  BY AppendProperties, LenProperties
<1> HIDE DEF t
<1>2. Contents(t) = Contents(s) \cup {e}
  BY <1>1 DEF Contents
<1>3. ASSUME NoRepeats(s), e \notin Contents(s) PROVE NoRepeats(t)
  BY <1>1, <1>3 DEF NoRepeats, Contents
<1> QED
  BY <1>1, <1>2, <1>3 DEF t

LEMMA TailContents ==
  ASSUME NEW S, NEW s \in Seq(S), s # << >>
  PROVE  /\ Head(s) \in S /\ Head(s) \in Contents(s)
         /\ Tail(s) \in Seq(S) /\ Len(Tail(s)) = Len(s) - 1 /\ Len(s) \in Nat \ {0}
         /\ Contents(s) = Contents(Tail(s)) \cup {Head(s)}
         /\ NoRepeats(s) => NoRepeats(Tail(s)) /\ Head(s) \notin Contents(Tail(s))
<1> DEFINE t == Tail(s)
<1>1. /\ t \in Seq(S) /\ Len(t) = Len(s) - 1 /\ Len(s) \in Nat \ {0}
      /\ DOMAIN s = 1 .. Len(s) /\ DOMAIN t = 1 .. Len(s) - 1
      /\ Head(s) = s[1] /\ Head(s) \in S /\ \A i \in 1 .. Len(s) - 1: t[i] = s[i + 1]
  BY HeadTailProperties, LenProperties, EmptySeq
<1> HIDE DEF t
<1>2. Contents(s) = Contents(t) \cup {s[1]}
  <2>1. ASSUME NEW i \in DOMAIN s PROVE s[i] \in Contents(t) \cup {s[1]}
    <3>1. CASE i = 1
      BY <3>1
    <3>2. CASE i # 1
      <4>1. i - 1 \in DOMAIN t /\ t[i - 1] = s[i]
        BY <1>1, <3>2
      <4> QED
        BY <4>1 DEF Contents
    <3> QED
      BY <3>1, <3>2
  <2>2. ASSUME NEW i \in DOMAIN t PROVE t[i] \in Contents(s)
    BY <1>1 DEF Contents
  <2>3. s[1] \in Contents(s)
    BY <1>1 DEF Contents
  <2> QED
    BY <2>1, <2>2, <2>3 DEF Contents
<1>3. ASSUME NoRepeats(s) PROVE NoRepeats(t) /\ s[1] \notin Contents(t)
  <2>1. \A i \in DOMAIN t: i + 1 \in DOMAIN s /\ i + 1 # 1 /\ t[i] = s[i + 1]
    BY <1>1
  <2>2. 1 \in DOMAIN s
    BY <1>1
  <2>3. s[1] \notin Contents(t)
    BY <1>3, <2>1, <2>2 DEF NoRepeats, Contents
  <2>4. NoRepeats(t)
    BY <1>1, <1>3, <2>1 DEF NoRepeats
  <2> QED
    BY <2>3, <2>4
<1> QED
  BY <1>1, <1>2, <1>3 DEF t

(***************************************************************************)
(* The inductive invariant.                                                *)
(***************************************************************************)
\* EachEventOnce spelled out: six sets, pairwise disjoint, that make up Events.
Apart(a, b, c, d, e, f) ==
  /\ a \cap b = {} /\ a \cap c = {} /\ a \cap d = {} /\ a \cap e = {} /\ a \cap f = {}
  /\ b \cap c = {} /\ b \cap d = {} /\ b \cap e = {} /\ b \cap f = {}
  /\ c \cap d = {} /\ c \cap e = {} /\ c \cap f = {}
  /\ d \cap e = {} /\ d \cap f = {} /\ e \cap f = {}
  /\ a \cup b \cup c \cup d \cup e \cup f = Events

Q == Contents(asyncWriteQueue)
B == Contents(batch)
T == Contents(table)
Repeatless == NoRepeats(asyncWriteQueue) /\ NoRepeats(batch) /\ NoRepeats(table)

LEMMA PlacesApart == EachEventOnce <=> Repeatless /\ Apart(new, sync, lost, Q, B, T)
<1>1. /\ Places[1] = new /\ Places[2] = sync /\ Places[3] = lost
      /\ Places[4] = Q /\ Places[5] = B /\ Places[6] = T
  BY DEF Places, Q, B, T
<1>2. 1 .. 6 = {1, 2, 3, 4, 5, 6}
  OBVIOUS
<1>3. UNION {Places[i]: i \in 1 .. 6} = new \cup sync \cup lost \cup Q \cup B \cup T
  BY <1>1, <1>2
<1>4. (\A i, j \in 1 .. 6: i # j => Places[i] \cap Places[j] = {})
      => /\ new \cap sync = {} /\ new \cap lost = {} /\ new \cap Q = {} /\ new \cap B = {}
         /\ new \cap T = {} /\ sync \cap lost = {} /\ sync \cap Q = {} /\ sync \cap B = {}
         /\ sync \cap T = {} /\ lost \cap Q = {} /\ lost \cap B = {} /\ lost \cap T = {}
         /\ Q \cap B = {} /\ Q \cap T = {} /\ B \cap T = {}
  BY <1>1
<1>5. Apart(new, sync, lost, Q, B, T)
      => \A i, j \in 1 .. 6: i # j => Places[i] \cap Places[j] = {}
  BY <1>1, <1>2 DEF Apart
<1> QED
  BY <1>3, <1>4, <1>5 DEF EachEventOnce, Apart, Repeatless

LEMMA InitEstablishes == AuditInit => AuditInv
<1> SUFFICES ASSUME AuditInit PROVE AuditInv
  OBVIOUS
<1>1. /\ asyncWriteQueue = << >> /\ batch = << >> /\ table = << >> /\ order = << >>
      /\ new = Events /\ sync = {} /\ lost = {} /\ flushing = FALSE /\ batchSize \in Nat
  BY ConstantsAssumption DEF AuditInit
<1>2. Q = {} /\ B = {} /\ T = {} /\ Repeatless
  BY <1>1, EmptyContents DEF Q, B, T, Repeatless
<1>3. EachEventOnce
  BY <1>1, <1>2, PlacesApart DEF Apart
<1>4. /\ Len(<< >>) = 0 /\ << >> \in Seq(Events)
      /\ 0 <= 2 * batchSize /\ 0 <= batchSize
  BY <1>1, EmptySeq
<1> QED
  BY <1>1, <1>3, <1>4 DEF AuditInv, AuditTypeOK, BatchIsPending

\* The two outcomes of an INSERT.
LEMMA InsertOutcome ==
  ASSUME AuditTypeOK, NEW e \in Events, Insert(e)
  PROVE  \/ /\ T' = T \cup {e} /\ lost' = lost /\ table' \in Seq(Events)
            /\ NoRepeats(table) /\ e \notin T => NoRepeats(table')
         \/ T' = T /\ lost' = lost \cup {e} /\ table' = table
<1>1. CASE table' = Append(table, e) /\ UNCHANGED lost
  BY <1>1, AppendContents DEF T, AuditTypeOK
<1>2. CASE lost' = lost \cup {e} /\ UNCHANGED table
  BY <1>2 DEF T
<1> QED
  BY <1>1, <1>2 DEF Insert

LEMMA StepPreserves == ASSUME AuditInv, [AuditNext]_auditVars PROVE AuditInv'
<1> USE ConstantsAssumption
<1>0. /\ AuditTypeOK /\ BatchIsPending /\ Repeatless /\ Apart(new, sync, lost, Q, B, T)
      /\ batchSize \in Nat
  BY PlacesApart DEF AuditInv, AuditTypeOK
<1>q. SUFFICES AuditTypeOK' /\ BatchIsPending' /\ Repeatless'
               /\ Apart(new, sync, lost, Q, B, T)'
  <2>1. EachEventOnce' <=> Repeatless' /\ Apart(new, sync, lost, Q, B, T)'
    BY PlacesApart, PTL
  <2> QED
    BY <2>1 DEF AuditInv
<1> DEFINE Goal == AuditTypeOK' /\ BatchIsPending' /\ Repeatless'
                   /\ Apart(new, sync, lost, Q, B, T)'
<1>1. ASSUME NEW e \in Events, Enqueue(e) PROVE Goal
  <2>1. /\ Q' = Q \cup {e} /\ asyncWriteQueue' \in Seq(Events) /\ order' \in Seq(Events)
        /\ Len(asyncWriteQueue') = Len(asyncWriteQueue) + 1
        /\ NoRepeats(asyncWriteQueue) /\ e \notin Q => NoRepeats(asyncWriteQueue')
    BY <1>0, <1>1, AppendContents DEF Enqueue, AuditTypeOK, Q
  <2>2. B' = B /\ T' = T
    BY <1>1 DEF Enqueue, B, T
  <2>3. e \notin Q
    BY <1>0, <1>1 DEF Apart, Enqueue
  <2>4. Len(asyncWriteQueue) < 2 * batchSize
    BY <1>0, <1>1, LenProperties DEF Enqueue, QueueFull, AuditTypeOK
  <2>5. AuditTypeOK'
    BY <1>0, <1>1, <2>1, <2>4, LenProperties DEF AuditTypeOK, Enqueue
  <2>6. Apart(new, sync, lost, Q, B, T)'
    BY <1>0, <1>1, <2>1, <2>2 DEF Apart, Enqueue
  <2> QED
    BY <1>0, <1>1, <2>1, <2>3, <2>5, <2>6 DEF Enqueue, Repeatless, BatchIsPending
<1>2. ASSUME NEW e \in Events, WriteSynchronously(e) PROVE Goal
  BY <1>0, <1>2 DEF WriteSynchronously, AuditTypeOK, BatchIsPending, Repeatless, Apart, Q, B, T
<1>3. ASSUME NEW e \in Events, SyncInsert(e) PROVE Goal
  <2>1. e \in sync /\ sync' = sync \ {e} /\ Insert(e)
        /\ UNCHANGED <<batchSize, new, asyncWriteQueue, batch, flushing, order>>
    BY <1>3 DEF SyncInsert
  <2>2. Q' = Q /\ B' = B /\ e \notin T
    BY <1>0, <2>1 DEF Apart, Q, B
  <2> QED
    BY <1>0, <2>1, <2>2, InsertOutcome DEF AuditTypeOK, BatchIsPending, Repeatless, Apart
<1>4. CASE Receive
  <2> DEFINE h == Head(asyncWriteQueue)
  <2>1. /\ h \in Events /\ h \in Q /\ Len(asyncWriteQueue) \in Nat
        /\ asyncWriteQueue' \in Seq(Events)
        /\ Len(asyncWriteQueue') = Len(asyncWriteQueue) - 1
        /\ Q = Q' \cup {h} /\ NoRepeats(asyncWriteQueue') /\ h \notin Q'
    BY <1>0, <1>4, TailContents DEF Receive, AuditTypeOK, Q, Repeatless
  <2>2. batch \in Seq(Events) /\ batch' = Append(batch, h)
    BY <1>0, <1>4 DEF Receive, AuditTypeOK
  <2> HIDE DEF h
  <2>3. h \notin B
    BY <1>0, <2>1 DEF Apart
  <2>4. /\ batch' \in Seq(Events) /\ Len(batch') = Len(batch) + 1 /\ B' = B \cup {h}
        /\ NoRepeats(batch')
    BY <1>0, <2>1, <2>2, <2>3, AppendContents DEF B, Repeatless
  <2>5. /\ T' = T /\ Len(batch) \in Nat /\ batch' # << >> /\ batchSize' = batchSize
        /\ Len(batch) < batchSize \/ Len(batch) = 0
    BY <1>0, <1>4, <2>2, <2>4, LenProperties, EmptySeq DEF Receive, T, BatchIsPending
  <2>6. AuditTypeOK'
    BY <1>0, <1>4, <2>1, <2>4, <2>5 DEF Receive, AuditTypeOK
  <2>7. Apart(new, sync, lost, Q, B, T)'
    BY <1>0, <1>4, <2>1, <2>4, <2>5 DEF Receive, Apart
  <2>8. BatchIsPending'
    <3>1. flushing' <=> Len(batch') >= batchSize
      BY <1>4, <2>4 DEF Receive
    <3>2. Len(batch') \in Nat /\ batchSize' = batchSize
      BY <2>4, <2>5
    <3> QED
      BY <1>0, <2>5, <3>1, <3>2 DEF BatchIsPending
  <2> QED
    BY <1>0, <1>4, <2>1, <2>4, <2>6, <2>7, <2>8 DEF Receive, Repeatless
<1>5. CASE PeriodicFlush
  BY <1>0, <1>5 DEF PeriodicFlush, AuditTypeOK, BatchIsPending, Repeatless, Apart, Q, B, T
<1>6. CASE FlushNext
  <2> DEFINE h == Head(batch)
  <2>1. /\ h \in Events /\ h \in B /\ Len(batch) \in Nat \ {0} /\ batch' \in Seq(Events)
        /\ Len(batch') = Len(batch) - 1
        /\ B = B' \cup {h} /\ NoRepeats(batch') /\ h \notin B'
    BY <1>0, <1>6, TailContents DEF FlushNext, AuditTypeOK, B, Repeatless, BatchIsPending
  <2>2. Insert(h) /\ flushing' = (Len(batch) > 1) /\ Q' = Q
        /\ UNCHANGED <<batchSize, new, asyncWriteQueue, sync, order>>
    BY <1>6 DEF FlushNext, Q
  <2> HIDE DEF h
  <2>3. h \notin T
    BY <1>0, <2>1 DEF Apart
  <2>4. BatchIsPending'
    <3>1. flushing' <=> Len(batch) > 1
      BY <2>2
    <3>2. Len(batch') = Len(batch) - 1 /\ Len(batch) \in Nat \ {0} /\ Len(<< >>) = 0
      BY <2>1, EmptySeq
    <3>3. flushing' => batch' # << >>
      BY <3>1, <3>2
    <3>4. ~flushing' => batch' = << >>
      BY <2>1, <3>1, <3>2, EmptySeq
    <3> QED
      BY <3>3, <3>4 DEF BatchIsPending
  <2>5. AuditTypeOK'
    <3>1. Len(batch') <= batchSize \/ Len(batch') = 1
      BY <1>0, <2>1 DEF AuditTypeOK
    <3> QED
      BY <1>0, <2>1, <2>2, <3>1, InsertOutcome DEF AuditTypeOK
  <2> QED
    BY <1>0, <2>1, <2>2, <2>3, <2>4, <2>5, InsertOutcome DEF AuditTypeOK, Repeatless, Apart
<1>7. CASE AuditCrash
  <2>1. /\ lost' = lost \cup Q \cup B \cup sync /\ sync' = {} /\ flushing' = FALSE
        /\ asyncWriteQueue' = << >> /\ batch' = << >>
        /\ UNCHANGED <<batchSize, new, table, order>>
    BY <1>7 DEF AuditCrash, Q, B
  <2>2. Q' = {} /\ B' = {} /\ T' = T
    BY <2>1, EmptyContents DEF Q, B, T
  <2>3. Repeatless'
    BY <1>0, <2>1, EmptyContents DEF Repeatless
  <2>4. Apart(new, sync, lost, Q, B, T)'
    BY <1>0, <2>1, <2>2 DEF Apart
  <2>5. /\ << >> \in Seq(Events) /\ Len(<< >>) = 0
        /\ 0 <= 2 * batchSize /\ 0 <= batchSize
    BY <1>0, EmptySeq
  <2>6. AuditTypeOK' /\ BatchIsPending'
    BY <1>0, <2>1, <2>4, <2>5 DEF AuditTypeOK, BatchIsPending, Apart
  <2> QED
    BY <2>3, <2>4, <2>6
<1>8. CASE UNCHANGED auditVars
  BY <1>0, <1>8 DEF auditVars, AuditTypeOK, BatchIsPending, Repeatless, Apart, Q, B, T
<1>9. ASSUME NEW e \in Events, HandOver(e) PROVE Goal
  <2>1. /\ e \in new /\ new' = new \ {e} /\ batch' = Append(batch, e)
        /\ order' = Append(order, e) /\ flushing' = TRUE /\ batchSize = 0
        /\ UNCHANGED <<batchSize, asyncWriteQueue, sync, table, lost>>
        /\ Q' = Q /\ T' = T
    BY <1>9 DEF HandOver, Q, T
  <2>2. Len(batch) = 0
    BY <1>0, <1>9, EmptySeq, LenProperties DEF HandOver, BatchIsPending, AuditTypeOK
  <2>3. e \notin B
    BY <1>0, <2>1 DEF Apart
  <2>4. /\ batch' \in Seq(Events) /\ Len(batch') = 1 /\ B' = B \cup {e} /\ NoRepeats(batch')
        /\ order' \in Seq(Events)
    <3>1. batch \in Seq(Events) /\ order \in Seq(Events) /\ NoRepeats(batch) /\ e \notin Contents(batch)
      BY <1>0, <2>3 DEF AuditTypeOK, Repeatless, B
    <3>2. /\ batch' \in Seq(Events) /\ Len(batch') = Len(batch) + 1
          /\ Contents(batch') = Contents(batch) \cup {e} /\ NoRepeats(batch')
      BY <2>1, <3>1, AppendContents
    <3>3. order' \in Seq(Events)
      BY <2>1, <3>1, AppendContents
    <3> QED
      BY <2>2, <3>2, <3>3 DEF B
  <2>5. AuditTypeOK'
    BY <1>0, <2>1, <2>4 DEF AuditTypeOK
  <2>6. Apart(new, sync, lost, Q, B, T)'
    BY <1>0, <2>1, <2>4 DEF Apart
  <2>7. BatchIsPending'
    BY <2>1, <2>4, EmptySeq DEF BatchIsPending
  <2> QED
    BY <1>0, <2>1, <2>4, <2>5, <2>6, <2>7 DEF Repeatless
<1> QED
  BY <1>1, <1>2, <1>3, <1>4, <1>5, <1>6, <1>7, <1>8, <1>9 DEF AuditNext, Writer

\* The types of AuditQueue's variables.
THEOREM AuditTypeCorrect == AuditSpec => []AuditTypeOK
<1>1. AuditInv => AuditTypeOK
  BY DEF AuditInv
<1>2. AuditInv /\ [AuditNext]_auditVars => AuditInv'
  BY StepPreserves
<1> QED
  BY <1>1, <1>2, InitEstablishes, PTL DEF AuditSpec

\* An event is in one place and there once, however requests, the writer and
\* crashes interleave: writeAuditLog and asyncDBWriter neither write an event
\* twice nor drop one silently.
THEOREM OnceEach == AuditSpec => []EachEventOnce
<1>1. AuditInv => EachEventOnce
  BY DEF AuditInv
<1>2. AuditInv /\ [AuditNext]_auditVars => AuditInv'
  BY StepPreserves
<1> QED
  BY <1>1, <1>2, InitEstablishes, PTL DEF AuditSpec

(***************************************************************************)
(* The refinement.                                                         *)
(***************************************************************************)
LEMMA InitRefines == AuditInit => Trail!Init
<1> SUFFICES ASSUME AuditInit PROVE TrailState = [e \in Events |-> "new"] /\ table = << >>
  BY DEF Trail!Init
<1>1. new = Events /\ table = << >>
  BY DEF AuditInit
<1> QED
  BY <1>1 DEF TrailState, T

\* Losing the events es in the abstract trail.
LosesOf(es) ==
  /\ \A e \in es: TrailState[e] = "logged"
  /\ TrailState' = [x \in Events |-> IF x \in es THEN "lost" ELSE TrailState[x]]
  /\ table' = table

\* An INSERT writes the event in the abstract trail, as one more row, or loses it.
LEMMA InsertRefines ==
  ASSUME AuditInv, NEW e \in Events, Insert(e), e \notin new, e \notin T, e \notin lost,
         new' = new
  PROVE  \/ /\ TrailState[e] = "logged"
            /\ TrailState' = [TrailState EXCEPT ![e] = "written"]
            /\ table' = Append(table, e)
         \/ LosesOf({e})
<1>1. TrailState[e] = "logged"
  BY DEF TrailState, T
<1>2. table \in Seq(Events)
  BY DEF AuditInv, AuditTypeOK
<1>3. CASE table' = Append(table, e) /\ lost' = lost
  <2>1. T' = T \cup {e}
    BY <1>2, <1>3, AppendContents DEF T
  <2>2. TrailState' = [TrailState EXCEPT ![e] = "written"]
    BY <1>1, <1>3, <2>1 DEF TrailState, T
  <2> QED
    BY <1>1, <1>3, <2>2
<1>4. CASE table' = table /\ lost' = lost \cup {e}
  <2>1. T' = T
    BY <1>4 DEF T
  <2>2. TrailState' = [x \in Events |-> IF x \in {e} THEN "lost" ELSE TrailState[x]]
    BY <1>1, <1>4, <2>1 DEF TrailState, T
  <2> QED
    BY <1>1, <1>4, <2>2 DEF LosesOf
<1> QED
  BY <1>3, <1>4 DEF Insert

LEMMA StepRefines ==
  ASSUME AuditInv, [AuditNext]_auditVars
  PROVE  \/ TrailState' = TrailState /\ table' = table
         \/ \E e \in Events:
              /\ TrailState[e] = "new"
              /\ TrailState' = [TrailState EXCEPT ![e] = "logged"]
              /\ table' = table
         \/ \E e \in Events:
              /\ TrailState[e] = "logged"
              /\ TrailState' = [TrailState EXCEPT ![e] = "written"]
              /\ table' = Append(table, e)
         \/ \E es \in SUBSET Events: LosesOf(es)
<1>0. AuditTypeOK /\ Repeatless /\ Apart(new, sync, lost, Q, B, T)
  BY PlacesApart DEF AuditInv
<1>1. ASSUME NEW e \in Events, Enqueue(e) \/ HandOver(e) \/ WriteSynchronously(e)
      PROVE  /\ TrailState[e] = "new"
             /\ TrailState' = [TrailState EXCEPT ![e] = "logged"]
             /\ table' = table
  <2>1. e \in new /\ new' = new \ {e} /\ lost' = lost /\ table' = table /\ T' = T
    BY <1>1 DEF Enqueue, HandOver, WriteSynchronously, T
  <2>2. e \notin T /\ e \notin lost
    BY <1>0, <2>1 DEF Apart
  <2> QED
    BY <2>1, <2>2 DEF TrailState, T
<1>2. ASSUME NEW e \in Events, SyncInsert(e)
      PROVE  e \in sync /\ Insert(e) /\ new' = new
  BY <1>2 DEF SyncInsert
<1>3. ASSUME FlushNext
      PROVE  Head(batch) \in Events /\ Head(batch) \in B /\ Insert(Head(batch)) /\ new' = new
  BY <1>0, <1>3, TailContents DEF FlushNext, AuditInv, BatchIsPending, AuditTypeOK, B
<1>4. ASSUME Receive \/ PeriodicFlush \/ UNCHANGED auditVars
      PROVE  TrailState' = TrailState /\ table' = table
  <2>1. new' = new /\ lost' = lost /\ table' = table /\ T' = T
    BY <1>4 DEF Receive, PeriodicFlush, auditVars, T
  <2> QED
    BY <2>1 DEF TrailState, T
<1>5. ASSUME AuditCrash PROVE \E es \in SUBSET Events: LosesOf(es)
  <2> DEFINE es == Q \cup B \cup sync
  <2>1. new' = new /\ lost' = lost \cup es /\ table' = table /\ T' = T
    BY <1>5 DEF AuditCrash, Q, B, T
  <2>2. es \subseteq Events /\ es \cap new = {} /\ es \cap T = {} /\ es \cap lost = {}
    BY <1>0 DEF Apart
  <2> HIDE DEF es
  <2>3. \A e \in es: TrailState[e] = "logged"
    BY <2>2 DEF TrailState, T
  <2>4. TrailState' = [x \in Events |-> IF x \in es THEN "lost" ELSE TrailState[x]]
    BY <2>1, <2>2 DEF TrailState, T
  <2> QED
    BY <2>1, <2>2, <2>3, <2>4 DEF LosesOf
<1>6. ASSUME NEW e \in Events, Insert(e), e \in sync \/ e \in B, new' = new
      PROVE  \/ /\ TrailState[e] = "logged"
                /\ TrailState' = [TrailState EXCEPT ![e] = "written"]
                /\ table' = Append(table, e)
             \/ \E es \in SUBSET Events: LosesOf(es)
  <2>1. e \notin new /\ e \notin T /\ e \notin lost
    BY <1>0, <1>6 DEF Apart
  <2>2. {e} \in SUBSET Events
    OBVIOUS
  <2> QED
    BY <1>6, <2>1, <2>2, InsertRefines
<1> QED
  BY <1>1, <1>2, <1>3, <1>4, <1>5, <1>6 DEF AuditNext, Writer

\* The audit log of module/account_lockout implements AuditTrail: whatever the
\* channel, the batches, full queues, failed INSERTs and crashes do, an event goes
\* from logged to written or lost once and stays there, and has one row or none.
THEOREM ImplementsTrail == AuditSpec => TrailSpec
<1>1. AuditInv /\ [AuditNext]_auditVars => AuditInv'
  BY StepPreserves
<1>2. AuditInv /\ [AuditNext]_auditVars => [Trail!Next]_<<TrailState, table>>
  <2> SUFFICES ASSUME AuditInv, [AuditNext]_auditVars PROVE [Trail!Next]_<<TrailState, table>>
    OBVIOUS
  <2> QED
    BY StepRefines DEF LosesOf, Trail!Next, Trail!Log, Trail!Write, Trail!Lose
<1> QED
  BY <1>1, <1>2, InitEstablishes, InitRefines, PTL DEF AuditSpec, TrailSpec, Trail!Spec

(***************************************************************************)
(* The order of the table.                                                 *)
(***************************************************************************)
\* If x and y were both queued, x was queued first.
Earlier(o, x, y) == \A k, l \in DOMAIN o: o[k] = x /\ o[l] = y => k < l
AllEarlier(o, X, Y) == \A x \in X, y \in Y: Earlier(o, x, y)
InOrder(o, s) == \A i, j \in DOMAIN s: i < j => Earlier(o, s[i], s[j])

\* The table, the batch and the channel are in the order of the queue, each of them
\* by itself and one after the other; an event that is still to be logged, or that a
\* request writes itself, was never queued.
OrderInv ==
  /\ InOrder(order, table) /\ InOrder(order, batch) /\ InOrder(order, asyncWriteQueue)
  /\ AllEarlier(order, T, B) /\ AllEarlier(order, T, Q) /\ AllEarlier(order, B, Q)
  /\ Contents(order) \cap (new \cup sync) = {}

LEMMA AppendInOrder ==
  ASSUME NEW o, NEW S, NEW s \in Seq(S), NEW e \in S, InOrder(o, s),
         AllEarlier(o, Contents(s), {e})
  PROVE  InOrder(o, Append(s, e))
<1> DEFINE t == Append(s, e)
<1>1. /\ DOMAIN s = 1 .. Len(s) /\ DOMAIN t = 1 .. Len(s) + 1 /\ Len(s) \in Nat
      /\ t[Len(s) + 1] = e /\ \A i \in 1 .. Len(s): t[i] = s[i]
  BY AppendProperties, LenProperties
<1> HIDE DEF t
<1>2. ASSUME NEW i \in DOMAIN t, NEW j \in DOMAIN t, i < j PROVE Earlier(o, t[i], t[j])
  <2>1. i \in DOMAIN s /\ t[i] = s[i] /\ s[i] \in Contents(s)
    BY <1>1, <1>2 DEF Contents
  <2>2. CASE j = Len(s) + 1
    BY <1>1, <2>1, <2>2 DEF AllEarlier
  <2>3. CASE j # Len(s) + 1
    <3>1. j \in DOMAIN s /\ t[j] = s[j]
      BY <1>1, <2>3
    <3> QED
      BY <1>2, <2>1, <3>1 DEF InOrder
  <2> QED
    BY <2>2, <2>3
<1> QED
  BY <1>2 DEF InOrder, t

LEMMA TailInOrder ==
  ASSUME NEW o, NEW S, NEW s \in Seq(S), s # << >>, InOrder(o, s)
  PROVE  InOrder(o, Tail(s)) /\ AllEarlier(o, {Head(s)}, Contents(Tail(s)))
<1> DEFINE t == Tail(s)
<1>1. /\ Len(s) \in Nat \ {0} /\ DOMAIN s = 1 .. Len(s) /\ DOMAIN t = 1 .. Len(s) - 1
      /\ Head(s) = s[1] /\ \A i \in 1 .. Len(s) - 1: t[i] = s[i + 1]
  BY HeadTailProperties, LenProperties, EmptySeq
<1> HIDE DEF t
<1>2. \A i \in DOMAIN t: i \in Nat /\ i + 1 \in DOMAIN s /\ 1 < i + 1 /\ t[i] = s[i + 1]
  BY <1>1
<1>3. 1 \in DOMAIN s
  BY <1>1
<1>4. InOrder(o, t)
  <2> SUFFICES ASSUME NEW i \in DOMAIN t, NEW j \in DOMAIN t, i < j PROVE Earlier(o, t[i], t[j])
    BY DEF InOrder
  <2>1. i + 1 < j + 1
    BY <1>2
  <2> QED
    BY <1>2, <2>1 DEF InOrder
<1>5. AllEarlier(o, {s[1]}, Contents(t))
  BY <1>2, <1>3 DEF AllEarlier, InOrder, Contents
<1> QED
  BY <1>1, <1>4, <1>5 DEF t

\* What was never queued is neither before nor after anything.
LEMMA UnqueuedIsEarlier ==
  ASSUME NEW o, NEW x, NEW y, x \notin Contents(o) \/ y \notin Contents(o)
  PROVE  Earlier(o, x, y)
BY DEF Earlier, Contents

\* Queueing e leaves the others in their order and puts e behind all of them.
LEMMA AppendIsLater ==
  ASSUME NEW o \in Seq(Events), NEW e \in Events, e \notin Contents(o)
  PROVE  /\ \A x: x # e => Earlier(Append(o, e), x, e)
         /\ \A x, y: x # e /\ y # e /\ Earlier(o, x, y) => Earlier(Append(o, e), x, y)
<1> DEFINE p == Append(o, e)
<1>1. /\ DOMAIN o = 1 .. Len(o) /\ DOMAIN p = 1 .. Len(o) + 1 /\ Len(o) \in Nat
      /\ p[Len(o) + 1] = e /\ \A i \in 1 .. Len(o): p[i] = o[i]
  BY AppendProperties, LenProperties
<1> HIDE DEF p
<1>2. \A k \in DOMAIN p: p[k] # e => k \in DOMAIN o /\ p[k] = o[k]
  BY <1>1
<1>3. \A l \in DOMAIN p: p[l] = e => l = Len(o) + 1
  BY <1>1 DEF Contents
<1>4. ASSUME NEW x, x # e PROVE Earlier(p, x, e)
  <2> SUFFICES ASSUME NEW k \in DOMAIN p, NEW l \in DOMAIN p, p[k] = x, p[l] = e PROVE k < l
    BY DEF Earlier
  <2>1. k \in 1 .. Len(o) /\ l = Len(o) + 1
    BY <1>1, <1>2, <1>3, <1>4
  <2> QED
    BY <1>1, <2>1
<1>5. ASSUME NEW x, NEW y, x # e, y # e, Earlier(o, x, y) PROVE Earlier(p, x, y)
  BY <1>2, <1>5 DEF Earlier
<1> QED
  BY <1>4, <1>5 DEF p

LEMMA InitInOrder == AuditInit => OrderInv
<1> SUFFICES ASSUME AuditInit PROVE OrderInv
  OBVIOUS
<1>1. /\ asyncWriteQueue = << >> /\ batch = << >> /\ table = << >> /\ order = << >>
  BY DEF AuditInit
<1>2. Q = {} /\ B = {} /\ T = {} /\ Contents(order) = {} /\ DOMAIN << >> = {}
  BY <1>1, EmptyContents DEF Q, B, T
<1> QED
  BY <1>1, <1>2 DEF OrderInv, InOrder, AllEarlier

LEMMA EnqueueKeepsOrder ==
  ASSUME AuditInv, OrderInv, NEW e \in Events, Enqueue(e)
  PROVE  OrderInv'
<1>0. AuditTypeOK /\ Repeatless /\ Apart(new, sync, lost, Q, B, T)
  BY PlacesApart DEF AuditInv
<1>1. /\ e \in new /\ new' = new \ {e} /\ sync' = sync
      /\ asyncWriteQueue' = Append(asyncWriteQueue, e) /\ order' = Append(order, e)
      /\ batch' = batch /\ table' = table /\ B' = B /\ T' = T
  BY DEF Enqueue, B, T
<1>2. /\ asyncWriteQueue \in Seq(Events) /\ order \in Seq(Events)
      /\ batch \in Seq(Events) /\ table \in Seq(Events)
  BY <1>0 DEF AuditTypeOK
<1>3. e \notin Contents(order) /\ e \notin sync /\ e \notin Q /\ e \notin B /\ e \notin T
  BY <1>0, <1>1 DEF OrderInv, Apart
<1>4. Q' = Q \cup {e} /\ Contents(order') = Contents(order) \cup {e}
  BY <1>1, <1>2, AppendContents DEF Q
<1>5. /\ \A x: x # e => Earlier(order', x, e)
      /\ \A x, y: x # e /\ y # e /\ Earlier(order, x, y) => Earlier(order', x, y)
  BY <1>1, <1>2, <1>3, AppendIsLater
<1>6. ASSUME NEW s \in Seq(Events), e \notin Contents(s), InOrder(order, s)
      PROVE  InOrder(order', s)
  <2>1. \A i \in DOMAIN s: s[i] # e
    BY <1>6 DEF Contents
  <2> QED
    BY <1>5, <1>6, <2>1 DEF InOrder
<1>7. InOrder(order', table) /\ InOrder(order', batch) /\ InOrder(order', asyncWriteQueue)
  BY <1>2, <1>3, <1>6 DEF OrderInv, Q, B, T
<1>8. AllEarlier(order', Q, {e})
  BY <1>3, <1>5 DEF AllEarlier
<1>9. InOrder(order', asyncWriteQueue')
  BY <1>1, <1>2, <1>7, <1>8, AppendInOrder DEF Q
<1>10. AllEarlier(order', T, B) /\ AllEarlier(order', T, Q') /\ AllEarlier(order', B, Q')
  BY <1>3, <1>4, <1>5 DEF OrderInv, AllEarlier
<1>11. Contents(order') \cap (new' \cup sync') = {}
  BY <1>1, <1>3, <1>4 DEF OrderInv
<1> QED
  BY <1>1, <1>7, <1>9, <1>10, <1>11 DEF OrderInv

LEMMA HandOverKeepsOrder ==
  ASSUME AuditInv, OrderInv, NEW e \in Events, HandOver(e)
  PROVE  OrderInv'
<1>0. AuditTypeOK /\ BatchIsPending /\ Repeatless /\ Apart(new, sync, lost, Q, B, T)
  BY PlacesApart DEF AuditInv
<1>1. /\ e \in new /\ new' = new \ {e} /\ order' = Append(order, e) /\ table' = table
      /\ batch' = Append(batch, e) /\ sync' = sync /\ asyncWriteQueue' = asyncWriteQueue
      /\ T' = T /\ Q' = Q /\ batchSize = 0 /\ ~flushing
  BY <1>0 DEF HandOver, Q, T
<1>2. /\ order \in Seq(Events) /\ table \in Seq(Events) /\ batch \in Seq(Events)
      /\ asyncWriteQueue \in Seq(Events) /\ Len(asyncWriteQueue) <= 0
  BY <1>0, <1>1 DEF AuditTypeOK
<1>3. batch = << >> /\ asyncWriteQueue = << >>
  BY <1>0, <1>1, <1>2, LenProperties, EmptySeq DEF BatchIsPending
<1>4. B = {} /\ Q = {} /\ B' = {e} /\ Contents(order') = Contents(order) \cup {e}
  <2>1. B = {} /\ Q = {}
    BY <1>3, EmptyContents DEF B, Q
  <2>2. Contents(batch') = Contents(batch) \cup {e}
    BY <1>1, <1>2, AppendContents
  <2>3. Contents(order') = Contents(order) \cup {e}
    BY <1>1, <1>2, AppendContents
  <2> QED
    BY <2>1, <2>2, <2>3 DEF B
<1>5. e \notin Contents(order) /\ e \notin sync /\ e \notin T
  BY <1>0, <1>1 DEF OrderInv, Apart
<1>6. /\ \A x: x # e => Earlier(order', x, e)
      /\ \A x, y: x # e /\ y # e /\ Earlier(order, x, y) => Earlier(order', x, y)
  BY <1>1, <1>2, <1>5, AppendIsLater
<1>7. InOrder(order', table')
  <2>1. \A i \in DOMAIN table: table[i] # e
    BY <1>5 DEF T, Contents
  <2> QED
    BY <1>1, <1>6, <2>1 DEF OrderInv, InOrder
<1>8. InOrder(order', << >>)
  BY DEF InOrder
<1>9. InOrder(order', batch')
  <2>1. AllEarlier(order', Contents(<< >>), {e})
    BY EmptyContents DEF AllEarlier
  <2> QED
    BY <1>1, <1>2, <1>3, <1>8, <2>1, AppendInOrder
<1>10. InOrder(order', asyncWriteQueue')
  BY <1>1, <1>3, <1>8
<1>11. AllEarlier(order', T', B') /\ AllEarlier(order', T', Q') /\ AllEarlier(order', B', Q')
  BY <1>1, <1>4, <1>5, <1>6 DEF AllEarlier
<1>12. Contents(order') \cap (new' \cup sync') = {}
  BY <1>1, <1>4, <1>5 DEF OrderInv
<1> QED
  BY <1>7, <1>9, <1>10, <1>11, <1>12 DEF OrderInv

\* An event that is appended to the table behind everything in it keeps it in order.
LEMMA InsertKeepsOrder ==
  ASSUME AuditInv, OrderInv, NEW e \in Events, Insert(e), AllEarlier(order, T, {e})
  PROVE  InOrder(order, table') /\ T' \subseteq T \cup {e}
<1>1. table \in Seq(Events) /\ InOrder(order, table) /\ AuditTypeOK
  BY DEF AuditInv, AuditTypeOK, OrderInv
<1>2. CASE table' = Append(table, e)
  BY <1>1, <1>2, AppendInOrder, InsertOutcome DEF T
<1>3. CASE table' = table
  BY <1>1, <1>3 DEF T
<1> QED
  BY <1>2, <1>3 DEF Insert

LEMMA ReceiveKeepsOrder ==
  ASSUME AuditInv, OrderInv, Receive
  PROVE  OrderInv'
<1> DEFINE h == Head(asyncWriteQueue)
<1>1. /\ asyncWriteQueue \in Seq(Events) /\ asyncWriteQueue # << >> /\ batch \in Seq(Events)
      /\ asyncWriteQueue' = Tail(asyncWriteQueue) /\ batch' = Append(batch, h)
      /\ UNCHANGED <<new, sync, table, order>> /\ T' = T
  BY DEF Receive, AuditInv, AuditTypeOK, T
<1>2. h \in Events /\ h \in Q /\ Q = Q' \cup {h}
  BY <1>1, TailContents DEF Q
<1>3. InOrder(order, asyncWriteQueue') /\ AllEarlier(order, {h}, Q')
  BY <1>1, TailInOrder DEF OrderInv, Q
<1> HIDE DEF h
<1>4. B' = B \cup {h}
  BY <1>1, <1>2, AppendContents DEF B
<1>5. AllEarlier(order, B, {h}) /\ AllEarlier(order, T, {h})
  BY <1>2 DEF OrderInv, AllEarlier
<1>6. InOrder(order, batch')
  BY <1>1, <1>2, <1>5, AppendInOrder DEF OrderInv, B
<1>7. AllEarlier(order, T, B') /\ AllEarlier(order, T, Q') /\ AllEarlier(order, B', Q')
  BY <1>2, <1>3, <1>4, <1>5 DEF OrderInv, AllEarlier
<1> QED
  BY <1>1, <1>3, <1>6, <1>7 DEF OrderInv

LEMMA FlushNextKeepsOrder ==
  ASSUME AuditInv, OrderInv, FlushNext
  PROVE  OrderInv'
<1> DEFINE h == Head(batch)
<1>1. /\ batch \in Seq(Events) /\ batch # << >> /\ batch' = Tail(batch) /\ Insert(h)
      /\ UNCHANGED <<new, asyncWriteQueue, sync, order>> /\ Q' = Q
  BY DEF FlushNext, AuditInv, AuditTypeOK, BatchIsPending, Q
<1>2. h \in Events /\ h \in B /\ B = B' \cup {h}
  BY <1>1, TailContents DEF B
<1>3. InOrder(order, batch') /\ AllEarlier(order, {h}, B')
  BY <1>1, TailInOrder DEF OrderInv, B
<1> HIDE DEF h
<1>4. AllEarlier(order, T, {h}) /\ AllEarlier(order, {h}, Q)
  BY <1>2 DEF OrderInv, AllEarlier
<1>5. InOrder(order, table') /\ T' \subseteq T \cup {h}
  BY <1>1, <1>2, <1>4, InsertKeepsOrder
<1>6. AllEarlier(order, T', B') /\ AllEarlier(order, T', Q) /\ AllEarlier(order, B', Q)
  BY <1>2, <1>3, <1>4, <1>5 DEF OrderInv, AllEarlier
<1> QED
  BY <1>1, <1>3, <1>5, <1>6 DEF OrderInv

LEMMA SyncInsertKeepsOrder ==
  ASSUME AuditInv, OrderInv, NEW e \in Events, SyncInsert(e)
  PROVE  OrderInv'
<1>1. /\ e \in sync /\ Insert(e) /\ sync' = sync \ {e}
      /\ UNCHANGED <<new, asyncWriteQueue, batch, order>> /\ Q' = Q /\ B' = B
  BY DEF SyncInsert, Q, B
<1>2. e \notin Contents(order)
  BY <1>1 DEF OrderInv
<1>3. AllEarlier(order, T, {e}) /\ AllEarlier(order, {e}, B \cup Q)
  BY <1>2, UnqueuedIsEarlier DEF AllEarlier
<1>4. InOrder(order, table') /\ T' \subseteq T \cup {e}
  BY <1>1, <1>3, InsertKeepsOrder
<1>5. AllEarlier(order, T', B) /\ AllEarlier(order, T', Q)
  BY <1>3, <1>4 DEF OrderInv, AllEarlier
<1> QED
  BY <1>1, <1>4, <1>5 DEF OrderInv

LEMMA StepKeepsOrder == ASSUME AuditInv, OrderInv, [AuditNext]_auditVars PROVE OrderInv'
<1>1. ASSUME NEW e \in Events, WriteSynchronously(e) PROVE OrderInv'
  BY <1>1 DEF WriteSynchronously, OrderInv, Q, B, T
<1>2. CASE PeriodicFlush \/ UNCHANGED auditVars
  BY <1>2 DEF PeriodicFlush, auditVars, OrderInv, Q, B, T
<1>3. CASE AuditCrash
  <2>1. /\ asyncWriteQueue' = << >> /\ batch' = << >> /\ sync' = {}
        /\ UNCHANGED <<new, table, order>> /\ T' = T
    BY <1>3 DEF AuditCrash, T
  <2>2. Q' = {} /\ B' = {} /\ DOMAIN << >> = {}
    BY <2>1, EmptyContents DEF Q, B
  <2> QED
    BY <2>1, <2>2 DEF OrderInv, InOrder, AllEarlier
<1> QED
  BY <1>1, <1>2, <1>3, EnqueueKeepsOrder, HandOverKeepsOrder, ReceiveKeepsOrder, FlushNextKeepsOrder,
     SyncInsertKeepsOrder DEF AuditNext, Writer

\* The writer goroutine keeps the order in which writeAuditLog queued the events,
\* whatever is written synchronously, fails or is lost in between.
THEOREM TableIsInOrder == AuditSpec => []WrittenInQueueOrder
<1>1. OrderInv => WrittenInQueueOrder
  BY DEF OrderInv, InOrder, Earlier, WrittenInQueueOrder
<1>2. AuditInv /\ OrderInv /\ [AuditNext]_auditVars => AuditInv' /\ OrderInv'
  BY StepPreserves, StepKeepsOrder
<1> QED
  BY <1>1, <1>2, InitEstablishes, InitInOrder, PTL DEF AuditSpec
=============================================================================
