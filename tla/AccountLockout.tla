---------------------------- MODULE AccountLockout ----------------------------
(***************************************************************************)
(* module/account_lockout for one user and the logins of one process: the  *)
(* check before the password, the counter of failures, the lock, and the   *)
(* circuit breaker that guards the check.  Each Redis command is a step.   *)
(*                                                                         *)
(* The application calls CheckLockStatus, compares the password and then   *)
(* calls RecordFailedAttempt or RecordSuccessfulLogin; an administrator    *)
(* calls UnlockAccount.  The breaker is the module CircuitBreaker: every   *)
(* call of a method of it is that module's action.                         *)
(***************************************************************************)
EXTENDS Naturals, FiniteSets

CONSTANTS
  Attempts,               \* logins in flight at the same time
  MaxFailedAttempts,      \* validateConfig: 1..100
  LockFields,             \* HSETs of LockAccountRedis before its EXPIRE (6)
  Threshold               \* circuit_breaker_threshold, which no code validates

ASSUME ConfigAssumption ==
  /\ MaxFailedAttempts \in 1..100
  /\ LockFields \in Nat \ {0}
  /\ Threshold \in Nat

VARIABLES
  config,    \* redis_fail_mode and circuit_breaker_enabled, read at the start
  redisFails,  \* whether Redis commands may fail for the time being
  state, failureCount, elapsed,  \* the breaker
  call,      \* where each login is in the breaker's protocol
  lock,      \* key locked:{user}: absent, without a TTL, or with one
  count,     \* key counter:{user}, counted up to MaxFailedAttempts
  login,     \* local state of each login
  admin,     \* where UnlockAccount is
  failures,  \* history: failures counted since the counter was last gone, up to
             \* MaxFailedAttempts
  observed   \* history: the states of the lock during each login's check

breakerVars == <<state, failureCount, elapsed, call>>
environment == <<config, redisFails>>
redisVars   == <<lock, count>>
vars == <<config, redisFails, state, failureCount, elapsed, call, lock, count, login, admin,
          failures, observed>>

Breaker == INSTANCE CircuitBreaker WITH Callers <- Attempts, pc <- call

Config == [failMode: {"FailThenLock", "KeepUnlock"}, breaker: BOOLEAN]
Locks == {"absent", "bare", "timed"}
Login ==
  [pc: {"idle", "breakerOpen", "check", "ttl", "cleanup", "password", "increment",
        "setLock", "expireLock", "reset"},
   found: BOOLEAN,          \* what EXISTS answered
   left: 0..LockFields]     \* HSETs still to do
At(step) == [pc |-> step, found |-> FALSE, left |-> 0]
Idle == At("idle")
Locking == [pc |-> "setLock", found |-> FALSE, left |-> LockFields]

TypeOK ==
  /\ config \in Config
  /\ redisFails \in BOOLEAN
  /\ Breaker!TypeOK
  /\ lock \in Locks
  /\ count \in 0..MaxFailedAttempts
  /\ login \in [Attempts -> Login]
  /\ admin \in {"idle", "deleteCounter"}
  /\ failures \in 0..MaxFailedAttempts
  /\ observed \in [Attempts -> SUBSET Locks]

Init ==
  /\ config \in Config
  /\ redisFails = FALSE
  /\ Breaker!Init
  /\ lock = "absent"
  /\ count = 0
  /\ login = [a \in Attempts |-> Idle]
  /\ admin = "idle"
  /\ failures = 0
  /\ observed = [a \in Attempts |-> {}]

Checking(a) == login[a].pc \in {"breakerOpen", "check", "ttl", "cleanup"}
Update(a, new) == login' = [login EXCEPT ![a] = new]
Goto(a, step) == login' = [login EXCEPT ![a].pc = step]

\* Every state of the lock during a check is noted.
Observe ==
  observed' = [a \in Attempts |->
    IF ~Checking(a)' THEN {}
    ELSE IF Checking(a) THEN observed[a] \cup {lock'}
    ELSE {lock'}]

(***************************************************************************)
(* CheckLockStatusRedis.                                                   *)
(***************************************************************************)
\* The fail mode: whether a login goes on when Redis cannot be asked.
Refused == Idle
Passed  == At("password")

\* Faulty variants: a fail mode that ignores the configuration.
AlwaysKeepUnlock(a) == Update(a, Passed)
AlwaysFailThenLock(a) == Update(a, Refused)

FailMode(a) == Update(a, IF config.failMode = "FailThenLock" THEN Refused ELSE Passed)

CheckLockStatus(a) ==
  /\ login[a].pc = "idle"
  /\ IF config.breaker
     THEN Breaker!CanExecute(a)
     ELSE call' = [call EXCEPT ![a] = "running"] /\ UNCHANGED <<state, failureCount, elapsed>>
  /\ Update(a, At("check"))
  /\ UNCHANGED <<environment, lock, count, admin, failures>>
  /\ Observe

\* The breaker refuses to execute.
BreakerOpen(a) ==
  /\ login[a].pc = "idle"
  /\ config.breaker /\ state = "Open" /\ ~elapsed
  /\ Update(a, At("breakerOpen"))
  /\ UNCHANGED <<environment, lock, count, admin, failures>> /\ UNCHANGED breakerVars
  /\ Observe

\* The refusal of the breaker is answered by the fail mode; Redis is not asked.
ApplyFailMode(a) ==
  /\ login[a].pc = "breakerOpen"
  /\ FailMode(a)
  /\ UNCHANGED <<environment, lock, count, admin, failures>> /\ UNCHANGED breakerVars
  /\ Observe

Upgrade(a) ==
  /\ Breaker!Upgrade(a)
  /\ UNCHANGED <<environment, login, admin, failures>> /\ UNCHANGED redisVars
  /\ Observe

\* EXISTS.
Exists(a) ==
  /\ Breaker!Answer(a)
  /\ call'[a] = "failed" => redisFails
  /\ login' = [login EXCEPT ![a].found = (call'[a] = "succeeded" /\ lock # "absent")]
  /\ UNCHANGED <<environment, admin, failures>> /\ UNCHANGED redisVars
  /\ Observe

RecordFailure(a) ==
  /\ Breaker!RecordFailure(a)
  /\ FailMode(a)
  /\ UNCHANGED <<environment, admin, failures>> /\ UNCHANGED redisVars
  /\ Observe

RecordSuccess(a) ==
  /\ Breaker!RecordSuccess(a)
  /\ Update(a, IF login[a].found THEN At("ttl") ELSE Passed)
  /\ UNCHANGED <<environment, admin, failures>> /\ UNCHANGED redisVars
  /\ Observe

\* Faulty variant: a lock without a TTL is taken for a lock that does not expire.
TtlOfBareLockRefuses(a) ==
  /\ login[a].pc = "ttl"
  /\ IF lock = "absent" THEN Goto(a, "cleanup") ELSE Update(a, Refused)
  /\ UNCHANGED <<environment, admin, failures>> /\ UNCHANGED breakerVars /\ UNCHANGED redisVars
  /\ Observe

\* TTL: -2 for a missing key and -1 for a key without a TTL are both <= 0.
Ttl(a) ==
  /\ login[a].pc = "ttl"
  /\ \/ lock = "timed" /\ Update(a, Refused)
     \/ lock # "timed" /\ Goto(a, "cleanup")
     \/ redisFails /\ Update(a, Refused)
  /\ UNCHANGED <<environment, admin, failures>> /\ UNCHANGED breakerVars /\ UNCHANGED redisVars
  /\ Observe

\* DEL of the lock; its error is not looked at.
Cleanup(a) ==
  /\ login[a].pc = "cleanup"
  /\ \/ lock' = "absent"
     \/ redisFails /\ lock' = lock
  /\ Update(a, Passed)
  /\ UNCHANGED <<environment, count, admin, failures>> /\ UNCHANGED breakerVars
  /\ Observe

(***************************************************************************)
(* The application compares the password and reports the outcome, or does  *)
(* nothing more: an untracked kind of failure, an error of its own, or     *)
(* GetLockoutStatus, which only asked.                                     *)
(***************************************************************************)
ComparePassword(a) ==
  /\ login[a].pc = "password"
  /\ \E step \in {"increment", "reset", "idle"}: Goto(a, step)
  /\ UNCHANGED <<environment, admin, failures>> /\ UNCHANGED breakerVars /\ UNCHANGED redisVars
  /\ Observe

UpTo(limit, n) == IF n > limit THEN limit ELSE n

CountFailure ==
  /\ count' = UpTo(MaxFailedAttempts, count + 1)
  /\ failures' = UpTo(MaxFailedAttempts, failures + 1)

ForgetFailures == count' = 0 /\ failures' = 0

\* Faulty variant: the account is locked one failure early.
IncrementLocksEarly(a) ==
  /\ login[a].pc = "increment"
  /\ CountFailure
  /\ Update(a, IF count + 2 >= MaxFailedAttempts THEN Locking ELSE Idle)
  /\ lock' = lock /\ UNCHANGED <<environment, admin>> /\ UNCHANGED breakerVars
  /\ Observe

\* RecordFailedAttempt: HINCRBY, and lockAccount when the threshold is reached.
\* An error of HINCRBY, which Redis may have run all the same, ends it in both fail
\* modes.
IncrementFailedAttemptCounter(a) ==
  /\ login[a].pc = "increment"
  /\ \/ /\ CountFailure
        /\ Update(a, IF count + 1 >= MaxFailedAttempts THEN Locking ELSE Idle)
     \/ redisFails /\ Update(a, Idle) /\ (CountFailure \/ UNCHANGED <<count, failures>>)
  /\ lock' = lock /\ UNCHANGED <<environment, admin>> /\ UNCHANGED breakerVars
  /\ Observe

\* HSET makes a missing key, and leaves the TTL of one that is there alone.
SetField == IF lock = "absent" THEN lock' = "bare" ELSE lock' = lock

\* LockAccountRedis, one HSET of the lock's fields; an error ends it and is only
\* logged by RecordFailedAttempt.
SetLockField(a) ==
  /\ login[a].pc = "setLock"
  /\ \/ /\ SetField
        /\ login' = [login EXCEPT ![a].left = @ - 1,
                                  ![a].pc = IF login[a].left = 1 THEN "expireLock" ELSE "setLock"]
     \/ redisFails /\ Update(a, Idle) /\ (SetField \/ lock' = lock)
  /\ UNCHANGED <<environment, count, admin, failures>> /\ UNCHANGED breakerVars
  /\ Observe

\* EXPIRE, which does nothing and reports no error for a missing key.
ExpireLock(a) ==
  /\ login[a].pc = "expireLock"
  /\ \/ lock # "absent" /\ lock' = "timed"
     \/ (lock = "absent" \/ redisFails) /\ lock' = lock
  /\ Update(a, Idle)
  /\ UNCHANGED <<environment, count, admin, failures>> /\ UNCHANGED breakerVars
  /\ Observe

\* RecordSuccessfulLogin with ResetCounterOnSuccess: DEL of the counter.
ResetCounter(a) ==
  /\ login[a].pc = "reset"
  /\ \/ ForgetFailures
     \/ redisFails /\ UNCHANGED <<count, failures>>
  /\ Update(a, Idle)
  /\ lock' = lock /\ UNCHANGED <<environment, admin>> /\ UNCHANGED breakerVars
  /\ Observe

(***************************************************************************)
(* UnlockAccount, the TTLs of the two keys, and the death of the process.  *)
(***************************************************************************)
UnlockAccount ==
  /\ admin = "idle"
  /\ lock' = "absent"
  /\ \/ admin' = "deleteCounter"
     \/ redisFails /\ admin' = "idle"
  /\ UNCHANGED <<environment, count, login, failures>> /\ UNCHANGED breakerVars
  /\ Observe

DeleteCounter ==
  /\ admin = "deleteCounter"
  /\ \/ ForgetFailures
     \/ redisFails /\ UNCHANGED <<count, failures>>
  /\ admin' = "idle"
  /\ lock' = lock /\ UNCHANGED <<environment, login>> /\ UNCHANGED breakerVars
  /\ Observe

LockExpires ==
  /\ lock = "timed"
  /\ lock' = "absent"
  /\ UNCHANGED <<environment, count, login, admin, failures>> /\ UNCHANGED breakerVars
  /\ Observe

CounterExpires ==
  /\ count > 0
  /\ ForgetFailures
  /\ lock' = lock /\ UNCHANGED <<environment, login, admin>> /\ UNCHANGED breakerVars
  /\ Observe

TimeoutElapses ==
  /\ Breaker!TimeoutElapses
  /\ UNCHANGED <<environment, login, admin, failures>> /\ UNCHANGED redisVars
  /\ Observe

\* Redis becomes unreliable, or reliable again; its data stay.
RedisTurns ==
  /\ redisFails' = ~redisFails
  /\ UNCHANGED <<config, admin, login, failures>>
  /\ UNCHANGED breakerVars /\ UNCHANGED redisVars
  /\ Observe

Crash ==
  /\ Breaker!Restart
  /\ login' = [a \in Attempts |-> Idle]
  /\ admin' = "idle"
  /\ UNCHANGED <<environment, failures>> /\ UNCHANGED redisVars
  /\ Observe

LoginStep(a) ==
  \/ ApplyFailMode(a) \/ Upgrade(a) \/ Exists(a) \/ RecordFailure(a) \/ RecordSuccess(a)
  \/ Ttl(a) \/ Cleanup(a) \/ ComparePassword(a) \/ IncrementFailedAttemptCounter(a)
  \/ SetLockField(a) \/ ExpireLock(a) \/ ResetCounter(a)

Next ==
  \/ \E a \in Attempts: CheckLockStatus(a) \/ BreakerOpen(a) \/ LoginStep(a)
  \/ UnlockAccount \/ DeleteCounter
  \/ LockExpires \/ CounterExpires \/ TimeoutElapses
  \/ RedisTurns
  \/ Crash

Spec == Init /\ [][Next]_vars

\* A login that entered goes on, Redis expires keys and time passes.  Clients
\* keep logging in: that is assumed of them.
FairSpec ==
  /\ Spec
  /\ \A a \in Attempts: WF_vars(LoginStep(a)) /\ WF_vars(CheckLockStatus(a))
  /\ WF_vars(LockExpires) /\ WF_vars(TimeoutElapses)

(***************************************************************************)
(* Properties.                                                             *)
(***************************************************************************)
\* A login begins to lock the account only with the last of MaxFailedAttempts failures
\* counted since the counter was last reset, unlocked or expired, whatever logins,
\* lost answers and crashes lie between them; and nothing but such a login makes a
\* lock (RecordFailedAttempt, LockAccountRedis).
LockNeedsFailures ==
  [][/\ \A a \in Attempts: (login[a].pc # "setLock" /\ login'[a].pc = "setLock")
                            => failures' = MaxFailedAttempts
     /\ (lock = "absent" /\ lock' # "absent") => \E a \in Attempts: login[a].pc = "setLock"]_vars

\* "UnlockAccount manually unlocks an account", and a successful login "resets
\* counters": behind them an account is locked only after as many failures anew.  (The
\* lock may be under way when they come.)
ResetsSpareTheAccount ==
  [][(lock = "absent" /\ lock' # "absent") => failures = MaxFailedAttempts]_vars

\* The check, though it is three Redis commands and two calls of the breaker, lets
\* a login through only if at some moment of it no finished lock was there.  In
\* the mode REDIS_FAIL_THEN_LOCK that holds with Redis failing, too.
PassedThroughAGap ==
  [][\A a \in Attempts:
       (config.failMode = "FailThenLock" /\ login[a].pc # "password" /\ login'[a].pc = "password")
         => observed[a] \cap {"absent", "bare"} # {}]_vars

\* In the mode REDIS_FAIL_KEEP_UNLOCK a failing Redis turns nobody away, nor does an
\* open breaker, which keeps a login from asking Redis: a refused login met a lock
\* during its check.
RefusedByALock ==
  [][\A a \in Attempts:
       (/\ config.failMode = "KeepUnlock"
        /\ Checking(a) /\ login'[a].pc = "idle" /\ ~Crash)
         => observed[a] \cap {"bare", "timed"} # {}]_vars

\* No lock is for ever, once the process stops crashing and Redis stops failing:
\* not even one that a crash or a lost EXPIRE left without a TTL, which Redis would
\* never expire.  The next check removes it.
LocksEnd ==
  (<>[][~Crash]_vars /\ <>[]~redisFails) => (lock # "absent" ~> lock = "absent")

\* Once Redis answers every command, the breaker ends up closed for good: no
\* interleaving of late answers and of the two halves of CanExecute leaves it
\* open, or flapping.
RecoversWithRedis == (config.breaker /\ <>[]~redisFails) => <>[](state = "Closed")

\* The answer of a check that was let through before the breaker opened does not
\* close it: short of a restart an open breaker goes through half-open.
OpenGoesThroughHalfOpen == [][(state = "Open" /\ state' = "Closed") => Crash]_vars

\* "Expired, clean up": the DEL of the check removes nothing but a lock that has
\* expired (CheckLockStatusRedis).
CleanupRemovesExpiredLocks ==
  [][\A a \in Attempts: Cleanup(a) => lock = "absent"]_vars
===============================================================================
