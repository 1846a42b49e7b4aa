---------------------------- MODULE CircuitBreaker ----------------------------
(***************************************************************************)
(* The circuit breaker of module/account_lockout and the goroutines of one *)
(* process that guard a Redis command with it.                             *)
(*                                                                         *)
(* Each of the breaker's methods is one step, for it holds the mutex       *)
(* throughout, but for CanExecute, which gives the read lock back before   *)
(* it takes the write lock: it is two steps, with a gap between them.      *)
(* The clock is the question the code asks of it: whether the timeout has  *)
(* elapsed since the last failure.                                         *)
(***************************************************************************)
EXTENDS Naturals, FiniteSets

CONSTANTS
  Callers,   \* goroutines that check a lock at the same time
  Threshold  \* circuit_breaker_threshold, which no code validates: 0 is legal

VARIABLES
  state,         \* StateClosed, StateOpen or StateHalfOpen
  failureCount,  \* counted up to Threshold: the code only asks whether it is reached
  elapsed,       \* time.Since(lastFailureTime) > timeout
  pc             \* where each caller is

vars == <<state, failureCount, elapsed, pc>>

States == {"Closed", "Open", "HalfOpen"}

\* A caller that was let through runs its command; it is "probing" when the
\* breaker was half-open for it.  The breaker itself cannot tell the two apart.
Steps == {"idle", "upgrading", "running", "probing", "succeeded", "failed"}

\* A breaker that lets everything through has seen fewer failures than the
\* threshold since the last success, whatever a late CanExecute did to its state.
TypeOK ==
  /\ state \in States
  /\ failureCount \in 0..Threshold
  /\ state = "Closed" => failureCount = 0 \/ failureCount < Threshold
  /\ elapsed \in BOOLEAN
  /\ pc \in [Callers -> Steps]

\* NewCircuitBreaker; the zero lastFailureTime is long past.
Init ==
  /\ state = "Closed"
  /\ failureCount = 0
  /\ elapsed = TRUE
  /\ pc = [c \in Callers |-> "idle"]

breaker == <<state, failureCount, elapsed>>
Move(c, step) == pc' = [pc EXCEPT ![c] = step]

(***************************************************************************)
(* CanExecute, under the read lock: a refused caller stays where it was.   *)
(***************************************************************************)
CanExecute(c) ==
  /\ pc[c] = "idle"
  /\ \/ state = "Closed"           /\ Move(c, "running")
     \/ state = "HalfOpen"         /\ Move(c, "probing")
     \/ state = "Open" /\ elapsed  /\ Move(c, "upgrading")
  /\ UNCHANGED breaker

\* The write lock comes later, and nothing is read again under it.
Upgrade(c) ==
  /\ pc[c] = "upgrading"
  /\ state' = "HalfOpen"
  /\ Move(c, "probing")
  /\ UNCHANGED <<failureCount, elapsed>>

\* The Redis command ends.
Answer(c) ==
  /\ pc[c] \in {"running", "probing"}
  /\ \E outcome \in {"succeeded", "failed"}: Move(c, outcome)
  /\ UNCHANGED breaker

\* Faulty variant: any success closes the breaker.
CloseOnSuccess(c) ==
  /\ pc[c] = "succeeded"
  /\ failureCount' = 0
  /\ state' = "Closed"
  /\ Move(c, "idle")
  /\ UNCHANGED elapsed

\* Faulty variant: a success does not touch the state.
SuccessOnlyResets(c) ==
  /\ pc[c] = "succeeded"
  /\ failureCount' = 0
  /\ Move(c, "idle")
  /\ UNCHANGED <<state, elapsed>>

\* Faulty variant: a success takes back one failure.
SuccessUndoesOneFailure(c) ==
  /\ pc[c] = "succeeded"
  /\ failureCount' = failureCount - 1
  /\ state' = IF state = "HalfOpen" THEN "Closed" ELSE state
  /\ Move(c, "idle")
  /\ UNCHANGED elapsed

RecordSuccess(c) ==
  /\ pc[c] = "succeeded"
  /\ failureCount' = 0
  /\ state' = IF state = "HalfOpen" THEN "Closed" ELSE state
  /\ Move(c, "idle")
  /\ UNCHANGED elapsed

\* Faulty variant: the failure that reaches the threshold is let pass.
CountBeyondThreshold(c) ==
  /\ pc[c] = "failed"
  /\ failureCount' = IF failureCount < Threshold THEN failureCount + 1 ELSE failureCount
  /\ elapsed' = FALSE
  /\ state' = IF failureCount >= Threshold THEN "Open" ELSE state
  /\ Move(c, "idle")

RecordFailure(c) ==
  /\ pc[c] = "failed"
  /\ failureCount' = IF failureCount < Threshold THEN failureCount + 1 ELSE failureCount
  /\ elapsed' = FALSE
  /\ state' = IF failureCount + 1 >= Threshold THEN "Open" ELSE state
  /\ Move(c, "idle")

\* circuit_breaker_timeout_seconds have passed since the last failure.
TimeoutElapses == ~elapsed /\ elapsed' = TRUE /\ UNCHANGED <<state, failureCount, pc>>

\* The process is restarted: the breaker lives in its memory.
Restart ==
  /\ state' = "Closed"
  /\ failureCount' = 0
  /\ elapsed' = TRUE
  /\ pc' = [c \in Callers |-> "idle"]

Step(c) == Upgrade(c) \/ Answer(c) \/ RecordSuccess(c) \/ RecordFailure(c)

Next ==
  \/ \E c \in Callers: CanExecute(c) \/ Step(c)
  \/ TimeoutElapses
  \/ Restart

Spec == Init /\ [][Next]_vars

(***************************************************************************)
(* Properties.                                                             *)
(***************************************************************************)
\* "Half-open state - allow one request" (CanExecute).
HalfOpenAllowsOneRequest == Cardinality({c \in Callers: pc[c] = "probing"}) <= 1

\* "If open, check if timeout elapsed": the breaker becomes half-open only when
\* it is open and its timeout has elapsed (CanExecute).
HalfOpenAfterTimeout ==
  [][(state # "HalfOpen" /\ state' = "HalfOpen") => (state = "Open" /\ elapsed)]_vars
===============================================================================
