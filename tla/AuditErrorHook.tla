---------------------------- MODULE AuditErrorHook ----------------------------
(***************************************************************************)
(* DoError of module/audit_log: the function dxlib's logger calls through  *)
(* the global variable log.OnError for every error a request logs.  It     *)
(* saves the variable, clears it while it inserts the error_log row, and   *)
(* puts back what it saved.  No lock guards the variable and every request *)
(* has a goroutine of its own; each step below is one access to it.        *)
(***************************************************************************)
EXTENDS Naturals, Sequences

CONSTANTS
  Goroutines,
  MaxDepth,   \* bound on DoErrors nested in one goroutine
  DoError,    \* the value log.OnError is initialised with
  Nil

VARIABLES
  OnError,          \* the global variable
  pc,               \* what the innermost DoError of a goroutine does next
  originalOnError   \* its local copies, the innermost last

vars == <<OnError, pc, originalOnError>>

Values == {DoError, Nil}

TypeOK ==
  /\ OnError \in Values
  /\ pc \in [Goroutines -> {"idle", "save", "clear", "insert", "restore"}]
  /\ originalOnError \in [Goroutines -> UNION {[1 .. n -> Values]: n \in 0 .. MaxDepth}]

Init ==
  /\ OnError = DoError
  /\ pc = [g \in Goroutines |-> "idle"]
  /\ originalOnError = [g \in Goroutines |-> << >>]

Goto(g, label) == pc' = [pc EXCEPT ![g] = label]

\* A request logs an error; the logger calls OnError unless it is nil.
LogError(g) ==
  /\ pc[g] = "idle" /\ OnError # Nil
  /\ Goto(g, "save")
  /\ UNCHANGED <<OnError, originalOnError>>

SaveOnError(g) ==
  /\ pc[g] = "save"
  /\ originalOnError' = [originalOnError EXCEPT ![g] = Append(@, OnError)]
  /\ Goto(g, "clear")
  /\ UNCHANGED OnError

ClearOnError(g) ==
  /\ pc[g] = "clear"
  /\ OnError' = Nil
  /\ Goto(g, "insert")
  /\ UNCHANGED originalOnError

\* The insert succeeds, or fails while OnError is nil: its error is not logged.
Insert(g) ==
  /\ pc[g] = "insert"
  /\ Goto(g, "restore")
  /\ UNCHANGED <<OnError, originalOnError>>

\* The insert fails and logs its error: a DoError inside DoError, unless
\* OnError is still nil.
InsertFails(g) ==
  /\ pc[g] = "insert"
  /\ OnError # Nil /\ Len(originalOnError[g]) < MaxDepth
  /\ Goto(g, "save")
  /\ UNCHANGED <<OnError, originalOnError>>

Depth(g) == Len(originalOnError[g])
Return(g) ==
  /\ originalOnError' = [originalOnError EXCEPT ![g] = SubSeq(@, 1, Len(@) - 1)]
  /\ Goto(g, IF Depth(g) = 1 THEN "idle" ELSE "restore")

RestoreOnError(g) ==
  /\ pc[g] = "restore"
  /\ OnError' = originalOnError[g][Depth(g)]
  /\ Return(g)

Step(g) ==
  \/ SaveOnError(g) \/ ClearOnError(g) \/ Insert(g) \/ InsertFails(g) \/ RestoreOnError(g)

Next == \E g \in Goroutines: LogError(g) \/ Step(g)

Spec == Init /\ [][Next]_vars

(***************************************************************************)
(* Properties.                                                             *)
(***************************************************************************)
\* "Restore OnError only after all error handling is complete": when no DoError
\* runs, errors reach the audit log again.
RestoredWhenIdle == (\A g \in Goroutines: pc[g] = "idle") => OnError = DoError

\* "Temporarily disable OnError to prevent infinite recursion when logging insert
\* errors": a DoError never runs inside a DoError of its goroutine.
NoRecursion == \A g \in Goroutines: Depth(g) <= 1
===============================================================================
