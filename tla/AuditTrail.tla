------------------------------ MODULE AuditTrail ------------------------------
(***************************************************************************)
(* What the audit log of module/account_lockout promises of an event: once *)
(* logged it is written to the table at most once, or it is lost, and what *)
(* was written or lost stays so.  A row that is in the table stays as it   *)
(* is, and none comes without an event that was logged and not yet written.*)
(***************************************************************************)
EXTENDS Sequences

CONSTANT Events

VARIABLES
  state,  \* of each event: "new", "logged", "written" or "lost"
  rows    \* the rows of the table, each the event it was written for

Init == state = [e \in Events |-> "new"] /\ rows = << >>

Log(e) ==
  /\ state[e] = "new"
  /\ state' = [state EXCEPT ![e] = "logged"]
  /\ rows' = rows

Write(e) ==
  /\ state[e] = "logged"
  /\ state' = [state EXCEPT ![e] = "written"]
  /\ rows' = Append(rows, e)

\* A crash loses any of the events that are not written yet.
Lose(es) ==
  /\ \A e \in es: state[e] = "logged"
  /\ state' = [e \in Events |-> IF e \in es THEN "lost" ELSE state[e]]
  /\ rows' = rows

Next ==
  \/ \E e \in Events: Log(e) \/ Write(e)
  \/ \E es \in SUBSET Events: Lose(es)

Spec == Init /\ [][Next]_<<state, rows>>
===============================================================================
