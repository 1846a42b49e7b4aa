----------------------------- MODULE UserAccounts -----------------------------
(***************************************************************************)
(* The life of a user row of module/user_management: suspend, activate,    *)
(* delete, undelete and edit, and the role memberships that are granted    *)
(* and revoked meanwhile.                                                  *)
(*                                                                         *)
(* Every handler is a READ COMMITTED transaction that first reads and      *)
(* checks, then writes.  What it read may be changed by others before it   *)
(* writes; an UPDATE waits for the row's lock, holds it until the commit   *)
(* and tests its WHERE clause against the row it then finds.  So the       *)
(* UPDATE and everything after it are one step when a row matches, and     *)
(* separate steps when none does.                                          *)
(***************************************************************************)
EXTENDS Naturals, FiniteSets

CONSTANTS
  Users,
  Memberships,  \* ids of the rows of user_role_membership, all for one role of one organization
  Requests,     \* handlers at work at the same time
  None

ASSUME NoneAssumption == None \notin Users \cup Memberships

VARIABLES
  status,     \* status[u]
  isDeleted,  \* is_deleted of u
  member,     \* member[m]: the user of membership row m; None when there is no such row
  req,        \* req[r]: what r has read and is about to write; None when idle
  edited,     \* history: users whose status or is_deleted an edit wrote last
  outrun,     \* history: deletions whose user was deleted by another request since they read it
  doubled     \* history: users granted a role while another grant was under way

vars == <<status, isDeleted, member, req, edited, outrun, doubled>>

Statuses == {"ACTIVE", "SUSPENDED", "DELETED"}
UserOps == {"suspend", "activate", "delete", "undelete", "grant", "cleanup"}
Request ==
  [op: UserOps, user: Users, row: {None}] \cup [op: {"revoke"}, user: Users, row: Memberships]

TypeOK ==
  /\ status \in [Users -> Statuses]
  /\ isDeleted \in [Users -> BOOLEAN]
  /\ member \in [Memberships -> Users \cup {None}]
  /\ req \in [Requests -> Request \cup {None}]
  /\ edited \subseteq Users
  /\ outrun \subseteq Requests
  /\ doubled \subseteq Users

\* Users as the three creation handlers leave them.
Init ==
  /\ status = [u \in Users |-> "ACTIVE"]
  /\ isDeleted = [u \in Users |-> FALSE]
  /\ member = [m \in Memberships |-> None]
  /\ req = [r \in Requests |-> None]
  /\ edited = {} /\ outrun = {} /\ doubled = {}

history == <<edited, outrun, doubled>>

RowsOf(u) == {m \in Memberships: member[m] = u}

Doing(r, op) == req[r] # None /\ req[r].op = op
Begin(r, op, u, m) == req' = [req EXCEPT ![r] = [op |-> op, user |-> u, row |-> m]]
End(r) == req' = [req EXCEPT ![r] = None]

\* The other deletions of u that have read it.
OtherDeletions(r, u) == {q \in Requests \ {r}: Doing(q, "delete") /\ req[q].user = u}

----------------------------------------------------------------------------
\* Faulty variant: the row is not looked at.
ReadUserUnchecked(r, op, u) ==
  /\ req[r] = None
  /\ op \in {"suspend", "activate", "delete"}
  /\ Begin(r, op, u, None)
  /\ UNCHANGED <<status, isDeleted, member, history>>

\* The first half of UserSuspend, UserActivate and DoUserDelete: the row is
\* there and is not deleted.
ReadUser(r, op, u) ==
  /\ req[r] = None
  /\ op \in {"suspend", "activate", "delete"}
  /\ ~isDeleted[u]
  /\ Begin(r, op, u, None)
  /\ UNCHANGED <<status, isDeleted, member, history>>

ReadDeletedUser(r, u) ==
  /\ req[r] = None
  /\ isDeleted[u]
  /\ Begin(r, "undelete", u, None)
  /\ UNCHANGED <<status, isDeleted, member, history>>

\* Faulty variant: UPDATE ... WHERE id, whatever is_deleted is.
SetStatusAnyway(r) ==
  /\ \/ Doing(r, "suspend") /\ status' = [status EXCEPT ![req[r].user] = "SUSPENDED"]
     \/ Doing(r, "activate") /\ status' = [status EXCEPT ![req[r].user] = "ACTIVE"]
  /\ End(r)
  /\ UNCHANGED <<isDeleted, member, history>>

\* UPDATE ... WHERE id AND is_deleted = false.  A row deleted in the meantime
\* does not match, and the handler answers 200 all the same.
SetStatus(r) ==
  LET u == req[r].user
      Set(s) == status' = IF isDeleted[u] THEN status ELSE [status EXCEPT ![u] = s]
  IN /\ \/ Doing(r, "suspend") /\ Set("SUSPENDED")
        \/ Doing(r, "activate") /\ Set("ACTIVE")
     /\ End(r)
     /\ UNCHANGED <<isDeleted, member, history>>

\* UPDATE ... WHERE id AND is_deleted = true.
Undelete(r) ==
  /\ Doing(r, "undelete")
  /\ LET u == req[r].user
     IN IF isDeleted[u]
        THEN /\ status' = [status EXCEPT ![u] = "ACTIVE"]
             /\ isDeleted' = [isDeleted EXCEPT ![u] = FALSE]
             /\ edited' = edited \ {u}
        ELSE UNCHANGED <<status, isDeleted, edited>>
  /\ End(r)
  /\ UNCHANGED <<member, outrun, doubled>>

\* OnUserAfterDelete is the application's: it cleans the user's role memberships
\* up, or the application installs none and they stay.
OnUserAfterDelete(u) ==
  \/ member' = [m \in Memberships |-> IF member[m] = u THEN None ELSE member[m]]
  \/ UNCHANGED member

\* DoUserDelete finds the row as it read it: what it writes and what the callback
\* writes is one commit.
Delete(r) ==
  /\ Doing(r, "delete")
  /\ LET u == req[r].user
     IN /\ ~isDeleted[u]
        /\ isDeleted' = [isDeleted EXCEPT ![u] = TRUE]
        /\ status' = [status EXCEPT ![u] = "DELETED"]
        /\ OnUserAfterDelete(u)
        /\ edited' = edited \ {u}
        /\ outrun' = (outrun \ {r}) \cup OtherDeletions(r, u)
  /\ End(r)
  /\ UNCHANGED doubled

\* The UPDATE matches no row: another request has deleted the user.  The number
\* of rows is not looked at, so the callback follows, without the row's lock.
DeleteNothing(r) ==
  /\ Doing(r, "delete")
  /\ isDeleted[req[r].user]
  /\ Begin(r, "cleanup", req[r].user, None)
  /\ UNCHANGED <<status, isDeleted, member, history>>

CleanUp(r) ==
  /\ Doing(r, "cleanup")
  /\ OnUserAfterDelete(req[r].user)
  /\ outrun' = outrun \ {r}
  /\ End(r)
  /\ UNCHANGED <<status, isDeleted, edited, doubled>>

\* DoUserEdit writes the columns the request names; "status" and "is_deleted" are
\* not taken out of them.  The UPDATE comes first, so the handler is one step.
EditStatus(r, u, s, d) ==
  /\ req[r] = None
  /\ status' = [status EXCEPT ![u] = s]
  /\ isDeleted' = [isDeleted EXCEPT ![u] = d]
  /\ edited' = edited \cup {u}
  /\ outrun' = IF d THEN outrun \cup OtherDeletions(r, u) ELSE outrun
  /\ UNCHANGED <<member, req, doubled>>

----------------------------------------------------------------------------
\* Faulty variant: no look at the rows there are.
SkipMembershipCheck(r, u) ==
  /\ req[r] = None
  /\ Begin(r, "grant", u, None)
  /\ UNCHANGED <<status, isDeleted, member, history>>

\* UserRoleMembershipCreate: the combination of organization and role is
\* allowed, and the user has no such row yet.  That the user is deleted is not
\* looked at.
CheckMembership(r, u) ==
  /\ req[r] = None
  /\ RowsOf(u) = {}
  /\ Begin(r, "grant", u, None)
  /\ UNCHANGED <<status, isDeleted, member, history>>

Busy == {r \in Requests: req[r] # None}
Unused(m) == member[m] = None /\ m \notin {req[r].row: r \in Busy}

Grant(r, m) ==
  /\ Doing(r, "grant") /\ Unused(m)
  /\ LET u == req[r].user
     IN /\ member' = [member EXCEPT ![m] = u]
        /\ doubled' = IF \E q \in Requests \ {r}: Doing(q, "grant") /\ req[q].user = u
                      THEN doubled \cup {u} ELSE doubled
  /\ End(r)
  /\ UNCHANGED <<status, isDeleted, edited, outrun>>

\* UserRoleMembershipSoftDelete and ...HardDelete: read the row, then delete it
\* by its id.
ReadMembership(r, m) ==
  /\ req[r] = None /\ member[m] # None
  /\ Begin(r, "revoke", member[m], m)
  /\ UNCHANGED <<status, isDeleted, member, history>>

Revoke(r) ==
  /\ Doing(r, "revoke")
  /\ member' = [member EXCEPT ![req[r].row] = None]
  /\ End(r)
  /\ UNCHANGED <<status, isDeleted, edited, outrun, doubled>>

\* A callback refuses, a statement fails or the process dies: the transaction is
\* rolled back.
RollBack(r) ==
  /\ req[r] # None
  /\ End(r)
  /\ outrun' = outrun \ {r}
  /\ UNCHANGED <<status, isDeleted, member, edited, doubled>>

Next == \E r \in Requests:
  \/ \E u \in Users:
       \/ \E op \in {"suspend", "activate", "delete"}: ReadUser(r, op, u)
       \/ ReadDeletedUser(r, u)
       \/ \E s \in Statuses, d \in BOOLEAN: EditStatus(r, u, s, d)
       \/ CheckMembership(r, u)
  \/ SetStatus(r) \/ Undelete(r) \/ Delete(r) \/ DeleteNothing(r) \/ CleanUp(r)
  \/ \E m \in Memberships: Grant(r, m) \/ ReadMembership(r, m)
  \/ Revoke(r) \/ RollBack(r)

Spec == Init /\ [][Next]_vars

(***************************************************************************)
(* Properties.                                                             *)
(***************************************************************************)
\* Whatever overlaps, a row says DELETED exactly when it is deleted, unless an
\* edit wrote one of the two columns: the WHERE clauses keep a late suspension or
\* activation from reviving a deleted user.
StatusTellsDeletion ==
  \A u \in Users \ edited: isDeleted[u] <=> status[u] = "DELETED"

\* A user has two rows for one role only if two grants overlapped.
OneRowPerRole ==
  \A u \in Users \ doubled: Cardinality(RowsOf(u)) <= 1

\* A user who is not deleted loses a role by a revocation of that row, or to the
\* cleanup of a deletion that another one outran, and that another request has
\* undone since.
LivingUsersKeepRoles ==
  [][\A m \in Memberships:
       LET u == member[m]
       IN u # None /\ member'[m] = None =>
            \/ isDeleted'[u]
            \/ \E r \in Requests: \/ Doing(r, "revoke") /\ req[r].row = m /\ req'[r] = None
                                  \/ Doing(r, "cleanup") /\ r \in outrun /\ req'[r] = None]_vars
===============================================================================
