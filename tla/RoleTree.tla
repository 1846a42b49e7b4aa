------------------------------- MODULE RoleTree -------------------------------
(***************************************************************************)
(* The tree of roles of module/user_management: RoleCreate hangs a new     *)
(* role under a parent, RoleEditByUid moves a role under another one.      *)
(*                                                                         *)
(* A move reads the new parent's absolute_path, refuses when the moved     *)
(* role is on it, and updates parent_id in a later statement: other edits  *)
(* come in between.  The path is a column of the view v_role, which the    *)
(* database computes from the parents; here it is the set of the roles on  *)
(* it, the parent itself included.                                         *)
(***************************************************************************)
EXTENDS Naturals

CONSTANTS
  Roles,    \* the roles that can exist
  Root,     \* the role with the utag SUPER-ADMINISTRATOR
  Editors,  \* requests to RoleEditByUid in flight at the same time
  Creators, \* requests to RoleCreate in flight at the same time
  NoRole

ASSUME ConstantsAssumption ==
  /\ Root \in Roles
  /\ NoRole \notin Roles

VARIABLES
  exists,   \* the roles with a row
  parent,   \* parent[r]: the parent_id of r; NoRole at the root
  edit,     \* edit[e]: the move that editor e is about to write, or NoRole
  create,   \* create[c]: the parent that creator c has read, or NoRole
  stale,    \* history: editors whose path was read before another's move was written
  raced     \* history: the move of such an editor has been written

treeVars == <<exists, parent, edit, create, stale, raced>>

Move == [role: Roles, parent: Roles, path: SUBSET Roles]
ASSUME NoRoleIsNoMove == NoRole \notin Move

\* Every role that exists, except the root, has a parent that exists.
TreeTypeOK ==
  /\ exists \subseteq Roles /\ Root \in exists
  /\ parent \in [Roles -> Roles \cup {NoRole}]
  /\ \A r \in exists \ {Root}: parent[r] \in exists
  /\ edit \in [Editors -> Move \cup {NoRole}]
  /\ create \in [Creators -> Roles \cup {NoRole}]
  /\ stale \subseteq Editors
  /\ raced \in BOOLEAN

TreeInit ==
  /\ exists = {Root}
  /\ parent = [r \in Roles |-> NoRole]
  /\ edit = [e \in Editors |-> NoRole]
  /\ create = [c \in Creators |-> NoRole]
  /\ stale = {} /\ raced = FALSE

\* A set of roles that holds the parents of its members.
Closed(S) == \A r \in S \ {Root}: parent[r] \in S

\* absolute_path of role p: the least closed set around it.
AbsolutePath(p) ==
  {r \in exists: \A S \in SUBSET exists: p \in S /\ Closed(S) => r \in S}

----------------------------------------------------------------------------
\* RoleCreate reads the parent, then inserts the row.
ReadParent(c, p) ==
  /\ create[c] = NoRole
  /\ p \in exists
  /\ create' = [create EXCEPT ![c] = p]
  /\ UNCHANGED <<exists, parent, edit, stale, raced>>

TxInsert(c) ==
  /\ create[c] # NoRole
  /\ \E r \in Roles \ exists:
       /\ exists' = exists \cup {r}
       /\ parent' = [parent EXCEPT ![r] = create[c]]
  /\ create' = [create EXCEPT ![c] = NoRole]
  /\ UNCHANGED <<edit, stale, raced>>

\* Validation or the insert fails.
CreateFails(c) ==
  /\ create[c] # NoRole
  /\ create' = [create EXCEPT ![c] = NoRole]
  /\ UNCHANGED <<exists, parent, edit, stale, raced>>

----------------------------------------------------------------------------
\* Faulty variant: the two paths are swapped.
WouldCircleSwapped(r, p) == p \in AbsolutePath(r)

\* The test that refuses a circular reference: r is on the path of p.
WouldCircle(r, p) == r \in AbsolutePath(p)

\* RoleEditByUid: the superadmin role keeps its place; a role on the path of
\* its new parent is refused.  A refusal changes nothing.
RoleEditByUid(e, r, p) ==
  /\ edit[e] = NoRole
  /\ r \in exists /\ p \in exists
  /\ r # Root
  /\ ~WouldCircle(r, p)
  /\ edit' = [edit EXCEPT ![e] = [role |-> r, parent |-> p, path |-> AbsolutePath(p)]]
  /\ UNCHANGED <<exists, parent, create, stale, raced>>

\* DoUpdateWithValidation writes parent_id.
DoUpdate(e) ==
  /\ edit[e] # NoRole
  /\ parent' = [parent EXCEPT ![edit[e].role] = edit[e].parent]
  /\ edit' = [edit EXCEPT ![e] = NoRole]
  /\ stale' = {f \in Editors \ {e}: edit[f] # NoRole}
  /\ raced' = (raced \/ e \in stale)
  /\ UNCHANGED <<exists, create>>

EditFails(e) ==
  /\ edit[e] # NoRole
  /\ edit' = [edit EXCEPT ![e] = NoRole]
  /\ stale' = stale \ {e}
  /\ UNCHANGED <<exists, parent, create, raced>>

TreeNext ==
  \/ \E c \in Creators: (\E p \in Roles: ReadParent(c, p)) \/ TxInsert(c) \/ CreateFails(c)
  \/ \E e \in Editors:
       (\E r, p \in Roles: RoleEditByUid(e, r, p)) \/ DoUpdate(e) \/ EditFails(e)

TreeSpec == TreeInit /\ [][TreeNext]_treeVars

----------------------------------------------------------------------------
\* The parents never form a circle: a set of roles that holds the parents of
\* its members holds the root.
NoCircularReference ==
  \A S \in SUBSET exists: S # {} /\ Closed(S) => Root \in S

\* Moves that overlap with inserts, and even with moves that are not written, are
\* safe: a circle needs a move whose path was read before another move was
\* written.
NoCircleUnlessRaced == raced \/ NoCircularReference
=============================================================================
