------------------------ MODULE UserManagementProofs ------------------------
(***************************************************************************)
(* Proofs about three components of module/user_management: UserAccounts,  *)
(* for any number of users, memberships and requests; RoleTree, for any    *)
(* set of roles and any number of moves and inserts; Directory, for any    *)
(* number of handlers and names and any file.                              *)
(***************************************************************************)
EXTENDS UserAccounts, RoleTree, Directory, SequenceTheorems, FiniteSetTheorems, TLAPS

(***************************************************************************)
(* UserAccounts.                                                           *)
(***************************************************************************)
\* The user of a deletion that has read it is there, or the deletion knows that
\* another one was faster; a cleanup knows it.
OutrunIsNoted ==
  \A r \in Requests:
    /\ Doing(r, "delete") /\ isDeleted[req[r].user] => r \in outrun
    /\ Doing(r, "cleanup") => r \in outrun

\* A user about to be granted the role has no row for it.
GrantsAreFirst ==
  \A r \in Requests: Doing(r, "grant") /\ req[r].user \notin doubled => RowsOf(req[r].user) = {}

RowsAreOne ==
  \A u \in Users \ doubled: \A m, n \in RowsOf(u): m = n

UsersInv ==
  /\ TypeOK /\ StatusTellsDeletion
  /\ OutrunIsNoted /\ GrantsAreFirst /\ RowsAreOne

LEMMA InitUsers == Init => UsersInv
<1> SUFFICES ASSUME Init PROVE UsersInv
  OBVIOUS
<1>1. TypeOK
  BY DEF Init, TypeOK, Statuses
<1>2. StatusTellsDeletion
  BY DEF Init, StatusTellsDeletion
<1>3. OutrunIsNoted /\ GrantsAreFirst
  BY DEF Init, OutrunIsNoted, GrantsAreFirst, Doing
<1>4. RowsAreOne
  BY NoneAssumption DEF Init, RowsAreOne, RowsOf
<1> QED
  BY <1>1, <1>2, <1>3, <1>4 DEF UsersInv

LEMMA ReadUserKeeps ==
  ASSUME UsersInv, NEW r \in Requests, NEW u \in Users,
         NEW op \in {"suspend", "activate", "delete"}, ReadUser(r, op, u)
  PROVE  UsersInv'
<1> USE NoneAssumption DEF UsersInv, TypeOK, Request, UserOps, Statuses, Doing, Begin, End,
       history, ReadUser
<1>1. TypeOK'
  BY DEF OtherDeletions
<1>2. StatusTellsDeletion'
  BY DEF StatusTellsDeletion
<1>3. OutrunIsNoted'
  BY DEF OutrunIsNoted, OtherDeletions
<1>4. GrantsAreFirst'
  BY DEF GrantsAreFirst, RowsOf
<1>5. RowsAreOne'
  BY DEF GrantsAreFirst, RowsAreOne, RowsOf
<1> QED
  BY <1>1, <1>2, <1>3, <1>4, <1>5

LEMMA ReadDeletedUserKeeps ==
  ASSUME UsersInv, NEW r \in Requests, NEW u \in Users, ReadDeletedUser(r, u)
  PROVE  UsersInv'
<1> USE NoneAssumption DEF UsersInv, TypeOK, Request, UserOps, Statuses, Doing, Begin, End,
       history, ReadDeletedUser
<1>1. TypeOK'
  BY DEF OtherDeletions
<1>2. StatusTellsDeletion'
  BY DEF StatusTellsDeletion
<1>3. OutrunIsNoted'
  BY DEF OutrunIsNoted, OtherDeletions
<1>4. GrantsAreFirst'
  BY DEF GrantsAreFirst, RowsOf
<1>5. RowsAreOne'
  BY DEF GrantsAreFirst, RowsAreOne, RowsOf
<1> QED
  BY <1>1, <1>2, <1>3, <1>4, <1>5

LEMMA EditStatusKeeps ==
  ASSUME UsersInv, NEW r \in Requests, NEW u \in Users, NEW s \in Statuses, NEW d \in BOOLEAN,
        EditStatus(r, u, s, d)
  PROVE  UsersInv'
<1> USE NoneAssumption DEF UsersInv, TypeOK, Request, UserOps, Statuses, Doing, Begin, End,
       history, EditStatus
<1>1. TypeOK'
  BY DEF OtherDeletions
<1>2. StatusTellsDeletion'
  BY DEF StatusTellsDeletion
<1>3. OutrunIsNoted'
  BY DEF OutrunIsNoted, OtherDeletions
<1>4. GrantsAreFirst'
  BY DEF GrantsAreFirst, RowsOf
<1>5. RowsAreOne'
  BY DEF GrantsAreFirst, RowsAreOne, RowsOf
<1> QED
  BY <1>1, <1>2, <1>3, <1>4, <1>5

LEMMA CheckMembershipKeeps ==
  ASSUME UsersInv, NEW r \in Requests, NEW u \in Users, CheckMembership(r, u)
  PROVE  UsersInv'
<1> USE NoneAssumption DEF UsersInv, TypeOK, Request, UserOps, Statuses, Doing, Begin, End,
       history, CheckMembership
<1>1. TypeOK'
  BY DEF OtherDeletions
<1>2. StatusTellsDeletion'
  BY DEF StatusTellsDeletion
<1>3. OutrunIsNoted'
  BY DEF OutrunIsNoted, OtherDeletions
<1>4. GrantsAreFirst'
  BY DEF GrantsAreFirst, RowsOf
<1>5. RowsAreOne'
  BY DEF GrantsAreFirst, RowsAreOne, RowsOf
<1> QED
  BY <1>1, <1>2, <1>3, <1>4, <1>5

LEMMA SetStatusKeeps ==
  ASSUME UsersInv, NEW r \in Requests, SetStatus(r)
  PROVE  UsersInv'
<1> USE NoneAssumption DEF UsersInv, TypeOK, Request, UserOps, Statuses, Doing, Begin, End,
       history, SetStatus
<1>1. TypeOK'
  BY DEF OtherDeletions
<1>2. StatusTellsDeletion'
  BY DEF StatusTellsDeletion
<1>3. OutrunIsNoted'
  BY DEF OutrunIsNoted, OtherDeletions
<1>4. GrantsAreFirst'
  BY DEF GrantsAreFirst, RowsOf
<1>5. RowsAreOne'
  BY DEF GrantsAreFirst, RowsAreOne, RowsOf
<1> QED
  BY <1>1, <1>2, <1>3, <1>4, <1>5

LEMMA UndeleteKeeps ==
  ASSUME UsersInv, NEW r \in Requests, Undelete(r)
  PROVE  UsersInv'
<1> USE NoneAssumption DEF UsersInv, TypeOK, Request, UserOps, Statuses, Doing, Begin, End,
       history, Undelete
<1>1. TypeOK'
  BY DEF OtherDeletions
<1>2. StatusTellsDeletion'
  BY DEF StatusTellsDeletion
<1>3. OutrunIsNoted'
  BY DEF OutrunIsNoted, OtherDeletions
<1>4. GrantsAreFirst'
  BY DEF GrantsAreFirst, RowsOf
<1>5. RowsAreOne'
  BY DEF GrantsAreFirst, RowsAreOne, RowsOf
<1> QED
  BY <1>1, <1>2, <1>3, <1>4, <1>5

LEMMA DeleteKeeps ==
  ASSUME UsersInv, NEW r \in Requests, Delete(r)
  PROVE  UsersInv'
<1> USE NoneAssumption DEF UsersInv, TypeOK, Request, UserOps, Statuses, Doing, Begin, End,
       history, Delete, OnUserAfterDelete
<1>1. TypeOK'
  BY DEF OtherDeletions
<1>2. StatusTellsDeletion'
  BY DEF StatusTellsDeletion
<1>3. OutrunIsNoted'
  BY DEF OutrunIsNoted, OtherDeletions
<1>4. GrantsAreFirst'
  BY DEF GrantsAreFirst, RowsOf
<1>5. RowsAreOne'
  BY DEF GrantsAreFirst, RowsAreOne, RowsOf
<1> QED
  BY <1>1, <1>2, <1>3, <1>4, <1>5

LEMMA DeleteNothingKeeps ==
  ASSUME UsersInv, NEW r \in Requests, DeleteNothing(r)
  PROVE  UsersInv'
<1> USE NoneAssumption DEF UsersInv, TypeOK, Request, UserOps, Statuses, Doing, Begin, End,
       history, DeleteNothing
<1>1. TypeOK'
  BY DEF OtherDeletions
<1>2. StatusTellsDeletion'
  BY DEF StatusTellsDeletion
<1>3. OutrunIsNoted'
  BY DEF OutrunIsNoted, OtherDeletions
<1>4. GrantsAreFirst'
  BY DEF GrantsAreFirst, RowsOf
<1>5. RowsAreOne'
  BY DEF GrantsAreFirst, RowsAreOne, RowsOf
<1> QED
  BY <1>1, <1>2, <1>3, <1>4, <1>5

LEMMA CleanUpKeeps ==
  ASSUME UsersInv, NEW r \in Requests, CleanUp(r)
  PROVE  UsersInv'
<1> USE NoneAssumption DEF UsersInv, TypeOK, Request, UserOps, Statuses, Doing, Begin, End,
       history, CleanUp, OnUserAfterDelete
<1>1. TypeOK'
  BY DEF OtherDeletions
<1>2. StatusTellsDeletion'
  BY DEF StatusTellsDeletion
<1>3. OutrunIsNoted'
  BY DEF OutrunIsNoted, OtherDeletions
<1>4. GrantsAreFirst'
  BY DEF GrantsAreFirst, RowsOf
<1>5. RowsAreOne'
  BY DEF GrantsAreFirst, RowsAreOne, RowsOf
<1> QED
  BY <1>1, <1>2, <1>3, <1>4, <1>5

LEMMA GrantKeeps ==
  ASSUME UsersInv, NEW r \in Requests, NEW m \in Memberships, Grant(r, m)
  PROVE  UsersInv'
<1> USE NoneAssumption DEF UsersInv, TypeOK, Request, UserOps, Statuses, Doing, Begin, End,
       history, Grant, Unused, Busy
<1>1. TypeOK'
  BY DEF OtherDeletions
<1>2. StatusTellsDeletion'
  BY DEF StatusTellsDeletion
<1>3. OutrunIsNoted'
  BY DEF OutrunIsNoted, OtherDeletions
<1>4. GrantsAreFirst'
  BY DEF GrantsAreFirst, RowsOf
<1>5. RowsAreOne'
  BY DEF GrantsAreFirst, RowsAreOne, RowsOf
<1> QED
  BY <1>1, <1>2, <1>3, <1>4, <1>5

LEMMA ReadMembershipKeeps ==
  ASSUME UsersInv, NEW r \in Requests, NEW m \in Memberships, ReadMembership(r, m)
  PROVE  UsersInv'
<1> USE NoneAssumption DEF UsersInv, TypeOK, Request, UserOps, Statuses, Doing, Begin, End,
       history, ReadMembership
<1>1. TypeOK'
  BY DEF OtherDeletions
<1>2. StatusTellsDeletion'
  BY DEF StatusTellsDeletion
<1>3. OutrunIsNoted'
  BY DEF OutrunIsNoted, OtherDeletions
<1>4. GrantsAreFirst'
  BY DEF GrantsAreFirst, RowsOf
<1>5. RowsAreOne'
  BY DEF GrantsAreFirst, RowsAreOne, RowsOf
<1> QED
  BY <1>1, <1>2, <1>3, <1>4, <1>5

LEMMA RevokeKeeps ==
  ASSUME UsersInv, NEW r \in Requests, Revoke(r)
  PROVE  UsersInv'
<1> USE NoneAssumption DEF UsersInv, TypeOK, Request, UserOps, Statuses, Doing, Begin, End,
       history, Revoke
<1>1. TypeOK'
  BY DEF OtherDeletions
<1>2. StatusTellsDeletion'
  BY DEF StatusTellsDeletion
<1>3. OutrunIsNoted'
  BY DEF OutrunIsNoted, OtherDeletions
<1>4. GrantsAreFirst'
  BY DEF GrantsAreFirst, RowsOf
<1>5. RowsAreOne'
  BY DEF GrantsAreFirst, RowsAreOne, RowsOf
<1> QED
  BY <1>1, <1>2, <1>3, <1>4, <1>5

LEMMA RollBackKeeps ==
  ASSUME UsersInv, NEW r \in Requests, RollBack(r)
  PROVE  UsersInv'
<1> USE NoneAssumption DEF UsersInv, TypeOK, Request, UserOps, Statuses, Doing, Begin, End,
       history, RollBack
<1>1. TypeOK'
  BY DEF OtherDeletions
<1>2. StatusTellsDeletion'
  BY DEF StatusTellsDeletion
<1>3. OutrunIsNoted'
  BY DEF OutrunIsNoted, OtherDeletions
<1>4. GrantsAreFirst'
  BY DEF GrantsAreFirst, RowsOf
<1>5. RowsAreOne'
  BY DEF GrantsAreFirst, RowsAreOne, RowsOf
<1> QED
  BY <1>1, <1>2, <1>3, <1>4, <1>5

LEMMA NextKeepsUsers == UsersInv /\ [Next]_vars => UsersInv'
<1> SUFFICES ASSUME UsersInv, [Next]_vars PROVE UsersInv'
  OBVIOUS
<1>1. CASE UNCHANGED vars
  <2> USE <1>1 DEF vars, UsersInv
  <2>1. TypeOK'
    BY DEF TypeOK
  <2>2. StatusTellsDeletion'
    BY DEF StatusTellsDeletion
  <2>3. OutrunIsNoted'
    BY DEF OutrunIsNoted, Doing
  <2>4. GrantsAreFirst' /\ RowsAreOne'
    BY DEF GrantsAreFirst, RowsAreOne, RowsOf, Doing
  <2> QED
    BY <2>1, <2>2, <2>3, <2>4
<1>2. CASE Next
  BY <1>2, ReadUserKeeps, ReadDeletedUserKeeps, EditStatusKeeps, CheckMembershipKeeps,
     SetStatusKeeps,
     UndeleteKeeps, DeleteKeeps, DeleteNothingKeeps, CleanUpKeeps, GrantKeeps, ReadMembershipKeeps,
     RevokeKeeps, RollBackKeeps DEF Next
<1> QED
  BY <1>1, <1>2

\* The rows and the requests keep their types.
THEOREM TypeCorrect == Spec => []TypeOK
<1>1. UsersInv => TypeOK
  BY DEF UsersInv
<1> QED
  BY <1>1, InitUsers, NextKeepsUsers, PTL DEF Spec

\* A row says DELETED exactly when it is deleted, unless an edit wrote one of the
\* two columns, however the handlers overlap.
THEOREM StatusAndDeletionAgree == Spec => []StatusTellsDeletion
<1>1. UsersInv => StatusTellsDeletion
  BY DEF UsersInv
<1> QED
  BY <1>1, InitUsers, NextKeepsUsers, PTL DEF Spec

\* A user has two rows for one role only if two grants overlapped.
THEOREM DoubleNeedsOverlap == Spec => []OneRowPerRole
<1>1. UsersInv => OneRowPerRole
  <2> SUFFICES ASSUME UsersInv, NEW u \in Users \ doubled PROVE Cardinality(RowsOf(u)) <= 1
    BY DEF OneRowPerRole
  <2>1. CASE RowsOf(u) = {}
    BY <2>1, FS_EmptySet
  <2>2. CASE RowsOf(u) # {}
    <3>1. PICK m \in RowsOf(u): TRUE
      BY <2>2
    <3>2. RowsOf(u) = {m}
      BY <3>1 DEF UsersInv, RowsAreOne
    <3>3. Cardinality({m}) = 1
      BY FS_Singleton
    <3> QED
      BY <3>2, <3>3
  <2> QED
    BY <2>1, <2>2
<1> QED
  BY <1>1, InitUsers, NextKeepsUsers, PTL DEF Spec

\* A user who is not deleted loses a role only to its revocation, or to a deletion
\* that another request outran and a third one has undone.
THEOREM LivingUsersKeepTheirRoles == Spec => LivingUsersKeepRoles
<1> DEFINE LosesOnlyTo(u, m) ==
      \/ isDeleted'[u]
      \/ \E r \in Requests: \/ Doing(r, "revoke") /\ req[r].row = m /\ req'[r] = None
                            \/ Doing(r, "cleanup") /\ r \in outrun /\ req'[r] = None
<1>1. ASSUME UsersInv, [Next]_vars, NEW m \in Memberships, member[m] # None, member'[m] = None
      PROVE  LosesOnlyTo(member[m], m)
  <2> USE <1>1 DEF UsersInv, TypeOK, history
  <2>1. PICK r \in Requests: Delete(r) \/ CleanUp(r) \/ Revoke(r) \/ \E n \in Memberships: Grant(r, n)
    BY DEF Next, vars, ReadUser, ReadDeletedUser, EditStatus, CheckMembership, SetStatus, Undelete,
       DeleteNothing, ReadMembership, RollBack
  <2>2. CASE Delete(r)
    BY <2>2 DEF Delete, OnUserAfterDelete
  <2>3. CASE CleanUp(r)
    BY <2>3 DEF CleanUp, OutrunIsNoted, End
  <2>4. CASE Revoke(r)
    BY <2>4 DEF Revoke, End
  <2>5. ASSUME NEW n \in Memberships, Grant(r, n) PROVE FALSE
    BY <2>5, NoneAssumption DEF Grant, Doing, Request
  <2> QED
    BY <2>1, <2>2, <2>3, <2>4, <2>5
<1>2. UsersInv /\ [Next]_vars =>
        [\A m \in Memberships:
           LET u == member[m]
           IN u # None /\ member'[m] = None => LosesOnlyTo(u, m)]_vars
  BY <1>1
<1> QED
  BY <1>2, InitUsers, NextKeepsUsers, PTL DEF Spec, LivingUsersKeepRoles

(***************************************************************************)
(* RoleTree: roles form no circle unless a move was written over another   *)
(* one.                                                                    *)
(***************************************************************************)
\* The roles of a pending move exist.
MovesExist ==
  \A e \in Editors:
    edit[e] # NoRole => edit[e].role \in exists \ {Root} /\ edit[e].parent \in exists

\* A pending move that is not stale still has a path around its new parent that
\* holds the parents of its members and not the moved role.
SafeMove(move) ==
  /\ move.parent \in move.path
  /\ move.path \subseteq exists
  /\ move.role \notin move.path
  /\ Closed(move.path)
MovesAreSafe == \A e \in Editors: edit[e] # NoRole /\ e \notin stale => SafeMove(edit[e])

ParentsExist == \A c \in Creators: create[c] # NoRole => create[c] \in exists

TreeInv == TreeTypeOK /\ ParentsExist /\ MovesExist /\ MovesAreSafe /\ NoCircleUnlessRaced

\* The path of a role holds the role and the parents of its members.
LEMMA PathIsClosed ==
  ASSUME TreeTypeOK, NEW p \in exists
  PROVE  /\ p \in AbsolutePath(p)
         /\ AbsolutePath(p) \subseteq exists
         /\ Closed(AbsolutePath(p))
<1>1. p \in AbsolutePath(p) /\ AbsolutePath(p) \subseteq exists
  BY DEF AbsolutePath
<1>2. ASSUME NEW r \in AbsolutePath(p) \ {Root} PROVE parent[r] \in AbsolutePath(p)
  <2>1. r \in exists /\ parent[r] \in exists
    BY <1>2 DEF AbsolutePath, TreeTypeOK
  <2>2. ASSUME NEW S \in SUBSET exists, p \in S, Closed(S) PROVE parent[r] \in S
    BY <1>2, <2>2 DEF AbsolutePath, Closed
  <2> QED
    BY <2>1, <2>2 DEF AbsolutePath
<1> QED
  BY <1>1, <1>2 DEF Closed

LEMMA InitTree == TreeInit => TreeInv
<1> SUFFICES ASSUME TreeInit PROVE TreeInv
  OBVIOUS
<1>1. TreeTypeOK
  BY ConstantsAssumption, Zenon DEF TreeInit, TreeTypeOK
<1>2. NoCircularReference
  BY DEF TreeInit, NoCircularReference
<1> QED
  BY <1>1, <1>2 DEF TreeInit, TreeInv, ParentsExist, MovesExist, MovesAreSafe,
     NoCircleUnlessRaced

LEMMA ReadParentKeeps ==
  ASSUME TreeInv, NEW c \in Creators, NEW p \in Roles, ReadParent(c, p) PROVE TreeInv'
<1> USE DEF TreeInv, ReadParent
<1>1. TreeTypeOK'
  BY DEF TreeTypeOK
<1>2. ParentsExist'
  BY DEF ParentsExist, TreeTypeOK
<1>3. MovesExist' /\ MovesAreSafe' /\ NoCircleUnlessRaced'
  BY DEF MovesExist, MovesAreSafe, SafeMove, NoCircleUnlessRaced, NoCircularReference, Closed
<1> QED
  BY <1>1, <1>2, <1>3

\* A new role is a leaf: no path and no older set holds it.
LEMMA TxInsertKeeps ==
  ASSUME TreeInv, NEW c \in Creators, TxInsert(c) PROVE TreeInv'
<1> USE DEF TreeInv
<1>1. PICK n \in Roles \ exists:
        exists' = exists \cup {n} /\ parent' = [parent EXCEPT ![n] = create[c]]
  BY DEF TxInsert
<1>2. create[c] \in exists /\ n # create[c] /\ Root \in exists
  BY DEF TxInsert, ParentsExist, TreeTypeOK
<1>3. \A r \in exists: parent'[r] = parent[r]
  BY <1>1 DEF TreeTypeOK
<1>4. parent'[n] = create[c]
  BY <1>1 DEF TreeTypeOK
<1>5. TreeTypeOK'
  <2>1. parent' \in [Roles -> Roles \cup {NoRole}]
    BY <1>1, <1>2 DEF TreeTypeOK
  <2>2. \A r \in exists' \ {Root}: parent'[r] \in exists'
    BY <1>1, <1>2, <1>3, <1>4 DEF TreeTypeOK
  <2> QED
    BY <1>1, <2>1, <2>2 DEF TxInsert, TreeTypeOK
<1>6. ParentsExist'
  BY <1>1 DEF TxInsert, ParentsExist, TreeTypeOK
<1>7. \A S \in SUBSET exists: Closed(S)' <=> Closed(S)
  BY <1>3 DEF Closed
<1>8. MovesExist' /\ MovesAreSafe'
  BY <1>1, <1>7 DEF TxInsert, MovesExist, MovesAreSafe, SafeMove
<1>9. NoCircleUnlessRaced'
  <2> SUFFICES ASSUME NoCircularReference, NEW S \in SUBSET exists', S # {}, Closed(S)'
               PROVE  Root \in S
    BY DEF TxInsert, NoCircleUnlessRaced, NoCircularReference
  <2>1. CASE n \notin S
    BY <1>1, <1>7, <2>1 DEF NoCircularReference
  <2>2. CASE n \in S
    <3>1. create[c] \in S \ {n}
      BY <1>2, <1>4, <2>2 DEF Closed
    <3>2. Closed(S \ {n})
      <4>1. ASSUME NEW r \in (S \ {n}) \ {Root} PROVE parent[r] \in S \ {n}
        <5>1. r \in exists /\ parent[r] = parent'[r] /\ parent[r] \in S
          BY <1>1, <1>3 DEF Closed
        <5> QED
          BY <5>1 DEF TreeTypeOK
      <4> QED
        BY <4>1 DEF Closed
    <3> QED
      BY <1>1, <3>1, <3>2 DEF NoCircularReference
  <2> QED
    BY <2>1, <2>2
<1> QED
  BY <1>5, <1>6, <1>8, <1>9

LEMMA CreateFailsKeeps ==
  ASSUME TreeInv, NEW c \in Creators, CreateFails(c) PROVE TreeInv'
<1> USE DEF TreeInv, CreateFails
<1>1. TreeTypeOK'
  BY DEF TreeTypeOK
<1>2. ParentsExist'
  BY DEF ParentsExist, TreeTypeOK
<1>3. MovesExist' /\ MovesAreSafe' /\ NoCircleUnlessRaced'
  BY DEF MovesExist, MovesAreSafe, SafeMove, NoCircleUnlessRaced, NoCircularReference, Closed
<1> QED
  BY <1>1, <1>2, <1>3

LEMMA RoleEditByUidKeeps ==
  ASSUME TreeInv, NEW e \in Editors, NEW r \in Roles, NEW p \in Roles,
         RoleEditByUid(e, r, p)
  PROVE  TreeInv'
<1> USE DEF TreeInv
<1>1. /\ p \in AbsolutePath(p)
      /\ AbsolutePath(p) \subseteq exists
      /\ Closed(AbsolutePath(p))
  BY PathIsClosed DEF RoleEditByUid
<1> DEFINE move == [role |-> r, parent |-> p, path |-> AbsolutePath(p)]
<1>2. move \in Move
  BY <1>1 DEF Move, TreeTypeOK
<1>3. edit' = [edit EXCEPT ![e] = move] /\ UNCHANGED <<exists, parent, create, stale, raced>>
  BY DEF RoleEditByUid
<1>4. TreeTypeOK'
  BY <1>2, <1>3 DEF TreeTypeOK
<1>5. ParentsExist' /\ NoCircleUnlessRaced'
  BY <1>3 DEF ParentsExist, NoCircleUnlessRaced, NoCircularReference, Closed
<1>6. edit'[e] = move /\ \A f \in Editors \ {e}: edit'[f] = edit[f]
  BY <1>3 DEF TreeTypeOK
<1>7. r \in exists \ {Root} /\ p \in exists /\ r \notin AbsolutePath(p)
  BY DEF RoleEditByUid, WouldCircle
<1>8. MovesExist'
  BY <1>3, <1>6, <1>7 DEF MovesExist
<1>9. SafeMove(move)
  BY <1>1, <1>7 DEF SafeMove
<1>10. \A f \in Editors: SafeMove(edit'[f]) => SafeMove(edit[f])'
  BY <1>3 DEF SafeMove, Closed
<1>11. MovesAreSafe'
  BY <1>3, <1>6, <1>9, <1>10 DEF MovesAreSafe
<1> QED
  BY <1>4, <1>5, <1>8, <1>11

\* The heart of the proof: a set without the root that is closed after the move
\* holds the moved role, hence its new parent; what it shares with the path of
\* that parent was closed before the move already.
LEMMA DoUpdateKeeps ==
  ASSUME TreeInv, NEW e \in Editors, DoUpdate(e) PROVE TreeInv'
<1> USE DEF TreeInv
<1>1. PICK r, p: /\ edit[e].role = r /\ edit[e].parent = p
                 /\ r \in exists \ {Root} /\ p \in exists
  BY DEF DoUpdate, MovesExist
<1>2. parent' = [parent EXCEPT ![r] = p] /\ UNCHANGED <<exists, create>>
  BY <1>1 DEF DoUpdate
<1>3. /\ edit' = [edit EXCEPT ![e] = NoRole]
      /\ stale' = {f \in Editors \ {e}: edit[f] # NoRole}
      /\ raced' = (raced \/ e \in stale)
  BY DEF DoUpdate
<1>4. parent'[r] = p /\ \A x \in Roles \ {r}: parent'[x] = parent[x]
  BY <1>1, <1>2 DEF TreeTypeOK
<1>5. TreeTypeOK'
  <2>1. parent' \in [Roles -> Roles \cup {NoRole}]
    BY <1>1, <1>2 DEF TreeTypeOK
  <2>2. \A x \in exists \ {Root}: parent'[x] \in exists
    BY <1>1, <1>4 DEF TreeTypeOK
  <2> QED
    BY <1>2, <1>3, <2>1, <2>2 DEF TreeTypeOK
<1>6. ParentsExist'
  BY <1>2 DEF ParentsExist
<1>7. \A f \in Editors: edit'[f] # NoRole => f # e /\ edit'[f] = edit[f] /\ f \in stale'
  BY <1>3 DEF TreeTypeOK
<1>8. MovesExist' /\ MovesAreSafe'
  BY <1>2, <1>7 DEF MovesExist, MovesAreSafe
<1>9. NoCircleUnlessRaced'
  <2> SUFFICES ASSUME ~raced, e \notin stale, NEW S \in SUBSET exists, S # {}, Closed(S)'
               PROVE  Root \in S
    BY <1>2, <1>3 DEF NoCircleUnlessRaced, NoCircularReference
  <2> DEFINE path == edit[e].path
  <2>0. p \in path /\ path \subseteq exists /\ r \notin path /\ Closed(path)
    BY <1>1 DEF DoUpdate, MovesAreSafe, SafeMove
  <2> HIDE DEF path
  <2>1. CASE r \notin S
    <3>1. Closed(S)
      BY <1>4, <2>1 DEF Closed, TreeTypeOK
    <3> QED
      BY <3>1 DEF NoCircleUnlessRaced, NoCircularReference
  <2>2. CASE r \in S
    <3>1. p \in S \cap path
      BY <2>0, <1>4, <2>2, <1>1 DEF Closed
    <3>2. Closed(S \cap path)
      BY <2>0, <1>4 DEF Closed, TreeTypeOK
    <3> QED
      BY <3>1, <3>2 DEF NoCircleUnlessRaced, NoCircularReference
  <2> QED
    BY <2>1, <2>2
<1> QED
  BY <1>5, <1>6, <1>8, <1>9

LEMMA EditFailsKeeps ==
  ASSUME TreeInv, NEW e \in Editors, EditFails(e) PROVE TreeInv'
<1> USE DEF TreeInv, EditFails
<1>1. TreeTypeOK'
  BY DEF TreeTypeOK
<1>2. ParentsExist' /\ NoCircleUnlessRaced'
  BY DEF ParentsExist, NoCircleUnlessRaced, NoCircularReference, Closed
<1>3. \A f \in Editors: edit'[f] # NoRole => f # e /\ edit'[f] = edit[f]
  BY DEF TreeTypeOK
<1>4. MovesExist' /\ MovesAreSafe'
  BY <1>3 DEF MovesExist, MovesAreSafe, SafeMove, Closed
<1> QED
  BY <1>1, <1>2, <1>4

LEMMA TreeInvStep == ASSUME TreeInv, [TreeNext]_treeVars PROVE TreeInv'
<1>1. CASE UNCHANGED treeVars
  BY <1>1 DEF treeVars, TreeInv, TreeTypeOK, ParentsExist, MovesExist, MovesAreSafe, SafeMove,
     NoCircleUnlessRaced, NoCircularReference, Closed
<1> QED
  BY <1>1, ReadParentKeeps, TxInsertKeeps, CreateFailsKeeps, RoleEditByUidKeeps,
     DoUpdateKeeps, EditFailsKeeps DEF TreeNext

\* Whatever moves and inserts overlap, the check of absolute_path keeps the roles
\* free of circles until a move is written whose path another move has changed.
THEOREM CircleNeedsRace == TreeSpec => []NoCircleUnlessRaced
<1>1. TreeInv /\ [TreeNext]_treeVars => TreeInv'
  BY TreeInvStep
<1>2. TreeInv => NoCircleUnlessRaced
  BY DEF TreeInv
<1> QED
  BY <1>1, <1>2, InitTree, PTL DEF TreeSpec

\* Parents and pending edits keep their types: the parent of a role exists.
THEOREM TreeTypeCorrect == TreeSpec => []TreeTypeOK
<1>1. TreeInv => TreeTypeOK
  BY DEF TreeInv
<1> QED
  BY <1>1, TreeInvStep, InitTree, PTL DEF TreeSpec

\* Editors come one at a time.
OneEditor == \E e: Editors \subseteq {e}

\* Then no move is written between the reading of a path and its use.
LEMMA OneEditorStep ==
  ASSUME OneEditor, TreeInv, stale = {}, ~raced, [TreeNext]_treeVars
  PROVE  stale' = {} /\ raced' = FALSE
<1>1. raced = FALSE
  BY DEF TreeInv, TreeTypeOK
<1>2. ASSUME NEW e \in Editors, DoUpdate(e) PROVE stale' = {} /\ raced' = FALSE
  BY <1>1, <1>2 DEF OneEditor, DoUpdate
<1> QED
  BY <1>1, <1>2
     DEF TreeNext, treeVars, ReadParent, TxInsert, CreateFails, RoleEditByUid, EditFails

\* The check of absolute_path, without a lock up to the update, is enough as long as
\* edits of roles do not overlap, whatever roles are created meanwhile and whichever
\* edits fail: the parents never form a circle.
THEOREM OneEditorMakesNoCircle == OneEditor => (TreeSpec => []NoCircularReference)
<1> SUFFICES ASSUME OneEditor PROVE TreeSpec => []NoCircularReference
  OBVIOUS
<1> DEFINE Inv == TreeInv /\ stale = {} /\ ~raced
<1>1. TreeInit => Inv
  BY InitTree DEF TreeInit
<1>2. Inv /\ [TreeNext]_treeVars => Inv'
  BY OneEditorStep, TreeInvStep
<1>3. Inv => NoCircularReference
  BY DEF TreeInv, NoCircleUnlessRaced
<1> QED
  BY <1>1, <1>2, <1>3, PTL DEF TreeSpec

(***************************************************************************)
(* Directory: any number of handlers and names, any file.                  *)
(***************************************************************************)
\* What is pending was synced when it was read; the importer's row is the one of
\* the file it is at.
PendingFits ==
  /\ \A a \in Actors: pending[a] # Nothing /\ pending[a].synced => pending[a].name = pending[a].source
  /\ pending[Importer] # Nothing => line \in 1 .. FileRows /\ pending[Importer] = Plain(file[line])

\* A creation nobody has overtaken still finds its name free.
LooksHold ==
  \A a \in Actors \ overtaken: pending[a] # Nothing => ~Taken(pending[a].name)

IndexHolds == uniqueIndex => \A i, j \in Ids: rows[i].name = rows[j].name => i = j

\* Until a row of the file is renamed, the rows the importer has got past are there.
Passed(k) == completed \/ k < line
LinesAreThere ==
  /\ completed => line = 0
  /\ ~renamed => \A k \in 1 .. FileRows: Passed(k) => Taken(file[k])

DirectoryInv ==
  /\ DirectoryTypeOK /\ PendingFits /\ LooksHold /\ IndexHolds
  /\ NamesClashOnlyByRaceOrEdit /\ SyncedLoginIdFollows /\ LinesAreThere

LEMMA DirectoryInitial == DirectoryInit => DirectoryInv
<1> SUFFICES ASSUME DirectoryInit PROVE DirectoryInv
  OBVIOUS
<1>1. rows = << >> /\ rows \in Seq(Row) /\ Len(rows) = 0 /\ DOMAIN rows = {}
  BY DEF DirectoryInit
<1>2. DirectoryTypeOK
  <2>1. Len(rows) <= MaxRows /\ line \in 0 .. FileRows + 1
    BY <1>1, DirectoryAssumption DEF DirectoryInit
  <2>2. pending \in [Actors -> Row \cup {Nothing}]
    BY DEF DirectoryInit
  <2> QED
    BY <1>1, <2>1, <2>2 DEF DirectoryInit, DirectoryTypeOK
<1>3. PendingFits /\ LooksHold /\ IndexHolds /\ NamesClashOnlyByRaceOrEdit /\ SyncedLoginIdFollows
  BY <1>1 DEF DirectoryInit, PendingFits, LooksHold, Taken, IndexHolds,
     NamesClashOnlyByRaceOrEdit, SyncedLoginIdFollows, Ids, Actors
<1>4. LinesAreThere
  BY DEF DirectoryInit, LinesAreThere, Passed
<1> QED
  BY <1>2, <1>3, <1>4 DEF DirectoryInv

\* An insert adds one row at the end.
LEMMA InsertAppends ==
  ASSUME DirectoryTypeOK, NEW a, NEW row \in Row, Insert(a, row)
  PROVE  /\ rows' \in Seq(Row) /\ Len(rows') <= MaxRows
         /\ Ids' = Ids \cup {Len(rows) + 1} /\ Len(rows) + 1 \notin Ids
         /\ rows'[Len(rows) + 1] = row /\ \A i \in Ids: rows'[i] = rows[i]
<1>1. rows' = Append(rows, row) /\ Len(rows) < MaxRows /\ rows \in Seq(Row) /\ Len(rows) \in Nat
  BY DEF Insert, DirectoryTypeOK
<1>2. /\ rows' \in Seq(Row) /\ Len(rows') = Len(rows) + 1
      /\ \A i \in 1 .. Len(rows): rows'[i] = rows[i] /\ rows'[Len(rows) + 1] = row
  BY <1>1, AppendProperties
<1>3. Ids = 1 .. Len(rows) /\ Ids' = 1 .. Len(rows) + 1
  BY <1>1, <1>2 DEF Ids
<1>4. rows'[Len(rows) + 1] = row
  BY <1>1, AppendProperties
<1> QED
  BY <1>1, <1>2, <1>3, <1>4, DirectoryAssumption

\* A row gets into the table: its name is free, or its actor has been overtaken; and
\* those who wait to insert the same name are.
LEMMA InsertKeepsNames ==
  ASSUME DirectoryInv, NEW a \in Actors, NEW row \in Row, Insert(a, row), UNCHANGED fixed,
         row.synced => row.name = row.source,
         pending' = [pending EXCEPT ![a] = Nothing],
         a \notin overtaken /\ pending[a] # Nothing => ~Taken(row.name)
  PROVE  LooksHold' /\ IndexHolds' /\ NamesClashOnlyByRaceOrEdit' /\ SyncedLoginIdFollows'
<1> DEFINE id == Len(rows) + 1
<1>1. /\ Ids' = Ids \cup {id} /\ id \notin Ids /\ rows'[id] = row
      /\ \A i \in Ids: rows'[i] = rows[i]
  BY InsertAppends DEF DirectoryInv
<1> HIDE DEF id
<1>2. /\ uniqueIndex => ~Taken(row.name)
      /\ overtaken' = (overtaken \ {a}) \cup Waiting(a, row.name)
      /\ clashed' = IF a \in overtaken \/ pending[a] = Nothing THEN clashed \cup {row.name} ELSE clashed
      /\ apart' = apart
  BY DEF Insert
<1>3. LooksHold'
  <2> SUFFICES ASSUME NEW b \in Actors \ overtaken', pending'[b] # Nothing
               PROVE  ~Taken(pending[b].name)'
    BY DEF LooksHold, fixed, Actors
  <2>1. b # a /\ pending'[b] = pending[b] /\ b \notin overtaken /\ b \notin Waiting(a, row.name)
    BY <1>2 DEF DirectoryInv, DirectoryTypeOK
  <2>2. ~Taken(pending[b].name) /\ pending[b].name # row.name
    BY <2>1 DEF DirectoryInv, LooksHold, Waiting
  <2> QED
    BY <1>1, <2>1, <2>2 DEF Taken
<1>4. IndexHolds'
  BY <1>1, <1>2 DEF IndexHolds, DirectoryInv, Taken, fixed
<1>5. NamesClashOnlyByRaceOrEdit'
  <2> SUFFICES ASSUME NEW i \in Ids', NEW j \in Ids', i # j,
                      rows'[i].name = rows'[j].name
               PROVE  ~uniqueIndex /\ rows'[i].name \in clashed'
    BY DEF NamesClashOnlyByRaceOrEdit, fixed
  <2>1. CASE i \in Ids /\ j \in Ids
    BY <1>1, <1>2, <2>1 DEF DirectoryInv, NamesClashOnlyByRaceOrEdit
  <2>2. CASE ~(i \in Ids /\ j \in Ids)
    <3>1. Taken(row.name) /\ rows'[i].name = row.name
      BY <1>1, <2>2 DEF Taken
    <3> QED
      BY <1>2, <3>1
  <2> QED
    BY <2>1, <2>2
<1>6. SyncedLoginIdFollows'
  BY <1>1, <1>2 DEF SyncedLoginIdFollows, DirectoryInv
<1> QED
  BY <1>3, <1>4, <1>5, <1>6

LEMMA InsertKeepsTaken ==
  ASSUME DirectoryTypeOK, NEW a, NEW row \in Row, Insert(a, row)
  PROVE  /\ \E i \in Ids': rows'[i].name = row.name
         /\ \A n: Taken(n) => Taken(n)'
BY InsertAppends DEF Taken

\* Nobody inserts or edits: the table and what others know of it stay.
LEMMA RowsStayKeepsNames ==
  ASSUME DirectoryInv, UNCHANGED <<fixed, rows, clashed, apart>>,
         \A a \in Actors \ overtaken': pending'[a] # Nothing =>
           \A i \in Ids: rows[i].name # pending'[a].name
  PROVE  LooksHold' /\ IndexHolds' /\ NamesClashOnlyByRaceOrEdit' /\ SyncedLoginIdFollows'
<1>1. LooksHold'
  BY DEF LooksHold, Taken, Ids, fixed
<1> QED
  BY <1>1 DEF DirectoryInv, IndexHolds, NamesClashOnlyByRaceOrEdit, SyncedLoginIdFollows,
     Ids, fixed

LEMMA PlainRows == \A n \in Names: Plain(n) \in Row /\ Plain(n).name = n /\ ~Plain(n).synced
BY DEF Plain, Row

LEMMA LookKeeps ==
  ASSUME DirectoryInv, NEW r \in Handlers,
         \/ \E n, s \in Names, sync \in BOOLEAN: ReadLoginId(r, n, s, sync)
         \/ \E n \in Names: CheckValidationUnique(r, n)
  PROVE  DirectoryInv'
<1>1. PICK row \in Row:
        /\ ~Taken(row.name) /\ pending' = [pending EXCEPT ![r] = row]
        /\ row.synced => row.name = row.source
        /\ UNCHANGED <<fixed, rows, line, directoryHistory>>
  <2>1. CASE \E n, s \in Names, sync \in BOOLEAN: ReadLoginId(r, n, s, sync)
    <3>1. PICK n \in Names, s \in Names, sync \in BOOLEAN: ReadLoginId(r, n, s, sync)
      BY <2>1
    <3> DEFINE row == [name |-> IF sync THEN s ELSE n, source |-> s, synced |-> sync]
    <3>2. /\ row \in Row /\ row.name = (IF sync THEN s ELSE n)
          /\ row.synced => row.name = row.source
      BY DEF Row
    <3>3. /\ ~Taken(IF sync THEN s ELSE n) /\ pending' = [pending EXCEPT ![r] = row]
          /\ UNCHANGED <<fixed, rows, line, directoryHistory>>
      BY <3>1 DEF ReadLoginId
    <3> HIDE DEF row
    <3> QED
      BY <3>2, <3>3
  <2>2. CASE \E n \in Names: CheckValidationUnique(r, n)
    BY <2>2, PlainRows DEF CheckValidationUnique
  <2> QED
    BY <2>1, <2>2
<1>2. r \in Actors /\ r # Importer /\ Importer \in Actors
  BY DirectoryAssumption DEF Actors
<1>3. /\ pending' \in [Actors -> Row \cup {Nothing}] /\ pending'[r] = row
      /\ \A a \in Actors \ {r}: pending'[a] = pending[a]
  BY <1>1, <1>2 DEF DirectoryInv, DirectoryTypeOK
<1>4. DirectoryTypeOK'
  BY <1>1, <1>3 DEF DirectoryInv, DirectoryTypeOK, fixed, directoryHistory
<1>5. PendingFits'
  BY <1>1, <1>2, <1>3 DEF DirectoryInv, PendingFits, fixed
<1>6. LooksHold' /\ IndexHolds' /\ NamesClashOnlyByRaceOrEdit' /\ SyncedLoginIdFollows'
  BY <1>1, <1>3, RowsStayKeepsNames DEF DirectoryInv, LooksHold, Taken, directoryHistory
<1>7. LinesAreThere'
  BY <1>1 DEF DirectoryInv, LinesAreThere, Passed, Taken, Ids, fixed, directoryHistory
<1> QED
  BY <1>4, <1>5, <1>6, <1>7 DEF DirectoryInv

LEMMA CreateKeeps ==
  ASSUME DirectoryInv, NEW r \in Handlers,
         Create(r) \/ \E n \in Names: CreateOrganization(r, n)
  PROVE  DirectoryInv'
<1>1. UNCHANGED <<fixed, line, completed, renamed>>
  BY DEF Create, CreateOrganization
<1>2. r \in Actors /\ r # Importer /\ Importer \in Actors
  BY DirectoryAssumption DEF Actors
<1>3. PICK row \in Row:
        /\ Insert(r, row) /\ (row.synced => row.name = row.source)
        /\ pending' = [pending EXCEPT ![r] = Nothing]
        /\ r \notin overtaken /\ pending[r] # Nothing => ~Taken(row.name)
  <2>1. CASE Create(r)
    BY <1>2, <2>1 DEF Create, DirectoryInv, DirectoryTypeOK, PendingFits, LooksHold
  <2>2. CASE \E n \in Names: CreateOrganization(r, n)
    <3>1. PICK n \in Names: CreateOrganization(r, n)
      BY <2>2
    <3>2. pending' = [pending EXCEPT ![r] = Nothing] /\ pending[r] = Nothing
      BY <1>2, <3>1 DEF CreateOrganization, DirectoryInv, DirectoryTypeOK
    <3> QED
      BY <3>1, <3>2, PlainRows DEF CreateOrganization
  <2> QED
    BY <2>1, <2>2
<1>4. /\ pending' \in [Actors -> Row \cup {Nothing}]
      /\ \A a \in Actors \ {r}: pending'[a] = pending[a]
      /\ pending'[r] = Nothing
  BY <1>2, <1>3 DEF DirectoryInv, DirectoryTypeOK
<1>5. DirectoryTypeOK'
  <2>1. rows' \in Seq(Row) /\ Len(rows') <= MaxRows
    BY <1>3, InsertAppends DEF DirectoryInv
  <2>2. overtaken' \subseteq Actors /\ clashed' \subseteq Names /\ apart' = apart
    BY <1>2, <1>3 DEF Insert, Waiting, Row, DirectoryInv, DirectoryTypeOK
  <2> QED
    BY <1>1, <1>4, <2>1, <2>2 DEF DirectoryInv, DirectoryTypeOK, fixed
<1>6. PendingFits'
  BY <1>1, <1>2, <1>4 DEF DirectoryInv, PendingFits, fixed
<1>7. LooksHold' /\ IndexHolds' /\ NamesClashOnlyByRaceOrEdit' /\ SyncedLoginIdFollows'
  BY <1>1, <1>2, <1>3, InsertKeepsNames
<1>8. LinesAreThere'
  <2>1. \A n: Taken(n) => Taken(n)'
    BY <1>3, InsertKeepsTaken DEF DirectoryInv
  <2> QED
    BY <1>1, <2>1 DEF DirectoryInv, LinesAreThere, Passed, fixed
<1> QED
  BY <1>5, <1>6, <1>7, <1>8 DEF DirectoryInv

LEMMA RollBackCreationKeeps ==
  ASSUME DirectoryInv, NEW r \in Handlers, RollBackCreation(r) PROVE DirectoryInv'
<1>1. /\ UNCHANGED <<fixed, rows, line, clashed, apart, completed, renamed>>
      /\ overtaken' = overtaken \ {r} /\ pending' = [pending EXCEPT ![r] = Nothing]
  BY DEF RollBackCreation
<1>2. r \in Actors /\ r # Importer /\ Importer \in Actors
  BY DirectoryAssumption DEF Actors
<1>3. /\ pending' \in [Actors -> Row \cup {Nothing}] /\ pending'[r] = Nothing
      /\ \A a \in Actors \ {r}: pending'[a] = pending[a]
  BY <1>1, <1>2 DEF DirectoryInv, DirectoryTypeOK
<1>4. DirectoryTypeOK'
  BY <1>1, <1>3 DEF DirectoryInv, DirectoryTypeOK, fixed
<1>5. PendingFits'
  BY <1>1, <1>2, <1>3 DEF DirectoryInv, PendingFits, fixed
<1>6. LooksHold' /\ IndexHolds' /\ NamesClashOnlyByRaceOrEdit' /\ SyncedLoginIdFollows'
  BY <1>1, <1>3, RowsStayKeepsNames DEF DirectoryInv, LooksHold, Taken
<1>7. LinesAreThere'
  BY <1>1 DEF DirectoryInv, LinesAreThere, Passed, Taken, Ids, fixed
<1> QED
  BY <1>4, <1>5, <1>6, <1>7 DEF DirectoryInv

\* The importer starts and ends: nothing is pending then, and nobody is overtaken by it.
LEMMA StartAndEndKeep == ASSUME DirectoryInv, StartImport \/ ImportEnds PROVE DirectoryInv'
<1>0. FileRows \in Nat \ {0} /\ line \in 0 .. FileRows + 1 /\ Importer \in Actors
  BY DirectoryAssumption DEF DirectoryInv, DirectoryTypeOK, Actors
<1>1. /\ UNCHANGED <<fixed, rows, pending, overtaken, clashed, apart, renamed>>
      /\ line \notin 1 .. FileRows
  BY <1>0 DEF StartImport, ImportEnds, directoryHistory
<1>2. pending[Importer] = Nothing
  BY <1>1 DEF DirectoryInv, PendingFits
<1>3. DirectoryTypeOK'
  <2>1. line' \in 0 .. FileRows + 1 /\ completed' \in BOOLEAN
    <3>1. CASE StartImport
      BY <1>0, <3>1 DEF StartImport, directoryHistory, DirectoryInv, DirectoryTypeOK
    <3>2. CASE ImportEnds
      BY <1>0, <3>2 DEF ImportEnds
    <3> QED
      BY <3>1, <3>2
  <2> QED
    BY <1>1, <2>1 DEF DirectoryInv, DirectoryTypeOK, fixed
<1>4. PendingFits'
  BY <1>1, <1>2 DEF DirectoryInv, PendingFits
<1>5. LooksHold' /\ IndexHolds' /\ NamesClashOnlyByRaceOrEdit' /\ SyncedLoginIdFollows'
  BY <1>1, RowsStayKeepsNames DEF DirectoryInv, LooksHold, Taken
<1>6. LinesAreThere'
  <2>1. \A n: Taken(n)' = Taken(n)
    BY <1>1 DEF Taken, Ids, fixed
  <2>2. \A k \in 1 .. FileRows: Passed(k)' => Passed(k)
    <3>1. CASE StartImport
      BY <1>0, <3>1 DEF StartImport, directoryHistory, Passed
    <3>2. CASE ImportEnds
      BY <1>0, <3>2 DEF ImportEnds, Passed
    <3> QED
      BY <3>1, <3>2
  <2>3. completed' => line' = 0
    BY <1>1 DEF StartImport, ImportEnds, directoryHistory
  <2> QED
    BY <1>1, <2>1, <2>2, <2>3 DEF DirectoryInv, LinesAreThere, fixed
<1> QED
  BY <1>3, <1>4, <1>5, <1>6 DEF DirectoryInv

LEMMA ImportLookKeeps == ASSUME DirectoryInv, ImportLook PROVE DirectoryInv'
<1> DEFINE row == Plain(file[line])
<1>1. /\ line \in 1 .. FileRows /\ ~Taken(file[line])
      /\ pending' = [pending EXCEPT ![Importer] = row]
      /\ UNCHANGED <<fixed, rows, line, directoryHistory>>
  BY DEF ImportLook
<1>2. row \in Row /\ row.name = file[line] /\ ~row.synced
  BY <1>1, PlainRows DEF DirectoryInv, DirectoryTypeOK
<1> HIDE DEF row
<1>3. Importer \in Actors
  BY DEF Actors
<1>4. /\ pending' \in [Actors -> Row \cup {Nothing}] /\ pending'[Importer] = row
      /\ \A a \in Actors \ {Importer}: pending'[a] = pending[a]
  BY <1>1, <1>2, <1>3 DEF DirectoryInv, DirectoryTypeOK
<1>5. DirectoryTypeOK'
  BY <1>1, <1>4 DEF DirectoryInv, DirectoryTypeOK, fixed, directoryHistory
<1>6. PendingFits'
  BY <1>1, <1>2, <1>3, <1>4 DEF DirectoryInv, PendingFits, fixed, row
<1>7. LooksHold' /\ IndexHolds' /\ NamesClashOnlyByRaceOrEdit' /\ SyncedLoginIdFollows'
  BY <1>1, <1>2, <1>4, RowsStayKeepsNames DEF DirectoryInv, LooksHold, Taken, directoryHistory
<1>8. LinesAreThere'
  BY <1>1 DEF DirectoryInv, LinesAreThere, Passed, Taken, Ids, fixed, directoryHistory
<1> QED
  BY <1>5, <1>6, <1>7, <1>8 DEF DirectoryInv

\* The row of the file is in the table.
LEMMA ImportInsertKeeps == ASSUME DirectoryInv, ImportInsert PROVE DirectoryInv'
<1> DEFINE row == Plain(file[line])
<1>0. FileRows \in Nat \ {0} /\ Importer \in Actors
  BY DirectoryAssumption DEF Actors
<1>1. /\ line \in 1 .. FileRows /\ Insert(Importer, row) /\ line' = line + 1
      /\ pending' = [pending EXCEPT ![Importer] = Nothing]
      /\ pending[Importer] # Nothing => pending[Importer] = row
      /\ UNCHANGED <<fixed, completed, renamed>>
  BY DEF ImportInsert, DirectoryInv, PendingFits
<1>2. row \in Row /\ row.name = file[line] /\ ~row.synced
  BY <1>1, PlainRows DEF DirectoryInv, DirectoryTypeOK
<1> HIDE DEF row
<1>3. /\ pending' \in [Actors -> Row \cup {Nothing}] /\ pending'[Importer] = Nothing
      /\ \A a \in Actors \ {Importer}: pending'[a] = pending[a]
  BY <1>0, <1>1 DEF DirectoryInv, DirectoryTypeOK
<1>4. DirectoryTypeOK'
  <2>1. rows' \in Seq(Row) /\ Len(rows') <= MaxRows
    BY <1>1, <1>2, InsertAppends DEF DirectoryInv
  <2>2. overtaken' \subseteq Actors /\ clashed' \subseteq Names /\ apart' = apart
    BY <1>1, <1>2 DEF Insert, Waiting, Row, DirectoryInv, DirectoryTypeOK
  <2>3. line' \in 0 .. FileRows + 1
    BY <1>0, <1>1
  <2> QED
    BY <1>1, <1>3, <2>1, <2>2, <2>3 DEF DirectoryInv, DirectoryTypeOK, fixed
<1>5. PendingFits'
  BY <1>3 DEF DirectoryInv, PendingFits
<1>6. LooksHold' /\ IndexHolds' /\ NamesClashOnlyByRaceOrEdit' /\ SyncedLoginIdFollows'
  <2>1. Importer \notin overtaken /\ pending[Importer] # Nothing => ~Taken(row.name)
    BY <1>0, <1>1 DEF DirectoryInv, LooksHold
  <2> QED
    BY <1>0, <1>1, <1>2, <2>1, InsertKeepsNames
<1>7. LinesAreThere'
  <2>1. (\E i \in Ids': rows'[i].name = row.name) /\ \A n: Taken(n) => Taken(n)'
    BY <1>1, <1>2, InsertKeepsTaken DEF DirectoryInv
  <2>2. ~completed /\ ~completed'
    BY <1>1 DEF DirectoryInv, LinesAreThere
  <2>3. \A k \in 1 .. FileRows: Passed(k)' => Passed(k) \/ k = line
    BY <1>0, <1>1, <2>2 DEF Passed
  <2>4. ASSUME ~renamed, NEW k \in 1 .. FileRows, Passed(k)' PROVE Taken(file[k])'
    <3>1. CASE Passed(k)
      BY <1>1, <2>1, <2>4, <3>1 DEF DirectoryInv, LinesAreThere, fixed
    <3>2. CASE k = line
      BY <1>1, <1>2, <2>1, <3>2 DEF Taken, fixed
    <3> QED
      BY <2>3, <2>4, <3>1, <3>2
  <2> QED
    BY <1>1, <2>2, <2>4 DEF LinesAreThere, fixed
<1> QED
  BY <1>4, <1>5, <1>6, <1>7 DEF DirectoryInv

LEMMA ImportStopsKeeps == ASSUME DirectoryInv, ImportStops PROVE DirectoryInv'
<1>0. FileRows \in Nat \ {0} /\ Importer \in Actors
  BY DirectoryAssumption DEF Actors
<1>1. /\ line \in 1 .. FileRows /\ line' = 0
      /\ pending' = [pending EXCEPT ![Importer] = Nothing] /\ overtaken' = overtaken \ {Importer}
      /\ UNCHANGED <<fixed, rows, clashed, apart, completed, renamed>>
  BY DEF ImportStops
<1>2. /\ pending' \in [Actors -> Row \cup {Nothing}] /\ pending'[Importer] = Nothing
      /\ \A a \in Actors \ {Importer}: pending'[a] = pending[a]
  BY <1>0, <1>1 DEF DirectoryInv, DirectoryTypeOK
<1>3. DirectoryTypeOK'
  <2>1. line' \in 0 .. FileRows + 1
    BY <1>0, <1>1
  <2> QED
    BY <1>1, <1>2, <2>1 DEF DirectoryInv, DirectoryTypeOK, fixed
<1>4. PendingFits'
  BY <1>2 DEF DirectoryInv, PendingFits
<1>5. LooksHold' /\ IndexHolds' /\ NamesClashOnlyByRaceOrEdit' /\ SyncedLoginIdFollows'
  BY <1>1, <1>2, RowsStayKeepsNames DEF DirectoryInv, LooksHold, Taken
<1>6. LinesAreThere'
  <2>1. ~completed
    BY <1>1 DEF DirectoryInv, LinesAreThere
  <2>2. \A k \in 1 .. FileRows: ~Passed(k)'
    BY <1>1, <2>1 DEF Passed
  <2> QED
    BY <1>1, <2>1, <2>2 DEF LinesAreThere, fixed
<1> QED
  BY <1>3, <1>4, <1>5, <1>6 DEF DirectoryInv

\* Whatever it changes, an edit that keeps the name leaves the names alone, and one
\* that gives another name is counted as a clash and overtakes who waits for it.
LEMMA EditEffect ==
  ASSUME DirectoryInv, NEW i \in 1 .. MaxRows, NEW new \in NewValues, Edit(i, new)
  PROVE  LET row == Edited(rows[i], new) IN
         /\ i \in Ids /\ rows[i] \in Row /\ row \in Row
         /\ rows' \in Seq(Row) /\ Len(rows') = Len(rows) /\ Ids' = Ids /\ rows'[i] = row
         /\ \A j \in Ids \ {i}: rows'[j] = rows[j]
<1>1. i \in Ids /\ rows \in Seq(Row) /\ rows[i] \in Row
  BY DEF Edit, Ids, DirectoryInv, DirectoryTypeOK
<1>2. Edited(rows[i], new) \in Row
  BY <1>1 DEF Edited, Synced, Row, NewValues
<1> DEFINE row == Edited(rows[i], new)
<1>3. rows' = [rows EXCEPT ![i] = row]
  BY DEF Edit
<1> HIDE DEF row
<1> QED
  BY <1>1, <1>2, <1>3, ExceptSeq DEF Ids, row

LEMMA EditKeeps ==
  ASSUME DirectoryInv, NEW i \in 1 .. MaxRows, NEW new \in NewValues, Edit(i, new)
  PROVE  DirectoryInv'
<1> DEFINE old == rows[i]  row == Edited(rows[i], new)
<1>1. /\ i \in Ids /\ old \in Row /\ row \in Row
      /\ rows' \in Seq(Row) /\ Len(rows') = Len(rows) /\ Ids' = Ids /\ rows'[i] = row
      /\ \A j \in Ids \ {i}: rows'[j] = rows[j]
  BY EditEffect
<1>2. /\ uniqueIndex => \A j \in Ids \ {i}: rows[j].name # row.name
      /\ row.name = old.name => UNCHANGED <<overtaken, clashed, renamed>>
      /\ row.name # old.name =>
           /\ overtaken' = overtaken \cup Waiting(Nothing, row.name)
           /\ clashed' = clashed \cup {row.name}
           /\ renamed' = (renamed \/ \E k \in 1 .. FileRows: file[k] = old.name)
      /\ apart' = IF row.synced /\ new.synced = Nothing THEN apart \cup {i} ELSE apart \ {i}
      /\ UNCHANGED <<fixed, pending, line, completed>>
  BY DEF Edit
<1>3. row.synced /\ new.synced # Nothing => row.name = row.source
  BY DEF Edited, Synced, NewValues
<1> HIDE DEF old, row
<1>4. DirectoryTypeOK'
  <2>1. overtaken' \subseteq Actors /\ clashed' \subseteq Names /\ renamed' \in BOOLEAN
    BY <1>1, <1>2 DEF Waiting, Row, DirectoryInv, DirectoryTypeOK
  <2>2. apart' \subseteq 1 .. MaxRows
    BY <1>2 DEF DirectoryInv, DirectoryTypeOK
  <2> QED
    BY <1>1, <1>2, <2>1, <2>2 DEF DirectoryInv, DirectoryTypeOK, fixed
<1>5. PendingFits'
  BY <1>2 DEF DirectoryInv, PendingFits, fixed
<1>6. LooksHold'
  <2> SUFFICES ASSUME NEW b \in Actors \ overtaken', pending[b] # Nothing,
                      NEW j \in Ids
               PROVE  rows'[j].name # pending[b].name
    BY <1>1, <1>2 DEF LooksHold, Taken, fixed
  <2>1. b \notin overtaken
    BY <1>2
  <2>2. rows[j].name # pending[b].name
    BY <2>1 DEF DirectoryInv, LooksHold, Taken
  <2>3. CASE j # i \/ row.name = old.name
    BY <1>1, <2>2, <2>3 DEF old
  <2>4. CASE j = i /\ row.name # old.name
    <3>1. b \notin Waiting(Nothing, row.name) /\ b # Nothing
      BY <1>2, <2>4, DirectoryAssumption DEF Actors
    <3> QED
      BY <1>1, <2>4, <3>1 DEF Waiting
  <2> QED
    BY <2>3, <2>4
<1>7. IndexHolds'
  BY <1>1, <1>2 DEF IndexHolds, DirectoryInv, fixed
<1>8. NamesClashOnlyByRaceOrEdit'
  <2> SUFFICES ASSUME NEW j \in Ids, NEW k \in Ids, j # k,
                      rows'[j].name = rows'[k].name
               PROVE  ~uniqueIndex /\ rows'[j].name \in clashed'
    BY <1>1, <1>2 DEF NamesClashOnlyByRaceOrEdit, fixed
  <2>1. CASE row.name = old.name \/ (j # i /\ k # i)
    <3>1. rows[j].name = rows[k].name /\ rows'[j].name = rows[j].name
      BY <1>1, <2>1 DEF old
    <3> QED
      BY <1>2, <3>1 DEF DirectoryInv, NamesClashOnlyByRaceOrEdit
  <2>2. CASE row.name # old.name /\ (j = i \/ k = i)
    BY <1>1, <1>2, <2>2
  <2> QED
    BY <2>1, <2>2
<1>9. SyncedLoginIdFollows'
  BY <1>1, <1>2, <1>3 DEF SyncedLoginIdFollows, DirectoryInv
<1>10. LinesAreThere'
  <2>1. ASSUME ~renamed' PROVE ~renamed /\ \A k \in 1 .. FileRows: Taken(file[k]) => Taken(file[k])'
    <3>1. ~renamed /\ (row.name = old.name \/ \A k \in 1 .. FileRows: file[k] # old.name)
      <4>1. CASE row.name = old.name
        BY <1>2, <2>1, <4>1
      <4>2. CASE row.name # old.name
        <5>1. renamed' = (renamed \/ \E k \in 1 .. FileRows: file[k] = old.name)
          BY <1>2, <4>2
        <5>2. ~renamed /\ ~\E k \in 1 .. FileRows: file[k] = old.name
          BY <2>1, <5>1
        <5> QED
          BY <5>2
      <4> QED
        BY <4>1, <4>2
    <3>2. \A k \in 1 .. FileRows: Taken(file[k]) => Taken(file[k])'
      BY <1>1, <1>2, <3>1 DEF Taken, fixed, old
    <3> QED
      BY <3>1, <3>2
  <2> QED
    BY <1>2, <2>1 DEF DirectoryInv, LinesAreThere, Passed, fixed
<1> QED
  BY <1>4, <1>5, <1>6, <1>7, <1>8, <1>9, <1>10 DEF DirectoryInv

LEMMA DirectoryStep == DirectoryInv /\ [DirectoryNext]_directoryVars => DirectoryInv'
<1> SUFFICES ASSUME DirectoryInv, [DirectoryNext]_directoryVars PROVE DirectoryInv'
  OBVIOUS
<1>1. CASE UNCHANGED directoryVars
  <2>1. UNCHANGED <<table, uniqueIndex, looks, file, rows, pending, line, overtaken, clashed,
                    apart, completed, renamed>>
    BY <1>1 DEF directoryVars
  <2>2. DirectoryTypeOK' /\ PendingFits' /\ LinesAreThere'
    BY <2>1 DEF DirectoryInv, DirectoryTypeOK, PendingFits, LinesAreThere, Passed, Taken,
         Ids
  <2>3. LooksHold' /\ IndexHolds' /\ NamesClashOnlyByRaceOrEdit' /\ SyncedLoginIdFollows'
    BY <2>1, RowsStayKeepsNames DEF DirectoryInv, LooksHold, Taken, fixed
  <2> QED
    BY <2>2, <2>3 DEF DirectoryInv
<1> QED
  BY <1>1, LookKeeps, CreateKeeps, RollBackCreationKeeps, StartAndEndKeep, ImportLookKeeps,
     ImportInsertKeeps, ImportStopsKeeps, EditKeeps DEF DirectoryNext, Import

LEMMA DirectoryInvariant == DirectorySpec => []DirectoryInv
BY DirectoryInitial, DirectoryStep, PTL DEF DirectorySpec

\* Rows, creations, the file and the import keep their types.
THEOREM DirectoryTypeCorrect == DirectorySpec => []DirectoryTypeOK
<1>1. DirectoryInv => DirectoryTypeOK
  BY DEF DirectoryInv
<1> QED
  BY <1>1, DirectoryInvariant, PTL

\* Two rows share a name only when an insert came behind the look of another one or
\* without a look, or an edit wrote it, and never with a unique index.
THEOREM ClashNeedsRaceOrEdit == DirectorySpec => []NamesClashOnlyByRaceOrEdit
<1>1. DirectoryInv => NamesClashOnlyByRaceOrEdit
  BY DEF DirectoryInv
<1> QED
  BY <1>1, DirectoryInvariant, PTL

\* A synced loginid equals its column until a later edit changes the row without
\* naming loginid_sync_to.
THEOREM LoginIdFollows == DirectorySpec => []SyncedLoginIdFollows
<1>1. DirectoryInv => SyncedLoginIdFollows
  BY DEF DirectoryInv
<1> QED
  BY <1>1, DirectoryInvariant, PTL

\* An import that answered 200 has put every row of its file into the table.
THEOREM ImportsAreWhole == DirectorySpec => []ImportIsWhole
<1>1. DirectoryInv => ImportIsWhole
  BY DEF DirectoryInv, LinesAreThere, Passed, ImportIsWhole
<1> QED
  BY <1>1, DirectoryInvariant, PTL
=============================================================================
