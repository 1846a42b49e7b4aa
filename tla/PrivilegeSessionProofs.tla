------------------------ MODULE PrivilegeSessionProofs ------------------------
(***************************************************************************)
(* Proofs about PrivilegeSession, for any number of keys, requests and     *)
(* changes.                                                                *)
(***************************************************************************)
EXTENDS PrivilegeSession, TLAPS

USE DEF At, Goto, End, database, redisSessions

(***************************************************************************)
(* Type correctness.                                                       *)
(***************************************************************************)
LEMMA IdleType == Idle \in Request
  BY DEF Idle, Request, Steps, Flows, View, Unread

\* Every step, of a handler, an administrator or Redis, keeps the types.
LEMMA TypeStep == ASSUME TypeOK, [Next]_vars PROVE TypeOK'
<1> USE DEF TypeOK
<1>1. CASE Administer
  <2> SUFFICES ASSUME NEW kind \in Kinds, NEW new,
                      kind \in {"user", "org"} => new \in Statuses,
                      kind \in Revisions => new \in Nat,
                      Commit(kind, new)
               PROVE  TypeOK'
    BY <1>1 DEF Administer, UserSuspend, UserActivate, DoUserDelete, UserUndelete,
       OrganizationEdit, OrganizationDelete, ChangeRows, Kinds, Revisions, Statuses
  <2>1. db' \in [user: Statuses, org: Statuses, orgMemberships: Nat, memberships: Nat,
                 rolePrivileges: Nat]
    BY DEF Commit, Kinds, Revisions
  <2> QED
    BY <2>1, ConstantsAssumption DEF Commit
<1>2. CASE IncrementUserPrivilegeVersion \/ IncrementIsLost
  BY <1>2 DEF IncrementUserPrivilegeVersion, IncrementIsLost
<1>3. CASE \E r \in Requests: RequestStep(r)
  <2> PICK r \in Requests: RequestStep(r)
    BY <1>3
  <2>0. req[r] \in Request
    OBVIOUS
  <2> DEFINE ReqOK == /\ req' \in [Requests -> Request]
                      /\ \A o \in Requests: Bound(req'[o])
  <2>a. ASSUME NEW q \in Request, Bound(q),
               req' = [req EXCEPT ![r] = q]
        PROVE  ReqOK
    BY <2>a
  <2>b. ASSUME End(r) PROVE ReqOK
    BY <2>b, <2>a, IdleType DEF Idle, Bound
  <2>1. ASSUME NEW k \in Keys, SessionKeyToSessionObject(r, k)
        PROVE  TypeOK'
    <3>1. [Idle EXCEPT !.pc = "readVersion", !.key = k, !.obj = session[k],
                       !.localOrg = session[k].view.org] \in Request
      BY <2>1, IdleType, ConstantsAssumption
         DEF SessionKeyToSessionObject, Request, Steps, Session, View
    <3> QED
      BY <2>1, <2>a, <3>1 DEF SessionKeyToSessionObject, Idle, Bound
  <2>2. ASSUME NEW k \in Keys, BeginLogin(r, k)
        PROVE  TypeOK'
    <3>1. [Idle EXCEPT !.pc = "readUser", !.flow = "login", !.key = k] \in Request
      BY IdleType DEF Request, Steps, Flows
    <3> QED
      BY <2>2, <2>a, <3>1 DEF BeginLogin, Idle, Bound
  <2>c. ASSUME NEW o \in Session \cup {None}, o # None, Refreshed(r, o), ~At(r, "idle")
        PROVE  ReqOK
    <3> DEFINE q == [req[r] EXCEPT !.obj = o, !.pc = "checks", !.view = Unread, !.cur = 0]
    <3>1. req' = [req EXCEPT ![r] = q]
      BY <2>c DEF Refreshed
    <3>2. q \in Request /\ Bound(q)
      BY <2>0, <2>c DEF Request, Steps, View, Unread, Bound
    <3> QED
      BY <2>a, <3>1, <3>2
  <2>3. ASSUME NEW v \in Nat, GotVersion(r, v), ~At(r, "idle")
        PROVE  ReqOK
    <3>1. CASE Refreshed(r, req[r].obj) /\ req[r].flow = "middleware"
      BY <2>0, <2>c, <2>3, <3>1 DEF Request, Bound, GotVersion
    <3>2. CASE ~(Refreshed(r, req[r].obj) /\ req[r].flow = "middleware")
      BY <2>0, <2>3, <3>2 DEF GotVersion, Request, Steps, Bound
    <3> QED
      BY <3>1, <3>2
  <2>4. ASSUME NEW step \in Steps, Goto(r, step), ~At(r, "idle")
        PROVE  ReqOK
    BY <2>0, <2>4 DEF Request, Bound
  <2>5. CASE ReadVersion(r)
    BY <2>3, <2>4, <2>5 DEF ReadVersion, Steps
  <2>6. CASE InitVersion(r)
    BY <2>4, <2>6 DEF InitVersion, Steps
  <2>7. CASE RereadVersion(r)
    BY <2>3, <2>7 DEF RereadVersion
  <2>8. CASE ReadUser(r)
    <3>1. CASE Goto(r, "expel")
      BY <2>4, <2>8, <3>1 DEF ReadUser, Steps
    <3>2. CASE ~Goto(r, "expel")
      <4> DEFINE q == [req[r] EXCEPT !.view = FromLocalData(r), !.pc = AfterUser(req[r].flow)]
      <4>1. req' = [req EXCEPT ![r] = q]
        BY <2>8, <3>2 DEF ReadUser
      <4>2. FromLocalData(r) \in View
        BY <2>0, <2>8 DEF FromLocalData, Unread, View, Request, Session, ReadUser, Flows, Bound
      <4>3. q \in Request /\ Bound(q)
        BY <2>0, <2>8, <4>2 DEF Request, Bound, Steps, AfterUser, ReadUser
      <4>4. ReqOK
        BY <2>a, <4>1, <4>3
      <4> QED
        BY <2>8, <4>4 DEF ReadUser
    <3> QED
      BY <3>1, <3>2
  <2>23. CASE ReadOrgMemberships(r)
    <3> DEFINE q == [req[r] EXCEPT !.view.orgMemberships = db.orgMemberships, !.pc = "readOrg"]
    <3>1. req' = [req EXCEPT ![r] = q]
      BY <2>23 DEF ReadOrgMemberships
    <3>2. q \in Request /\ Bound(q)
      BY <2>0, <2>23 DEF Request, Bound, View, Steps, ReadOrgMemberships
    <3>3. ReqOK
      BY <2>a, <3>1, <3>2
    <3> QED
      BY <2>23, <3>3 DEF ReadOrgMemberships
  <2>9. CASE ReadOrg(r)
    <3>1. CASE Goto(r, "expel")
      BY <2>4, <2>9, <3>1 DEF ReadOrg, Steps
    <3>2. CASE ~Goto(r, "expel")
      <4> DEFINE q == [req[r] EXCEPT !.view.org = db.org, !.pc = "readMemberships"]
      <4>1. req' = [req EXCEPT ![r] = q]
        BY <2>9, <3>2 DEF ReadOrg
      <4>2. q \in Request /\ Bound(q)
        BY <2>0, <2>9 DEF Request, Bound, View, Steps, ReadOrg
      <4>3. ReqOK
        BY <2>a, <4>1, <4>2
      <4> QED
        BY <2>9, <4>3 DEF ReadOrg
    <3> QED
      BY <3>1, <3>2
  <2>10. CASE ReadMemberships(r)
    <3> DEFINE q == [req[r] EXCEPT !.view.memberships = db.memberships,
                                   !.pc = "readRolePrivileges"]
    <3>1. req' = [req EXCEPT ![r] = q]
      BY <2>10 DEF ReadMemberships
    <3>2. q \in Request /\ Bound(q)
      BY <2>0, <2>10 DEF Request, Bound, View, Steps, ReadMemberships
    <3>3. ReqOK
      BY <2>a, <3>1, <3>2
    <3> QED
      BY <2>10, <3>3 DEF ReadMemberships
  <2>11. CASE ReadRolePrivileges(r)
    <3> DEFINE q == [req[r] EXCEPT !.view.rolePrivileges = db.rolePrivileges,
                       !.pc = IF req[r].flow = "middleware" THEN "saveRefreshed"
                              ELSE "readVersion"]
    <3>1. req' = [req EXCEPT ![r] = q]
      BY <2>11 DEF ReadRolePrivileges
    <3>2. q \in Request /\ Bound(q)
      BY <2>0, <2>11 DEF Request, Bound, View, Steps, ReadRolePrivileges
    <3>3. ReqOK
      BY <2>a, <3>1, <3>2
    <3> QED
      BY <2>11, <3>3 DEF ReadRolePrivileges
  <2>12. CASE RegenerateFails(r)
    BY <2>0, <2>c, <2>12 DEF RegenerateFails, Request, Bound
  <2>13. Built(r) \in Session
    BY <2>0 DEF Built, Request, Session
  <2>14. CASE SaveRefreshed(r)
    <3>1. ReqOK
      BY <2>13, <2>14, <2>c, NoneAssumption DEF SaveRefreshed
    <3> QED
      BY <2>13, <2>14, <3>1 DEF SaveRefreshed
  <2>15. ASSUME DeleteSession(r), ~At(r, "idle") PROVE TypeOK'
    <3>1. ReqOK
      BY <2>15, <2>b DEF DeleteSession
    <3>2. session' \in [Keys -> Session \cup {None}]
      BY <2>15 DEF DeleteSession
    <3> QED
      BY <2>15, <3>1, <3>2 DEF DeleteSession
  <2>16. ASSUME NEW e \in Endpoints, Admit(r, e) PROVE TypeOK'
    <3> DEFINE q == [req[r] EXCEPT !.pc = "serving", !.endpoint = e,
                       !.localOrg = IF e = "loginToken" THEN @ ELSE None]
    <3>1. req' = [req EXCEPT ![r] = q]
      BY <2>16 DEF Admit
    <3>2. q \in Request /\ Bound(q)
      BY <2>0, <2>16, ConstantsAssumption DEF Request, Bound, Steps, Admit
    <3>3. ReqOK
      BY <2>a, <3>1, <3>2
    <3> QED
      BY <2>16, <3>3 DEF Admit
  <2>17. CASE SelfUpdateLanguage(r)
    BY <2>4, <2>17 DEF SelfUpdateLanguage, Steps
  <2>18. CASE RereadSession(r)
    <3>1. session[req[r].key] \in Session \cup {None}
      BY <2>18 DEF RereadSession, Bound
    <3> DEFINE q == [req[r] EXCEPT !.obj = session[req[r].key], !.pc = "saveLanguage"]
    <3>2. req' = [req EXCEPT ![r] = q]
      BY <2>18 DEF RereadSession
    <3>3. q \in Request /\ Bound(q)
      BY <2>0, <2>18, <3>1 DEF Request, Bound, Steps, RereadSession
    <3>4. ReqOK
      BY <2>a, <3>2, <3>3
    <3> QED
      BY <2>18, <3>4 DEF RereadSession
  <2>19. CASE SaveLanguage(r)
    <3>1. session' \in [Keys -> Session \cup {None}]
      BY <2>0, <2>19 DEF SaveLanguage, Request
    <3> QED
      BY <2>19, <2>b, <3>1 DEF SaveLanguage
  <2>20. CASE SelfLoginToken(r)
    <3> DEFINE q == [req[r] EXCEPT !.flow = "loginToken", !.pc = "readUser"]
    <3>1. req' = [req EXCEPT ![r] = q]
      BY <2>20 DEF SelfLoginToken
    <3>2. q \in Request /\ Bound(q)
      BY <2>0, <2>20 DEF Request, Bound, Steps, Flows, SelfLoginToken
    <3>3. ReqOK
      BY <2>a, <3>1, <3>2
    <3> QED
      BY <2>20, <3>3 DEF SelfLoginToken
  <2>21. CASE SaveLogin(r)
    BY <2>13, <2>21, <2>b DEF SaveLogin
  <2>22. CASE Abort(r)
    BY <2>22, <2>b DEF Abort
  <2> QED
    BY <2>1, <2>2, <2>5, <2>6, <2>7, <2>8, <2>9, <2>10, <2>11, <2>12, <2>14, <2>15,
       <2>16, <2>17, <2>18, <2>19, <2>20, <2>21, <2>22, <2>23
       DEF RequestStep, Expel, SelfLogout
<1>4. CASE \E k \in Keys: Expire(k)
  BY <1>4 DEF Expire
<1>5. CASE UNCHANGED vars
  BY <1>5 DEF vars
<1> QED
  BY <1>1, <1>2, <1>3, <1>4, <1>5 DEF Next

\* Every variable keeps its type under any interleaving of the handlers.
THEOREM TypeCorrect == Spec => []TypeOK
<1>1. Init => TypeOK
  BY IdleType DEF Init, TypeOK, Bound, Statuses, Idle
<1>2. TypeOK /\ [Next]_vars => TypeOK'
  BY TypeStep
<1> QED
  BY <1>1, <1>2, PTL DEF Spec

(***************************************************************************)
(* The refresh of the middleware, when every change is followed by an      *)
(* increment.                                                              *)
(***************************************************************************)
\* A request never changes the database, and of its steps only SETNX changes the
\* counter.
LEMMA RequestStepTouches ==
  ASSUME NEW r \in Requests, RequestStep(r), ~InitVersion(r)
  PROVE  UNCHANGED <<version, db, changes, owed, lost>>
<1>1. CASE \E k \in Keys: \/ SessionKeyToSessionObject(r, k)
                          \/ BeginLogin(r, k)
  BY <1>1 DEF SessionKeyToSessionObject, BeginLogin
<1>2. CASE ReadVersion(r) \/ RereadVersion(r)
  BY <1>2 DEF ReadVersion, RereadVersion
<1>3. CASE \/ ReadUser(r) \/ ReadOrgMemberships(r) \/ ReadOrg(r)
           \/ ReadMemberships(r) \/ ReadRolePrivileges(r)
  BY <1>3 DEF ReadUser, ReadOrgMemberships, ReadOrg, ReadMemberships, ReadRolePrivileges
<1>4. CASE RegenerateFails(r) \/ SaveRefreshed(r) \/ Expel(r) \/ (\E e \in Endpoints: Admit(r, e))
  BY <1>4 DEF RegenerateFails, SaveRefreshed, Expel, Admit, DeleteSession
<1>5. CASE SelfLogout(r) \/ RereadSession(r) \/ SaveLanguage(r)
  BY <1>5 DEF SelfLogout, RereadSession, SaveLanguage, DeleteSession
<1>6. CASE SelfUpdateLanguage(r) \/ SelfLoginToken(r) \/ SaveLogin(r) \/ Abort(r)
  BY <1>6 DEF SelfUpdateLanguage, SelfLoginToken, SaveLogin, Abort
<1> QED
  BY <1>1, <1>2, <1>3, <1>4, <1>5, <1>6 DEF RequestStep

\* A request's step leaves the other requests where they are.
LEMMA OneRequestMoves ==
  ASSUME TypeOK, NEW r \in Requests, RequestStep(r), NEW o \in Requests, o # r
  PROVE  req'[o] = req[o]
<1> USE DEF TypeOK
<1>1. CASE \E k \in Keys: \/ SessionKeyToSessionObject(r, k)
                          \/ BeginLogin(r, k)
  BY <1>1 DEF SessionKeyToSessionObject, BeginLogin
<1>2. CASE ReadVersion(r) \/ InitVersion(r) \/ RereadVersion(r)
  BY <1>2 DEF ReadVersion, InitVersion, RereadVersion, GotVersion, Refreshed
<1>3. CASE \/ ReadUser(r) \/ ReadOrgMemberships(r) \/ ReadOrg(r)
           \/ ReadMemberships(r) \/ ReadRolePrivileges(r)
  BY <1>3 DEF ReadUser, ReadOrgMemberships, ReadOrg, ReadMemberships, ReadRolePrivileges
<1>4. CASE RegenerateFails(r) \/ SaveRefreshed(r) \/ Expel(r) \/ (\E e \in Endpoints: Admit(r, e))
  BY <1>4 DEF RegenerateFails, SaveRefreshed, Expel, Admit, DeleteSession, Refreshed
<1>5. CASE SelfLogout(r) \/ RereadSession(r) \/ SaveLanguage(r)
  BY <1>5 DEF SelfLogout, RereadSession, SaveLanguage, DeleteSession
<1>6. CASE SelfUpdateLanguage(r) \/ SelfLoginToken(r) \/ SaveLogin(r) \/ Abort(r)
  BY <1>6 DEF SelfUpdateLanguage, SelfLoginToken, SaveLogin, Abort
<1> QED
  BY <1>1, <1>2, <1>3, <1>4, <1>5, <1>6 DEF RequestStep

\* The counter never decreases, and a step that changes the database makes every
\* copy made so far one that will be found stale.
LEMMA Environment ==
  ASSUME TypeOK, [Next]_vars, Bumped = Kinds
  PROVE  /\ version' >= version
         /\ \A v \in Nat: v <= version =>
              Noticed(v)' \/ (db' = db /\ (Noticed(v) => Noticed(v)'))
<1> USE DEF TypeOK, Noticed
<1>1. CASE Administer
  <2> SUFFICES ASSUME NEW kind \in Kinds, NEW new, Commit(kind, new)
               PROVE  version' = version /\ owed' > 0
    BY <1>1 DEF Administer, UserSuspend, UserActivate, DoUserDelete, UserUndelete,
       OrganizationEdit, OrganizationDelete, ChangeRows, Kinds, Revisions
  <2> QED
    BY DEF Commit
<1>2. CASE IncrementUserPrivilegeVersion \/ IncrementIsLost
  BY <1>2 DEF IncrementUserPrivilegeVersion, IncrementIsLost
<1>3. CASE \E r \in Requests: RequestStep(r)
  <2> PICK r \in Requests: RequestStep(r)
    BY <1>3
  <2>1. CASE InitVersion(r)
    BY <2>1 DEF InitVersion
  <2>2. CASE ~InitVersion(r)
    <3>1. UNCHANGED <<version, db, changes, owed, lost>>
      BY <2>2, RequestStepTouches
    <3> QED
      BY <3>1
  <2> QED
    BY <2>1, <2>2
<1>4. CASE \E k \in Keys: Expire(k)
  BY <1>4 DEF Expire
<1>5. CASE UNCHANGED vars
  BY <1>5 DEF vars
<1> QED
  BY <1>1, <1>2, <1>3, <1>4, <1>5 DEF Next

\* A step keeps what the invariant says of an object it does not touch.
LEMMA ObjectKept ==
  ASSUME TypeOK, [Next]_vars, Bumped = Kinds, NEW o \in Session \cup {None}, ObjectInv(o)
  PROVE  ObjectInv(o)'
<1>1. CASE o = None
  BY <1>1 DEF ObjectInv
<1>2. CASE o # None
  <2>1. o.version \in Nat
    BY <1>2 DEF Session
  <2> QED
    BY <1>2, <2>1, Environment, TypeStep DEF ObjectInv, Returned, TypeOK, Shows
<1> QED
  BY <1>1, <1>2

\* Likewise for a request that takes no step.
LEMMA RequestKept ==
  ASSUME TypeOK, [Next]_vars, Bumped = Kinds, NEW q \in Request, RequestInv(q)
  PROVE  RequestInv(q)'
<1>1. ObjectInv(q.obj)'
  BY ObjectKept DEF RequestInv, Request
<1>2. q.cur \in Nat
  BY DEF Request
<1>3. version \in Nat /\ version' \in Nat
  BY TypeStep DEF TypeOK
<1> QED
  BY <1>1, <1>2, <1>3, Environment DEF RequestInv, Returned

\* The objects in Redis stay covered when a step leaves them alone ...
LEMMA SessionsKept ==
  ASSUME IInv, [Next]_vars, Bumped = Kinds, NEW k \in Keys, session'[k] = session[k]
  PROVE  ObjectInv(session[k])'
<1>1. session[k] \in Session \cup {None} /\ ObjectInv(session[k])
  BY DEF IInv, TypeOK
<1>2. PICK o \in Session \cup {None}: o = session[k]
  BY <1>1
<1>3. ObjectInv(o)'
  BY <1>1, <1>2, ObjectKept DEF IInv
<1> QED
  BY <1>2, <1>3 DEF ObjectInv, Returned, Noticed, Shows

\* ... and so do the requests other than the one that takes the step.
LEMMA OthersKept ==
  ASSUME IInv, [Next]_vars, Bumped = Kinds, NEW o \in Requests, req'[o] = req[o]
  PROVE  RequestInv(req[o])'
<1>1. req[o] \in Request /\ RequestInv(req[o])
  BY DEF IInv, TypeOK
<1>2. PICK q \in Request: q = req[o]
  BY <1>1
<1>3. RequestInv(q)'
  BY <1>1, <1>2, RequestKept DEF IInv
<1> QED
  BY <1>2, <1>3 DEF RequestInv, ObjectInv, Returned, Noticed, Shows

\* A step of a request keeps the invariant: what it reads is what the database
\* says now, and what it writes was read under the value it is written with.
LEMMA RequestKeepsIInv ==
  ASSUME IInv, [Next]_vars, Bumped = Kinds, NEW r \in Requests, RequestStep(r)
  PROVE  RequestInv(req[r])' /\ \A k \in Keys: ObjectInv(session[k])'
<1>0. /\ TypeOK /\ TypeOK'
      /\ req[r] \in Request /\ req'[r] \in Request
      /\ Bound(req[r]) /\ RequestInv(req[r])
      /\ version \in Nat /\ owed \in Nat /\ lost \in Nat
  BY TypeStep DEF IInv, TypeOK
<1>s. ASSUME session' = session PROVE \A k \in Keys: ObjectInv(session[k])'
  BY <1>s, SessionsKept
<1>i. ASSUME req'[r] = Idle PROVE RequestInv(req[r])'
  BY <1>i DEF RequestInv, ObjectInv, Idle, Rebuilding
<1> DEFINE Still == UNCHANGED <<version, db, owed, lost>>
<1>w. ASSUME NEW h \in Keys, NEW o, o \in Session \cup {None}, ObjectInv(o), Still,
             \/ session' = [session EXCEPT ![h] = o]
             \/ session' = session
      PROVE  \A k \in Keys: ObjectInv(session[k])'
  <2> SUFFICES ASSUME NEW k \in Keys PROVE ObjectInv(session[k])'
    OBVIOUS
  <2>1. CASE session'[k] = session[k]
    BY <2>1, SessionsKept
  <2>2. CASE session'[k] = o
    BY <1>w, <2>2 DEF ObjectInv, Returned, Noticed, Shows
  <2> QED
    BY <1>0, <1>w, <2>1, <2>2 DEF TypeOK
<1>1. ASSUME NEW k \in Keys, SessionKeyToSessionObject(r, k)
      PROVE  RequestInv(req[r])'
  <2>1. ObjectInv(session[k]) /\ session[k] # None
    BY <1>1 DEF IInv, SessionKeyToSessionObject
  <2>2. /\ req'[r].obj = session[k] /\ req'[r].pc = "readVersion"
        /\ req'[r].flow = "middleware" /\ Still
    BY <1>0, <1>1 DEF SessionKeyToSessionObject, TypeOK, Idle
  <2> QED
    BY <2>1, <2>2 DEF RequestInv, ObjectInv, Returned, Noticed, Shows, Rebuilding
<1>2. ASSUME NEW k \in Keys, BeginLogin(r, k) PROVE RequestInv(req[r])'
  <2>1. req'[r].obj = None /\ req'[r].pc = "readUser" /\ req'[r].flow = "login"
    BY <1>0, <1>2 DEF BeginLogin, TypeOK, Idle
  <2> QED
    BY <2>1 DEF RequestInv, ObjectInv, Rebuilding
<1>3. ASSUME ReadVersion(r) PROVE RequestInv(req[r])'
  <2>1. Still /\ req'[r].obj = req[r].obj /\ req'[r].flow = req[r].flow
    BY <1>0, <1>3 DEF ReadVersion, GotVersion, Refreshed, TypeOK, Request
  <2>2. \/ req'[r].pc \in {"initVersion", "checks"}
        \/ /\ version > 0 /\ req'[r].cur = version
           /\ req'[r].pc = IF req[r].flow # "middleware" THEN "save" ELSE "readUser"
    BY <1>0, <1>3 DEF ReadVersion, GotVersion, Refreshed, TypeOK, Request
  <2> QED
    BY <1>0, <1>3, <2>1, <2>2
       DEF ReadVersion, RequestInv, ObjectInv, Returned, Noticed, Shows, PartsRead, Rebuilding
<1>4. ASSUME InitVersion(r) PROVE RequestInv(req[r])'
  <2>1. /\ req'[r] = [req[r] EXCEPT !.pc = "rereadVersion"]
        /\ UNCHANGED <<db, owed, lost>>
        /\ version' >= version /\ (version' > 0 \/ VersionFaults)
    BY <1>0, <1>4 DEF InitVersion, TypeOK
  <2>2. version' \in Nat /\ (req[r].obj # None => req[r].obj.version \in Nat)
    BY <1>0 DEF TypeOK, Request, Session
  <2> QED
    BY <1>0, <1>4, <2>1, <2>2
       DEF InitVersion, RequestInv, ObjectInv, Returned, Noticed, Shows, Request, Rebuilding
<1>5. ASSUME RereadVersion(r) PROVE RequestInv(req[r])'
  <2>1. Still /\ req'[r].obj = req[r].obj /\ req'[r].flow = req[r].flow
    BY <1>0, <1>5 DEF RereadVersion, GotVersion, Refreshed, TypeOK, Request
  <2>2. PICK v \in Nat:
          /\ \/ version > 0 /\ v = version
             \/ (version = 0 \/ VersionFaults) /\ v = 1
          /\ \/ req'[r].pc = "checks"
             \/ /\ req'[r].cur = v
                /\ req[r].flow = "middleware" => req[r].obj.version # v
                /\ req'[r].pc = IF req[r].flow # "middleware" THEN "save" ELSE "readUser"
    BY <1>0, <1>5 DEF RereadVersion, GotVersion, Refreshed, TypeOK, Request
  <2>3. version = 0 => VersionFaults
    BY <1>0, <1>5 DEF RereadVersion, RequestInv, Rebuilding
  <2>4. req[r].obj # None => req[r].obj.version \in Nat
    BY <1>0 DEF Request, Session
  <2>5. CASE req'[r].pc = "checks"
    <3>1. req[r].pc # "idle"
      BY <1>5 DEF RereadVersion
    <3> QED
      BY <1>0, <2>1, <2>5, <3>1 DEF RequestInv, ObjectInv, Returned, Noticed, Shows, Rebuilding
  <2>6. CASE req'[r].pc # "checks"
    <3>1. CASE req[r].flow = "middleware"
      <4>1. req'[r].cur = v /\ req'[r].pc = "readUser" /\ req[r].obj.version # v
        BY <2>2, <2>6, <3>1
      <4> QED
        BY <1>0, <1>5, <2>1, <2>2, <2>3, <2>4, <3>1, <4>1
           DEF RereadVersion, RequestInv, ObjectInv, Returned, Noticed, Shows, PartsRead,
               Rebuilding, Bound
    <3>2. CASE req[r].flow # "middleware"
      <4>1. req'[r].cur = v /\ req'[r].pc = "save"
        BY <2>2, <2>6, <3>2
      <4> QED
        BY <1>0, <1>5, <2>1, <2>2, <2>3, <2>4, <3>2, <4>1
           DEF RereadVersion, RequestInv, ObjectInv, Returned, Noticed, Shows, Rebuilding
    <3> QED
      BY <3>1, <3>2
  <2> QED
    BY <2>5, <2>6
<1>6. ASSUME ReadUser(r) PROVE RequestInv(req[r])'
  <2>1. Still /\ req'[r].obj = req[r].obj /\ req'[r].flow = req[r].flow
        /\ req'[r].cur = req[r].cur /\ req[r].pc = "readUser"
    BY <1>0, <1>6 DEF ReadUser, TypeOK, Request
  <2>2. \/ req'[r].pc = "expel"
        \/ req'[r].pc = "readMemberships" /\ req[r].flow = "loginToken"
        \/ req'[r].pc = "readOrgMemberships" /\ req[r].flow = "login"
        \/ req'[r].pc = "readOrg" /\ req'[r].view.user = db.user /\ db.user = "ACTIVE"
    BY <1>0, <1>6 DEF ReadUser, FromLocalData, AfterUser, Unread, TypeOK, Request, View, Flows
  <2> QED
    BY <1>0, <2>1, <2>2 DEF RequestInv, ObjectInv, Returned, Noticed, Shows, PartsRead, Rebuilding
<1>20. ASSUME ReadOrgMemberships(r) PROVE RequestInv(req[r])'
  <2>1. Still /\ req'[r].obj = req[r].obj /\ req'[r].flow = req[r].flow
        /\ req[r].pc = "readOrgMemberships" /\ req'[r].pc = "readOrg"
    BY <1>0, <1>20 DEF ReadOrgMemberships, TypeOK, Request
  <2> QED
    BY <1>0, <2>1 DEF RequestInv, ObjectInv, Returned, Noticed, Shows, Rebuilding
<1>7. ASSUME ReadOrg(r) PROVE RequestInv(req[r])'
  <2>1. Still /\ req'[r].obj = req[r].obj /\ req'[r].flow = req[r].flow
        /\ req'[r].cur = req[r].cur /\ req[r].pc = "readOrg"
    BY <1>0, <1>7 DEF ReadOrg, TypeOK, Request
  <2>2. \/ req'[r].pc = "expel"
        \/ /\ req'[r].pc = "readMemberships" /\ req'[r].view.org = db.org
           /\ req'[r].view.user = req[r].view.user
    BY <1>0, <1>7 DEF ReadOrg, TypeOK, Request, View
  <2> QED
    BY <1>0, <2>1, <2>2 DEF RequestInv, ObjectInv, Returned, Noticed, Shows, PartsRead, Rebuilding
<1>8. ASSUME ReadMemberships(r) PROVE RequestInv(req[r])'
  <2>1. Still /\ req'[r].obj = req[r].obj /\ req'[r].flow = req[r].flow
        /\ req'[r].cur = req[r].cur /\ req[r].pc = "readMemberships"
    BY <1>0, <1>8 DEF ReadMemberships, TypeOK, Request
  <2>2. /\ req'[r].pc = "readRolePrivileges"
        /\ req'[r].view = [req[r].view EXCEPT !.memberships = db.memberships]
    BY <1>0, <1>8 DEF ReadMemberships, TypeOK, Request
  <2> QED
    BY <1>0, <2>1, <2>2 DEF RequestInv, ObjectInv, Returned, Noticed, Shows, PartsRead, Rebuilding, Request, View
<1>9. ASSUME ReadRolePrivileges(r) PROVE RequestInv(req[r])'
  <2>1. Still /\ req'[r].obj = req[r].obj /\ req'[r].flow = req[r].flow
        /\ req'[r].cur = req[r].cur /\ req[r].pc = "readRolePrivileges"
    BY <1>0, <1>9 DEF ReadRolePrivileges, TypeOK, Request
  <2>2. /\ req'[r].pc = IF req[r].flow = "middleware" THEN "saveRefreshed" ELSE "readVersion"
        /\ req'[r].view = [req[r].view EXCEPT !.rolePrivileges = db.rolePrivileges]
    BY <1>0, <1>9 DEF ReadRolePrivileges, TypeOK, Request
  <2> QED
    BY <1>0, <2>1, <2>2
       DEF RequestInv, ObjectInv, Returned, Noticed, Shows, PartsRead, Rebuilding, Request,
           View, Kinds, RefreshedKinds
<1>10. ASSUME RegenerateFails(r) \/ SelfUpdateLanguage(r) PROVE RequestInv(req[r])'
  <2>1. /\ Still /\ req[r].pc # "idle"
        /\ req'[r].obj = req[r].obj /\ req'[r].flow = req[r].flow
        /\ req'[r].pc \in {"checks", "rereadSession"}
    BY <1>0, <1>10 DEF RegenerateFails, SelfUpdateLanguage, Refreshed, TypeOK, Request
  <2> QED
    BY <1>0, <2>1 DEF RequestInv, ObjectInv, Returned, Noticed, Shows, Request, Rebuilding
<1>11. CASE SaveRefreshed(r)
  <2>1. /\ Still /\ req[r].pc = "saveRefreshed" /\ req[r].key \in Keys
        /\ req'[r].obj = Built(r) /\ req'[r].pc = "checks" /\ req'[r].flow = req[r].flow
    BY <1>0, <1>11 DEF SaveRefreshed, Refreshed, TypeOK, Request
  <2>2. Built(r) \in Session
    BY <1>0 DEF Built, Session, Request
  <2>3. Shows(Built(r), RefreshedKinds) \/ Noticed(req[r].cur)
    BY <1>0, <2>1 DEF RequestInv, PartsRead, Rebuilding, Shows, Built
  <2>4. ObjectInv(Built(r))
    BY <1>0, <2>1, <2>3 DEF Built, ObjectInv, RequestInv, Rebuilding, Returned
  <2>5. \A k \in Keys: ObjectInv(session[k])'
    BY <1>11, <1>w, <2>1, <2>2, <2>4 DEF SaveRefreshed
  <2>6. RequestInv(req[r])'
    BY <2>1, <2>2, <2>4, NoneAssumption DEF RequestInv, ObjectInv, Returned, Noticed, Shows, Rebuilding
  <2> QED
    BY <2>5, <2>6
<1>12. ASSUME NEW e \in Endpoints, Admit(r, e) PROVE RequestInv(req[r])'
  <2>1. Still /\ req'[r].obj = req[r].obj /\ req'[r].flow = req[r].flow
        /\ req[r].pc = "checks" /\ req'[r].pc = "serving"
    BY <1>0, <1>12 DEF Admit, TypeOK, Request
  <2> QED
    BY <1>0, <2>1 DEF RequestInv, ObjectInv, Returned, Noticed, Shows, Rebuilding
<1>13. ASSUME DeleteSession(r), ~At(r, "idle")
       PROVE  RequestInv(req[r])' /\ \A k \in Keys: ObjectInv(session[k])'
  <2>1. req'[r] = Idle /\ req[r].key \in Keys /\ Still
    BY <1>0, <1>13 DEF DeleteSession, TypeOK
  <2>2. ObjectInv(None)
    BY DEF ObjectInv
  <2>3. \A k \in Keys: ObjectInv(session[k])'
    BY <1>13, <1>w, <2>1, <2>2 DEF DeleteSession
  <2> QED
    BY <1>i, <2>1, <2>3
<1>14. ASSUME RereadSession(r) PROVE RequestInv(req[r])'
  <2>1. /\ Still /\ req[r].key \in Keys /\ session[req[r].key] # None
        /\ req'[r].obj = session[req[r].key] /\ req'[r].pc = "saveLanguage"
    BY <1>0, <1>14 DEF RereadSession, TypeOK, Request
  <2>2. ObjectInv(session[req[r].key])
    BY <2>1 DEF IInv
  <2> QED
    BY <2>1, <2>2 DEF RequestInv, ObjectInv, Returned, Noticed, Shows, Rebuilding
<1>15. CASE SaveLanguage(r)
  <2>1. /\ req'[r] = Idle /\ req[r].key \in Keys /\ Still
        /\ req[r].obj \in Session \cup {None} /\ ObjectInv(req[r].obj)
    BY <1>0, <1>15 DEF SaveLanguage, TypeOK, RequestInv, Request, Rebuilding
  <2>2. \A k \in Keys: ObjectInv(session[k])'
    BY <1>15, <1>w, <2>1 DEF SaveLanguage
  <2> QED
    BY <1>i, <2>1, <2>2
<1>16. ASSUME SelfLoginToken(r) PROVE RequestInv(req[r])'
  <2>1. Still /\ req'[r].obj = req[r].obj /\ req'[r].flow = "loginToken"
        /\ req'[r].pc = "readUser"
    BY <1>0, <1>16 DEF SelfLoginToken, TypeOK, Request
  <2> QED
    BY <1>0, <2>1 DEF RequestInv, ObjectInv, Returned, Noticed, Shows, Rebuilding
<1>17. CASE SaveLogin(r)
  <2>1. /\ req'[r] = Idle /\ req[r].key \in Keys /\ Still
        /\ Built(r) \in Session
    BY <1>0, <1>17 DEF SaveLogin, TypeOK, Built, Session, Request
  <2>2. ObjectInv(Built(r))
    BY <1>0, <1>17 DEF SaveLogin, ObjectInv, RequestInv, Built, Rebuilding
  <2>3. \A k \in Keys: ObjectInv(session[k])'
    BY <1>17, <1>w, <2>1, <2>2 DEF SaveLogin
  <2> QED
    BY <1>i, <2>1, <2>3
<1>18. ASSUME Abort(r) PROVE RequestInv(req[r])'
  BY <1>0, <1>18, <1>i DEF Abort, TypeOK
<1>19. ASSUME ~SaveRefreshed(r), ~Expel(r), ~SelfLogout(r), ~SaveLanguage(r), ~SaveLogin(r)
       PROVE  session' = session
  <2>1. CASE \E k \in Keys: \/ SessionKeyToSessionObject(r, k)
                            \/ BeginLogin(r, k)
    BY <2>1 DEF SessionKeyToSessionObject, BeginLogin
  <2>2. CASE ReadVersion(r) \/ InitVersion(r) \/ RereadVersion(r)
    BY <2>2 DEF ReadVersion, InitVersion, RereadVersion
  <2>3. CASE \/ ReadUser(r) \/ ReadOrgMemberships(r) \/ ReadOrg(r)
             \/ ReadMemberships(r) \/ ReadRolePrivileges(r)
    BY <2>3 DEF ReadUser, ReadOrgMemberships, ReadOrg, ReadMemberships, ReadRolePrivileges
  <2>4. CASE RegenerateFails(r) \/ (\E e \in Endpoints: Admit(r, e)) \/ SelfUpdateLanguage(r)
    BY <2>4 DEF RegenerateFails, Admit, SelfUpdateLanguage
  <2>5. CASE RereadSession(r) \/ SelfLoginToken(r) \/ Abort(r)
    BY <2>5 DEF RereadSession, SelfLoginToken, Abort
  <2> QED
    BY <1>19, <2>1, <2>2, <2>3, <2>4, <2>5 DEF RequestStep
<1> QED
  BY <1>1, <1>2, <1>3, <1>4, <1>5, <1>6, <1>7, <1>8, <1>9, <1>10, <1>11, <1>12, <1>13,
     <1>14, <1>15, <1>16, <1>17, <1>18, <1>19, <1>20, <1>s DEF RequestStep, Expel, SelfLogout

\* IInv is inductive when the application follows every change by an increment.
LEMMA IInvStep == ASSUME IInv, [Next]_vars, Bumped = Kinds PROVE IInv'
<1>1. TypeOK'
  BY TypeStep DEF IInv
<1>2. CASE \E r \in Requests: RequestStep(r)
  <2> PICK r \in Requests: RequestStep(r)
    BY <1>2
  <2>1. RequestInv(req[r])' /\ \A k \in Keys: ObjectInv(session[k])'
    BY RequestKeepsIInv
  <2>2. ASSUME NEW o \in Requests, o # r PROVE req'[o] = req[o]
    BY <2>2, OneRequestMoves DEF IInv
  <2>3. \A o \in Requests: RequestInv(req[o])'
    BY <2>1, <2>2, OthersKept
  <2> QED
    BY <1>1, <2>1, <2>3 DEF IInv
<1>3. CASE UNCHANGED req /\ \A k \in Keys: session'[k] \in {session[k], None}
  <2>1. ASSUME NEW k \in Keys PROVE ObjectInv(session[k])'
    <3>1. CASE session'[k] = session[k]
      BY <3>1, SessionsKept
    <3>2. CASE session'[k] = None
      BY <3>2 DEF ObjectInv
    <3> QED
      BY <1>3, <3>1, <3>2
  <2>2. \A o \in Requests: RequestInv(req[o])'
    BY <1>3, OthersKept
  <2> QED
    BY <1>1, <2>1, <2>2 DEF IInv
<1>4. CASE Administer
  BY <1>3, <1>4 DEF Administer, Commit, redisSessions, UserSuspend, UserActivate, DoUserDelete,
     UserUndelete, OrganizationEdit, OrganizationDelete, ChangeRows
<1>5. CASE IncrementUserPrivilegeVersion \/ IncrementIsLost
  BY <1>3, <1>5 DEF IncrementUserPrivilegeVersion, IncrementIsLost
<1>6. CASE \E k \in Keys: Expire(k)
  <2>1. UNCHANGED req /\ \A k \in Keys: session'[k] \in {session[k], None}
    BY <1>6 DEF Expire, IInv, TypeOK
  <2> QED
    BY <1>3, <2>1
<1>7. CASE UNCHANGED vars
  BY <1>3, <1>7 DEF vars
<1> QED
  BY <1>2, <1>4, <1>5, <1>6, <1>7 DEF Next

LEMMA IInvInit == Init => IInv
<1> SUFFICES ASSUME Init PROVE IInv
  OBVIOUS
<1>1. TypeOK
  BY IdleType DEF Init, TypeOK, Bound, Statuses, Idle
<1>2. \A r \in Requests: RequestInv(req[r])
  BY DEF Init, RequestInv, Rebuilding, ObjectInv, Idle
<1>3. \A k \in Keys: ObjectInv(session[k])
  BY DEF Init, ObjectInv
<1> QED
  BY <1>1, <1>2, <1>3 DEF IInv

LEMMA IInvHolds == Bumped = Kinds => (Spec => []IInv)
<1> SUFFICES ASSUME Bumped = Kinds PROVE Spec => []IInv
  OBVIOUS
<1>1. IInv /\ [Next]_vars => IInv'
  BY IInvStep
<1> QED
  BY <1>1, IInvInit, PTL DEF Spec

\* The refresh is sound: when the application follows every change by an
\* increment, and unless the last of them was lost, no object the middleware built
\* passes for current while a part the refresh reads shows anything but the
\* database, with any number of keys, requests and changes and with or without
\* failures of the version key.
THEOREM RefreshIsSound == Bumped = Kinds => (Spec => []RefreshedIsCurrent)
<1> SUFFICES ASSUME Bumped = Kinds PROVE Spec => []RefreshedIsCurrent
  OBVIOUS
<1>1. IInv => RefreshedIsCurrent
  BY DEF IInv, RefreshedIsCurrent, Held, RequestInv, ObjectInv, Noticed, PassesForCurrent, TypeOK
<1> QED
  BY <1>1, IInvHolds, PTL

(***************************************************************************)
(* The counter, when its commands do not fail.                             *)
(***************************************************************************)
\* No session carries a value the counter has yet to take, so an increment
\* leaves none of them current.
THEOREM NoBlindSpot ==
  (Bumped = Kinds /\ VersionFaults = FALSE) => (Spec => IncrementMakesSessionsStale)
<1> SUFFICES ASSUME Bumped = Kinds, VersionFaults = FALSE
             PROVE  Spec => IncrementMakesSessionsStale
  OBVIOUS
<1>1. IInv /\ [Next]_vars =>
        [IncrementUserPrivilegeVersion =>
           \A k \in Keys: session[k] # None => session[k].version # version']_vars
  <2> SUFFICES ASSUME IInv, IncrementUserPrivilegeVersion, NEW k \in Keys, session[k] # None
               PROVE  session[k].version # version'
    OBVIOUS
  <2>1. session[k].version \in Nat /\ version \in Nat /\ session[k].version <= version
    BY DEF IInv, TypeOK, ObjectInv, Returned, Session
  <2> QED
    BY <2>1 DEF IncrementUserPrivilegeVersion
<1> QED
  BY <1>1, IInvHolds, PTL DEF Spec, IncrementMakesSessionsStale

(***************************************************************************)
(* Users who are not active.                                               *)
(***************************************************************************)

(***************************************************************************)
(* Users who are not active, when the commands on the version key do not   *)
(* fail.                                                                   *)
(***************************************************************************)
\* A request comes to be barred with an object that the counter has left behind:
\* an object of the middleware that is current shows the user as he is, and none
\* shows him otherwise than ACTIVE.
LEMMA BarredAtTheStart ==
  ASSUME IInv, VersionFaults = FALSE, NEW k \in Keys, session[k] # None,
         MustBeExpelled(session[k])
  PROVE  db.user # "ACTIVE" /\ session[k].version < version
<1>1. ObjectInv(session[k]) /\ session[k] \in Session /\ version \in Nat
  BY DEF IInv, TypeOK
<1>2. session[k].version \in Nat
  BY <1>1 DEF Session
<1>3. session[k].version <= version
  BY <1>1, <1>2 DEF ObjectInv, Returned
<1>4. CASE session[k].version # version
  BY <1>2, <1>1, <1>3, <1>4 DEF MustBeExpelled
<1>5. CASE session[k].version = version
  <2>1. session[k].by = "middleware" /\ owed = 0 /\ lost = 0 /\ db.user # "ACTIVE"
    BY <1>5 DEF MustBeExpelled
  <2>2. ~Noticed(session[k].version)
    BY <1>1, <1>5, <2>1 DEF Noticed
  <2>3. session[k].view.user = "ACTIVE" /\ Shows(session[k], RefreshedKinds)
    BY <1>1, <2>1, <2>2 DEF ObjectInv
  <2> QED
    BY <2>1, <2>3 DEF Shows, RefreshedKinds, Kinds
<1> QED
  BY <1>4, <1>5

\* The request that takes a step is barred from its first one, or stays before the
\* handlers: the counter it reads differs from its object's version, and the user
\* it reads is not active.
LEMMA BarredRequestStep ==
  ASSUME IInv, BarredInv, VersionFaults = FALSE, NEW r \in Requests, RequestStep(r), r \in barred'
  PROVE  /\ db.user # "ACTIVE"
         /\ req'[r].flow = "middleware"
         /\ req'[r].pc \in {"readVersion", "initVersion", "rereadVersion", "readUser", "expel"}
         /\ req'[r].obj.version < version
<1>0. TypeOK /\ version \in Nat /\ RequestInv(req[r]) /\ req[r] \in Request
  BY DEF IInv, TypeOK
<1>1. ASSUME NEW k \in Keys, SessionKeyToSessionObject(r, k)
      PROVE  r \notin barred /\ MustBeExpelled(session[k]) /\ req'[r].obj = session[k]
             /\ req'[r].pc = "readVersion" /\ req'[r].flow = "middleware"
             /\ session[k] # None
  BY <1>0, <1>1 DEF SessionKeyToSessionObject, BarredInv, TypeOK, Idle
<1>2. CASE \E k \in Keys: SessionKeyToSessionObject(r, k)
  BY <1>1, <1>2, BarredAtTheStart
<1>3. CASE ~\E k \in Keys: SessionKeyToSessionObject(r, k)
  <2>1. barred' \subseteq barred /\ ~End(r)
    <3>1. ~End(r)
      BY DEF End
    <3>2. CASE \/ ReadUser(r) \/ ReadOrgMemberships(r) \/ ReadOrg(r)
               \/ ReadMemberships(r) \/ ReadRolePrivileges(r)
      BY <3>1, <3>2 DEF ReadUser, ReadOrgMemberships, ReadOrg, ReadMemberships, ReadRolePrivileges
    <3>3. CASE ReadVersion(r) \/ InitVersion(r) \/ RereadVersion(r)
      BY <3>1, <3>3 DEF ReadVersion, InitVersion, RereadVersion
    <3>4. CASE RegenerateFails(r) \/ SaveRefreshed(r) \/ (\E e \in Endpoints: Admit(r, e))
      BY <3>1, <3>4 DEF RegenerateFails, SaveRefreshed, Admit
    <3>5. CASE Expel(r) \/ SelfLogout(r) \/ SaveLanguage(r) \/ SaveLogin(r) \/ Abort(r)
      BY <3>1, <3>5 DEF Expel, SelfLogout, DeleteSession, SaveLanguage, SaveLogin, Abort
    <3>6. CASE \/ RereadSession(r) \/ SelfUpdateLanguage(r) \/ SelfLoginToken(r)
               \/ \E k \in Keys: BeginLogin(r, k)
      BY <3>1, <3>6 DEF RereadSession, SelfUpdateLanguage, SelfLoginToken, BeginLogin
    <3> QED
      BY <1>3, <3>2, <3>3, <3>4, <3>5, <3>6 DEF RequestStep
  <2>2. /\ db.user # "ACTIVE" /\ req[r].flow = "middleware" /\ req[r].obj.version < version
        /\ req[r].pc \in {"readVersion", "initVersion", "rereadVersion", "readUser", "expel"}
    BY <2>1 DEF BarredInv
  <2>3. req[r].obj.version \in Nat
    BY <1>0, <2>2 DEF Request, Session, TypeOK, Bound
  <2>4. CASE ReadVersion(r)
    <3>1. req'[r].obj = req[r].obj /\ req'[r].flow = req[r].flow
          /\ req'[r].pc \in {"initVersion", "readUser"}
      BY <1>0, <2>2, <2>3, <2>4 DEF ReadVersion, GotVersion, TypeOK, Request
    <3> QED
      BY <2>2, <3>1
  <2>5. CASE InitVersion(r)
    <3>1. req'[r].obj = req[r].obj /\ req'[r].flow = req[r].flow
          /\ req'[r].pc = "rereadVersion"
      BY <1>0, <2>5 DEF InitVersion, TypeOK, Request
    <3> QED
      BY <2>2, <3>1
  <2>6. CASE RereadVersion(r)
    <3>1. version > 0
      BY <1>0, <2>6 DEF RereadVersion, RequestInv
    <3>2. req'[r].obj = req[r].obj /\ req'[r].flow = req[r].flow /\ req'[r].pc = "readUser"
      BY <1>0, <2>2, <2>3, <2>6, <3>1 DEF RereadVersion, GotVersion, TypeOK, Request
    <3> QED
      BY <2>2, <3>2
  <2>7. CASE ReadUser(r)
    <3>1. req'[r].obj = req[r].obj /\ req'[r].flow = req[r].flow /\ req'[r].pc = "expel"
      BY <1>0, <2>2, <2>7 DEF ReadUser, TypeOK, Request
    <3> QED
      BY <2>2, <3>1
  <2>8. ReadVersion(r) \/ InitVersion(r) \/ RereadVersion(r) \/ ReadUser(r)
    <3>1. ~Expel(r) /\ ~SelfLogout(r) /\ ~SaveLanguage(r) /\ ~SaveLogin(r) /\ ~Abort(r)
      BY <2>1 DEF Expel, SelfLogout, DeleteSession, SaveLanguage, SaveLogin, Abort
    <3>2. /\ ~ReadOrgMemberships(r) /\ ~ReadOrg(r) /\ ~ReadMemberships(r)
          /\ ~ReadRolePrivileges(r) /\ ~RegenerateFails(r) /\ ~SaveRefreshed(r)
      BY <2>2 DEF ReadOrgMemberships, ReadOrg, ReadMemberships, ReadRolePrivileges,
         RegenerateFails, SaveRefreshed
    <3>3. /\ \A e \in Endpoints: ~Admit(r, e)
          /\ ~RereadSession(r) /\ ~SelfUpdateLanguage(r) /\ ~SelfLoginToken(r)
          /\ \A k \in Keys: ~BeginLogin(r, k)
      BY <2>2 DEF Admit, RereadSession, SelfUpdateLanguage, SelfLoginToken, BeginLogin
    <3> QED
      BY <1>3, <3>1, <3>2, <3>3 DEF RequestStep
  <2> QED
    BY <2>4, <2>5, <2>6, <2>7, <2>8
<1> QED
  BY <1>2, <1>3

LEMMA BarredInvStep ==
  ASSUME IInv, BarredInv, [Next]_vars, Bumped = Kinds, VersionFaults = FALSE
  PROVE  BarredInv'
<1>0. TypeOK /\ TypeOK' /\ version' >= version /\ version \in Nat /\ version' \in Nat
  BY TypeStep, Environment DEF IInv, TypeOK
<1>v. ASSUME NEW r \in barred PROVE req[r].obj.version \in Nat
  <2>1. req[r] \in Request /\ Bound(req[r])
    BY <1>0 DEF TypeOK
  <2> QED
    BY <2>1 DEF BarredInv, Bound, Request, Session
<1>k. ASSUME NEW r \in barred, req'[r] = req[r], db'.user # "ACTIVE"
      PROVE  /\ db'.user # "ACTIVE"
             /\ req'[r].flow = "middleware"
             /\ req'[r].pc \in {"readVersion", "initVersion", "rereadVersion", "readUser", "expel"}
             /\ req'[r].obj.version < version'
  BY <1>0, <1>k, <1>v DEF BarredInv
<1>1. CASE Administer
  <2> SUFFICES ASSUME NEW kind \in Kinds, NEW new, Commit(kind, new), NEW r \in barred'
               PROVE  req'[r] = req[r] /\ r \in barred /\ db'.user # "ACTIVE"
    BY <1>1, <1>k DEF BarredInv, Administer, UserSuspend, UserActivate, DoUserDelete, UserUndelete,
       OrganizationEdit, OrganizationDelete, ChangeRows, Kinds, Revisions
  <2>1. ~(kind = "user" /\ new = "ACTIVE") /\ r \in barred /\ req' = req
    BY DEF Commit
  <2>2. db.user # "ACTIVE"
    BY <2>1 DEF BarredInv
  <2>3. db' = [db EXCEPT ![kind] = new]
    BY DEF Commit
  <2>4. db'.user = IF kind = "user" THEN new ELSE db.user
    BY <1>0, <2>3 DEF TypeOK
  <2> QED
    BY <2>1, <2>2, <2>4
<1>2. CASE IncrementUserPrivilegeVersion \/ IncrementIsLost
  BY <1>2, <1>k DEF IncrementUserPrivilegeVersion, IncrementIsLost, BarredInv
<1>3. CASE \E r \in Requests: RequestStep(r)
  <2> PICK r \in Requests: RequestStep(r)
    BY <1>3
  <2>1. db' = db
    BY RequestStepTouches DEF InitVersion
  <2>2. barred' \subseteq barred \cup {r}
    <3>2. CASE \/ ReadUser(r) \/ ReadOrgMemberships(r) \/ ReadOrg(r)
               \/ ReadMemberships(r) \/ ReadRolePrivileges(r)
      BY <3>2 DEF ReadUser, ReadOrgMemberships, ReadOrg, ReadMemberships, ReadRolePrivileges
    <3>3. CASE ReadVersion(r) \/ InitVersion(r) \/ RereadVersion(r)
      BY <3>3 DEF ReadVersion, InitVersion, RereadVersion
    <3>4. CASE RegenerateFails(r) \/ SaveRefreshed(r) \/ (\E e \in Endpoints: Admit(r, e))
      BY <3>4 DEF RegenerateFails, SaveRefreshed, Admit
    <3>5. CASE Expel(r) \/ SelfLogout(r) \/ SaveLanguage(r) \/ SaveLogin(r) \/ Abort(r)
      BY <3>5 DEF Expel, SelfLogout, DeleteSession, SaveLanguage, SaveLogin, Abort
    <3>6. CASE \/ RereadSession(r) \/ SelfUpdateLanguage(r) \/ SelfLoginToken(r)
               \/ \E k \in Keys: SessionKeyToSessionObject(r, k) \/ BeginLogin(r, k)
      BY <3>6 DEF RereadSession, SelfUpdateLanguage, SelfLoginToken, BeginLogin,
         SessionKeyToSessionObject
    <3> QED
      BY <3>2, <3>3, <3>4, <3>5, <3>6 DEF RequestStep
  <2>3. ASSUME NEW o \in barred', o # r
        PROVE  o \in barred /\ req'[o] = req[o] /\ db'.user # "ACTIVE"
    <3>1. o \in barred /\ o \in Requests
      BY <1>0, <2>2, <2>3 DEF TypeOK
    <3> QED
      BY <1>0, <2>1, <2>3, <3>1, OneRequestMoves DEF BarredInv
  <2>4. ASSUME r \in barred'
        PROVE  /\ db'.user # "ACTIVE"
               /\ req'[r].flow = "middleware"
               /\ req'[r].pc \in {"readVersion", "initVersion", "rereadVersion", "readUser",
                                  "expel"}
               /\ req'[r].obj.version < version'
    <3>1. /\ db.user # "ACTIVE"
          /\ req'[r].flow = "middleware"
          /\ req'[r].pc \in {"readVersion", "initVersion", "rereadVersion", "readUser", "expel"}
          /\ req'[r].obj.version < version
      BY <2>4, BarredRequestStep
    <3>2. req'[r] \in Request /\ Bound(req'[r])
      BY <1>0 DEF TypeOK
    <3>3. req'[r].obj.version \in Nat
      BY <3>1, <3>2 DEF Bound, Request, Session
    <3>4. req'[r].obj.version < version'
      BY <1>0, <3>1, <3>3
    <3> QED
      BY <2>1, <3>1, <3>4
  <2> QED
    BY <1>k, <2>3, <2>4 DEF BarredInv
<1>4. CASE \E k \in Keys: Expire(k)
  BY <1>4, <1>k DEF Expire, BarredInv
<1>5. CASE UNCHANGED vars
  BY <1>5, <1>k DEF vars, BarredInv
<1> QED
  BY <1>1, <1>2, <1>3, <1>4, <1>5 DEF Next

\* A user who is not ACTIVE is not served: with every change followed by an
\* increment and a version key that can be read and created, a request that starts
\* after the suspension or deletion and its increment is never let into a handler,
\* whoever writes the session back meanwhile, with any number of them.
THEOREM NoInactiveUserIsServed ==
  (Bumped = Kinds /\ VersionFaults = FALSE) => (Spec => []InactiveUsersAreExpelled)
<1> SUFFICES ASSUME Bumped = Kinds, VersionFaults = FALSE
             PROVE  Spec => []InactiveUsersAreExpelled
  OBVIOUS
<1>1. Init => BarredInv
  BY DEF Init, BarredInv
<1>2. IInv /\ BarredInv /\ [Next]_vars => BarredInv'
  BY BarredInvStep
<1>3. BarredInv => InactiveUsersAreExpelled
  BY DEF BarredInv, InactiveUsersAreExpelled
<1> QED
  BY <1>1, <1>2, <1>3, IInvHolds, PTL DEF Spec
===============================================================================
