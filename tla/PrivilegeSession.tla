--------------------------- MODULE PrivilegeSession ---------------------------
(***************************************************************************)
(* The session cache of module/self and the privilege version of           *)
(* module/user_management, for one user.                                   *)
(*                                                                         *)
(* A session object in Redis is a copy of five groups of database rows:    *)
(* the user, the organization, the user's organization memberships, his    *)
(* role memberships and the privileges of those roles.  It carries the     *)
(* value that the counter privilege_version:{userId} had when the copy was *)
(* made.  The middleware compares the two on every request and rebuilds    *)
(* the copy when they differ, except for the organization memberships:     *)
(* those stay what the login read.  Every Redis command and every SELECT   *)
(* is a step of its own, so requests, administrators and the counter       *)
(* interleave as they do between the goroutines of several processes.      *)
(*                                                                         *)
(* The statuses of the user and of the organization are kept as they are;  *)
(* memberships and role privileges are revision numbers, which is all that *)
(* "is this copy what the database says" can tell apart.                   *)
(***************************************************************************)
EXTENDS Naturals

CONSTANTS
  Keys,          \* session keys GenerateSessionKey can hand out
  Requests,      \* HTTP requests that can be in flight at the same time
  Endpoints,     \* the kinds of endpoint the clients call
  Bumped,        \* the kinds of change the application follows by an increment
  VersionFaults, \* whether a Redis command on the version key may fail
  MaxChanges,    \* bound on the administrative changes of a behaviour
  None           \* no session, no key, nothing read yet

Kinds     == {"user", "org", "orgMemberships", "memberships", "rolePrivileges"}
Revisions == {"orgMemberships", "memberships", "rolePrivileges"}
Statuses  == {"ACTIVE", "SUSPENDED", "DELETED"}
Flows     == {"middleware", "login", "loginToken"}
Services  == {"business", "logout", "language", "loginToken"}

ASSUME ConstantsAssumption ==
  /\ Endpoints \subseteq Services
  /\ Bumped \subseteq Kinds
  /\ VersionFaults \in BOOLEAN
  /\ MaxChanges \in Nat

VARIABLES
  db,       \* what the database says of the user, per kind of row
  changes,  \* how many administrative changes were committed
  owed,     \* increments the application still has to make
  lost,     \* history: increments lost since the last one that was made
  version,  \* privilege_version:{userId}; 0 stands for a missing key
  session,  \* session[k]: the object SessionRedis holds under k, or None
  used,     \* keys handed out so far
  req,      \* req[r]: the local state of request r
  barred    \* history: requests that must not be served, see MustBeExpelled

vars == <<db, changes, owed, lost, version, session, used, req, barred>>

View ==
  [user: Statuses \cup {None}, org: Statuses \cup {None},
   orgMemberships: Nat \cup {None}, memberships: Nat \cup {None},
   rolePrivileges: Nat \cup {None}]
Session == [view: View, version: Nat, by: Flows]

\* A missing session is told from a session.
ASSUME NoneAssumption == None \notin Session

Steps ==
  {"idle", "readVersion", "initVersion", "rereadVersion", "readUser",
   "readOrgMemberships", "readOrg",
   "readMemberships", "readRolePrivileges", "saveRefreshed", "expel", "checks",
   "serving", "rereadSession", "saveLanguage", "save"}

Request ==
  [pc: Steps, flow: Flows, key: Keys \cup {None}, endpoint: Services \cup {None},
   obj: Session \cup {None}, view: View, localOrg: Statuses \cup {None},
   cur: Nat]

Unread ==
  [user |-> None, org |-> None, orgMemberships |-> None, memberships |-> None,
   rolePrivileges |-> None]
Idle ==
  [pc |-> "idle", flow |-> "middleware", key |-> None, endpoint |-> None,
   obj |-> None, view |-> Unread, localOrg |-> None, cur |-> 0]

\* A request at work has a key and, unless it is a login, the object it came with.
Bound(q) == q.pc # "idle" => q.key \in Keys /\ (q.flow = "login" \/ q.obj # None)

TypeOK ==
  /\ db \in [user: Statuses, org: Statuses, orgMemberships: Nat, memberships: Nat,
            rolePrivileges: Nat]
  /\ changes \in Nat
  /\ owed \in Nat
  /\ lost \in Nat
  /\ version \in Nat
  /\ session \in [Keys -> Session \cup {None}]
  /\ used \subseteq Keys
  /\ barred \subseteq Requests
  /\ req \in [Requests -> Request]
  /\ \A r \in Requests: Bound(req[r])

Init ==
  /\ db = [user |-> "ACTIVE", org |-> "ACTIVE", orgMemberships |-> 0, memberships |-> 0,
           rolePrivileges |-> 0]
  /\ changes = 0
  /\ owed = 0
  /\ lost = 0
  /\ version = 0
  /\ session = [k \in Keys |-> None]
  /\ used = {}
  /\ barred = {}
  /\ req = [r \in Requests |-> Idle]

redisSessions == <<session, used>>
database == <<db, changes, owed, lost>>

(***************************************************************************)
(* Administration: user_management handlers commit a change, after which   *)
(* the application calls an Increment function for the kinds it bumps.     *)
(***************************************************************************)
Commit(kind, new) ==
  /\ changes < MaxChanges
  /\ changes' = changes + 1
  /\ db' = [db EXCEPT ![kind] = new]
  /\ owed' = IF kind \in Bumped THEN owed + 1 ELSE owed
  /\ barred' = IF kind = "user" /\ new = "ACTIVE" THEN {} ELSE barred
  /\ UNCHANGED <<lost, version, req>> /\ UNCHANGED redisSessions

UserSuspend  == db.user # "DELETED" /\ Commit("user", "SUSPENDED")
UserActivate == db.user # "DELETED" /\ Commit("user", "ACTIVE")
DoUserDelete == db.user # "DELETED" /\ Commit("user", "DELETED")
UserUndelete == db.user = "DELETED" /\ Commit("user", "ACTIVE")

\* OrganizationEdit writes any status; OrganizationDelete soft-deletes the row.
OrganizationEdit(status) ==
  /\ db.org # "DELETED"
  /\ status \in {"ACTIVE", "SUSPENDED"}
  /\ Commit("org", status)
OrganizationDelete == db.org # "DELETED" /\ Commit("org", "DELETED")

\* Memberships in organizations or roles, and the privileges of roles, change.
ChangeRows(kind) == Commit(kind, db[kind] + 1)

Administer ==
  \/ UserSuspend \/ UserActivate \/ DoUserDelete \/ UserUndelete
  \/ \E status \in Statuses: OrganizationEdit(status)
  \/ OrganizationDelete
  \/ \E kind \in Revisions: ChangeRows(kind)

\* INCR: a missing key (0) becomes 1.
IncrementUserPrivilegeVersion ==
  /\ owed > 0
  /\ version' = version + 1
  /\ owed' = owed - 1
  /\ lost' = 0
  /\ UNCHANGED <<db, changes, req, barred>> /\ UNCHANGED redisSessions

\* INCR fails, or a loop over the users of a role or an organization does not
\* come to this user: its SELECT failed, or the row named no user.  The error is
\* logged and the caller is told nothing.
IncrementIsLost ==
  /\ owed > 0
  /\ owed' = owed - 1
  /\ lost' = lost + 1
  /\ UNCHANGED <<db, changes, version, req, barred>> /\ UNCHANGED redisSessions

(***************************************************************************)
(* Requests.                                                               *)
(***************************************************************************)
At(r, step) == req[r].pc = step
Goto(r, step) == req' = [req EXCEPT ![r].pc = step]
End(r) ==
  /\ req' = [req EXCEPT ![r] = Idle]
  /\ barred' = barred \ {r}

\* A session that no increment has to come for: the counter has moved on, or it
\* has not and the middleware has looked at the user since.
MustBeExpelled(o) ==
  /\ db.user # "ACTIVE"
  /\ o.version # version \/ (o.by = "middleware" /\ owed = 0 /\ lost = 0)

\* SessionKeyToSessionObject: GetEx, answered 401 when the key is absent.  The
\* organization of the object read here stays in LocalData for SelfLoginToken.
SessionKeyToSessionObject(r, k) ==
  /\ At(r, "idle")
  /\ session[k] # None
  /\ req' = [req EXCEPT ![r] =
       [Idle EXCEPT !.pc = "readVersion", !.key = k, !.obj = session[k],
                    !.localOrg = session[k].view.org]]
  /\ barred' = IF MustBeExpelled(session[k]) THEN barred \cup {r} ELSE barred
  /\ UNCHANGED <<version>> /\ UNCHANGED database /\ UNCHANGED redisSessions

\* A login reads the user row while it authenticates; its key is a fresh one.
BeginLogin(r, k) ==
  /\ At(r, "idle")
  /\ k \notin used
  /\ used' = used \cup {k}
  /\ req' = [req EXCEPT ![r] =
       [Idle EXCEPT !.pc = "readUser", !.flow = "login", !.key = k]]
  /\ UNCHANGED <<version, session, barred>> /\ UNCHANGED database

\* The middleware is done with the refresh, and with what it read for it.
Refreshed(r, o) ==
  req' = [req EXCEPT ![r].obj = o, ![r].pc = "checks", ![r].view = Unread, ![r].cur = 0]

\* What a request does with the value GetOrInitUserPrivilegeVersion returned.
GotVersion(r, v) ==
  IF req[r].flow = "middleware" /\ req[r].obj.version = v
  THEN Refreshed(r, req[r].obj)
  ELSE req' = [req EXCEPT ![r].cur = v,
                          ![r].pc = IF req[r].flow = "middleware" THEN "readUser" ELSE "save"]

\* GetOrInitUserPrivilegeVersion, first GET.
ReadVersion(r) ==
  /\ At(r, "readVersion")
  /\ \/ version > 0 /\ GotVersion(r, version)
     \/ (version = 0 \/ VersionFaults) /\ Goto(r, "initVersion")
  /\ UNCHANGED <<version, barred>> /\ UNCHANGED database /\ UNCHANGED redisSessions

\* Faulty variant: a missing key is reported as 1 and not created.
InitVersionNowhere(r) ==
  /\ At(r, "initVersion")
  /\ Goto(r, "rereadVersion")
  /\ UNCHANGED <<version, barred>> /\ UNCHANGED database /\ UNCHANGED redisSessions

\* SETNX key 1; its error is only logged.
InitVersion(r) ==
  /\ At(r, "initVersion")
  /\ \/ version' = IF version = 0 THEN 1 ELSE version
     \/ VersionFaults /\ version' = version
  /\ Goto(r, "rereadVersion")
  /\ UNCHANGED <<barred>> /\ UNCHANGED database /\ UNCHANGED redisSessions

\* Second GET; a missing key or an error yields 1.
RereadVersion(r) ==
  /\ At(r, "rereadVersion")
  /\ \/ version > 0 /\ GotVersion(r, version)
     \/ (version = 0 \/ VersionFaults) /\ GotVersion(r, 1)
  /\ UNCHANGED <<version, barred>> /\ UNCHANGED database /\ UNCHANGED redisSessions

\* What is known of the organization and of the memberships in organizations
\* when the user row is read: nothing at a login; else what LocalData has of them.
\* The organization memberships there are those of the object.
FromLocalData(r) ==
  [Unread EXCEPT
     !.user = db.user, !.org = req[r].localOrg,
     !.orgMemberships = IF req[r].flow = "login" THEN None
                        ELSE req[r].obj.view.orgMemberships]

AfterUser(flow) ==
  CASE flow = "login"      -> "readOrgMemberships"
    [] flow = "loginToken" -> "readMemberships"
    [] OTHER               -> "readOrg"

\* Faulty variant: the refresh forgets to look at the status it has read.
ReadUserOfAnyStatus(r) ==
  /\ At(r, "readUser")
  /\ \/ req' = [req EXCEPT ![r].view = FromLocalData(r), ![r].pc = AfterUser(req[r].flow)]
     \/ req[r].flow = "middleware" /\ Goto(r, "expel")
  /\ UNCHANGED <<version, barred>> /\ UNCHANGED database /\ UNCHANGED redisSessions

\* The user row.  The middleware expels a user that is missing or not ACTIVE
\* (a failed SELECT counts as missing); no login looks at the status.
ReadUser(r) ==
  /\ At(r, "readUser")
  /\ \/ /\ req[r].flow = "middleware" => db.user = "ACTIVE"
        /\ req' = [req EXCEPT ![r].view = FromLocalData(r), ![r].pc = AfterUser(req[r].flow)]
     \/ req[r].flow = "middleware" /\ Goto(r, "expel")
  /\ UNCHANGED <<version, barred>> /\ UNCHANGED database /\ UNCHANGED redisSessions

\* The memberships in organizations: only a login reads them.
ReadOrgMemberships(r) ==
  /\ At(r, "readOrgMemberships")
  /\ req' = [req EXCEPT ![r].view.orgMemberships = db.orgMemberships, ![r].pc = "readOrg"]
  /\ UNCHANGED <<version, barred>> /\ UNCHANGED database /\ UNCHANGED redisSessions

\* The organization row, read by the middleware and by a login only; the
\* middleware looks whether it is deleted.
ReadOrg(r) ==
  /\ At(r, "readOrg")
  /\ \/ /\ req[r].flow = "middleware" => db.org # "DELETED"
        /\ req' = [req EXCEPT ![r].view.org = db.org, ![r].pc = "readMemberships"]
     \/ req[r].flow = "middleware" /\ Goto(r, "expel")
  /\ UNCHANGED <<version, barred>> /\ UNCHANGED database /\ UNCHANGED redisSessions

\* RegenerateSessionObject: the role memberships, then the privileges of the roles,
\* and the version last.  The middleware ignores the version read there and
\* keeps the one it compared with.
ReadMemberships(r) ==
  /\ At(r, "readMemberships")
  /\ req' = [req EXCEPT ![r].view.memberships = db.memberships, ![r].pc = "readRolePrivileges"]
  /\ UNCHANGED <<version, barred>> /\ UNCHANGED database /\ UNCHANGED redisSessions

ReadRolePrivileges(r) ==
  /\ At(r, "readRolePrivileges")
  /\ req' = [req EXCEPT ![r].view.rolePrivileges = db.rolePrivileges,
                        ![r].pc = IF req[r].flow = "middleware" THEN "saveRefreshed"
                                  ELSE "readVersion"]
  /\ UNCHANGED <<version, barred>> /\ UNCHANGED database /\ UNCHANGED redisSessions

\* A SELECT of RegenerateSessionObject fails: the middleware goes on with the
\* object it had (a login ends with an error, see Abort).
RegenerateFails(r) ==
  /\ req[r].pc \in {"readMemberships", "readRolePrivileges"}
  /\ req[r].flow = "middleware"
  /\ Refreshed(r, req[r].obj)
  /\ UNCHANGED <<version, barred>> /\ UNCHANGED database /\ UNCHANGED redisSessions

\* Faulty variant: the middleware keeps the version that RegenerateSessionObject
\* read after the rows.
BuiltWithLastVersion(r) ==
  [view |-> req[r].view, version |-> version, by |-> req[r].flow]

\* The object RegenerateSessionObject returns, with the version it is saved under.
Built(r) ==
  [view |-> req[r].view, version |-> req[r].cur, by |-> req[r].flow]

\* SessionRedis.Set of the rebuilt object; its error is dropped.
SaveRefreshed(r) ==
  /\ At(r, "saveRefreshed")
  /\ \/ session' = [session EXCEPT ![req[r].key] = Built(r)]
     \/ session' = session
  /\ Refreshed(r, Built(r))
  /\ UNCHANGED <<version, used, barred>> /\ UNCHANGED database

\* SessionRedis.Delete.
DeleteSession(r) ==
  /\ session' = [session EXCEPT ![req[r].key] = None]
  /\ End(r)
  /\ UNCHANGED <<version, used>> /\ UNCHANGED database

Expel(r) == At(r, "expel") /\ DeleteSession(r)

\* The gates after the refresh, the first place where it matters which endpoint
\* was called.  A business endpoint writes, so an object that shows a SUSPENDED
\* organization is refused; the other endpoints ask for no privilege.  A refusal
\* for a privilege or for maintenance is an Abort.
Admit(r, e) ==
  /\ At(r, "checks")
  /\ e = "business" => req[r].obj.view.org # "SUSPENDED"
  /\ req' = [req EXCEPT ![r].pc = "serving", ![r].endpoint = e,
                        ![r].localOrg = IF e = "loginToken" THEN @ ELSE None]
  /\ UNCHANGED <<version, barred>> /\ UNCHANGED database /\ UNCHANGED redisSessions

SelfLogout(r) ==
  /\ At(r, "serving")
  /\ req[r].endpoint = "logout"
  /\ DeleteSession(r)

\* SelfUpdateLanguage: UPDATE of the language column of the user row, GetEx of
\* the session, Set of the same object with the new language.
SelfUpdateLanguage(r) ==
  /\ At(r, "serving")
  /\ req[r].endpoint = "language"
  /\ Goto(r, "rereadSession")
  /\ UNCHANGED <<version, barred>> /\ UNCHANGED database /\ UNCHANGED redisSessions

RereadSession(r) ==
  /\ At(r, "rereadSession")
  /\ session[req[r].key] # None
  /\ req' = [req EXCEPT ![r].obj = session[req[r].key], ![r].pc = "saveLanguage"]
  /\ UNCHANGED <<version, barred>> /\ UNCHANGED database /\ UNCHANGED redisSessions

SaveLanguage(r) ==
  /\ At(r, "saveLanguage")
  /\ session' = [session EXCEPT ![req[r].key] = req[r].obj]
  /\ End(r)
  /\ UNCHANGED <<version, used>> /\ UNCHANGED database

\* SelfLoginToken rebuilds the session it was called with, under its key.
SelfLoginToken(r) ==
  /\ At(r, "serving")
  /\ req[r].endpoint = "loginToken"
  /\ req' = [req EXCEPT ![r].flow = "loginToken", ![r].pc = "readUser"]
  /\ UNCHANGED <<version, barred>> /\ UNCHANGED database /\ UNCHANGED redisSessions

\* SessionRedis.Set at the end of a login.
SaveLogin(r) ==
  /\ At(r, "save")
  /\ session' = [session EXCEPT ![req[r].key] = Built(r)]
  /\ End(r)
  /\ UNCHANGED <<version, used>> /\ UNCHANGED database

\* A business handler ends, or any request returns early: an error, a refusal,
\* a cancelled context, a crash of the process.
Abort(r) ==
  /\ ~At(r, "idle")
  /\ End(r)
  /\ UNCHANGED <<version>> /\ UNCHANGED database /\ UNCHANGED redisSessions

\* The TTL of a session passes.
Expire(k) ==
  /\ session[k] # None
  /\ session' = [session EXCEPT ![k] = None]
  /\ UNCHANGED <<version, used, req, barred>> /\ UNCHANGED database

RequestStep(r) ==
  \/ \E k \in Keys: SessionKeyToSessionObject(r, k) \/ BeginLogin(r, k)
  \/ ReadVersion(r) \/ InitVersion(r) \/ RereadVersion(r)
  \/ ReadUser(r) \/ ReadOrgMemberships(r) \/ ReadOrg(r)
  \/ ReadMemberships(r) \/ ReadRolePrivileges(r)
  \/ RegenerateFails(r) \/ SaveRefreshed(r) \/ Expel(r)
  \/ \E e \in Endpoints: Admit(r, e)
  \/ SelfLogout(r) \/ RereadSession(r) \/ SaveLanguage(r)
  \/ SelfUpdateLanguage(r) \/ SelfLoginToken(r) \/ SaveLogin(r) \/ Abort(r)

Next ==
  \/ Administer
  \/ IncrementUserPrivilegeVersion
  \/ IncrementIsLost
  \/ \E r \in Requests: RequestStep(r)
  \/ \E k \in Keys: Expire(k)

Spec == Init /\ [][Next]_vars

(***************************************************************************)
(* Properties.                                                             *)
(***************************************************************************)
\* What RegenerateSessionObject is given anew or reads anew.
RefreshedKinds == Kinds \ {"orgMemberships"}

Shows(o, kinds) == \A p \in kinds: o.view[p] = db[p]

\* The comparison of the middleware will not find this object stale, and no
\* increment is on its way that could change that.
PassesForCurrent(o) == o.version = version /\ owed = 0

Held == {session[k] : k \in Keys} \cup {req[r].obj : r \in Requests}

\* The middleware's refresh (self.go, MiddlewareUserLoggedAndPrivilegeCheck)
\* never lets a stale copy pass for a current one: whatever changes between its
\* reads, an object it built, in Redis or in the hands of a request, shows what
\* the database says of the parts a refresh reads, or will be found stale by the
\* next comparison.  The one exception is an increment that failed with no other
\* made since, which IncrementUserPrivilegeVersion calls best-effort.
RefreshedIsCurrent ==
  \A o \in Held:
    (o # None /\ o.by = "middleware" /\ PassesForCurrent(o) /\ lost = 0)
      => Shows(o, RefreshedKinds)

\* A user who is not ACTIVE is not served: a request that starts after the user
\* was suspended or deleted, and after the increment for it, gets to no handler
\* unless the user is active again first.  This holds whoever else holds the
\* session: a refresh that read the user before the suspension, or a change of
\* language, may write the session back after the middleware expelled it, and the
\* next request expels it again.
InactiveUsersAreExpelled == \A r \in barred: req[r].pc # "serving"

\* An increment makes every session in Redis differ from the counter, so that
\* the next request on it rebuilds it: GetOrInitUserPrivilegeVersion leaves no
\* blind spot in which a session carries a value the counter still has to take.
IncrementMakesSessionsStale ==
  [][IncrementUserPrivilegeVersion =>
       \A k \in Keys: session[k] # None => session[k].version # version']_vars

\* Every session in Redis, whichever path built it, obeys the comment
\* "Check privilege version - refresh session if stale" of the middleware.
SessionIsCurrent ==
  \A k \in Keys:
    (session[k] # None /\ PassesForCurrent(session[k]) /\ lost = 0)
      => Shows(session[k], RefreshedKinds)

\* So does every part of it: the memberships in organizations, too, are those of
\* the database once the middleware has refreshed a session.
RefreshCoversEveryPart ==
  \A o \in Held:
    (o # None /\ o.by = "middleware" /\ PassesForCurrent(o) /\ lost = 0)
      => Shows(o, Kinds)

\* A change that was committed is noticed even if its increment failed.
LostIncrementIsNoticed ==
  \A o \in Held:
    (o # None /\ o.by = "middleware" /\ PassesForCurrent(o)) => Shows(o, RefreshedKinds)

\* A session stays deleted: a key that names none is written by the login that was
\* handed it, and not by a request that had read the object before.
LogoutIsFinal ==
  [][\A k \in used: session[k] = None /\ session'[k] # None
       => \E r \in Requests: SaveLogin(r) /\ req[r].flow = "login"]_vars

\* A change of the organization's status forces a refresh: a session that shows
\* another status than the database differs from the counter, or will as soon
\* as the increments that are owed are made.
OrganizationChangeForcesRefresh ==
  \A k \in Keys:
    (session[k] # None /\ session[k].by = "middleware" /\ session[k].view.org # db.org)
      => (session[k].version # version \/ owed > 0 \/ lost > 0)

\* A login token does not replace a session that shows the organization as it
\* is by one that shows it as it was.
LoginTokenKeepsTheOrganization ==
  [][\A r \in Requests:
       LET k == req[r].key IN
       (/\ SaveLogin(r) /\ req[r].flow = "loginToken"
        /\ session[k] # None /\ session[k].view.org = db.org)
         => session'[k].view.org = db.org]_vars

(***************************************************************************)
(* The strengthening of these invariants that is inductive.                *)
(***************************************************************************)
\* A copy made under value v of the counter will be found stale, or an increment
\* that would have told has been lost.
Noticed(v) == owed > 0 \/ v < version \/ lost > 0

\* v is a value GetOrInitUserPrivilegeVersion may have returned.
Returned(v) == v >= 1 /\ (v <= version \/ (VersionFaults /\ v = 1))

\* The kinds of row the middleware has read when it is about to take a step.
PartsRead(step) ==
  CASE step = "readOrg"            -> {"user"}
    [] step = "readMemberships"    -> {"user", "org"}
    [] step = "readRolePrivileges" -> {"user", "org", "memberships"}
    [] step = "saveRefreshed"      -> RefreshedKinds
    [] OTHER                       -> {}

Rebuilding == {"readUser", "readOrg", "readMemberships", "readRolePrivileges", "saveRefreshed"}

ObjectInv(o) ==
  o # None =>
    /\ Returned(o.version)
    /\ o.by = "middleware" =>
         /\ o.version <= version
         /\ o.view.user = "ACTIVE"
         /\ Noticed(o.version) \/ Shows(o, RefreshedKinds)

RequestInv(q) ==
  /\ ObjectInv(q.obj)
  /\ (q.flow = "middleware" /\ q.pc \in Rebuilding) =>
       /\ q.cur >= 1 /\ q.cur <= version
       /\ q.pc # "readUser" => q.view.user = "ACTIVE"
       /\ Noticed(q.cur) \/ \A p \in PartsRead(q.pc): q.view[p] = db[p]
  /\ q.pc = "readOrgMemberships" => q.flow = "login"
  /\ q.pc = "saveRefreshed" => q.flow = "middleware"
  /\ q.pc = "rereadVersion" => (version > 0 \/ VersionFaults)
  /\ q.pc = "save" => q.flow # "middleware" /\ Returned(q.cur)

IInv ==
  /\ TypeOK
  /\ \A k \in Keys: ObjectInv(session[k])
  /\ \A r \in Requests: RequestInv(req[r])

\* A barred request has not come past the look at the user: the counter has left
\* its object behind, so that it is bound to look.
BarredInv ==
  \A r \in barred:
    /\ db.user # "ACTIVE"
    /\ req[r].flow = "middleware"
    /\ req[r].pc \in {"readVersion", "initVersion", "rereadVersion", "readUser", "expel"}
    /\ req[r].obj.version < version
===============================================================================
