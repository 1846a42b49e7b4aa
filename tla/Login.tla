-------------------------------- MODULE Login --------------------------------
(***************************************************************************)
(* How a session comes to be, and the maintenance gate: the prelogin       *)
(* handlers and the five login handlers of module/self, the check of the   *)
(* system mode that a login makes before it saves its session, and the     *)
(* check that the middleware makes for every later request (a visit).      *)
(*                                                                         *)
(* A login is a chain of commands to Redis and to the database; the mode   *)
(* is one Redis value read in the middle of it.  Administrators change     *)
(* the mode through visits of their own, and keys expire, between any two  *)
(* of those commands.  Passwords, keys and captchas are reduced to         *)
(* "right" or "wrong": what is kept is which handler asks for what, what   *)
(* each of them carries to its next step, and when the mode is read.       *)
(***************************************************************************)
EXTENDS Naturals

CONSTANTS
  Logins,       \* login requests; each is sent at most once
  Visits,       \* slots for requests that present a session
  PreKeys,      \* prekey indexes uuid.NewV7 hands out
  Users,        \* the users
  Maintainers,  \* those with the privilege GLOBAL.SET_MAINTENANCE_MODE
  Members,      \* those with a membership in the organization asked for
  Offered,      \* the login endpoints the application offers
  None          \* no session, no prekey

(***************************************************************************)
(* The five login handlers.  Each repeats the same chain with differences: *)
(*   preKey   - the payload is unpacked with a stored prekey,              *)
(*   captcha  - the answer is compared with the captcha of that prekey,    *)
(*   hookReads- with the hook set, memberships and organization are read,  *)
(*   keeps    - without it, the user row read in the inner block is the    *)
(*              one used after the block (":=" declares another variable), *)
(*   packs    - the answer is packed with the prekey after the session is  *)
(*              saved.                                                     *)
(***************************************************************************)
SelfLogin ==
  [preKey |-> TRUE,  captcha |-> FALSE, hookReads |-> TRUE,  keeps |-> FALSE, packs |-> TRUE]
SelfLoginV2 ==
  [preKey |-> FALSE, captcha |-> FALSE, hookReads |-> TRUE,  keeps |-> FALSE, packs |-> FALSE]
SelfLoginCaptcha ==
  [preKey |-> TRUE,  captcha |-> TRUE,  hookReads |-> FALSE, keeps |-> TRUE,  packs |-> TRUE]
SelfLoginCaptchaV2 ==
  [preKey |-> TRUE,  captcha |-> TRUE,  hookReads |-> FALSE, keeps |-> FALSE, packs |-> TRUE]
SelfLoginCaptchaV3 ==
  [preKey |-> TRUE,  captcha |-> TRUE,  hookReads |-> TRUE,  keeps |-> FALSE, packs |-> FALSE]

Handler ==
  [login |-> SelfLogin, loginV2 |-> SelfLoginV2, captcha |-> SelfLoginCaptcha,
   captchaV2 |-> SelfLoginCaptchaV2, captchaV3 |-> SelfLoginCaptchaV3]

ASSUME ConstantsAssumption ==
  /\ Maintainers \subseteq Users
  /\ Members \subseteq Users
  /\ Offered \subseteq DOMAIN Handler
  /\ None \notin Users

VARIABLES
  hasHook,  \* whether the application has set OnAuthenticateUser
  mode,     \* the system mode in GlobalStoreRedis
  preKey,   \* preKey[k]: what PreKeyRedis holds under k
  session,  \* session[l]: the user whose session login l saved, or None
  login,    \* login[l]: the local state of login request l
  visit     \* visit[v]: the local state of the request in slot v

vars == <<hasHook, mode, preKey, session, login, visit>>

Modes    == {"unset", "normal", "maintenance"}
Stored   == {"none", "plain", "captcha", "expired"}
Services == {"business", "setMaintenance", "setNormal"}
LoginSteps ==
  {"idle", "authenticate", "regenerate", "readMode", "save", "pack",
   "answered", "refused", "noUserId", "maintenance", "failed"}
VisitSteps == {"idle", "readMode", "serving"}

\* open (history): since the request began the system was out of maintenance at
\* some moment, or the mode could not be read when the request asked for it.
Login == [pc: LoginSteps, endpoint: DOMAIN Handler, user: Users, open: BOOLEAN]
Visit == [pc: VisitSteps, user: Users \cup {None}, service: Services, open: BOOLEAN]

NoVisit == [pc |-> "idle", user |-> None, service |-> "business", open |-> FALSE]
TypeOK ==
  /\ hasHook \in BOOLEAN
  /\ mode \in Modes
  /\ preKey \in [PreKeys -> Stored]
  /\ session \in [Logins -> Users \cup {None}]
  /\ login \in [Logins -> Login]
  /\ visit \in [Visits -> Visit]
  /\ \A v \in Visits: visit[v].pc # "idle" => visit[v].user \in Users

\* The endpoint and the user of a login that was not sent yet mean nothing.
Init ==
  /\ hasHook \in BOOLEAN
  /\ mode = "unset"
  /\ preKey = [k \in PreKeys |-> "none"]
  /\ session = [l \in Logins |-> None]
  /\ login \in [Logins -> [pc: {"idle"}, endpoint: Offered, user: Users, open: {FALSE}]]
  /\ visit = [v \in Visits |-> NoVisit]

----------------------------------------------------------------------------
(***************************************************************************)
(* Prelogin: a fresh key is stored under its own TTL.  The captcha variant *)
(* stores the captcha with it before it draws the image.                   *)
(***************************************************************************)
Store(k, what) ==
  /\ preKey[k] = "none"
  /\ preKey' = [preKey EXCEPT ![k] = what]
  /\ UNCHANGED <<hasHook, mode, session, login, visit>>

SelfPrelogin(k)        == Store(k, "plain")
SelfPreloginCaptcha(k) == Store(k, "captcha")

\* The TTL of a prekey or of a session runs out.
PreKeyExpires(k) ==
  /\ preKey[k] \in {"plain", "captcha"}
  /\ preKey' = [preKey EXCEPT ![k] = "expired"]
  /\ UNCHANGED <<hasHook, mode, session, login, visit>>

SessionExpires(l) ==
  /\ session[l] # None
  /\ session' = [session EXCEPT ![l] = None]
  /\ UNCHANGED <<hasHook, mode, preKey, login, visit>>

----------------------------------------------------------------------------
(***************************************************************************)
(* A login request.                                                        *)
(***************************************************************************)
GoTo(l, step) == login' = [login EXCEPT ![l].pc = step]

\* PreKeyUnpack: only a stored key unpacks the payload; it stays stored.
Unpacks(k)        == preKey[k] \in {"plain", "captcha"}
\* PreKeyUnpackCaptcha: a key without a captcha is an error as well.
UnpacksCaptcha(k) == preKey[k] = "captcha"

Accepts(h, k, answerIsRight) ==
  /\ h.preKey => Unpacks(k)
  /\ h.captcha => UnpacksCaptcha(k) /\ answerIsRight

\* The handler unpacks the payload and compares the captcha.
Begin(l) ==
  /\ login[l].pc = "idle"
  /\ \E k \in PreKeys, answerIsRight \in BOOLEAN:
       login' = [login EXCEPT
         ![l].open = mode # "maintenance",
         ![l].pc = IF Accepts(Handler[login[l].endpoint], k, answerIsRight)
                   THEN "authenticate" ELSE "refused"]
  /\ UNCHANGED <<hasHook, mode, preKey, session, visit>>

\* A membership is asked for except where the hook branch reads none.
NeedsMembership(h) == hasHook => h.hookReads

\* Whether the variable user holds a row after the two branches.
UserIsKept(h) == hasHook \/ h.keeps

\* The credentials are verified, a session key is generated, user["id"] is
\* read.
Authenticate(l) ==
  LET h == Handler[login[l].endpoint]
  IN /\ login[l].pc = "authenticate"
     /\ \E credentialsAreRight \in BOOLEAN:
          IF ~credentialsAreRight \/ (NeedsMembership(h) /\ login[l].user \notin Members)
          THEN GoTo(l, "refused")
          ELSE GoTo(l, IF UserIsKept(h) THEN "regenerate" ELSE "noUserId")
     /\ UNCHANGED <<hasHook, mode, preKey, session, visit>>

\* Faulty variant: a handler written without the block that follows.
RegenerateThenSave(l) ==
  /\ login[l].pc = "regenerate"
  /\ \E allowed \in BOOLEAN: GoTo(l, IF allowed THEN "save" ELSE "refused")
  /\ UNCHANGED <<hasHook, mode, preKey, session, visit>>

\* RegenerateSessionObject: the endpoint's privileges and the hook
\* OnCreateSessionObject may refuse.
Regenerate(l) ==
  /\ login[l].pc = "regenerate"
  /\ \E allowed \in BOOLEAN: GoTo(l, IF allowed THEN "readMode" ELSE "refused")
  /\ UNCHANGED <<hasHook, mode, preKey, session, visit>>

\* What SystemModeIsMaintenance and CheckMaintenanceMode can see: an error of
\* Redis is taken for the normal mode.
SeenModes == {mode = "maintenance", FALSE}
Misread(seen) == mode = "maintenance" /\ ~seen

LetsIn(seen, user) == seen => user \in Maintainers

\* Block the login of a user who may not set the mode.
CheckMode(l) ==
  /\ login[l].pc = "readMode"
  /\ \E seen \in SeenModes:
       login' = [login EXCEPT
         ![l].pc = IF LetsIn(seen, login[l].user) THEN "save" ELSE "maintenance",
         ![l].open = @ \/ Misread(seen)]
  /\ UNCHANGED <<hasHook, mode, preKey, session, visit>>

\* SessionRedis.Set, then the answer, packed in three of the handlers.
Save(l) ==
  /\ login[l].pc = "save"
  /\ session' = [session EXCEPT ![l] = login[l].user]
  /\ GoTo(l, IF Handler[login[l].endpoint].packs THEN "pack" ELSE "answered")
  /\ UNCHANGED <<hasHook, mode, preKey, visit>>

\* Packing may fail: the session stays though its key was never told.
Pack(l) ==
  /\ login[l].pc = "pack"
  /\ \E packed \in BOOLEAN: GoTo(l, IF packed THEN "answered" ELSE "failed")
  /\ UNCHANGED <<hasHook, mode, preKey, session, visit>>

\* A command to the database or to Redis fails: the handler returns the error.
Fail(l) ==
  /\ login[l].pc \in {"authenticate", "regenerate", "save"}
  /\ GoTo(l, "failed")
  /\ UNCHANGED <<hasHook, mode, preKey, session, visit>>

----------------------------------------------------------------------------
(***************************************************************************)
(* A request with a session: the middleware, then the endpoint's handler.  *)
(***************************************************************************)
\* The session is read; without one the request is refused and changes nothing.
Present(v) ==
  /\ visit[v].pc = "idle"
  /\ \E l \in Logins, service \in Services:
       /\ session[l] # None
       /\ visit' = [visit EXCEPT ![v] =
            [pc |-> "readMode", user |-> session[l], service |-> service,
             open |-> mode # "maintenance"]]
  /\ UNCHANGED <<hasHook, mode, preKey, session, login>>

\* CheckUserPrivilegeForEndPoint: the two endpoints that set the mode ask for
\* the maintenance privilege, business endpoints for any other or for none.
MayCall(service, user) == service # "business" => user \in Maintainers

\* Faulty variant: only the endpoint's own privileges are checked.
CheckPrivilegesOnly(v) ==
  /\ visit[v].pc = "readMode"
  /\ visit' = [visit EXCEPT ![v] =
       IF MayCall(@.service, @.user) THEN [@ EXCEPT !.pc = "serving"] ELSE NoVisit]
  /\ UNCHANGED <<hasHook, mode, preKey, session, login>>

\* The mode, then the privileges of the endpoint.
CheckMaintenanceMode(v) ==
  /\ visit[v].pc = "readMode"
  /\ \E seen \in SeenModes:
       visit' = [visit EXCEPT ![v] =
         IF LetsIn(seen, @.user) /\ MayCall(@.service, @.user)
         THEN [@ EXCEPT !.pc = "serving", !.open = visit[v].open \/ Misread(seen)]
         ELSE NoVisit]
  /\ UNCHANGED <<hasHook, mode, preKey, session, login>>

\* The handler of a business endpoint ends; so does one that sets the mode
\* when its Redis command fails.
Serve(v) ==
  /\ visit[v].pc = "serving"
  /\ visit' = [visit EXCEPT ![v] = NoVisit]
  /\ UNCHANGED <<hasHook, mode, preKey, session, login>>

SelfSystemSetModeToMaintenance(v) ==
  /\ visit[v].pc = "serving"
  /\ visit[v].service = "setMaintenance"
  /\ mode' = "maintenance"
  /\ visit' = [visit EXCEPT ![v] = NoVisit]
  /\ UNCHANGED <<hasHook, preKey, session, login>>

\* Every request under way now has a moment without maintenance.
SelfSystemSetModeToNormal(v) ==
  /\ visit[v].pc = "serving"
  /\ visit[v].service = "setNormal"
  /\ mode' = "normal"
  /\ visit' = [w \in Visits |->
       IF w = v \/ visit[w].pc = "idle" THEN NoVisit ELSE [visit[w] EXCEPT !.open = TRUE]]
  /\ login' = [l \in Logins |->
       IF login[l].pc = "idle" THEN login[l] ELSE [login[l] EXCEPT !.open = TRUE]]
  /\ UNCHANGED <<hasHook, preKey, session>>

Next ==
  \/ \E k \in PreKeys: SelfPrelogin(k) \/ SelfPreloginCaptcha(k) \/ PreKeyExpires(k)
  \/ \E l \in Logins:
       \/ Begin(l) \/ Authenticate(l) \/ Regenerate(l) \/ CheckMode(l)
       \/ Save(l) \/ Pack(l) \/ Fail(l) \/ SessionExpires(l)
  \/ \E v \in Visits:
       \/ Present(v) \/ CheckMaintenanceMode(v) \/ Serve(v)
       \/ SelfSystemSetModeToMaintenance(v) \/ SelfSystemSetModeToNormal(v)

Spec == Init /\ [][Next]_vars

----------------------------------------------------------------------------
(***************************************************************************)
(* Properties.                                                             *)
(***************************************************************************)
\* A login block that reads the mode in the middle of a chain of commands
\* still keeps its promise: a user who may not set the mode gets a session
\* only from a login during which the system was out of maintenance, or Redis
\* failed.
LoginsWaitForMaintenance ==
  \A l \in Logins:
    session[l] # None => session[l] \in Maintainers \/ login[l].open

\* The same for the handlers behind the middleware: sessions that are older
\* than the maintenance run nothing while it lasts, unless they belong to a
\* user who may set the mode.
VisitsWaitForMaintenance ==
  \A v \in Visits:
    visit[v].pc = "serving" => visit[v].user \in Maintainers \/ visit[v].open

\* A login whose credentials were accepted finds the id of its user:
\* "SHOULD_NOT_HAPPEN:USER_ID_NOT_FOUND_IN_USER" does not happen.
UserIdIsFound == \A l \in Logins: login[l].pc # "noUserId"
=============================================================================
