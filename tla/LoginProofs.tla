---------------------------- MODULE LoginProofs -----------------------------
(***************************************************************************)
(* Proofs about Login, for any number of logins and requests with a        *)
(* session, and about PasswordStore, for any number of requests,           *)
(* passwords, methods and rows.                                            *)
(***************************************************************************)
EXTENDS Login, PasswordStore, SequenceTheorems, TLAPS

(***************************************************************************)
(* Login: the maintenance gate holds for logins and for requests with a    *)
(* session.                                                                *)
(***************************************************************************)
\* A request for which the system was never out of maintenance sees that it is
\* in maintenance now.
LoginsSeeTheMode ==
  \A l \in Logins: login[l].pc # "idle" /\ ~login[l].open => mode = "maintenance"
VisitsSeeTheMode ==
  \A v \in Visits: visit[v].pc # "idle" /\ ~visit[v].open => mode = "maintenance"

\* What a login that passed the check, or saved its session, has shown.
LoginPassed ==
  \A l \in Logins:
    /\ login[l].pc = "save" => login[l].user \in Maintainers \/ login[l].open
    /\ session[l] # None =>
         /\ session[l] = login[l].user
         /\ login[l].pc # "idle"
         /\ login[l].user \in Maintainers \/ login[l].open

GateInv ==
  /\ TypeOK
  /\ LoginsSeeTheMode /\ VisitsSeeTheMode
  /\ LoginPassed /\ VisitsWaitForMaintenance

LEMMA InitGate == Init => GateInv
<1> SUFFICES ASSUME Init PROVE GateInv
  OBVIOUS
<1>1. login \in [Logins -> [pc: {"idle"}, endpoint: Offered, user: Users, open: {FALSE}]]
  BY DEF Init
<1>2. login \in [Logins -> Login] /\ \A l \in Logins: login[l].pc = "idle"
  BY <1>1, ConstantsAssumption DEF Login, LoginSteps
<1>3. NoVisit \in Visit
  BY DEF NoVisit, Visit, VisitSteps, Services
<1>4. TypeOK
  BY <1>2, <1>3 DEF Init, TypeOK, Modes, Stored, NoVisit
<1> QED
  BY <1>2, <1>4 DEF Init, GateInv, LoginsSeeTheMode, VisitsSeeTheMode, LoginPassed,
     VisitsWaitForMaintenance, NoVisit

\* Prekeys do not matter to the gate.
LEMMA PreKeyStep ==
  ASSUME GateInv, NEW k \in PreKeys,
         SelfPrelogin(k) \/ SelfPreloginCaptcha(k) \/ PreKeyExpires(k)
  PROVE  GateInv'
<1>1. UNCHANGED <<hasHook, mode, session, login, visit>> /\ preKey' \in [PreKeys -> Stored]
  BY DEF GateInv, TypeOK, Stored, SelfPrelogin, SelfPreloginCaptcha, Store, PreKeyExpires
<1> QED
  BY <1>1 DEF GateInv, TypeOK, LoginsSeeTheMode, VisitsSeeTheMode, LoginPassed,
     VisitsWaitForMaintenance

\* A step of a login that only moves it to a place other than "save".
LEMMA GoToStep ==
  ASSUME GateInv, NEW l \in Logins, NEW step \in LoginSteps \ {"save", "idle"},
         GoTo(l, step), login[l].pc # "idle", UNCHANGED <<hasHook, mode, preKey, session, visit>>
  PROVE  GateInv'
<1>1. /\ login'[l] = [login[l] EXCEPT !.pc = step]
      /\ \A m \in Logins \ {l}: login'[m] = login[m]
      /\ login[l] \in Login
  BY DEF GateInv, TypeOK, GoTo
<1>2. login' \in [Logins -> Login]
  BY <1>1 DEF GateInv, TypeOK, GoTo, Login
<1>3. \A m \in Logins: login'[m].user = login[m].user /\ (login'[m].open <=> login[m].open)
  BY <1>1 DEF Login
<1>4. \A m \in Logins: /\ login'[m].pc = "save" => login[m].pc = "save"
                       /\ login'[m].pc = "idle" <=> login[m].pc = "idle"
  BY <1>1 DEF Login
<1>5. TypeOK'
  BY <1>2 DEF GateInv, TypeOK
<1>6. LoginsSeeTheMode'
  BY <1>3, <1>4 DEF GateInv, LoginsSeeTheMode
<1>7. LoginPassed'
  BY <1>3, <1>4 DEF GateInv, LoginPassed
<1> QED
  BY <1>5, <1>6, <1>7 DEF GateInv, VisitsSeeTheMode, VisitsWaitForMaintenance

LEMMA BeginStep == ASSUME GateInv, NEW l \in Logins, Begin(l) PROVE GateInv'
<1>1. PICK step \in {"authenticate", "refused"}:
        login' = [login EXCEPT ![l].open = mode # "maintenance", ![l].pc = step]
  BY Zenon DEF Begin
<1>2. PICK now \in BOOLEAN: now <=> mode # "maintenance"
  OBVIOUS
<1>3. login' = [login EXCEPT ![l] = [@ EXCEPT !.open = now, !.pc = step]]
  BY <1>1, <1>2
<1>4. /\ \A m \in Logins \ {l}: login'[m] = login[m]
      /\ login[l] \in Login /\ login'[l].user = login[l].user
      /\ login'[l].pc = step /\ (login'[l].open <=> now)
  BY <1>3 DEF GateInv, TypeOK, Login
<1>5. login' \in [Logins -> Login]
  BY <1>3 DEF GateInv, TypeOK, Login, LoginSteps
<1>6. UNCHANGED <<hasHook, mode, preKey, session, visit>> /\ session[l] = None
  BY DEF Begin, GateInv, LoginPassed
<1>7. LoginsSeeTheMode'
  BY <1>2, <1>4, <1>6 DEF GateInv, LoginsSeeTheMode
<1>8. LoginPassed'
  BY <1>4, <1>6 DEF GateInv, LoginPassed
<1> QED
  BY <1>5, <1>6, <1>7, <1>8 DEF GateInv, TypeOK, VisitsSeeTheMode, VisitsWaitForMaintenance

\* The check reads the mode itself: who passes it in maintenance may set it, or met
\* an error of Redis.
LEMMA CheckModeStep == ASSUME GateInv, NEW l \in Logins, CheckMode(l) PROVE GateInv'
<1>1. PICK seen \in SeenModes:
        login' = [login EXCEPT
          ![l].pc = IF LetsIn(seen, login[l].user) THEN "save" ELSE "maintenance",
          ![l].open = @ \/ Misread(seen)]
  BY DEF CheckMode
<1>2. PICK step \in {"save", "maintenance"}: step = "save" <=> LetsIn(seen, login[l].user)
  OBVIOUS
<1>3. PICK now \in BOOLEAN: now <=> login[l].open \/ Misread(seen)
  OBVIOUS
<1>4. login' = [login EXCEPT ![l] = [login[l] EXCEPT !.pc = step, !.open = now]]
  <2>1. step = IF LetsIn(seen, login[l].user) THEN "save" ELSE "maintenance"
    BY <1>2
  <2>2. login[l].open \in BOOLEAN
    BY DEF GateInv, TypeOK, Login
  <2>3. now = (login[l].open \/ Misread(seen))
    BY <1>3, <2>2 DEF Misread
  <2> QED
    BY <1>1, <2>1, <2>3
<1>5. /\ login[l].pc = "readMode" /\ login[l] \in Login
      /\ UNCHANGED <<hasHook, mode, preKey, session, visit>>
  BY DEF CheckMode, GateInv, TypeOK
<1>6. step = "save" => login[l].user \in Maintainers \/ now
  <2>1. seen <=> mode = "maintenance" /\ ~Misread(seen)
    BY <1>1 DEF SeenModes, Misread
  <2> QED
    BY <1>2, <1>3, <1>5, <2>1 DEF LetsIn, GateInv, LoginsSeeTheMode
<1>7. /\ login'[l].pc = step /\ login'[l].user = login[l].user /\ (login'[l].open <=> now)
      /\ \A m \in Logins \ {l}: login'[m] = login[m]
      /\ login' \in [Logins -> Login]
  BY <1>4, <1>5 DEF GateInv, TypeOK, Login, LoginSteps
<1>8. LoginsSeeTheMode'
  BY <1>3, <1>5, <1>7 DEF GateInv, LoginsSeeTheMode
<1>9. LoginPassed'
  BY <1>3, <1>5, <1>6, <1>7 DEF GateInv, LoginPassed
<1> QED
  BY <1>5, <1>7, <1>8, <1>9 DEF GateInv, TypeOK, VisitsSeeTheMode, VisitsWaitForMaintenance

LEMMA SaveStep == ASSUME GateInv, NEW l \in Logins, Save(l) PROVE GateInv'
<1>1. PICK step \in {"pack", "answered"}: GoTo(l, step)
  BY DEF Save
<1>2. /\ login[l].pc = "save" /\ login[l] \in Login
      /\ session' = [session EXCEPT ![l] = login[l].user]
      /\ UNCHANGED <<hasHook, mode, preKey, visit>>
  BY DEF Save, GateInv, TypeOK
<1>3. /\ login'[l] = [login[l] EXCEPT !.pc = step]
      /\ \A m \in Logins \ {l}: login'[m] = login[m]
      /\ login' \in [Logins -> Login]
  BY <1>1 DEF GoTo, GateInv, TypeOK, Login, LoginSteps
<1>4. \A m \in Logins: /\ login'[m].user = login[m].user
                       /\ login'[m].open <=> login[m].open
                       /\ login'[m].pc = "idle" <=> login[m].pc = "idle"
                       /\ login'[m].pc = "save" => login[m].pc = "save"
  BY <1>1, <1>2, <1>3 DEF GateInv, TypeOK, Login
<1>5. /\ \A m \in Logins: session'[m] # None => session[m] # None \/ m = l
      /\ session'[l] = login[l].user /\ \A m \in Logins \ {l}: session'[m] = session[m]
      /\ session' \in [Logins -> Users \cup {None}]
  BY <1>2 DEF GateInv, TypeOK, Login
<1>6. LoginPassed'
  BY <1>2, <1>4, <1>5 DEF GateInv, LoginPassed
<1>7. LoginsSeeTheMode'
  BY <1>2, <1>4 DEF GateInv, LoginsSeeTheMode
<1> QED
  BY <1>2, <1>3, <1>5, <1>6, <1>7 DEF GateInv, TypeOK, VisitsSeeTheMode, VisitsWaitForMaintenance

LEMMA SessionExpiresStep == ASSUME GateInv, NEW l \in Logins, SessionExpires(l) PROVE GateInv'
<1>1. /\ \A m \in Logins: session'[m] # None => session'[m] = session[m]
      /\ session' \in [Logins -> Users \cup {None}]
      /\ UNCHANGED <<hasHook, mode, preKey, login, visit>>
  BY DEF SessionExpires, GateInv, TypeOK
<1> QED
  BY <1>1 DEF GateInv, TypeOK, LoginsSeeTheMode, VisitsSeeTheMode, LoginPassed,
     VisitsWaitForMaintenance

LEMMA LoginStep ==
  ASSUME GateInv, NEW l \in Logins,
         Authenticate(l) \/ Regenerate(l) \/ Pack(l) \/ Fail(l)
  PROVE  GateInv'
<1>1. login[l].pc # "idle" /\ UNCHANGED <<hasHook, mode, preKey, session, visit>>
  BY DEF Authenticate, Regenerate, Pack, Fail
<1>2. \E step \in LoginSteps \ {"save", "idle"}: GoTo(l, step)
  <2>1. CASE Authenticate(l)
    BY <2>1, Zenon DEF Authenticate, LoginSteps
  <2>2. CASE Regenerate(l)
    BY <2>2, Zenon DEF Regenerate, LoginSteps
  <2>3. CASE Pack(l)
    BY <2>3, Zenon DEF Pack, LoginSteps
  <2>4. CASE Fail(l)
    BY <2>4, Zenon DEF Fail, LoginSteps
  <2> QED
    BY <2>1, <2>2, <2>3, <2>4
<1> QED
  BY <1>1, <1>2, GoToStep

\* A visit that ends, or whose slot is taken by a new one.
LEMMA VisitStep ==
  ASSUME GateInv, NEW v \in Visits,
         Present(v) \/ CheckMaintenanceMode(v) \/ Serve(v)
  PROVE  GateInv'
<1>1. UNCHANGED <<hasHook, mode, preKey, session, login>>
  BY DEF Present, CheckMaintenanceMode, Serve
<1>2. PICK new \in Visit:
        /\ visit' = [visit EXCEPT ![v] = new]
        /\ new.pc # "idle" => new.user \in Users
        /\ new.pc # "idle" /\ ~new.open => mode = "maintenance"
        /\ new.pc = "serving" => new.user \in Maintainers \/ new.open
  <2>0. NoVisit \in Visit /\ NoVisit.pc = "idle" /\ visit[v] \in Visit
    BY DEF NoVisit, Visit, VisitSteps, Services, GateInv, TypeOK
  <2>1. CASE Present(v)
    <3>1. PICK l \in Logins, service \in Services:
            /\ session[l] # None
            /\ visit' = [visit EXCEPT ![v] =
                 [pc |-> "readMode", user |-> session[l], service |-> service,
                  open |-> mode # "maintenance"]]
      BY <2>1 DEF Present
    <3>2. PICK now \in BOOLEAN: now <=> mode # "maintenance"
      OBVIOUS
    <3>3. session[l] \in Users
      BY <3>1 DEF GateInv, TypeOK
    <3> DEFINE new == [pc |-> "readMode", user |-> session[l], service |-> service,
                       open |-> now]
    <3>4. new \in Visit
      BY <3>3 DEF Visit, VisitSteps
    <3>5. visit' = [visit EXCEPT ![v] = new]
      BY <3>1, <3>2
    <3> QED
      BY <3>2, <3>3, <3>4, <3>5
  <2>2. CASE CheckMaintenanceMode(v)
    <3>1. PICK seen \in SeenModes:
            visit' = [visit EXCEPT ![v] =
              IF LetsIn(seen, visit[v].user) /\ MayCall(visit[v].service, visit[v].user)
              THEN [visit[v] EXCEPT !.pc = "serving", !.open = visit[v].open \/ Misread(seen)]
              ELSE NoVisit]
      BY <2>2 DEF CheckMaintenanceMode
    <3>2. PICK now \in BOOLEAN: now <=> visit[v].open \/ Misread(seen)
      OBVIOUS
    <3>3. CASE ~(LetsIn(seen, visit[v].user) /\ MayCall(visit[v].service, visit[v].user))
      BY <2>0, <3>1, <3>3
    <3>4. CASE LetsIn(seen, visit[v].user) /\ MayCall(visit[v].service, visit[v].user)
      <4> DEFINE new == [visit[v] EXCEPT !.pc = "serving", !.open = now]
      <4>1. /\ new \in Visit /\ new.pc = "serving" /\ new.user = visit[v].user
            /\ new.open <=> now
        BY <2>0 DEF Visit, VisitSteps
      <4>2. visit[v].user \in Users /\ (~visit[v].open => mode = "maintenance")
        BY <2>2 DEF CheckMaintenanceMode, GateInv, TypeOK, VisitsSeeTheMode
      <4>3. seen <=> mode = "maintenance" /\ ~Misread(seen)
        BY <3>1 DEF SeenModes, Misread
      <4>4. visit[v].user \in Maintainers \/ now
        BY <3>2, <3>4, <4>2, <4>3 DEF LetsIn
      <4>5. now = (visit[v].open \/ Misread(seen))
        BY <2>0, <3>2 DEF Visit, Misread
      <4>6. visit' = [visit EXCEPT ![v] = new]
        BY <3>1, <3>4, <4>5
      <4> QED
        BY <3>2, <4>1, <4>2, <4>4, <4>6
    <3> QED
      BY <3>3, <3>4
  <2>3. CASE Serve(v)
    BY <2>0, <2>3 DEF Serve
  <2> QED
    BY <2>1, <2>2, <2>3
<1>3. visit'[v] = new /\ \A w \in Visits \ {v}: visit'[w] = visit[w]
  BY <1>2 DEF GateInv, TypeOK
<1>4. TypeOK'
  BY <1>1, <1>2, <1>3 DEF GateInv, TypeOK
<1>5. VisitsSeeTheMode' /\ VisitsWaitForMaintenance'
  BY <1>1, <1>2, <1>3 DEF GateInv, VisitsSeeTheMode, VisitsWaitForMaintenance
<1> QED
  BY <1>1, <1>4, <1>5 DEF GateInv, LoginsSeeTheMode, LoginPassed

LEMMA SetMaintenanceStep ==
  ASSUME GateInv, NEW v \in Visits, SelfSystemSetModeToMaintenance(v) PROVE GateInv'
<1>1. /\ mode' = "maintenance" /\ UNCHANGED <<hasHook, preKey, session, login>>
      /\ visit' = [visit EXCEPT ![v] = NoVisit]
  BY DEF SelfSystemSetModeToMaintenance
<1>2. NoVisit \in Visit /\ NoVisit.pc = "idle"
  BY DEF NoVisit, Visit, VisitSteps, Services
<1>3. visit'[v] = NoVisit /\ \A w \in Visits \ {v}: visit'[w] = visit[w]
  BY <1>1 DEF GateInv, TypeOK
<1>4. TypeOK'
  BY <1>1, <1>2, <1>3 DEF GateInv, TypeOK, Modes
<1>5. VisitsWaitForMaintenance'
  BY <1>2, <1>3 DEF GateInv, VisitsWaitForMaintenance
<1> QED
  BY <1>1, <1>4, <1>5 DEF GateInv, LoginsSeeTheMode, VisitsSeeTheMode, LoginPassed

LEMMA SetNormalStep ==
  ASSUME GateInv, NEW v \in Visits, SelfSystemSetModeToNormal(v) PROVE GateInv'
<1>1. mode' = "normal" /\ UNCHANGED <<hasHook, preKey, session>>
  BY DEF SelfSystemSetModeToNormal
<1>2. /\ login' \in [Logins -> Login]
      /\ \A l \in Logins: /\ login'[l].pc = login[l].pc
                          /\ login'[l].user = login[l].user
                          /\ login'[l].pc # "idle" => login'[l].open
  <2>1. \A l \in Logins: login'[l] = IF login[l].pc = "idle" THEN login[l]
                                     ELSE [login[l] EXCEPT !.open = TRUE]
    BY DEF SelfSystemSetModeToNormal
  <2>2. \A l \in Logins: /\ login'[l] \in Login
                         /\ login'[l].pc = login[l].pc
                         /\ login'[l].user = login[l].user
                         /\ login'[l].pc # "idle" => login'[l].open
    BY <2>1 DEF GateInv, TypeOK, Login
  <2> QED
    BY <2>2 DEF SelfSystemSetModeToNormal
<1>3. /\ visit' \in [Visits -> Visit]
      /\ \A w \in Visits: /\ visit'[w].pc # "idle" => visit'[w].user \in Users
                          /\ visit'[w].pc # "idle" => visit'[w].open
  <2>1. \A w \in Visits: visit'[w] = IF w = v \/ visit[w].pc = "idle" THEN NoVisit
                                     ELSE [visit[w] EXCEPT !.open = TRUE]
    BY DEF SelfSystemSetModeToNormal
  <2>2. NoVisit \in Visit /\ NoVisit.pc = "idle"
    BY DEF NoVisit, Visit, VisitSteps, Services
  <2>3. \A w \in Visits: /\ visit'[w] \in Visit
                         /\ visit'[w].pc # "idle" => visit'[w].user \in Users
                         /\ visit'[w].pc # "idle" => visit'[w].open
    <3> SUFFICES ASSUME NEW w \in Visits
                 PROVE  /\ visit'[w] \in Visit
                        /\ visit'[w].pc # "idle" => visit'[w].user \in Users
                        /\ visit'[w].pc # "idle" => visit'[w].open
      OBVIOUS
    <3>1. visit[w] \in Visit /\ (visit[w].pc # "idle" => visit[w].user \in Users)
      BY DEF GateInv, TypeOK
    <3>2. CASE w = v \/ visit[w].pc = "idle"
      BY <2>1, <2>2, <3>2
    <3>3. CASE ~(w = v \/ visit[w].pc = "idle")
      BY <2>1, <3>1, <3>3 DEF Visit
    <3> QED
      BY <3>2, <3>3
  <2> QED
    BY <2>3 DEF SelfSystemSetModeToNormal
<1>4. TypeOK'
  BY <1>1, <1>2, <1>3 DEF GateInv, TypeOK, Modes
<1>5. LoginsSeeTheMode' /\ VisitsSeeTheMode'
  BY <1>2, <1>3 DEF LoginsSeeTheMode, VisitsSeeTheMode
<1>6. LoginPassed'
  BY <1>1, <1>2 DEF GateInv, LoginPassed
<1>7. VisitsWaitForMaintenance'
  BY <1>3 DEF VisitsWaitForMaintenance
<1> QED
  BY <1>4, <1>5, <1>6, <1>7 DEF GateInv

LEMMA GateStep == ASSUME GateInv, [Next]_vars PROVE GateInv'
<1>1. CASE UNCHANGED vars
  BY <1>1 DEF vars, GateInv, TypeOK, LoginsSeeTheMode, VisitsSeeTheMode, LoginPassed,
     VisitsWaitForMaintenance
<1> QED
  BY <1>1, PreKeyStep, BeginStep, CheckModeStep, SaveStep, SessionExpiresStep, LoginStep,
     VisitStep, SetMaintenanceStep, SetNormalStep DEF Next

\* No login that ran in maintenance from its first step on, and could read the mode,
\* leaves a session to a user who may not set the mode.
THEOREM LoginsAreGated == Spec => []LoginsWaitForMaintenance
<1>1. GateInv /\ [Next]_vars => GateInv'
  BY GateStep
<1>2. GateInv => LoginsWaitForMaintenance
  BY DEF GateInv, LoginPassed, LoginsWaitForMaintenance
<1> QED
  BY <1>1, <1>2, InitGate, PTL DEF Spec

\* Nor does a handler behind the middleware run for such a user.
THEOREM VisitsAreGated == Spec => []VisitsWaitForMaintenance
<1>1. GateInv /\ [Next]_vars => GateInv'
  BY GateStep
<1>2. GateInv => VisitsWaitForMaintenance
  BY DEF GateInv
<1> QED
  BY <1>1, <1>2, InitGate, PTL DEF Spec

\* Sessions, logins and visits keep their types.
THEOREM TypeCorrect == Spec => []TypeOK
<1>1. GateInv => TypeOK
  BY DEF GateInv
<1> QED
  BY <1>1, GateStep, InitGate, PTL DEF Spec

(***************************************************************************)
(* PasswordStore.                                                          *)
(***************************************************************************)
LEMMA InitEstablishes == StoreInit => PasswordInv
<1> SUFFICES ASSUME StoreInit PROVE PasswordInv
  OBVIOUS
<1>1. PICK p \in Passwords:
        rows = <<[password |-> p, method |-> StoredMethod]>> /\ latest = p
  BY DEF StoreInit
<1>2. rows \in Seq(Hash) /\ rows # << >> /\ Newest.password = latest
  BY <1>1 DEF Hash, Newest
<1>3. Idle \in Request /\ req = [r \in Requests |-> Idle]
  BY DEF StoreInit, Request, Idle
<1>4. StoreTypeOK
  BY <1>1, <1>2, <1>3 DEF StoreInit, StoreTypeOK
<1>5. \A r \in Requests: req[r].pc = "idle" /\ req[r].op = Nothing /\ ~req[r].rehash
  BY <1>3 DEF Idle
<1>6. \A r \in Requests: req[r].op = "change" => req[r].old \in Passwords
  BY <1>3, NothingIsNoOperation DEF Idle, Operations
<1> QED
  BY <1>2, <1>4, <1>5, <1>6 DEF PasswordInv, LatestCountsUnlessPutBack, LatestPasswordCounts,
     LockedWhileItWorks, ChangesAreVerified, RequestsAreWellFormed

\* What a rehash writes: as many hashes, each of the rehashed password.
LEMMA RehashedRows ==
  ASSUME StoreTypeOK, NEW p \in Passwords, NEW m \in Methods
  PROVE  /\ Rehashed(p, m) \in Seq(Hash) /\ Len(Rehashed(p, m)) = Len(rows)
         /\ Rehashed(p, m)[Len(rows)].password = p
<1>1. DOMAIN rows = 1 .. Len(rows) /\ Len(rows) \in Nat /\ Len(rows) \in DOMAIN rows
      /\ \A i \in DOMAIN rows: rows[i] \in Hash
  BY DEF StoreTypeOK
<1>2. \A i \in DOMAIN rows:
        [password |-> p, method |-> m] \in Hash /\ [password |-> p, method |-> m].password = p
  BY <1>1 DEF Hash
<1>3. Rehashed(p, m) \in [1 .. Len(rows) -> Hash]
  BY <1>1, <1>2 DEF Rehashed
<1>4. Rehashed(p, m) \in Seq(Hash)
  BY <1>1, <1>3, SeqDef
<1>5. Len(Rehashed(p, m)) = Len(rows)
  BY <1>1, <1>3, <1>4, LenProperties
<1> QED
  BY <1>1, <1>2, <1>4, <1>5 DEF Rehashed, Newest

\* What a commit writes: a sequence of hashes, one longer, that ends in the new one.
LEMMA CommittedRows ==
  ASSUME PasswordInv, NEW r \in Requests, Commit(r)
  PROVE  /\ rows' \in Seq(Hash) /\ rows' # << >>
         /\ Newest'.password = req[r].new
<1>1. /\ req[r].new \in Passwords /\ req[r].method \in Methods
      /\ req[r].rehash => req[r].old \in Passwords
  BY DEF PasswordInv, StoreTypeOK, RequestsAreWellFormed, Commit
<1>2. NewRow(r) \in Hash /\ NewRow(r).password = req[r].new
  BY <1>1 DEF NewRow, Hash
<1>3. rows \in Seq(Hash)
  BY DEF PasswordInv, StoreTypeOK
<1>4. BeforeNewRow(r) \in Seq(Hash)
  BY <1>1, <1>3, RehashedRows DEF BeforeNewRow, PasswordInv
<1>5. rows' = Append(BeforeNewRow(r), NewRow(r))
  BY DEF Commit
<1>6. /\ rows' \in Seq(Hash) /\ rows' # << >>
      /\ Len(rows') = Len(BeforeNewRow(r)) + 1
      /\ rows'[Len(BeforeNewRow(r)) + 1] = NewRow(r)
  BY <1>2, <1>4, <1>5, AppendProperties
<1> QED
  BY <1>2, <1>6 DEF Newest

LEMMA StepPreserves == ASSUME PasswordInv, [StoreNext]_storeVars PROVE PasswordInv'
<1> USE DEF PasswordInv, StoreTypeOK, LatestCountsUnlessPutBack, LatestPasswordCounts,
            LockedWhileItWorks, ChangesAreVerified, RequestsAreWellFormed
<1>0. Idle \in Request /\ Idle.pc = "idle" /\ Idle.op = Nothing /\ Idle.rehash = FALSE
  BY DEF Idle, Request
<1>1. ASSUME NEW r \in Requests, Rehash(r) PROVE PasswordInv'
  <2>1. /\ req[r].old \in Passwords /\ req[r].method \in Methods
        /\ req' = [req EXCEPT ![r] = Idle] /\ UNCHANGED <<mustChange, lock, latest>>
        /\ rows' = Rehashed(req[r].old, req[r].method) /\ req[r].pc = "rehash"
    BY <1>1 DEF Rehash, End, Update
  <2>2. PICK b \in BOOLEAN: (b <=> putBack \/ req[r].old # latest) /\ putBack' = b
    BY <1>1 DEF Rehash
  <2>3. rows' \in Seq(Hash) /\ Len(rows') = Len(rows)
        /\ Newest'.password = req[r].old
    BY <2>1, RehashedRows DEF Newest
  <2>4. rows' # << >>
    BY <2>3
  <2>5. LatestCountsUnlessPutBack'
    BY <2>1, <2>2, <2>3
  <2>6. StoreTypeOK' /\ LockedWhileItWorks' /\ RequestsAreWellFormed'
    BY <2>1, <2>2, <2>3, <2>4, <1>0, NothingIsNoOperation DEF Operations
  <2>7. ChangesAreVerified'
    BY <2>1, <2>2, <1>0
  <2> QED
    BY <2>5, <2>6, <2>7
<1>2. ASSUME NEW r \in Requests, LockUserRow(r) PROVE PasswordInv'
  BY <1>2, NothingAssumption DEF LockUserRow, Request, Newest
<1>3. ASSUME NEW r \in Requests, TxUserPasswordVerify(r) PROVE PasswordInv'
  <2>1. PICK b \in BOOLEAN: b = (Newest.method # req[r].method)
    OBVIOUS
  <2>2. req' = [req EXCEPT ![r].pc = "commit", ![r].rehash = b]
    BY <1>3, <2>1 DEF TxUserPasswordVerify
  <2>3. /\ req[r].pc = "verify" /\ Newest.password = req[r].old
        /\ UNCHANGED <<rows, mustChange, lock, latest, putBack>>
    BY <1>3 DEF TxUserPasswordVerify
  <2>4. req' \in [Requests -> Request]
    <3>1. PICK new: new = [req[r] EXCEPT !.pc = "commit", !.rehash = b]
      OBVIOUS
    <3>2. req[r] \in Request
      OBVIOUS
    <3>3. new \in Request
      BY <3>1, <3>2 DEF Request
    <3>4. req' = [req EXCEPT ![r] = new]
      BY <2>2, <3>1
    <3> QED
      BY <3>3, <3>4
  <2>5. /\ req'[r].pc = "commit" /\ req'[r].op = req[r].op /\ req'[r].old = req[r].old
        /\ req'[r].new = req[r].new /\ req'[r].method = req[r].method
        /\ \A s \in Requests \ {r}: req'[s] = req[s]
    BY <2>2 DEF Request
  <2> QED
    BY <2>3, <2>4, <2>5 DEF Newest
<1>4. ASSUME NEW r \in Requests, Commit(r) PROVE PasswordInv'
  <2>1. rows' \in Seq(Hash) /\ rows' # << >> /\ Newest'.password = req[r].new
    BY <1>4, CommittedRows
  <2>2. lock = r /\ lock' = Nothing /\ req' = [req EXCEPT ![r] = Idle]
        /\ latest' = req[r].new /\ putBack' = FALSE /\ req[r].new \in Passwords
        /\ mustChange' = (req[r].op = "reset")
    BY <1>4 DEF Commit, EndCommit, Unlock, End, Update
  <2>3. \A s \in Requests \ {r}: req'[s] = req[s] /\ req[s].pc \notin {"verify", "commit"}
    BY <2>2
  <2>4. StoreTypeOK' /\ LatestCountsUnlessPutBack'
    BY <2>1, <2>2, <1>0
  <2>5. RequestsAreWellFormed'
    BY <2>2, <2>3, <1>0, NothingIsNoOperation DEF Operations
  <2> QED
    BY <2>2, <2>3, <2>4, <2>5, <1>0
<1>5. ASSUME NEW r \in Requests, Rollback(r) PROVE PasswordInv'
  <2>1. req' = [req EXCEPT ![r] = Idle] /\ UNCHANGED <<rows, mustChange, latest, putBack>>
        /\ lock' = IF lock = r THEN Nothing ELSE lock
    BY <1>5 DEF Rollback, Unlock, End, Update
  <2> QED
    BY <2>1, <1>0, NothingIsNoOperation DEF Newest, Operations
<1>6. ASSUME NEW r \in Requests, NEW m \in Methods, NEW p \in Passwords,
             UserPasswordVerify(r, p, m)
      PROVE  PasswordInv'
  <2> DEFINE new == [Idle EXCEPT !.pc = "rehash", !.op = "login", !.old = p, !.method = m]
  <2>1. /\ new \in Request /\ new.pc = "rehash" /\ new.op = "login" /\ new.old = p
        /\ new.method = m /\ new.rehash = FALSE
    BY DEF Idle, Request, Operations
  <2>2. /\ req' = [req EXCEPT ![r] = new]
        /\ UNCHANGED <<rows, mustChange, lock, latest, putBack>>
    BY <1>6 DEF UserPasswordVerify, Update
  <2> HIDE DEF new
  <2> QED
    BY <2>1, <2>2 DEF Newest
<1>7. ASSUME NEW r \in Requests, NEW m \in Methods, NEW p \in Passwords,
             NEW op \in {"change", "reset"}, NEW q \in Passwords, BeginRequest(r, op, p, q, m)
      PROVE  PasswordInv'
  <2> DEFINE new == [Idle EXCEPT !.pc = "lock", !.op = op, !.new = q, !.method = m,
                                 !.old = IF op = "change" THEN p ELSE Nothing]
  <2>1. /\ new \in Request /\ new.pc = "lock" /\ new.op = op /\ new.new = q
        /\ new.method = m /\ new.rehash = FALSE /\ (op = "change" => new.old = p)
    BY DEF Idle, Request, Operations
  <2>2. /\ req' = [req EXCEPT ![r] = new] /\ op \in {"change", "reset"}
        /\ UNCHANGED <<rows, mustChange, lock, latest, putBack>>
    BY <1>7 DEF BeginRequest, Update
  <2> HIDE DEF new
  <2> QED
    BY <2>1, <2>2 DEF Newest
<1>8. CASE UNCHANGED storeVars
  BY <1>8 DEF storeVars, Newest
<1> QED
  BY <1>1, <1>2, <1>3, <1>4, <1>5, <1>6, <1>7, <1>8 DEF StoreNext, Step

\* The password that verifies is the one of the change or reset that committed
\* last, unless a login has put back an earlier one: the row lock orders the others.
THEOREM LatestCounts == StoreSpec => []LatestCountsUnlessPutBack
<1>1. PasswordInv /\ [StoreNext]_storeVars => PasswordInv'
  BY StepPreserves
<1>2. PasswordInv => LatestCountsUnlessPutBack
  BY DEF PasswordInv
<1> QED
  BY <1>1, <1>2, InitEstablishes, PTL DEF StoreSpec

\* A change only commits over the password its owner gave, or over one that a login
\* has put back: none is lost to a concurrent change or reset.
THEOREM NoChangeIsLost == StoreSpec => ChangeReplacesWhatItVerified
<1>1. PasswordInv /\ [StoreNext]_storeVars => PasswordInv'
  BY StepPreserves
<1>2. PasswordInv /\ [StoreNext]_storeVars =>
        [\A r \in Requests:
           (Commit(r) /\ req[r].op = "change" /\ ~putBack) => req[r].old = latest]_storeVars
  <2> SUFFICES ASSUME PasswordInv, NEW r \in Requests, Commit(r), req[r].op = "change", ~putBack
               PROVE  req[r].old = latest
    OBVIOUS
  <2> QED
    BY DEF PasswordInv, ChangesAreVerified, Commit
<1> QED
  BY <1>1, <1>2, InitEstablishes, PTL DEF StoreSpec, ChangeReplacesWhatItVerified

\* Rows, requests and locks keep their types.
THEOREM StoreTypeCorrect == StoreSpec => []StoreTypeOK
<1>1. PasswordInv => StoreTypeOK
  BY DEF PasswordInv
<1> QED
  BY <1>1, StepPreserves, InitEstablishes, PTL DEF StoreSpec

\* All processes hash with the method of the stored row, as they do but for the time
\* in which a release changes CurrentPasswordHashMethod.
OnlyStoredMethod == Methods \subseteq {StoredMethod}

\* Then no login rehashes.
LEMMA NoRehashStep ==
  ASSUME OnlyStoredMethod, PasswordInv, ~putBack, \A r \in Requests: req[r].pc # "rehash",
         [StoreNext]_storeVars
  PROVE  putBack' = FALSE /\ \A r \in Requests: req'[r].pc # "rehash"
<1>1. ASSUME NEW r \in Requests, NEW m \in Methods, NEW p \in Passwords
      PROVE  ~UserPasswordVerify(r, p, m)
  <2>1. Len(rows) \in DOMAIN rows /\ Newest \in Hash
    BY DEF PasswordInv, StoreTypeOK, Newest
  <2> QED
    BY <2>1 DEF OnlyStoredMethod, Hash, UserPasswordVerify
<1>2. req \in [Requests -> Request] /\ putBack = FALSE
  BY DEF PasswordInv, StoreTypeOK
<1>3. Idle.pc = "idle"
  BY DEF Idle
<1>4. ASSUME NEW r \in Requests, NEW m \in Methods, NEW p \in Passwords,
             NEW op \in {"change", "reset"}, NEW q \in Passwords, BeginRequest(r, op, p, q, m)
      PROVE  putBack' = FALSE /\ \A s \in Requests: req'[s].pc # "rehash"
  <2> DEFINE new == [Idle EXCEPT !.pc = "lock", !.op = op, !.new = q, !.method = m,
                                 !.old = IF op = "change" THEN p ELSE Nothing]
  <2>1. new.pc = "lock"
    BY DEF Idle
  <2>2. req' = [req EXCEPT ![r] = new] /\ UNCHANGED putBack
    BY <1>4 DEF BeginRequest, Update
  <2> HIDE DEF new
  <2> QED
    BY <1>2, <2>1, <2>2
<1>5. ASSUME NEW r \in Requests, Step(r)
      PROVE  putBack' = FALSE /\ \A s \in Requests: req'[s].pc # "rehash"
  <2>1. CASE Commit(r) \/ Rollback(r)
    BY <1>2, <1>3, <2>1 DEF Commit, EndCommit, Rollback, End, Update
  <2>2. CASE LockUserRow(r)
    BY <1>2, <2>2 DEF LockUserRow, Request
  <2>3. CASE TxUserPasswordVerify(r)
    <3>1. PICK new: new = [req[r] EXCEPT !.pc = "commit",
                                         !.rehash = (Newest.method # req[r].method)]
      OBVIOUS
    <3>2. new.pc = "commit"
      BY <1>2, <3>1 DEF Request
    <3>3. req' = [req EXCEPT ![r] = new] /\ UNCHANGED putBack
      BY <2>3, <3>1 DEF TxUserPasswordVerify
    <3> QED
      BY <1>2, <3>2, <3>3
  <2> QED
    BY <1>5, <2>1, <2>2, <2>3 DEF Step, Rehash
<1> QED
  BY <1>1, <1>2, <1>4, <1>5 DEF StoreNext, storeVars

\* "Lock user row with FOR UPDATE to prevent concurrent modifications"
\* (UserResetPassword) is enough as long as the hash method does not change: however
\* logins, changes and resets overlap, the password that verifies is the one of the
\* change or reset that committed last.
THEOREM OneMethodKeepsTheLatest == OnlyStoredMethod => (StoreSpec => []LatestPasswordCounts)
<1> SUFFICES ASSUME OnlyStoredMethod PROVE StoreSpec => []LatestPasswordCounts
  OBVIOUS
<1> DEFINE Inv == PasswordInv /\ ~putBack /\ \A r \in Requests: req[r].pc # "rehash"
<1>1. StoreInit => Inv
  BY InitEstablishes DEF StoreInit, Idle
<1>2. Inv /\ [StoreNext]_storeVars => Inv'
  BY NoRehashStep, StepPreserves
<1>3. Inv => LatestPasswordCounts
  BY DEF PasswordInv, LatestCountsUnlessPutBack
<1> QED
  BY <1>1, <1>2, <1>3, PTL DEF StoreSpec
=============================================================================
