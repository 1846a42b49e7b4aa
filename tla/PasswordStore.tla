---------------------------- MODULE PasswordStore ----------------------------
(***************************************************************************)
(* The password rows of one user (module/user_management) and the three    *)
(* kinds of request that touch them: a login verifies a password outside   *)
(* any transaction and may rehash it, the owner changes it, and an         *)
(* administrator resets it.  Changes and resets lock the user's row.       *)
(*                                                                         *)
(* A stored hash is the password and the method it was hashed with:        *)
(* verifying a password looks at the first, rehashing at the second.       *)
(* Transactions are READ COMMITTED: what they write is there for others    *)
(* when they commit.                                                       *)
(***************************************************************************)
EXTENDS Naturals, Sequences

CONSTANTS
  Requests,      \* requests in flight at the same time
  Passwords,
  Methods,       \* CurrentPasswordHashMethod of the processes that serve them
  StoredMethod,  \* the method of the row there is at the start
  MaxRows,       \* bound on the rows of a behaviour
  Nothing

Operations == {"login", "change", "reset"}

ASSUME StoreAssumption == MaxRows \in Nat
ASSUME NothingAssumption == Nothing \notin Requests
ASSUME NothingIsNoOperation == Nothing \notin Operations

VARIABLES
  rows,        \* the user's password rows by id; the last is the one that counts
  mustChange,  \* must_change_password of the user's row
  lock,        \* the request that holds the user's row FOR UPDATE
  req,         \* the local state of each request
  latest,      \* history: the password of the last committed change or reset
  putBack      \* history: since then a login has rehashed an earlier password

storeVars == <<rows, mustChange, lock, req, latest, putBack>>

Hash == [password: Passwords, method: Methods \cup {StoredMethod}]
Request ==
  [pc: {"idle", "rehash", "lock", "verify", "commit"}, op: Operations \cup {Nothing},
   old: Passwords \cup {Nothing}, new: Passwords \cup {Nothing}, method: Methods \cup {Nothing},
   rehash: BOOLEAN]
Idle == [pc |-> "idle", op |-> Nothing, old |-> Nothing, new |-> Nothing, method |-> Nothing,
         rehash |-> FALSE]

StoreTypeOK ==
  /\ rows \in Seq(Hash) /\ rows # << >>
  /\ mustChange \in BOOLEAN
  /\ lock \in Requests \cup {Nothing}
  /\ req \in [Requests -> Request]
  /\ latest \in Passwords
  /\ putBack \in BOOLEAN

Newest == rows[Len(rows)]

StoreInit ==
  /\ \E p \in Passwords:
       /\ rows = <<[password |-> p, method |-> StoredMethod]>>
       /\ latest = p
  /\ mustChange = FALSE
  /\ lock = Nothing
  /\ req = [r \in Requests |-> Idle]
  /\ putBack = FALSE

Update(r, new) == req' = [req EXCEPT ![r] = new]
End(r) == Update(r, Idle)

\* UPDATE user_password SET value = ... WHERE user_id = ...: every row of the user.
Rehashed(p, m) == [i \in DOMAIN rows |-> [password |-> p, method |-> m]]

(***************************************************************************)
(* A login: UserPasswordVerify.                                            *)
(***************************************************************************)
\* SELECT of the newest row and the comparison; the answer of a login that does
\* not rehash changes nothing here.
UserPasswordVerify(r, p, m) ==
  /\ req[r].pc = "idle"
  /\ Newest.password = p /\ Newest.method # m
  /\ Update(r, [Idle EXCEPT !.pc = "rehash", !.op = "login", !.old = p, !.method = m])
  /\ UNCHANGED <<rows, mustChange, lock, latest, putBack>>

\* The UPDATE, in a transaction of its own; its error is only logged.
Rehash(r) ==
  /\ req[r].pc = "rehash"
  /\ rows' = Rehashed(req[r].old, req[r].method)
  /\ putBack' = (putBack \/ req[r].old # latest)
  /\ End(r)
  /\ UNCHANGED <<mustChange, lock, latest>>

(***************************************************************************)
(* SelfPasswordChange (and V2) and UserResetPassword: one transaction.     *)
(***************************************************************************)
BeginRequest(r, op, old, new, m) ==
  /\ req[r].pc = "idle"
  /\ op \in {"change", "reset"}
  /\ Update(r, [Idle EXCEPT !.pc = "lock", !.op = op, !.new = new, !.method = m,
                            !.old = IF op = "change" THEN old ELSE Nothing])
  /\ UNCHANGED <<rows, mustChange, lock, latest, putBack>>

\* Faulty variant: the row is read without FOR UPDATE.
ReadUserRow(r) ==
  /\ req[r].pc = "lock"
  /\ req' = [req EXCEPT ![r].pc = IF req[r].op = "change" THEN "verify" ELSE "commit"]
  /\ UNCHANGED <<rows, mustChange, lock, latest, putBack>>

\* SELECT ... FOR UPDATE of the user's row.
LockUserRow(r) ==
  /\ req[r].pc = "lock"
  /\ lock = Nothing
  /\ lock' = r
  /\ req' = [req EXCEPT ![r].pc = IF req[r].op = "change" THEN "verify" ELSE "commit"]
  /\ UNCHANGED <<rows, mustChange, latest, putBack>>

\* TxUserPasswordVerify, which rehashes in the transaction.  A wrong password
\* rolls it back (see Rollback).
TxUserPasswordVerify(r) ==
  /\ req[r].pc = "verify"
  /\ Newest.password = req[r].old
  /\ req' = [req EXCEPT ![r].pc = "commit", ![r].rehash = (Newest.method # req[r].method)]
  /\ UNCHANGED <<rows, mustChange, lock, latest, putBack>>

Unlock(r) == lock' = IF lock = r THEN Nothing ELSE lock

\* The row a commit adds.
NewRow(r) == [password |-> req[r].new, method |-> req[r].method]
BeforeNewRow(r) == IF req[r].rehash THEN Rehashed(req[r].old, req[r].method) ELSE rows
EndCommit(r) ==
  /\ latest' = req[r].new /\ putBack' = FALSE
  /\ Unlock(r) /\ End(r)

\* Faulty variant: the transaction rehashes after it has added the new row.
CommitRehashesLast(r) ==
  /\ req[r].pc = "commit"
  /\ Len(rows) < MaxRows
  /\ rows' = [Append(BeforeNewRow(r), NewRow(r)) EXCEPT ![Len(rows) + 1].password =
                IF req[r].rehash THEN req[r].old ELSE @]
  /\ mustChange' = (req[r].op = "reset")
  /\ EndCommit(r)

\* TxUserPasswordCreate, the update of must_change_password, and the commit,
\* which makes all writes of the transaction visible and releases the lock.
Commit(r) ==
  /\ req[r].pc = "commit"
  /\ Len(rows) < MaxRows
  /\ rows' = Append(BeforeNewRow(r), NewRow(r))
  /\ mustChange' = (req[r].op = "reset")
  /\ EndCommit(r)

\* A wrong password, an error of a statement or of the reset's hook, a crash.
Rollback(r) ==
  /\ req[r].pc # "idle"
  /\ Unlock(r) /\ End(r)
  /\ UNCHANGED <<rows, mustChange, latest, putBack>>

Step(r) ==
  \/ Rehash(r) \/ LockUserRow(r) \/ TxUserPasswordVerify(r) \/ Commit(r) \/ Rollback(r)

StoreNext ==
  \E r \in Requests:
    \/ Step(r)
    \/ \E m \in Methods: \E p \in Passwords:
         \/ UserPasswordVerify(r, p, m)
         \/ \E op \in {"change", "reset"}: \E q \in Passwords: BeginRequest(r, op, p, q, m)

StoreSpec == StoreInit /\ [][StoreNext]_storeVars

(***************************************************************************)
(* Properties.                                                             *)
(***************************************************************************)
\* "Lock user row with FOR UPDATE to prevent concurrent modifications"
\* (UserResetPassword): the password that verifies is the one of the change or
\* reset that committed last.
LatestPasswordCounts == Newest.password = latest

\* What is true of it: only a login can break it, one that found a password and was
\* overtaken by a change or reset before it wrote the rehash; and the next change
\* or reset mends it.
LatestCountsUnlessPutBack == putBack \/ LatestPasswordCounts

\* No lost change: a change commits only over the password its owner gave, with
\* every reset and change that committed before it taken into account; unless a
\* login has put back that password.
ChangeReplacesWhatItVerified ==
  [][\A r \in Requests:
       (Commit(r) /\ req[r].op = "change" /\ ~putBack) => req[r].old = latest]_storeVars

(***************************************************************************)
(* The strengthening of LatestCountsUnlessPutBack that is inductive.       *)
(***************************************************************************)
LockedWhileItWorks ==
  \A r \in Requests: req[r].pc \in {"verify", "commit"} => lock = r
ChangesAreVerified ==
  \A r \in Requests:
    (req[r].pc = "commit" /\ req[r].op = "change" /\ ~putBack) => req[r].old = latest
RequestsAreWellFormed ==
  \A r \in Requests:
    /\ req[r].pc \notin {"idle", "rehash"} =>
         req[r].op \in {"change", "reset"} /\ req[r].new \in Passwords
                                          /\ req[r].method \in Methods
    /\ req[r].pc = "rehash" =>
         req[r].op = "login" /\ req[r].old \in Passwords /\ req[r].method \in Methods
    /\ req[r].op = "change" => req[r].old \in Passwords
    /\ req[r].rehash => req[r].pc = "commit" /\ req[r].op = "change"
    /\ req[r].pc = "verify" => req[r].op = "change"

PasswordInv ==
  /\ StoreTypeOK
  /\ LatestCountsUnlessPutBack
  /\ LockedWhileItWorks
  /\ ChangesAreVerified
  /\ RequestsAreWellFormed
===============================================================================
