------------------------------- MODULE FcmOutbox -------------------------------
(***************************************************************************)
(* The outbox of module/push_notification for one FCM application: rows    *)
(* of fcm_message (kind "user") and fcm_topic_message (kind "topic") that  *)
(* requests insert and dispatchers (Execute) send, retry and settle, and   *)
(* the registrations of fcm_user_token.                                    *)
(*                                                                         *)
(* A dispatcher works on a snapshot of the rows it selected; nothing locks *)
(* them.  FCM answers a send, or the answer is lost after FCM accepted it. *)
(*                                                                         *)
(* Time passes in Ticks.  A row carries its age (created_at) and the time  *)
(* left to its next_retry_time instead of two instants.                    *)
(***************************************************************************)
EXTENDS Integers, Sequences, FiniteSetsExt, SequencesExt

CONSTANTS
  Dispatchers,      \* processes that call Execute
  Users, Tokens,
  MaxRetry,         \* FCMMessageMaxRetryAttemptCount and its topic twin
  Expiration,       \* FCMMessageExpirationInSeconds
  BaseDelay,        \* 5 seconds
  MaxDelay,         \* FCMMessageMaxRetryDelayInSeconds
  Jitter,           \* the random part of a delay, at most this much
  BatchLimit,       \* LIMIT 100
  MaxMessages,      \* bound on the rows of a behaviour
  Faults, MaxFaults, \* which faults happen ("crash", "database"), and how many
  None

ASSUME ConstantsAssumption ==
  /\ MaxRetry \in Nat /\ Expiration \in Nat /\ BatchLimit \in Nat \ {0}
  /\ BaseDelay \in Nat \ {0} /\ MaxDelay \in Nat /\ Jitter \in Nat
  /\ Jitter <= BaseDelay /\ BaseDelay <= MaxDelay
  /\ MaxMessages \in Nat /\ MaxFaults \in Nat /\ IsFiniteSet(Tokens)
  /\ Faults \subseteq {"crash", "database"}
ASSUME NoneAssumption == None \notin Users \cup Tokens
\* Arithmetic, stated because the provers have no theory of powers.
ASSUME PowersAssumption == \A n \in 0 .. MaxRetry: 2 ^ n \in Nat \ {0}

VARIABLES
  rows,      \* the messages, in the order they were inserted
  owner,     \* the user each token is registered to, or None
  disp,      \* the local state of each dispatcher
  faults,    \* faults so far
  hist,      \* history: per row its sends, those FCM accepted, those not recorded
  rejected   \* history: tokens FCM reported unregistered since they were registered

vars == <<rows, owner, disp, faults, hist, rejected>>

Unsettled == {"PENDING", "FAILED"}
Settled == {"SENT", "FAILED_PERMANENT", "EXPIRED"}
Kinds == {"topic", "user"}

Row == [kind: Kinds, token: Tokens \cup {None}, status: Unsettled \cup Settled,
        retry: 0 .. MaxRetry, wait: 0 .. (MaxDelay + Jitter), age: 0 .. (Expiration + 1)]
Item == [id: 1 .. MaxMessages, retry: 0 .. MaxRetry]
Answers == {"sent", "temporary", "permanent", "unregistered"}
Dispatcher == [pc: {"idle", "fetch", "loop", "send", "update"}, phase: Kinds,
               batch: SUBSET Item, item: Item \cup {None}, answer: Answers \cup {None}]

TypeOK ==
  /\ rows \in Seq(Row)
  /\ owner \in [Tokens -> Users \cup {None}]
  /\ disp \in [Dispatchers -> Dispatcher]
  /\ faults \in 0 .. MaxFaults
  /\ hist \in Seq([sends: Nat, accepted: Nat, lost: Nat]) /\ Len(hist) = Len(rows)
  /\ rejected \subseteq Tokens

Idle == [pc |-> "idle", phase |-> "topic", batch |-> {}, item |-> None, answer |-> None]

Init ==
  /\ rows = << >> /\ hist = << >>
  /\ owner = [t \in Tokens |-> None]
  /\ disp = [d \in Dispatchers |-> Idle]
  /\ faults = 0
  /\ rejected = {}

(***************************************************************************)
(* Requests: registrations and messages.                                   *)
(***************************************************************************)
\* The upsert takes a token over from another user.
RegisterUserToken(u, t) ==
  /\ owner' = [owner EXCEPT ![t] = u]
  /\ rejected' = rejected \ {t}
  /\ UNCHANGED <<rows, disp, faults, hist>>

UnregisterUserToken(u, t) ==
  /\ owner[t] = u
  /\ owner' = [owner EXCEPT ![t] = None]
  /\ UNCHANGED <<rows, disp, faults, hist, rejected>>

\* The new token is claimed before the old row is deleted, in one transaction.
ReregisterUserToken(u, old, new) ==
  /\ owner[old] = u
  /\ owner' = [owner EXCEPT ![old] = None, ![new] = u]
  /\ rejected' = rejected \ {new}
  /\ UNCHANGED <<rows, disp, faults, hist>>

Insert(new) ==
  /\ new # << >> /\ Len(rows) + Len(new) <= MaxMessages
  /\ rows' = rows \o new
  /\ hist' = hist \o [i \in DOMAIN new |-> [sends |-> 0, accepted |-> 0, lost |-> 0]]
  /\ UNCHANGED <<owner, disp, faults, rejected>>

Pending(kind, t) == [kind |-> kind, token |-> t, status |-> "PENDING",
                     retry |-> 0, wait |-> 0, age |-> 0]

SendTopic == Insert(<<Pending("topic", None)>>)

\* The token must be registered to the user.
SendToDevice(u, t) == owner[t] = u /\ Insert(<<Pending("user", t)>>)

\* One row for each of the user's tokens.
SendToUser(u) ==
  \E tokens \in SetToAllKPermutations({t \in Tokens: owner[t] = u}):
    Insert([i \in DOMAIN tokens |-> Pending("user", tokens[i])])

(***************************************************************************)
(* Execute: the topic messages first, then those of users.                 *)
(***************************************************************************)
DispStep(d, new) == disp' = [disp EXCEPT ![d] = new]

Execute(d) ==
  /\ disp[d].pc = "idle"
  /\ DispStep(d, [Idle EXCEPT !.pc = "fetch"])
  /\ UNCHANGED <<rows, owner, faults, hist, rejected>>

\* Faulty variants: failed messages are forgotten; settled ones come back.
DuePendingOnly(kind) ==
  {i \in DOMAIN rows: rows[i].kind = kind /\ rows[i].status = "PENDING"}
DueUnlessSent(kind) ==
  {i \in DOMAIN rows: rows[i].kind = kind /\ rows[i].status # "SENT" /\ rows[i].wait = 0}

\* The rows the query selects.
Due(kind) ==
  {i \in DOMAIN rows: rows[i].kind = kind /\ rows[i].status \in Unsettled /\ rows[i].wait = 0}

\* LIMIT without an order.
Batches(kind) ==
  kSubset(Min({BatchLimit, Cardinality(Due(kind))}), Due(kind))

Fetch(d) ==
  /\ disp[d].pc = "fetch"
  /\ \E ids \in Batches(disp[d].phase):
       DispStep(d, [disp[d] EXCEPT !.pc = "loop",
                      !.batch = {[id |-> i, retry |-> rows[i].retry]: i \in ids}])
  /\ UNCHANGED <<rows, owner, faults, hist, rejected>>

EndPhase(d) ==
  /\ disp[d].pc = "loop" /\ disp[d].batch = {}
  /\ DispStep(d, IF disp[d].phase = "topic"
                 THEN [Idle EXCEPT !.pc = "fetch", !.phase = "user"] ELSE Idle)
  /\ UNCHANGED <<rows, owner, faults, hist, rejected>>

\* calculateMessageNextRetryTime: exponential, capped, with jitter.
Backoff(retry) ==
  LET delay == Min({BaseDelay * 2 ^ retry, MaxDelay}) IN (delay - Jitter) .. (delay + Jitter)

\* updateMessageStatus: SENT leaves the count and the next retry time alone.
UpdateMessageStatus(i, status, retry) ==
  IF status = "SENT" THEN rows' = [rows EXCEPT ![i].status = status]
  ELSE \E wait \in Backoff(retry):
         rows' = [rows EXCEPT ![i].status = status, ![i].retry = retry, ![i].wait = wait]

Exhausted(item) == item.retry >= MaxRetry
Expired(item) == rows[item.id].age > Expiration

Without(d, item) == [disp[d] EXCEPT !.batch = @ \ {item}]

\* A row of the batch that is not sent any more.
Settle(d, item) ==
  /\ disp[d].pc = "loop" /\ item \in disp[d].batch
  /\ \/ Exhausted(item) /\ UpdateMessageStatus(item.id, "FAILED_PERMANENT", item.retry)
     \/ ~Exhausted(item) /\ Expired(item) /\ UpdateMessageStatus(item.id, "EXPIRED", item.retry)
  /\ DispStep(d, Without(d, item))
  /\ UNCHANGED <<owner, faults, hist, rejected>>

\* The row passed the checks: the dispatcher waits for the rate limiter.
AwaitLimiter(d, item) ==
  /\ disp[d].pc = "loop" /\ item \in disp[d].batch
  /\ ~Exhausted(item) /\ ~Expired(item)
  /\ DispStep(d, [Without(d, item) EXCEPT !.pc = "send", !.item = item])
  /\ UNCHANGED <<rows, owner, faults, hist, rejected>>

Counted(h, outcome) ==
  [sends |-> h.sends + 1,
   accepted |-> IF outcome \in {"sent", "lost"} THEN h.accepted + 1 ELSE h.accepted,
   lost |-> IF outcome = "lost" THEN h.lost + 1 ELSE h.lost]

\* client.Send.  "lost" is an answer that never arrives: FCM has accepted the
\* message and the dispatcher sees a temporary error.
Send(d) ==
  LET i == disp[d].item.id IN
  /\ disp[d].pc = "send"
  /\ \E outcome \in Answers \cup {"lost"}:
       /\ rows[i].token \in rejected => outcome \in {"temporary", "unregistered"}
       /\ hist' = [hist EXCEPT ![i] = Counted(hist[i], outcome)]
       /\ DispStep(d, [disp[d] EXCEPT !.pc = "update",
                         !.answer = IF outcome = "lost" THEN "temporary" ELSE outcome])
       /\ rejected' = IF outcome = "unregistered" /\ rows[i].kind = "user"
                      THEN rejected \cup {rows[i].token} ELSE rejected
  /\ UNCHANGED <<rows, owner, faults>>

Dropping(d) ==
  /\ disp[d].pc = "update"
  /\ disp[d].answer = "unregistered" /\ disp[d].phase = "user"

\* Faulty variant: the error is permanent, the token stays.
KeepUserToken(d) ==
  /\ Dropping(d)
  /\ DispStep(d, [disp[d] EXCEPT !.answer = "permanent"])
  /\ UNCHANGED <<rows, owner, faults, hist, rejected>>

\* isTokenRelatedPermanentError: the row of the token is deleted, whoever has
\* registered it by now, before the message is settled.
DeleteUserTokenByFCMToken(d) ==
  /\ Dropping(d)
  /\ owner' = [owner EXCEPT ![rows[disp[d].item.id].token] = None]
  /\ DispStep(d, [disp[d] EXCEPT !.answer = "permanent"])
  /\ UNCHANGED <<rows, faults, hist, rejected>>

\* Faulty variant: a message FCM has accepted is retried.
StatusAfterUnlessSent(answer) ==
  IF answer \in {"sent", "temporary"} THEN "FAILED" ELSE "FAILED_PERMANENT"

\* What sendNotificationWithErrorHandling and its topic twin make of an answer.
StatusAfter(answer) ==
  CASE answer = "sent"      -> "SENT"
    [] answer = "temporary" -> "FAILED"
    [] OTHER                -> "FAILED_PERMANENT"

\* Faulty variant: the retry is not counted.
RetryNotCounted(answer, retry) == retry

RetryAfter(answer, retry) == IF answer = "temporary" THEN retry + 1 ELSE retry

NextItem(d) == DispStep(d, [disp[d] EXCEPT !.pc = "loop", !.item = None, !.answer = None])

RecordAnswer(d) ==
  LET item == disp[d].item  answer == disp[d].answer IN
  /\ disp[d].pc = "update" /\ ~Dropping(d)
  /\ UpdateMessageStatus(item.id, StatusAfter(answer), RetryAfter(answer, item.retry))
  /\ NextItem(d)
  /\ UNCHANGED <<owner, faults, hist, rejected>>

(***************************************************************************)
(* Faults.  An error of a statement is logged and the loop goes on; a      *)
(* crash forgets the batch.                                                *)
(***************************************************************************)
Fault(kind) ==
  /\ kind \in Faults /\ faults < MaxFaults
  /\ faults' = faults + 1

FetchFails(d) ==
  /\ disp[d].pc = "fetch" /\ Fault("database")
  /\ DispStep(d, [disp[d] EXCEPT !.pc = "loop"])
  /\ UNCHANGED <<rows, owner, hist, rejected>>

SettleFails(d, item) ==
  /\ disp[d].pc = "loop" /\ item \in disp[d].batch
  /\ Exhausted(item) \/ Expired(item)
  /\ Fault("database")
  /\ DispStep(d, Without(d, item))
  /\ UNCHANGED <<rows, owner, hist, rejected>>

DeleteTokenFails(d) ==
  /\ Dropping(d) /\ Fault("database")
  /\ DispStep(d, [disp[d] EXCEPT !.answer = "permanent"])
  /\ UNCHANGED <<rows, owner, hist, rejected>>

Forgotten(d) ==
  IF disp[d].pc = "update" THEN hist' = [hist EXCEPT ![disp[d].item.id].lost = @ + 1]
  ELSE UNCHANGED hist

RecordFails(d) ==
  /\ disp[d].pc = "update" /\ ~Dropping(d)
  /\ Fault("database")
  /\ Forgotten(d) /\ NextItem(d)
  /\ UNCHANGED <<rows, owner, rejected>>

Crash(d) ==
  /\ disp[d].pc # "idle" /\ Fault("crash")
  /\ Forgotten(d)
  /\ DispStep(d, Idle)
  /\ UNCHANGED <<rows, owner, rejected>>

(***************************************************************************)
(* Time.                                                                   *)
(***************************************************************************)
Older(row) == [row EXCEPT !.age = Min({@ + 1, Expiration + 1}),
                          !.wait = IF @ = 0 THEN 0 ELSE @ - 1]
Tick ==
  /\ rows' = [i \in DOMAIN rows |-> Older(rows[i])]
  /\ rows' # rows
  /\ UNCHANGED <<owner, disp, faults, hist, rejected>>

Work(d) ==
  \/ Execute(d) \/ Fetch(d) \/ EndPhase(d) \/ Send(d)
  \/ DeleteUserTokenByFCMToken(d) \/ RecordAnswer(d)
  \/ \E item \in disp[d].batch: Settle(d, item) \/ AwaitLimiter(d, item)

FaultOf(d) ==
  \/ FetchFails(d) \/ DeleteTokenFails(d) \/ RecordFails(d) \/ Crash(d)
  \/ \E item \in disp[d].batch: SettleFails(d, item)

Request ==
  \/ SendTopic
  \/ \E u \in Users:
       \/ SendToUser(u)
       \/ \E t \in Tokens:
            \/ RegisterUserToken(u, t) \/ UnregisterUserToken(u, t) \/ SendToDevice(u, t)
            \/ \E new \in Tokens: ReregisterUserToken(u, t, new)

Next ==
  \/ Request \/ Tick
  \/ \E d \in Dispatchers: Work(d) \/ FaultOf(d)

Spec == Init /\ [][Next]_vars

\* Execute is called again and again, the database and FCM answer, and time
\* passes.  Nothing is assumed of requests and faults.
FairSpec == Spec /\ WF_vars(Tick) /\ \A d \in Dispatchers: WF_vars(Work(d))

(***************************************************************************)
(* Properties.                                                             *)
(***************************************************************************)
\* One dispatcher never reopens a message: SENT, FAILED_PERMANENT and EXPIRED
\* are final, whatever crashes between a send and its update.
SettledIsFinal ==
  [][\A i \in DOMAIN rows: rows[i].status \in Settled => rows'[i].status = rows[i].status]_vars

\* Of one dispatcher's sends of a message FCM accepts one, unless an answer or
\* the update after it was lost; and a message is SENT only if FCM accepted it.
AcceptedOnce ==
  \A i \in DOMAIN rows:
    /\ hist[i].accepted <= 1 + hist[i].lost
    /\ rows[i].status = "SENT" => hist[i].accepted >= 1

\* "Maximum number of retry attempts": no message is sent more often than that.
AttemptsBounded == \A i \in DOMAIN rows: hist[i].sends <= MaxRetry

\* What is true of it: each update that is lost may cost one more send.
AttemptsBoundedByLosses ==
  \A i \in DOMAIN rows: hist[i].sends <= MaxRetry + hist[i].lost

\* A token FCM reported unregistered does not stay registered, however users
\* register and move their devices: the dispatcher that heard so is about to delete
\* it.  (A fault at that moment leaves it to the next message.)
RejectedTokensAreDropped ==
  faults = 0 => \A t \in rejected: owner[t] # None =>
    \E d \in Dispatchers: Dropping(d) /\ rows[disp[d].item.id].token = t

\* "Messages expire after 24 hours": an expired message is not sent.
NotSentExpired ==
  [][\A d \in Dispatchers: Send(d) => rows[disp[d].item.id].age <= Expiration]_vars

\* Every message ends up SENT, FAILED_PERMANENT or EXPIRED.
EveryMessageSettles ==
  \A i \in 1 .. MaxMessages:
    (i \in DOMAIN rows) ~> (i \in DOMAIN rows /\ rows[i].status \in Settled)
================================================================================
