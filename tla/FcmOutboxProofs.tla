---------------------------- MODULE FcmOutboxProofs ----------------------------
(***************************************************************************)
(* Proofs about FcmOutbox for any number of users, tokens, messages and    *)
(* faults and any delays.  Types, registrations and what SENT means: for   *)
(* any number of dispatchers.  The other facts about messages: for one at  *)
(* a time, for nothing locks the rows that two of them would select.       *)
(***************************************************************************)
EXTENDS FcmOutbox, SequenceTheorems, FiniteSetTheorems, TLAPS

(***************************************************************************)
(* The invariant for any number of dispatchers.                            *)
(***************************************************************************)
RowsFit ==
  /\ Len(rows) <= MaxMessages
  /\ \A i \in DOMAIN rows: rows[i].kind = "user" => rows[i].token \in Tokens

\* A dispatcher works on rows that exist, of the kind of its phase, and sends only
\* what has a retry left.
At(d, item) == item.id \in DOMAIN rows /\ rows[item.id].kind = disp[d].phase
Working(d) == disp[d].pc \in {"send", "update"}
ItemsAreThere(d) ==
  /\ \A item \in disp[d].batch: At(d, item)
  /\ Working(d) => /\ disp[d].item \in Item /\ At(d, disp[d].item)
                   /\ disp[d].item.retry < MaxRetry
  /\ disp[d].pc = "update" => disp[d].answer \in Answers
ItemsExist == \A d \in Dispatchers: ItemsAreThere(d)

OutboxInv == TypeOK /\ RowsFit /\ ItemsExist

(***************************************************************************)
(* The invariant for one dispatcher.                                       *)
(***************************************************************************)
OneDispatcher == \E d: Dispatchers = {d}

\* What the dispatcher remembers of its rows is still so.
Current(item) == rows[item.id].status \in Unsettled /\ rows[item.id].retry = item.retry
WorkIsCurrent(d) ==
  /\ \A item \in disp[d].batch: Current(item)
  /\ Working(d) => /\ Current(disp[d].item)
                   /\ \A item \in disp[d].batch: item.id # disp[d].item.id

\* The sends of a row are its retries and the losses, and one more when its answer
\* waits to be recorded or was the last one.
Answered(d, i) == disp[d].pc = "update" /\ disp[d].item.id = i
SendsAreCounted(d, i) ==
  LET row == rows[i]  h == hist[i] IN
  /\ row.status \in Unsettled /\ ~Answered(d, i) =>
       h.sends <= row.retry + h.lost /\ h.accepted <= h.lost
  /\ Answered(d, i) =>
       /\ h.sends <= row.retry + h.lost + 1 /\ h.accepted <= h.lost + 1
       /\ IF disp[d].answer = "sent" THEN h.accepted >= 1 ELSE h.accepted <= h.lost
  /\ row.status \in Settled => h.sends <= MaxRetry + h.lost /\ h.accepted <= 1 + h.lost
  /\ row.status = "SENT" => h.accepted >= 1

MessagesInv ==
  /\ OutboxInv
  /\ \A d \in Dispatchers: WorkIsCurrent(d) /\ \A i \in DOMAIN rows: SendsAreCounted(d, i)

(***************************************************************************)
(* The operators of the model.                                             *)
(***************************************************************************)
LEMMA MinOfTwo ==
  ASSUME NEW a \in Int, NEW b \in Int PROVE Min({a, b}) = IF a <= b THEN a ELSE b
<1>1. \E x \in {a, b}: \A y \in {a, b}: x <= y
  OBVIOUS
<1> QED
  BY <1>1 DEF Min

\* Every delay before a retry is one a row can carry.
LEMMA BackoffBounds ==
  ASSUME NEW retry \in 0 .. MaxRetry PROVE Backoff(retry) \subseteq 0 .. (MaxDelay + Jitter)
<1> DEFINE power == 2 ^ retry
           raw == BaseDelay * power
<1>1. power \in Nat /\ power >= 1
  BY PowersAssumption
<1> HIDE DEF power
<1>2. raw \in Nat /\ raw >= BaseDelay
  BY <1>1, ConstantsAssumption
<1> HIDE DEF raw
<1> DEFINE delay == Min({raw, MaxDelay})
<1>3. delay \in Nat /\ delay >= Jitter /\ delay <= MaxDelay
  BY <1>2, MinOfTwo, ConstantsAssumption
<1>4. Backoff(retry) = (delay - Jitter) .. (delay + Jitter)
  BY DEF Backoff, raw, power
<1> HIDE DEF delay
<1> QED
  BY <1>3, <1>4, ConstantsAssumption

\* Writing one element of a sequence.
LEMMA WriteElement ==
  ASSUME NEW S, NEW s \in Seq(S), NEW i \in DOMAIN s, NEW x \in S
  PROVE  LET t == [s EXCEPT ![i] = x]
         IN  /\ t \in Seq(S) /\ Len(t) = Len(s) /\ DOMAIN t = DOMAIN s
             /\ t[i] = x /\ \A j \in DOMAIN s \ {i}: t[j] = s[j]
BY ExceptSeq

\* An update writes one row; the kind, the token and the age of a row never change by it.
LEMMA UpdateEffect ==
  ASSUME rows \in Seq(Row), NEW i \in DOMAIN rows, NEW status \in Unsettled \cup Settled,
         NEW retry \in 0 .. MaxRetry, UpdateMessageStatus(i, status, retry)
  PROVE  /\ rows' \in Seq(Row) /\ Len(rows') = Len(rows) /\ DOMAIN rows' = DOMAIN rows
         /\ \A j \in DOMAIN rows \ {i}: rows'[j] = rows[j]
         /\ rows'[i].kind = rows[i].kind /\ rows'[i].token = rows[i].token
         /\ rows'[i].status = status
         /\ rows'[i].retry = IF status = "SENT" THEN rows[i].retry ELSE retry
<1>0. rows[i] \in Row
  OBVIOUS
<1>1. CASE status = "SENT"
  <2>1. rows' = [rows EXCEPT ![i].status = status]
    BY <1>1 DEF UpdateMessageStatus
  <2> DEFINE row == [rows[i] EXCEPT !.status = status]
  <2>2. rows' = [rows EXCEPT ![i] = row]
    BY <2>1
  <2>3. /\ row \in Row /\ row.kind = rows[i].kind /\ row.token = rows[i].token
        /\ row.status = status /\ row.retry = rows[i].retry
    BY <1>0 DEF Row
  <2> HIDE DEF row
  <2> QED
    BY <1>1, <2>2, <2>3, WriteElement
<1>2. CASE status # "SENT"
  <2>1. PICK wait \in Backoff(retry):
          rows' = [rows EXCEPT ![i].status = status, ![i].retry = retry, ![i].wait = wait]
    BY <1>2 DEF UpdateMessageStatus
  <2>2. wait \in 0 .. (MaxDelay + Jitter)
    BY <2>1, BackoffBounds
  <2> DEFINE row == [rows[i] EXCEPT !.status = status, !.retry = retry, !.wait = wait]
  <2>3. rows' = [rows EXCEPT ![i] = row]
    BY <2>1
  <2>4. /\ row \in Row /\ row.kind = rows[i].kind /\ row.token = rows[i].token
        /\ row.status = status /\ row.retry = retry
    BY <1>0, <2>2 DEF Row
  <2> HIDE DEF row
  <2> QED
    BY <1>2, <2>3, <2>4, WriteElement
<1> QED
  BY <1>1, <1>2

\* Time changes neither what a row says of its message nor how many rows there are.
LEMMA TickEffect ==
  ASSUME rows \in Seq(Row), Tick
  PROVE  /\ rows' \in Seq(Row) /\ Len(rows') = Len(rows) /\ DOMAIN rows' = DOMAIN rows
         /\ \A i \in DOMAIN rows:
              /\ rows'[i].kind = rows[i].kind /\ rows'[i].token = rows[i].token
              /\ rows'[i].status = rows[i].status /\ rows'[i].retry = rows[i].retry
<1>1. ASSUME NEW row \in Row
      PROVE  /\ Older(row) \in Row /\ Older(row).kind = row.kind /\ Older(row).token = row.token
             /\ Older(row).status = row.status /\ Older(row).retry = row.retry
  <2>1. Min({row.age + 1, Expiration + 1}) \in 0 .. (Expiration + 1)
    <3>1. row.age + 1 \in Int /\ Expiration + 1 \in Int /\ row.age + 1 >= 0 /\ Expiration + 1 >= 0
      BY ConstantsAssumption DEF Row
    <3>2. Min({row.age + 1, Expiration + 1}) =
            IF row.age + 1 <= Expiration + 1 THEN row.age + 1 ELSE Expiration + 1
      BY <3>1, MinOfTwo
    <3> QED
      BY <3>1, <3>2
  <2>2. (IF row.wait = 0 THEN 0 ELSE row.wait - 1) \in 0 .. (MaxDelay + Jitter)
    BY ConstantsAssumption DEF Row
  <2> QED
    BY <2>1, <2>2 DEF Older, Row
<1>2. rows' = [i \in 1 .. Len(rows) |-> Older(rows[i])] /\ \A i \in 1 .. Len(rows): rows[i] \in Row
  BY DEF Tick
<1> QED
  BY <1>1, <1>2

(***************************************************************************)
(* Inserts.                                                                *)
(***************************************************************************)
NewRows == {Pending("topic", None)} \cup {Pending("user", t): t \in Tokens}

LEMMA NewRowsFit ==
  /\ NewRows \subseteq Row
  /\ \A row \in NewRows: /\ row.status = "PENDING" /\ row.retry = 0
                         /\ row.kind = "user" => row.token \in Tokens
BY ConstantsAssumption DEF NewRows, Pending, Row, Kinds, Unsettled

\* The rows and histories there are stay; the new ones have not been sent.
LEMMA InsertEffect ==
  ASSUME TypeOK, NEW new \in Seq(NewRows), Insert(new)
  PROVE  /\ rows' \in Seq(Row) /\ Len(rows') <= MaxMessages
         /\ hist' \in Seq([sends: Nat, accepted: Nat, lost: Nat]) /\ Len(hist') = Len(rows')
         /\ DOMAIN rows \subseteq DOMAIN rows'
         /\ \A i \in DOMAIN rows: rows'[i] = rows[i] /\ hist'[i] = hist[i]
         /\ \A i \in DOMAIN rows' \ DOMAIN rows:
              rows'[i] \in NewRows /\ hist'[i] = [sends |-> 0, accepted |-> 0, lost |-> 0]
<1> DEFINE none == [sends |-> 0, accepted |-> 0, lost |-> 0]
           zeros == [i \in DOMAIN new |-> none]
           Hist == [sends: Nat, accepted: Nat, lost: Nat]
<1>1. rows' = rows \o new /\ hist' = hist \o zeros /\ Len(rows) + Len(new) <= MaxMessages
  BY DEF Insert
<1>2. none \in Hist
  OBVIOUS
<1>3. new \in Seq(Row) /\ Len(new) \in Nat /\ \A i \in 1 .. Len(new): new[i] \in NewRows
  <2>1. Len(new) \in Nat /\ \A i \in 1 .. Len(new): new[i] \in NewRows
    OBVIOUS
  <2>2. NewRows \subseteq Row
    BY NewRowsFit
  <2> HIDE DEF NewRows
  <2> QED
    BY <2>1, <2>2, SeqDef
<1>4. zeros \in Seq(Hist) /\ Len(zeros) = Len(new) /\ \A i \in 1 .. Len(new): zeros[i] = none
  <2>1. zeros = [i \in 1 .. Len(new) |-> none]
    OBVIOUS
  <2> HIDE DEF zeros, none, Hist
  <2>2. zeros \in [1 .. Len(new) -> Hist] /\ \A i \in 1 .. Len(new): zeros[i] = none
    BY <1>2, <2>1
  <2> QED
    BY <1>3, <2>2, SeqDef
<1>5. rows \in Seq(Row) /\ hist \in Seq(Hist) /\ Len(hist) = Len(rows)
  BY DEF TypeOK
<1> HIDE DEF zeros, none, Hist
<1>6. /\ rows' \in Seq(Row) /\ Len(rows') = Len(rows) + Len(new)
      /\ \A i \in 1 .. Len(rows) + Len(new):
           rows'[i] = IF i <= Len(rows) THEN rows[i] ELSE new[i - Len(rows)]
  BY <1>1, <1>3, <1>5, ConcatProperties
<1>7. /\ hist' \in Seq(Hist) /\ Len(hist') = Len(rows) + Len(new)
      /\ \A i \in 1 .. Len(rows) + Len(new):
           hist'[i] = IF i <= Len(rows) THEN hist[i] ELSE zeros[i - Len(rows)]
  <2>1. /\ hist \o zeros \in Seq(Hist) /\ Len(hist \o zeros) = Len(hist) + Len(zeros)
        /\ \A i \in 1 .. Len(hist) + Len(zeros):
             (hist \o zeros)[i] = IF i <= Len(hist) THEN hist[i] ELSE zeros[i - Len(hist)]
    BY <1>4, <1>5, ConcatProperties
  <2> QED
    BY <1>1, <1>4, <1>5, <2>1
<1>8. Len(rows) \in Nat /\ Len(new) \in Nat
  BY <1>3, <1>5
<1>9. DOMAIN rows = 1 .. Len(rows) /\ DOMAIN rows' = 1 .. Len(rows) + Len(new)
  BY <1>5, <1>6
<1>10. \A i \in DOMAIN rows: rows'[i] = rows[i] /\ hist'[i] = hist[i]
  BY <1>6, <1>7, <1>8, <1>9
<1>11. \A i \in DOMAIN rows' \ DOMAIN rows: rows'[i] \in NewRows /\ hist'[i] = none
  BY <1>3, <1>4, <1>6, <1>7, <1>8, <1>9
<1> QED
  BY <1>1, <1>6, <1>7, <1>8, <1>9, <1>10, <1>11 DEF none, Hist

\* What SendTopic, SendToDevice and SendToUser insert are new rows.
LEMMA RequestsInsertNewRows ==
  ASSUME TypeOK, SendTopic \/ \E u \in Users: SendToUser(u) \/ \E t \in Tokens: SendToDevice(u, t)
  PROVE  \E new \in Seq(NewRows): Insert(new)
<1>1. CASE SendTopic
  <2>1. <<Pending("topic", None)>> \in Seq(NewRows)
    BY DEF NewRows
  <2> QED
    BY <1>1, <2>1 DEF SendTopic
<1>2. ASSUME NEW u \in Users, NEW t \in Tokens, SendToDevice(u,
            t) PROVE \E new \in Seq(NewRows): Insert(new)
  <2>1. <<Pending("user", t)>> \in Seq(NewRows)
    BY DEF NewRows
  <2> QED
    BY <1>2, <2>1 DEF SendToDevice
<1>3. ASSUME NEW u \in Users, SendToUser(u) PROVE \E new \in Seq(NewRows): Insert(new)
  <2> DEFINE Own == {t \in Tokens: owner[t] = u}
  <2>1. PICK tokens \in SetToAllKPermutations(Own):
          Insert([i \in DOMAIN tokens |-> Pending("user", tokens[i])])
    BY <1>3 DEF SendToUser
  <2>2. PICK S \in SUBSET Own: tokens \in [1 .. Cardinality(S) -> S]
    BY <2>1 DEF SetToAllKPermutations, SetToSeqs
  <2>3. Cardinality(S) \in Nat
    BY FS_Subset, FS_CardinalityType, ConstantsAssumption
  <2>4. [i \in DOMAIN tokens |-> Pending("user", tokens[i])] \in Seq(NewRows)
    BY <2>2, <2>3 DEF NewRows
  <2> QED
    BY <2>1, <2>4
<1> QED
  BY <1>1, <1>2, <1>3

(***************************************************************************)
(* Histories.                                                              *)
(***************************************************************************)
Hist == [sends: Nat, accepted: Nat, lost: Nat]

\* A send counts for its row, and so does what came of it.
LEMMA SendCounts ==
  ASSUME TypeOK, NEW d \in Dispatchers, Send(d), disp[d].item.id \in DOMAIN rows
  PROVE  /\ hist' \in Seq(Hist) /\ Len(hist') = Len(rows)
         /\ \A j \in DOMAIN rows \ {disp[d].item.id}: hist'[j] = hist[j]
         /\ LET old == hist[disp[d].item.id]  new == hist'[disp[d].item.id] IN
            /\ new.sends = old.sends + 1
            /\ \/ disp'[d].answer = "sent" /\ new.accepted = old.accepted + 1 /\ new.lost = old.lost
               \/ disp'[d].answer # "sent" /\ new.accepted = old.accepted /\ new.lost = old.lost
               \/ /\ disp'[d].answer # "sent"
                  /\ new.accepted = old.accepted + 1 /\ new.lost = old.lost + 1
<1> DEFINE i == disp[d].item.id
<1>1. hist \in Seq(Hist) /\ Len(hist) = Len(rows) /\ i \in DOMAIN hist /\ DOMAIN hist = DOMAIN rows
  BY DEF TypeOK, Hist
<1>2. hist[i] \in Hist
  BY <1>1
<1>3. PICK outcome \in Answers \cup {"lost"}:
        /\ hist' = [hist EXCEPT ![i] = Counted(hist[i], outcome)]
        /\ DispStep(d, [disp[d] EXCEPT !.pc = "update",
                           !.answer = IF outcome = "lost" THEN "temporary" ELSE outcome])
  BY DEF Send
<1>4. disp'[d].answer = IF outcome = "lost" THEN "temporary" ELSE outcome
  BY <1>3 DEF DispStep, TypeOK, Dispatcher
<1> DEFINE new == Counted(hist[i], outcome)
<1>5. /\ new \in Hist /\ new.sends = hist[i].sends + 1
      /\ \/ disp'[d].answer = "sent" /\ new.accepted = hist[i].accepted + 1 /\ new.lost = hist[i].lost
         \/ disp'[d].answer # "sent" /\ new.accepted = hist[i].accepted /\ new.lost = hist[i].lost
         \/ /\ disp'[d].answer # "sent"
            /\ new.accepted = hist[i].accepted + 1 /\ new.lost = hist[i].lost + 1
  BY <1>2, <1>4 DEF Hist, Answers, Counted
<1> HIDE DEF new
<1>6. /\ hist' \in Seq(Hist) /\ Len(hist') = Len(hist) /\ hist'[i] = new
      /\ \A j \in DOMAIN hist \ {i}: hist'[j] = hist[j]
  BY <1>1, <1>3, <1>5, WriteElement DEF new
<1> QED
  BY <1>1, <1>5, <1>6

\* A dispatcher that forgets an answer leaves a loss behind, and nothing else.
LEMMA ForgottenCounts ==
  ASSUME TypeOK, NEW d \in Dispatchers, Forgotten(d),
         disp[d].pc = "update" => disp[d].item.id \in DOMAIN rows
  PROVE  /\ hist' \in Seq(Hist) /\ Len(hist') = Len(rows)
         /\ \A j \in DOMAIN rows: ~Answered(d, j) => hist'[j] = hist[j]
         /\ \A j \in DOMAIN rows: Answered(d, j) =>
              /\ hist'[j].sends = hist[j].sends /\ hist'[j].accepted = hist[j].accepted
              /\ hist'[j].lost = hist[j].lost + 1
<1>1. hist \in Seq(Hist) /\ Len(hist) = Len(rows) /\ DOMAIN hist = DOMAIN rows
  BY DEF TypeOK, Hist
<1>2. CASE disp[d].pc # "update"
  BY <1>1, <1>2 DEF Forgotten, Answered
<1>3. CASE disp[d].pc = "update"
  <2> DEFINE i == disp[d].item.id
             new == [hist[i] EXCEPT !.lost = @ + 1]
  <2>1. i \in DOMAIN hist /\ hist[i] \in Hist
    BY <1>1, <1>3
  <2>2. hist' = [hist EXCEPT ![i] = new]
    BY <1>3 DEF Forgotten
  <2>3. /\ new \in Hist /\ new.sends = hist[i].sends /\ new.accepted = hist[i].accepted
        /\ new.lost = hist[i].lost + 1
    BY <2>1 DEF Hist
  <2> HIDE DEF new
  <2>4. /\ hist' \in Seq(Hist) /\ Len(hist') = Len(hist) /\ hist'[i] = new
        /\ \A j \in DOMAIN hist \ {i}: hist'[j] = hist[j]
    BY <1>1, <2>1, <2>2, <2>3, WriteElement
  <2> QED
    BY <1>1, <1>3, <2>3, <2>4 DEF Answered
<1> QED
  BY <1>2, <1>3

(***************************************************************************)
(* Types, rows and items, for any number of dispatchers.                   *)
(***************************************************************************)
\* Rows stay of their kind and for their token; new ones are added at the end.
RowsGrow ==
  /\ rows' \in Seq(Row) /\ Len(rows') <= MaxMessages
  /\ DOMAIN rows \subseteq DOMAIN rows'
  /\ \A i \in DOMAIN rows: rows'[i].kind = rows[i].kind /\ rows'[i].token = rows[i].token
  /\ \A i \in DOMAIN rows' \ DOMAIN rows: rows'[i] \in NewRows

LEMMA RowsStayFit == ASSUME TypeOK, RowsFit, RowsGrow PROVE RowsFit'
BY NewRowsFit DEF RowsFit, RowsGrow, TypeOK

\* The rows may grow under a dispatcher that stays where it is.
LEMMA ItemsStay ==
  ASSUME ItemsExist, RowsGrow, NEW d \in Dispatchers, disp'[d] = disp[d] PROVE ItemsAreThere(d)'
BY DEF ItemsExist, ItemsAreThere, RowsGrow, At, Working

\* One dispatcher moves; what it works on has to be there.
LEMMA DispatcherMoves ==
  ASSUME OutboxInv, RowsGrow, NEW d \in Dispatchers, NEW new \in Dispatcher, DispStep(d, new),
         ItemsAreThere(d)'
  PROVE  disp' \in [Dispatchers -> Dispatcher] /\ RowsFit' /\ ItemsExist'
<1>1. disp' \in [Dispatchers -> Dispatcher] /\ \A e \in Dispatchers \ {d}: disp'[e] = disp[e]
  BY DEF OutboxInv, TypeOK, DispStep
<1>2. \A e \in Dispatchers \ {d}: ItemsAreThere(e)'
  BY <1>1, ItemsStay DEF OutboxInv
<1> QED
  BY <1>1, <1>2, RowsStayFit DEF OutboxInv, ItemsExist

LEMMA InitOutbox == Init => OutboxInv
<1> SUFFICES ASSUME Init PROVE OutboxInv
  OBVIOUS
<1>1. Idle \in Dispatcher
  BY DEF Idle, Dispatcher, Kinds
<1>2. rows \in Seq(Row) /\ hist \in Seq(Hist) /\ Len(hist) = 0 /\ Len(rows) = 0 /\ DOMAIN rows = {}
  BY DEF Init
<1>3. TypeOK
  BY <1>1, <1>2, ConstantsAssumption DEF Init, TypeOK, Hist
<1>4. RowsFit
  BY <1>2, ConstantsAssumption DEF RowsFit
<1>5. ItemsExist
  BY DEF Init, ItemsExist, ItemsAreThere, Working, Idle
<1> QED
  BY <1>3, <1>4, <1>5 DEF OutboxInv

\* Registrations leave the outbox alone, messages extend it, and time ages it.
LEMMA RequestKeeps == ASSUME OutboxInv, Request PROVE OutboxInv' /\ UNCHANGED <<disp, faults>>
<1>1. CASE SendTopic \/ \E u \in Users: SendToUser(u) \/ \E t \in Tokens: SendToDevice(u, t)
  <2>1. PICK new \in Seq(NewRows): Insert(new)
    BY <1>1, RequestsInsertNewRows DEF OutboxInv
  <2>2. UNCHANGED <<owner, disp, faults, rejected>>
    BY <2>1 DEF Insert
  <2>3. RowsGrow /\ hist' \in Seq(Hist) /\ Len(hist') = Len(rows')
    BY <2>1, InsertEffect DEF OutboxInv, RowsGrow, Hist
  <2>4. TypeOK'
    BY <2>2, <2>3 DEF OutboxInv, TypeOK, RowsGrow, Hist
  <2> QED
    BY <2>2, <2>3, <2>4, RowsStayFit, ItemsStay DEF OutboxInv, ItemsExist
<1>2. ASSUME NEW u \in Users, NEW t \in Tokens, NEW new \in Tokens,
             RegisterUserToken(u, t) \/ UnregisterUserToken(u, t) \/ ReregisterUserToken(u, t, new)
      PROVE  OutboxInv' /\ UNCHANGED <<disp, faults>>
  <2>1. UNCHANGED <<rows, disp, faults, hist>>
    BY <1>2 DEF RegisterUserToken, UnregisterUserToken, ReregisterUserToken
  <2>2. owner' \in [Tokens -> Users \cup {None}] /\ rejected' \subseteq Tokens
    BY <1>2 DEF RegisterUserToken, UnregisterUserToken, ReregisterUserToken, OutboxInv, TypeOK
  <2>3. TypeOK'
    BY <2>1, <2>2 DEF OutboxInv, TypeOK
  <2> QED
    BY <2>1, <2>3 DEF OutboxInv, RowsFit, ItemsExist, ItemsAreThere, At, Working
<1> QED
  BY <1>1, <1>2 DEF Request

LEMMA TickKeeps == ASSUME OutboxInv, Tick PROVE OutboxInv' /\ RowsGrow
<1>1. UNCHANGED <<owner, disp, faults, hist, rejected>>
  BY DEF Tick
<1>2. RowsGrow /\ Len(rows') = Len(rows)
  BY TickEffect DEF OutboxInv, TypeOK, RowsFit, RowsGrow
<1>3. TypeOK'
  BY <1>1, <1>2 DEF OutboxInv, TypeOK, RowsGrow
<1> QED
  BY <1>1, <1>2, <1>3, RowsStayFit, ItemsStay DEF OutboxInv, ItemsExist

\* A dispatcher starts, ends a kind, or stops with an empty batch.
LEMMA StartEffect ==
  ASSUME NEW d \in Dispatchers, Execute(d) \/ EndPhase(d)
  PROVE  \E new \in Dispatcher: DispStep(d, new) /\ new.batch = {} /\ new.pc \in {"idle", "fetch"}
<1>1. Idle \in Dispatcher
  BY DEF Idle, Dispatcher, Kinds
<1>2. /\ [Idle EXCEPT !.pc = "fetch"] \in Dispatcher
      /\ [Idle EXCEPT !.pc = "fetch", !.phase = "user"] \in Dispatcher
  BY <1>1 DEF Dispatcher, Kinds
<1> QED
  BY <1>1, <1>2 DEF Execute, EndPhase, Idle

LEMMA ExecuteKeeps ==
  ASSUME OutboxInv, NEW d \in Dispatchers, Execute(d) \/ EndPhase(d) PROVE OutboxInv' /\ RowsGrow
<1>1. UNCHANGED <<rows, owner, faults, hist, rejected>> /\ RowsGrow
  BY DEF Execute, EndPhase, OutboxInv, TypeOK, RowsFit, RowsGrow
<1>2. PICK new \in Dispatcher: /\ DispStep(d, new)
                              /\ new.batch = {} /\ new.pc \in {"idle", "fetch"}
  BY StartEffect
<1>3. disp'[d] = new
  BY <1>2 DEF DispStep, OutboxInv, TypeOK
<1>4. ItemsAreThere(d)'
  BY <1>2, <1>3 DEF ItemsAreThere, Working
<1>5. disp' \in [Dispatchers -> Dispatcher] /\ RowsFit' /\ ItemsExist'
  BY <1>1, <1>2, <1>4, DispatcherMoves
<1>6. TypeOK'
  BY <1>1, <1>5 DEF OutboxInv, TypeOK
<1> QED
  BY <1>1, <1>5, <1>6 DEF OutboxInv

\* Faults are counted, up to their bound.
LEMMA FaultsStayBounded ==
  ASSUME TypeOK, NEW kind, Fault(kind) PROVE faults' \in 0 .. MaxFaults /\ faults' > 0
BY ConstantsAssumption DEF Fault, TypeOK

LEMMA FetchKeeps ==
  ASSUME OutboxInv, NEW d \in Dispatchers, Fetch(d) \/ FetchFails(d) PROVE OutboxInv' /\ RowsGrow
<1>0. disp[d] \in Dispatcher /\ rows \in Seq(Row) /\ Len(rows) \in Nat /\ Len(rows) <= MaxMessages
  BY DEF OutboxInv, TypeOK, RowsFit
<1>1. UNCHANGED <<rows, owner, hist, rejected>> /\ faults' \in 0 .. MaxFaults /\ RowsGrow
  <2>1. UNCHANGED <<rows, owner, hist, rejected>>
    BY DEF Fetch, FetchFails
  <2>2. RowsGrow
    BY <1>0, <2>1 DEF RowsGrow
  <2>3. faults' \in 0 .. MaxFaults
    BY FaultsStayBounded DEF Fetch, FetchFails, OutboxInv, TypeOK
  <2> QED
    BY <2>1, <2>2, <2>3
<1>2. PICK batch \in SUBSET Item:
        /\ DispStep(d, [disp[d] EXCEPT !.pc = "loop", !.batch = batch])
        /\ \A item \in batch: At(d, item)
  <2>1. CASE Fetch(d)
    <3>1. PICK ids \in Batches(disp[d].phase):
            DispStep(d, [disp[d] EXCEPT !.pc = "loop",
                           !.batch = {[id |-> i, retry |-> rows[i].retry]: i \in ids}])
      BY <2>1 DEF Fetch
    <3>2. ids \subseteq Due(disp[d].phase)
      BY <3>1 DEF Batches, kSubset
    <3>3. \A i \in ids: /\ i \in DOMAIN rows /\ rows[i].kind = disp[d].phase
                        /\ i \in 1 .. MaxMessages /\ rows[i].retry \in 0 .. MaxRetry
      <4> SUFFICES ASSUME NEW i \in ids
                   PROVE  /\ i \in DOMAIN rows /\ rows[i].kind = disp[d].phase
                          /\ i \in 1 .. MaxMessages /\ rows[i].retry \in 0 .. MaxRetry
        OBVIOUS
      <4>1. i \in DOMAIN rows /\ rows[i].kind = disp[d].phase
        BY <3>2 DEF Due
      <4>2. rows[i] \in Row /\ i \in 1 .. Len(rows)
        BY <1>0, <4>1
      <4>3. rows[i].retry \in 0 .. MaxRetry
        BY <4>2 DEF Row
      <4>4. i \in 1 .. MaxMessages
        BY <1>0, <4>2, ConstantsAssumption
      <4> QED
        BY <4>1, <4>3, <4>4
    <3> DEFINE batch == {[id |-> i, retry |-> rows[i].retry]: i \in ids}
    <3>4. batch \in SUBSET Item
      BY <3>3 DEF Item
    <3>5. \A item \in batch: At(d, item)
      BY <3>3 DEF At
    <3> QED
      BY <3>1, <3>4, <3>5
  <2>2. CASE FetchFails(d)
    <3>1. disp[d].batch \in SUBSET Item /\ \A item \in disp[d].batch: At(d, item)
      BY <1>0 DEF OutboxInv, ItemsExist, ItemsAreThere, Dispatcher
    <3> DEFINE one == [disp[d] EXCEPT !.pc = "loop"]
               two == [disp[d] EXCEPT !.pc = "loop", !.batch = disp[d].batch]
    <3>2. one = two
      BY <1>0 DEF Dispatcher
    <3>3. DispStep(d, one)
      BY <2>2 DEF FetchFails
    <3> HIDE DEF one
    <3>4. DispStep(d, two)
      BY <3>2, <3>3
    <3> QED
      BY <3>1, <3>4
  <2> QED
    BY <2>1, <2>2
<1> DEFINE new == [disp[d] EXCEPT !.pc = "loop", !.batch = batch]
<1>3. new \in Dispatcher /\ new.pc = "loop" /\ new.batch = batch /\ new.phase = disp[d].phase
  BY <1>0 DEF Dispatcher
<1> HIDE DEF new
<1>4. DispStep(d, new) /\ disp'[d] = new
  BY <1>2 DEF DispStep, OutboxInv, TypeOK, new
<1>5. ItemsAreThere(d)'
  BY <1>1, <1>2, <1>3, <1>4 DEF ItemsAreThere, Working, At
<1>6. disp' \in [Dispatchers -> Dispatcher] /\ RowsFit' /\ ItemsExist'
  BY <1>1, <1>3, <1>4, <1>5, DispatcherMoves
<1>7. TypeOK'
  BY <1>1, <1>6 DEF OutboxInv, TypeOK
<1> QED
  BY <1>1, <1>6, <1>7 DEF OutboxInv

\* Settling a row, or failing to, takes it off the batch.
LEMMA SettleKeeps ==
  ASSUME OutboxInv, NEW d \in Dispatchers, NEW item \in disp[d].batch,
         Settle(d, item) \/ SettleFails(d, item)
  PROVE  OutboxInv' /\ RowsGrow
<1>0. disp[d] \in Dispatcher /\ rows \in Seq(Row) /\ Len(rows) <= MaxMessages
  BY DEF OutboxInv, TypeOK, RowsFit
<1>1. item \in Item /\ At(d, item) /\ disp[d].pc = "loop" /\ DispStep(d, Without(d, item))
  BY <1>0 DEF Settle, SettleFails, OutboxInv, ItemsExist, ItemsAreThere, Dispatcher
<1>2. UNCHANGED <<owner, hist, rejected>> /\ faults' \in 0 .. MaxFaults
  BY ConstantsAssumption DEF Settle, SettleFails, Fault, OutboxInv, TypeOK
<1>3. RowsGrow /\ Len(rows') = Len(rows)
  <2>1. CASE Settle(d, item)
    <3>1. PICK status \in Settled: UpdateMessageStatus(item.id, status, item.retry)
      BY <2>1 DEF Settle, Settled
    <3>2. item.id \in DOMAIN rows /\ item.retry \in 0 .. MaxRetry
      BY <1>1 DEF At, Item
    <3> QED
      BY <1>0, <3>1, <3>2, UpdateEffect DEF RowsGrow
  <2>2. CASE SettleFails(d, item)
    BY <1>0, <2>2 DEF SettleFails, RowsGrow
  <2> QED
    BY <2>1, <2>2
<1> DEFINE new == Without(d, item)
<1>4. /\ new \in Dispatcher /\ new.pc = "loop" /\ new.batch \subseteq disp[d].batch
      /\ new.phase = disp[d].phase
  BY <1>0, <1>1 DEF Without, Dispatcher
<1> HIDE DEF new
<1>5. DispStep(d, new) /\ disp'[d] = new
  BY <1>1 DEF DispStep, OutboxInv, TypeOK, new
<1>6. ItemsAreThere(d)'
  BY <1>3, <1>4, <1>5 DEF RowsGrow, OutboxInv, ItemsExist, ItemsAreThere, Working, At
<1>7. disp' \in [Dispatchers -> Dispatcher] /\ RowsFit' /\ ItemsExist'
  BY <1>3, <1>4, <1>5, <1>6, DispatcherMoves
<1>8. TypeOK'
  BY <1>2, <1>3, <1>7 DEF OutboxInv, TypeOK, RowsGrow
<1> QED
  BY <1>3, <1>7, <1>8 DEF OutboxInv

LEMMA AwaitLimiterKeeps ==
  ASSUME OutboxInv, NEW d \in Dispatchers, NEW item \in disp[d].batch, AwaitLimiter(d, item)
  PROVE  OutboxInv' /\ RowsGrow
<1>0. disp[d] \in Dispatcher /\ rows \in Seq(Row) /\ Len(rows) <= MaxMessages
  BY DEF OutboxInv, TypeOK, RowsFit
<1>1. item \in Item /\ At(d, item) /\ item.retry < MaxRetry
  BY <1>0, ConstantsAssumption DEF AwaitLimiter, Exhausted, Item, OutboxInv, ItemsExist,
     ItemsAreThere, Dispatcher
<1>2. UNCHANGED <<rows, owner, faults, hist, rejected>> /\ RowsGrow
  BY <1>0 DEF AwaitLimiter, RowsGrow
<1> DEFINE rest == Without(d, item)
           new == [rest EXCEPT !.pc = "send", !.item = item]
<1>3. rest \in Dispatcher /\ rest.batch \subseteq disp[d].batch /\ rest.phase = disp[d].phase
  BY <1>0 DEF Without, Dispatcher
<1>4. DispStep(d, new)
  BY DEF AwaitLimiter
<1> HIDE DEF rest
<1>5. /\ new \in Dispatcher /\ new.pc = "send" /\ new.item = item
      /\ new.batch = rest.batch /\ new.phase = rest.phase
  BY <1>1, <1>3 DEF Dispatcher
<1> HIDE DEF new
<1>6. disp'[d] = new
  BY <1>4 DEF DispStep, OutboxInv, TypeOK
<1>7. ItemsAreThere(d)'
  BY <1>1, <1>2, <1>3, <1>5, <1>6 DEF OutboxInv, ItemsExist, ItemsAreThere, Working, At
<1>8. disp' \in [Dispatchers -> Dispatcher] /\ RowsFit' /\ ItemsExist'
  BY <1>2, <1>4, <1>5, <1>7, DispatcherMoves
<1>9. TypeOK'
  BY <1>2, <1>8 DEF OutboxInv, TypeOK
<1> QED
  BY <1>2, <1>8, <1>9 DEF OutboxInv

LEMMA SendKeeps == ASSUME OutboxInv, NEW d \in Dispatchers, Send(d) PROVE OutboxInv' /\ RowsGrow
<1>0. disp[d] \in Dispatcher /\ rows \in Seq(Row) /\ Len(rows) <= MaxMessages
  BY DEF OutboxInv, TypeOK, RowsFit
<1>1. disp[d].item \in Item /\ At(d, disp[d].item) /\ disp[d].item.retry < MaxRetry
  BY DEF Send, OutboxInv, ItemsExist, ItemsAreThere, Working
<1>2. UNCHANGED <<rows, owner, faults>> /\ RowsGrow
  BY <1>0 DEF Send, RowsGrow
<1>3. hist' \in Seq(Hist) /\ Len(hist') = Len(rows)
  BY <1>1, SendCounts DEF OutboxInv, At
<1>4. rejected' \subseteq Tokens
  BY <1>1 DEF Send, At, OutboxInv, RowsFit, TypeOK
<1>5. PICK answer \in Answers: DispStep(d, [disp[d] EXCEPT !.pc = "update", !.answer = answer])
  BY DEF Send, Answers
<1> DEFINE new == [disp[d] EXCEPT !.pc = "update", !.answer = answer]
<1>6. /\ new \in Dispatcher /\ new.pc = "update" /\ new.answer = answer
      /\ new.batch = disp[d].batch /\ new.phase = disp[d].phase /\ new.item = disp[d].item
  BY <1>0 DEF Dispatcher
<1>7. DispStep(d, new)
  BY <1>5
<1> HIDE DEF new
<1>8. disp'[d] = new
  BY <1>7 DEF DispStep, OutboxInv, TypeOK
<1>9. ItemsAreThere(d)'
  BY <1>1, <1>2, <1>5, <1>6, <1>8 DEF OutboxInv, ItemsExist, ItemsAreThere, Working, At
<1>10. disp' \in [Dispatchers -> Dispatcher] /\ RowsFit' /\ ItemsExist'
  BY <1>2, <1>6, <1>7, <1>9, DispatcherMoves
<1>11. TypeOK'
  BY <1>2, <1>3, <1>4, <1>10 DEF OutboxInv, TypeOK, Hist
<1> QED
  BY <1>2, <1>10, <1>11 DEF OutboxInv

\* The row of a rejected token is gone, or not when the statement fails.
LEMMA DeleteTokenKeeps ==
  ASSUME OutboxInv, NEW d \in Dispatchers, DeleteUserTokenByFCMToken(d) \/ DeleteTokenFails(d)
  PROVE  OutboxInv' /\ RowsGrow
<1>0. disp[d] \in Dispatcher /\ rows \in Seq(Row) /\ Len(rows) <= MaxMessages
  BY DEF OutboxInv, TypeOK, RowsFit
<1>1. disp[d].pc = "update" /\ UNCHANGED <<rows, hist, rejected>> /\ RowsGrow
  BY <1>0 DEF DeleteUserTokenByFCMToken, DeleteTokenFails, Dropping, RowsGrow
<1>2. owner' \in [Tokens -> Users \cup {None}]
  BY DEF DeleteUserTokenByFCMToken, DeleteTokenFails, OutboxInv, TypeOK
<1>3. faults' \in 0 .. MaxFaults
  BY FaultsStayBounded DEF DeleteUserTokenByFCMToken, DeleteTokenFails, OutboxInv, TypeOK
<1> DEFINE new == [disp[d] EXCEPT !.answer = "permanent"]
<1>4. /\ new \in Dispatcher /\ new.pc = "update" /\ new.answer = "permanent"
      /\ new.batch = disp[d].batch /\ new.phase = disp[d].phase /\ new.item = disp[d].item
  BY <1>0, <1>1 DEF Dispatcher, Answers
<1>5. DispStep(d, new)
  BY DEF DeleteUserTokenByFCMToken, DeleteTokenFails
<1> HIDE DEF new
<1>6. disp'[d] = new
  BY <1>5 DEF DispStep, OutboxInv, TypeOK
<1>7. ItemsAreThere(d)'
  BY <1>1, <1>4, <1>6 DEF OutboxInv, ItemsExist, ItemsAreThere, Working, At, Answers
<1>8. disp' \in [Dispatchers -> Dispatcher] /\ RowsFit' /\ ItemsExist'
  BY <1>1, <1>4, <1>5, <1>7, DispatcherMoves
<1>9. TypeOK'
  BY <1>1, <1>2, <1>3, <1>8 DEF OutboxInv, TypeOK
<1> QED
  BY <1>1, <1>8, <1>9 DEF OutboxInv

\* What recording the answer writes.
LEMMA StatusAfterAnswer ==
  ASSUME NEW answer \in Answers
  PROVE  /\ StatusAfter(answer) \in Unsettled \cup Settled
         /\ StatusAfter(answer) = "SENT" <=> answer = "sent"
         /\ StatusAfter(answer) \in Unsettled <=> answer = "temporary"
BY DEF StatusAfter, Answers, Unsettled, Settled

LEMMA RecordKeeps ==
  ASSUME OutboxInv, NEW d \in Dispatchers,
        RecordAnswer(d) \/ RecordFails(d) PROVE OutboxInv' /\ RowsGrow
<1>0. disp[d] \in Dispatcher /\ rows \in Seq(Row) /\ Len(rows) <= MaxMessages
  BY DEF OutboxInv, TypeOK, RowsFit
<1>1. /\ disp[d].pc = "update" /\ disp[d].answer \in Answers
      /\ disp[d].item \in Item /\ At(d, disp[d].item) /\ disp[d].item.retry < MaxRetry
  BY DEF RecordAnswer, RecordFails, OutboxInv, ItemsExist, ItemsAreThere, Working
<1>2. UNCHANGED <<owner, rejected>> /\ faults' \in 0 .. MaxFaults /\ NextItem(d)
  BY FaultsStayBounded DEF RecordAnswer, RecordFails, OutboxInv, TypeOK
<1>3. RowsGrow /\ Len(rows') = Len(rows) /\ hist' \in Seq(Hist) /\ Len(hist') = Len(rows)
  <2>1. CASE RecordAnswer(d)
    <3> DEFINE item == disp[d].item  status == StatusAfter(disp[d].answer)
               retry == RetryAfter(disp[d].answer, item.retry)
    <3>1. UpdateMessageStatus(item.id, status, retry) /\ UNCHANGED hist
      BY <2>1 DEF RecordAnswer
    <3>2. item.id \in DOMAIN rows /\ retry \in 0 .. MaxRetry
      BY <1>1, ConstantsAssumption DEF At, Item, RetryAfter
    <3>3. status \in Unsettled \cup Settled
      BY <1>1, StatusAfterAnswer
    <3> HIDE DEF item, status, retry
    <3>4. RowsGrow /\ Len(rows') = Len(rows)
      BY <1>0, <3>1, <3>2, <3>3, UpdateEffect DEF RowsGrow
    <3> QED
      BY <3>1, <3>4 DEF OutboxInv, TypeOK, Hist
  <2>2. CASE RecordFails(d)
    <3>1. UNCHANGED rows /\ Forgotten(d)
      BY <2>2 DEF RecordFails
    <3> QED
      BY <1>0, <1>1, <3>1, ForgottenCounts DEF OutboxInv, RowsGrow, At
  <2> QED
    BY <2>1, <2>2
<1> DEFINE new == [disp[d] EXCEPT !.pc = "loop", !.item = None, !.answer = None]
<1>4. /\ new \in Dispatcher /\ new.pc = "loop" /\ new.batch = disp[d].batch
      /\ new.phase = disp[d].phase
  BY <1>0 DEF Dispatcher
<1>5. DispStep(d, new)
  BY <1>2 DEF NextItem
<1> HIDE DEF new
<1>6. disp'[d] = new
  BY <1>5 DEF DispStep, OutboxInv, TypeOK
<1>7. ItemsAreThere(d)'
  BY <1>3, <1>4, <1>6 DEF RowsGrow, OutboxInv, ItemsExist, ItemsAreThere, Working, At
<1>8. disp' \in [Dispatchers -> Dispatcher] /\ RowsFit' /\ ItemsExist'
  BY <1>3, <1>4, <1>5, <1>7, DispatcherMoves
<1>9. TypeOK'
  BY <1>2, <1>3, <1>8 DEF OutboxInv, TypeOK, RowsGrow, Hist
<1> QED
  BY <1>3, <1>8, <1>9 DEF OutboxInv

LEMMA CrashKeeps == ASSUME OutboxInv, NEW d \in Dispatchers, Crash(d) PROVE OutboxInv' /\ RowsGrow
<1>1. /\ UNCHANGED <<rows, owner, rejected>> /\ faults' \in 0 .. MaxFaults
      /\ Forgotten(d) /\ DispStep(d, Idle)
  BY FaultsStayBounded DEF Crash, OutboxInv
<1>2. RowsGrow
  BY <1>1 DEF OutboxInv, TypeOK, RowsFit, RowsGrow
<1>3. hist' \in Seq(Hist) /\ Len(hist') = Len(rows)
  BY <1>1, ForgottenCounts DEF OutboxInv, ItemsExist, ItemsAreThere, Working, At
<1>4. Idle \in Dispatcher
  BY DEF Idle, Dispatcher, Kinds
<1>5. disp'[d] = Idle
  BY <1>1 DEF DispStep, OutboxInv, TypeOK
<1>6. ItemsAreThere(d)'
  BY <1>5 DEF ItemsAreThere, Working, Idle
<1>7. disp' \in [Dispatchers -> Dispatcher] /\ RowsFit' /\ ItemsExist'
  BY <1>1, <1>2, <1>4, <1>6, DispatcherMoves
<1>8. TypeOK'
  BY <1>1, <1>3, <1>7 DEF OutboxInv, TypeOK, Hist
<1> QED
  BY <1>2, <1>7, <1>8 DEF OutboxInv

LEMMA OutboxStep == OutboxInv /\ [Next]_vars => OutboxInv'
<1> SUFFICES ASSUME OutboxInv, [Next]_vars PROVE OutboxInv'
  OBVIOUS
<1>1. CASE Request
  BY <1>1, RequestKeeps
<1>2. CASE Tick
  BY <1>2, TickKeeps
<1>3. ASSUME NEW d \in Dispatchers, Work(d) PROVE OutboxInv'
  BY <1>3, ExecuteKeeps, FetchKeeps, SendKeeps, DeleteTokenKeeps, RecordKeeps, SettleKeeps,
     AwaitLimiterKeeps DEF Work
<1>4. ASSUME NEW d \in Dispatchers, FaultOf(d) PROVE OutboxInv'
  BY <1>4, FetchKeeps, DeleteTokenKeeps, RecordKeeps, CrashKeeps, SettleKeeps DEF FaultOf
<1>5. CASE UNCHANGED vars
  BY <1>5 DEF vars, OutboxInv, TypeOK, RowsFit, ItemsExist, ItemsAreThere, At, Working
<1> QED
  BY <1>1, <1>2, <1>3, <1>4, <1>5 DEF Next

LEMMA OutboxInvariant == Spec => []OutboxInv
BY InitOutbox, OutboxStep, PTL DEF Spec

\* The outbox keeps its types, whatever interleaves, fails or crashes.
THEOREM TypeCorrect == Spec => []TypeOK
<1>1. OutboxInv => TypeOK
  BY DEF OutboxInv
<1> QED
  BY <1>1, OutboxInvariant, PTL

(***************************************************************************)
(* Rejected tokens, for any number of dispatchers.                         *)
(***************************************************************************)
Drops(d, t) == Dropping(d) /\ rows[disp[d].item.id].token = t

\* A dispatcher about to delete a token stays so until it moves.
LEMMA DropStays ==
  ASSUME OutboxInv, RowsGrow, NEW d \in Dispatchers, NEW t, Drops(d, t), disp'[d] = disp[d]
  PROVE  Drops(d, t)'
BY DEF Drops, Dropping, OutboxInv, ItemsExist, ItemsAreThere, Working, At, RowsGrow

\* Only the deletion and the faults move a dispatcher that is about to delete.
LEMMA DroppingMoves ==
  ASSUME OutboxInv, NEW d \in Dispatchers, Work(d), ~DeleteUserTokenByFCMToken(d) PROVE ~Dropping(d)
BY DEF Work, Dropping, Execute, Fetch, EndPhase, Send, RecordAnswer, Settle, AwaitLimiter

\* A step that changes no registration and rejects nothing, of a dispatcher that drops nothing.
LEMMA DropsOfOthersStay ==
  ASSUME OutboxInv, RejectedTokensAreDropped, RowsGrow, NEW d \in Dispatchers, ~Dropping(d),
         UNCHANGED <<owner, faults>>, rejected' \subseteq rejected,
         \A e \in Dispatchers \ {d}: disp'[e] = disp[e]
  PROVE  RejectedTokensAreDropped'
<1> SUFFICES ASSUME faults = 0, NEW t \in rejected, owner[t] # None
             PROVE  \E e \in Dispatchers: Drops(e, t)'
  BY DEF RejectedTokensAreDropped, Drops, Dropping
<1>1. PICK e \in Dispatchers: Drops(e, t)
  BY DEF RejectedTokensAreDropped, Drops
<1> QED
  BY <1>1, DropStays DEF Drops

\* A dispatcher that reports an unregistered token is about to delete it.
LEMMA SendDrops ==
  ASSUME OutboxInv, RejectedTokensAreDropped, NEW d \in Dispatchers, Send(d)
  PROVE  RejectedTokensAreDropped'
<1>0. disp[d] \in Dispatcher /\ ~Dropping(d)
  BY DEF OutboxInv, TypeOK, Send, Dropping
<1>1. UNCHANGED <<rows, owner, faults>> /\ RowsGrow /\ At(d, disp[d].item)
  BY DEF Send, RowsGrow, OutboxInv, TypeOK, RowsFit, ItemsExist, ItemsAreThere, Working
<1>2. \A e \in Dispatchers \ {d}: disp'[e] = disp[e]
  BY DEF Send, DispStep, OutboxInv, TypeOK
<1> DEFINE i == disp[d].item.id
<1>3. PICK outcome \in Answers \cup {"lost"}:
        /\ DispStep(d, [disp[d] EXCEPT !.pc = "update",
                           !.answer = IF outcome = "lost" THEN "temporary" ELSE outcome])
        /\ rejected' = IF outcome = "unregistered" /\ rows[i].kind = "user"
                       THEN rejected \cup {rows[i].token} ELSE rejected
  BY DEF Send
<1>4. CASE outcome = "unregistered" /\ rows[i].kind = "user"
  <2>1. rejected' = rejected \cup {rows[i].token}
    BY <1>3, <1>4
  <2>2. /\ disp'[d].pc = "update" /\ disp'[d].answer = "unregistered"
        /\ disp'[d].phase = "user" /\ disp'[d].item = disp[d].item
    BY <1>0, <1>1, <1>3, <1>4 DEF DispStep, OutboxInv, TypeOK, Dispatcher, At
  <2> SUFFICES ASSUME faults = 0, NEW t \in rejected', owner[t] # None
               PROVE  \E e \in Dispatchers: Drops(e, t)'
    BY <1>1 DEF RejectedTokensAreDropped, Drops, Dropping
  <2>4. CASE t = rows[i].token
    BY <1>1, <2>2, <2>4 DEF Drops, Dropping
  <2>5. CASE t # rows[i].token
    <3>1. PICK e \in Dispatchers: Drops(e, t)
      BY <2>1, <2>5 DEF RejectedTokensAreDropped, Drops
    <3> QED
      BY <1>0, <1>1, <1>2, <3>1, DropStays DEF Drops
  <2> QED
    BY <2>4, <2>5
<1>5. CASE ~(outcome = "unregistered" /\ rows[i].kind = "user")
  BY <1>0, <1>1, <1>2, <1>3, <1>5, DropsOfOthersStay
<1> QED
  BY <1>4, <1>5

LEMMA DeletionDrops ==
  ASSUME OutboxInv, RejectedTokensAreDropped, NEW d \in Dispatchers, DeleteUserTokenByFCMToken(d)
  PROVE  RejectedTokensAreDropped'
<1>1. UNCHANGED <<rows, faults, rejected>> /\ RowsGrow
  BY DEF DeleteUserTokenByFCMToken, RowsGrow, OutboxInv, TypeOK, RowsFit
<1>2. \A e \in Dispatchers \ {d}: disp'[e] = disp[e]
  BY DEF DeleteUserTokenByFCMToken, DispStep, OutboxInv, TypeOK
<1>3. owner' = [owner EXCEPT ![rows[disp[d].item.id].token] = None]
  BY DEF DeleteUserTokenByFCMToken
<1> SUFFICES ASSUME faults = 0, NEW t \in rejected, owner'[t] # None
             PROVE  \E e \in Dispatchers: Drops(e, t)'
  BY <1>1 DEF RejectedTokensAreDropped, Drops, Dropping
<1>4. t \in Tokens /\ t # rows[disp[d].item.id].token /\ owner[t] = owner'[t]
  BY <1>3 DEF OutboxInv, TypeOK
<1>5. PICK e \in Dispatchers: Drops(e, t)
  BY <1>4 DEF RejectedTokensAreDropped, Drops
<1>6. e # d
  BY <1>4, <1>5 DEF Drops
<1> QED
  BY <1>1, <1>2, <1>5, <1>6, DropStays

LEMMA RegistrationDrops ==
  ASSUME OutboxInv, RejectedTokensAreDropped, NEW u \in Users, NEW t \in Tokens, NEW new \in Tokens,
         RegisterUserToken(u, t) \/ UnregisterUserToken(u, t) \/ ReregisterUserToken(u, t, new)
  PROVE  RejectedTokensAreDropped'
<1>1. UNCHANGED <<rows, disp, faults>> /\ rejected' \subseteq rejected
  BY DEF RegisterUserToken, UnregisterUserToken, ReregisterUserToken
<1>2. \A s \in rejected': owner'[s] # None => owner[s] = owner'[s]
  BY DEF RegisterUserToken, UnregisterUserToken, ReregisterUserToken, OutboxInv, TypeOK
<1> QED
  BY <1>1, <1>2 DEF RejectedTokensAreDropped, Dropping

\* Whatever else a dispatcher does, it rejects nothing and leaves the registrations.
LEMMA WorkDrops ==
  ASSUME OutboxInv, RejectedTokensAreDropped, NEW d \in Dispatchers, Work(d)
  PROVE  RejectedTokensAreDropped'
<1>1. CASE Send(d) \/ DeleteUserTokenByFCMToken(d)
  BY <1>1, SendDrops, DeletionDrops
<1>2. CASE ~(Send(d) \/ DeleteUserTokenByFCMToken(d))
  <2>1. RowsGrow
    BY <1>2, ExecuteKeeps, FetchKeeps, RecordKeeps, SettleKeeps, AwaitLimiterKeeps DEF Work
  <2>2. UNCHANGED <<owner, faults, rejected>>
    BY <1>2 DEF Work, Execute, Fetch, EndPhase, RecordAnswer, Settle, AwaitLimiter
  <2>3. \A e \in Dispatchers \ {d}: disp'[e] = disp[e]
    BY <1>2 DEF Work, Execute, Fetch, EndPhase, RecordAnswer, Settle, AwaitLimiter, NextItem,
       DispStep, OutboxInv, TypeOK
  <2> QED
    BY <1>2, <2>1, <2>2, <2>3, DroppingMoves, DropsOfOthersStay
<1> QED
  BY <1>1, <1>2

LEMMA RejectedStep ==
  OutboxInv /\ RejectedTokensAreDropped /\ [Next]_vars => RejectedTokensAreDropped'
<1> SUFFICES ASSUME OutboxInv, RejectedTokensAreDropped, [Next]_vars PROVE RejectedTokensAreDropped'
  OBVIOUS
<1>1. CASE Request
  <2>1. CASE \E u \in Users: \E t, new \in Tokens:
               RegisterUserToken(u, t) \/ UnregisterUserToken(u, t) \/ ReregisterUserToken(u, t,
                     new)
    BY <2>1, RegistrationDrops
  <2>2. CASE SendTopic \/ \E u \in Users: SendToUser(u) \/ \E t \in Tokens: SendToDevice(u, t)
    <3>1. PICK new \in Seq(NewRows): Insert(new)
      BY <2>2, RequestsInsertNewRows DEF OutboxInv
    <3>2. RowsGrow /\ UNCHANGED <<owner, disp, faults, rejected>>
      BY <3>1, InsertEffect DEF Insert, OutboxInv, RowsGrow
    <3> QED
      BY <3>2, DropStays DEF RejectedTokensAreDropped, Drops
  <2> QED
    BY <1>1, <2>1, <2>2 DEF Request
<1>2. CASE Tick
  <2>1. RowsGrow /\ UNCHANGED <<owner, disp, faults, rejected>>
    BY <1>2, TickKeeps DEF Tick
  <2> QED
    BY <2>1, DropStays DEF RejectedTokensAreDropped, Drops
<1>3. ASSUME NEW d \in Dispatchers, Work(d) PROVE RejectedTokensAreDropped'
  BY <1>3, WorkDrops
<1>4. ASSUME NEW d \in Dispatchers, FaultOf(d) PROVE RejectedTokensAreDropped'
  <2>1. faults' > 0
    BY <1>4, FaultsStayBounded DEF FaultOf, FetchFails, DeleteTokenFails, RecordFails, Crash,
       SettleFails, OutboxInv
  <2> QED
    BY <2>1 DEF RejectedTokensAreDropped
<1>5. CASE UNCHANGED vars
  BY <1>5 DEF vars, RejectedTokensAreDropped, Dropping
<1> QED
  BY <1>1, <1>2, <1>3, <1>4, <1>5 DEF Next

\* As long as no statement fails and nothing crashes, a registered token that FCM
\* rejected has a dispatcher about to delete it, for any number of dispatchers.
THEOREM RejectedAreDropped == Spec => []RejectedTokensAreDropped
<1>1. Init => RejectedTokensAreDropped
  BY DEF Init, RejectedTokensAreDropped
<1> QED
  BY <1>1, RejectedStep, OutboxInvariant, PTL DEF Spec

(***************************************************************************)
(* SENT, for any number of dispatchers.                                    *)
(***************************************************************************)
\* A message is SENT only if FCM accepted it, ...
SentWasAccepted == \A i \in DOMAIN rows: rows[i].status = "SENT" => hist[i].accepted >= 1

\* ... which a dispatcher about to record it knows.
SentIsHeard(d) ==
  disp[d].pc = "update" /\ disp[d].answer = "sent" => hist[disp[d].item.id].accepted >= 1
SentInv == OutboxInv /\ SentWasAccepted /\ \A d \in Dispatchers: SentIsHeard(d)

\* What FCM has accepted stays accepted.
AcceptedStays ==
  \A i \in DOMAIN rows: /\ i \in DOMAIN rows'
                        /\ hist[i].accepted \in Nat /\ hist'[i].accepted \in Nat
                        /\ hist'[i].accepted >= hist[i].accepted

\* A step that makes no message SENT, and after which a dispatcher has heard of an
\* acceptance only if it had before.
LEMMA SentStays ==
  ASSUME SentInv, OutboxInv', AcceptedStays,
         \A i \in DOMAIN rows': rows'[i].status = "SENT" =>
           i \in DOMAIN rows /\ rows[i].status = "SENT",
         \A d \in Dispatchers: disp'[d].pc = "update" /\ disp'[d].answer = "sent" =>
           disp[d].pc = "update" /\ disp[d].answer = "sent" /\ disp'[d].item = disp[d].item
  PROVE  SentInv'
<1>1. SentWasAccepted'
  <2> SUFFICES ASSUME NEW i \in DOMAIN rows', rows'[i].status = "SENT"
               PROVE  hist'[i].accepted >= 1
    BY DEF SentWasAccepted
  <2> QED
    BY DEF SentInv, SentWasAccepted, AcceptedStays
<1>2. ASSUME NEW d \in Dispatchers PROVE SentIsHeard(d)'
  <2> SUFFICES ASSUME disp'[d].pc = "update", disp'[d].answer = "sent"
               PROVE  hist'[disp'[d].item.id].accepted >= 1
    BY DEF SentIsHeard
  <2>1. disp'[d].item = disp[d].item /\ disp[d].item.id \in DOMAIN rows
        /\ hist[disp[d].item.id].accepted >= 1
    BY DEF SentInv, SentIsHeard, OutboxInv, ItemsExist, ItemsAreThere, Working, At
  <2> QED
    BY <2>1 DEF AcceptedStays
<1> QED
  BY <1>1, <1>2 DEF SentInv

\* Histories hold numbers.
LEMMA AcceptedIsNumber ==
  ASSUME OutboxInv, NEW i \in DOMAIN rows PROVE i \in DOMAIN hist /\ hist[i].accepted \in Nat
<1>1. hist \in Seq(Hist) /\ i \in DOMAIN hist
  BY DEF OutboxInv, TypeOK, Hist
<1>2. hist[i] \in Hist
  BY <1>1
<1> QED
  BY <1>1, <1>2 DEF Hist

LEMMA SentRequest == ASSUME SentInv, Request \/ Tick PROVE SentInv'
<1>0. OutboxInv' /\ UNCHANGED disp /\ TypeOK
  BY RequestKeeps, TickKeeps DEF SentInv, OutboxInv, Tick
<1>1. CASE \/ UNCHANGED <<rows, hist>>
           \/ Tick
  <2>1. /\ UNCHANGED hist /\ DOMAIN rows' = DOMAIN rows
        /\ \A i \in DOMAIN rows: rows'[i].status = rows[i].status
    BY <1>0, <1>1, TickEffect DEF TypeOK, Tick
  <2> QED
    BY <1>0, <2>1, SentStays, AcceptedIsNumber DEF SentInv, AcceptedStays
<1>2. CASE SendTopic \/ \E u \in Users: SendToUser(u) \/ \E t \in Tokens: SendToDevice(u, t)
  <2>1. PICK new \in Seq(NewRows): Insert(new)
    BY <1>0, <1>2, RequestsInsertNewRows
  <2>2. /\ DOMAIN rows \subseteq DOMAIN rows'
        /\ \A i \in DOMAIN rows: rows'[i] = rows[i] /\ hist'[i] = hist[i]
        /\ \A i \in DOMAIN rows' \ DOMAIN rows: rows'[i].status # "SENT"
    BY <1>0, <2>1, InsertEffect, NewRowsFit
  <2> QED
    BY <1>0, <2>2, SentStays, AcceptedIsNumber DEF SentInv, AcceptedStays
<1>3. Tick \/ UNCHANGED <<rows, hist>>
      \/ SendTopic \/ \E u \in Users: SendToUser(u) \/ \E t \in Tokens: SendToDevice(u, t)
  BY DEF Request, RegisterUserToken, UnregisterUserToken, ReregisterUserToken
<1> QED
  BY <1>1, <1>2, <1>3

LEMMA SentSend == ASSUME SentInv, NEW d \in Dispatchers, Send(d) PROVE SentInv'
<1>0. OutboxInv' /\ TypeOK /\ UNCHANGED rows
  BY SendKeeps DEF SentInv, OutboxInv, Send
<1>1. disp[d].item.id \in DOMAIN rows
  BY DEF SentInv, OutboxInv, ItemsExist, ItemsAreThere, Working, At, Send
<1> DEFINE id == disp[d].item.id
<1>2. /\ \A j \in DOMAIN rows \ {id}: hist'[j] = hist[j]
      /\ hist'[id].accepted \in {hist[id].accepted, hist[id].accepted + 1}
      /\ disp'[d].answer = "sent" => hist'[id].accepted = hist[id].accepted + 1
  BY <1>0, <1>1, SendCounts
<1>3. AcceptedStays
  BY <1>0, <1>2, AcceptedIsNumber DEF SentInv, AcceptedStays
<1>4. disp'[d].item = disp[d].item /\ \A e \in Dispatchers \ {d}: disp'[e] = disp[e]
  BY <1>0 DEF Send, DispStep, TypeOK, Dispatcher
<1>5. SentWasAccepted'
  BY <1>0, <1>3 DEF SentInv, SentWasAccepted, AcceptedStays
<1>6. SentIsHeard(d)'
  BY <1>1, <1>2, <1>4, AcceptedIsNumber DEF SentInv, SentIsHeard
<1>7. ASSUME NEW e \in Dispatchers \ {d} PROVE SentIsHeard(e)'
  BY <1>3, <1>4 DEF SentInv, SentIsHeard, AcceptedStays, OutboxInv, ItemsExist, ItemsAreThere,
     Working, At
<1> QED
  BY <1>0, <1>5, <1>6, <1>7 DEF SentInv

\* An answer is recorded as SENT when it was heard.
LEMMA SentRecord == ASSUME SentInv, NEW d \in Dispatchers, RecordAnswer(d) PROVE SentInv'
<1>0. OutboxInv' /\ TypeOK /\ UNCHANGED hist /\ disp[d].pc = "update"
  BY RecordKeeps DEF SentInv, OutboxInv, RecordAnswer
<1>1. /\ disp[d].item \in Item /\ disp[d].item.id \in DOMAIN rows /\ disp[d].answer \in Answers
      /\ disp[d].item.retry < MaxRetry
  BY <1>0 DEF SentInv, OutboxInv, ItemsExist, ItemsAreThere, Working, At
<1> DEFINE item == disp[d].item  status == StatusAfter(disp[d].answer)
           retry == RetryAfter(disp[d].answer, item.retry)
<1>2. status \in Unsettled \cup Settled /\ retry \in 0 .. MaxRetry
      /\ (status = "SENT" <=> disp[d].answer = "sent")
  BY <1>1, StatusAfterAnswer, ConstantsAssumption DEF RetryAfter, Item
<1>3. UpdateMessageStatus(item.id, status, retry) /\ NextItem(d)
  BY DEF RecordAnswer
<1> HIDE DEF status, retry
<1>4. /\ DOMAIN rows' = DOMAIN rows /\ rows'[item.id].status = status
      /\ \A j \in DOMAIN rows \ {item.id}: rows'[j] = rows[j]
  BY <1>0, <1>1, <1>2, <1>3, UpdateEffect DEF TypeOK
<1>5. SentWasAccepted'
  BY <1>0, <1>1, <1>2, <1>4 DEF SentInv, SentWasAccepted, SentIsHeard
<1>6. disp'[d].pc = "loop" /\ \A e \in Dispatchers \ {d}: disp'[e] = disp[e]
  BY <1>0, <1>3 DEF NextItem, DispStep, TypeOK, Dispatcher
<1>7. \A e \in Dispatchers: SentIsHeard(e)'
  BY <1>0, <1>6 DEF SentInv, SentIsHeard
<1> QED
  BY <1>0, <1>5, <1>7 DEF SentInv

\* What is settled without a send is not SENT.
LEMMA SentSettle ==
  ASSUME SentInv, NEW d \in Dispatchers, NEW item \in disp[d].batch, Settle(d, item) PROVE SentInv'
<1>0. OutboxInv' /\ TypeOK /\ UNCHANGED hist /\ disp[d] \in Dispatcher
  BY SettleKeeps DEF SentInv, OutboxInv, Settle, TypeOK
<1>1. item.id \in DOMAIN rows /\ item.retry \in 0 .. MaxRetry
  BY <1>0 DEF SentInv, OutboxInv, ItemsExist, ItemsAreThere, At, Dispatcher, Item
<1>2. PICK status \in {"FAILED_PERMANENT", "EXPIRED"}:
        UpdateMessageStatus(item.id, status, item.retry)
  BY DEF Settle
<1>3. /\ DOMAIN rows' = DOMAIN rows /\ rows'[item.id].status = status
      /\ \A j \in DOMAIN rows \ {item.id}: rows'[j] = rows[j]
  BY <1>0, <1>1, <1>2, UpdateEffect DEF TypeOK, Settled
<1>4. disp'[d].pc = "loop" /\ \A e \in Dispatchers \ {d}: disp'[e] = disp[e]
  BY <1>0 DEF Settle, Without, DispStep, TypeOK, Dispatcher
<1> QED
  BY <1>0, <1>3, <1>4, SentStays, AcceptedIsNumber DEF SentInv, AcceptedStays

LEMMA SentForgotten ==
  ASSUME SentInv, NEW d \in Dispatchers, RecordFails(d) \/ Crash(d) PROVE SentInv'
<1>0. OutboxInv' /\ TypeOK /\ UNCHANGED rows /\ Forgotten(d) /\ disp[d] \in Dispatcher
  BY RecordKeeps, CrashKeeps DEF SentInv, OutboxInv, RecordFails, Crash, TypeOK
<1>1. disp[d].pc = "update" => disp[d].item.id \in DOMAIN rows
  BY DEF SentInv, OutboxInv, ItemsExist, ItemsAreThere, Working, At
<1>2. \A j \in DOMAIN rows: hist'[j] = hist[j] \/ hist'[j].accepted = hist[j].accepted
  BY <1>0, <1>1, ForgottenCounts
<1>3. disp'[d].pc # "update" /\ \A e \in Dispatchers \ {d}: disp'[e] = disp[e]
  <2>1. CASE RecordFails(d)
    BY <1>0, <2>1 DEF RecordFails, NextItem, DispStep, TypeOK, Dispatcher
  <2>2. CASE Crash(d)
    <3>1. Idle.pc = "idle"
      BY DEF Idle
    <3> QED
      BY <1>0, <2>2, <3>1 DEF Crash, DispStep, TypeOK
  <2> QED
    BY <2>1, <2>2
<1>4. AcceptedStays
  BY <1>0, <1>2, AcceptedIsNumber DEF SentInv, AcceptedStays
<1>5. \A e \in Dispatchers: disp'[e].pc = "update" /\ disp'[e].answer = "sent" =>
        disp[e].pc = "update" /\ disp[e].answer = "sent" /\ disp'[e].item = disp[e].item
  BY <1>3
<1>6. \A i \in DOMAIN rows': rows'[i].status = "SENT" =>
        i \in DOMAIN rows /\ rows[i].status = "SENT"
  BY <1>0
<1> QED
  BY <1>0, <1>4, <1>5, <1>6, SentStays

\* The other steps leave rows and histories alone, and hear nothing.
LEMMA SentQuiet ==
  ASSUME SentInv, NEW d \in Dispatchers,
         \/ Execute(d) \/ EndPhase(d) \/ Fetch(d) \/ FetchFails(d)
         \/ DeleteUserTokenByFCMToken(d) \/ DeleteTokenFails(d)
         \/ \E item \in disp[d].batch: AwaitLimiter(d, item) \/ SettleFails(d, item)
  PROVE  SentInv'
<1>0. TypeOK /\ UNCHANGED <<rows, hist>> /\ disp[d] \in Dispatcher
  BY DEF SentInv, OutboxInv, TypeOK, Execute, EndPhase, Fetch, FetchFails,
     DeleteUserTokenByFCMToken, DeleteTokenFails, AwaitLimiter, SettleFails
<1>1. OutboxInv'
  BY ExecuteKeeps, FetchKeeps, DeleteTokenKeeps, AwaitLimiterKeeps, SettleKeeps DEF SentInv
<1>2. \A e \in Dispatchers \ {d}: disp'[e] = disp[e]
  BY <1>0 DEF Execute, EndPhase, Fetch, FetchFails, DeleteUserTokenByFCMToken, DeleteTokenFails,
     AwaitLimiter, SettleFails, DispStep, TypeOK
<1>3. disp'[d].pc = "update" => disp'[d].answer # "sent"
  <2>1. CASE Execute(d) \/ EndPhase(d)
    BY <1>0, <2>1, StartEffect DEF DispStep, TypeOK
  <2>2. CASE Fetch(d) \/ FetchFails(d)
    BY <1>0, <2>2 DEF Fetch, FetchFails, DispStep, TypeOK, Dispatcher
  <2>3. CASE DeleteUserTokenByFCMToken(d) \/ DeleteTokenFails(d)
    BY <1>0, <2>3 DEF DeleteUserTokenByFCMToken, DeleteTokenFails, DispStep, TypeOK, Dispatcher
  <2>4. ASSUME NEW item \in disp[d].batch, AwaitLimiter(d, item) \/ SettleFails(d, item)
        PROVE  disp'[d].pc # "update"
    <3>1. PICK rest: rest = Without(d, item)
      OBVIOUS
    <3>2. disp[d].pc = "loop" /\ rest.pc = "loop" /\ rest \in Dispatcher
      BY <1>0, <2>4, <3>1 DEF AwaitLimiter, SettleFails, Without, Dispatcher
    <3>3. disp'[d] = rest \/ disp'[d] = [rest EXCEPT !.pc = "send", !.item = item]
      BY <1>0, <2>4, <3>1 DEF AwaitLimiter, SettleFails, DispStep, TypeOK
    <3> QED
      BY <3>2, <3>3 DEF Dispatcher
  <2> QED
    BY <2>1, <2>2, <2>3, <2>4
<1>4. \A e \in Dispatchers: disp'[e].pc = "update" /\ disp'[e].answer = "sent" =>
        disp[e].pc = "update" /\ disp[e].answer = "sent" /\ disp'[e].item = disp[e].item
  BY <1>2, <1>3
<1> QED
  BY <1>0, <1>1, <1>4, SentStays, AcceptedIsNumber DEF SentInv, AcceptedStays

\* However many dispatchers work on the same rows, fail or crash: a message is SENT
\* only if FCM has accepted it.
THEOREM SentMeansAccepted == Spec => []SentWasAccepted
<1>1. Init => SentInv
  BY InitOutbox DEF Init, SentInv, SentWasAccepted, SentIsHeard, Idle
<1>2. SentInv /\ [Next]_vars => SentInv'
  <2> SUFFICES ASSUME SentInv, [Next]_vars PROVE SentInv'
    OBVIOUS
  <2>1. ASSUME NEW d \in Dispatchers, Work(d) \/ FaultOf(d) PROVE SentInv'
    BY <2>1, SentSend, SentRecord, SentSettle, SentForgotten, SentQuiet DEF Work, FaultOf
  <2>2. CASE UNCHANGED vars
    <3>1. OutboxInv'
      BY <2>2, OutboxStep DEF SentInv
    <3>2. UNCHANGED <<rows, disp, hist>>
      BY <2>2 DEF vars
    <3> QED
      BY <3>1, <3>2 DEF SentInv, SentWasAccepted, SentIsHeard
  <2> QED
    BY <2>1, <2>2, SentRequest DEF Next
<1>3. SentInv => SentWasAccepted
  BY DEF SentInv
<1> QED
  BY <1>1, <1>2, <1>3, PTL DEF Spec

(***************************************************************************)
(* Messages, for one dispatcher.                                           *)
(***************************************************************************)
MessagesOf(d) == WorkIsCurrent(d) /\ \A i \in DOMAIN rows: SendsAreCounted(d, i)

\* The rows there are keep their status and count, and what was counted of them.
RowsStay ==
  /\ \A i \in DOMAIN rows: rows'[i].status = rows[i].status /\ rows'[i].retry = rows[i].retry
  /\ \A i \in DOMAIN rows: hist'[i] = hist[i]
  /\ \A i \in DOMAIN rows' \ DOMAIN rows: hist'[i] = [sends |-> 0, accepted |-> 0, lost |-> 0]

LEMMA RequestsKeepMessages ==
  ASSUME OutboxInv, RowsGrow, RowsStay, UNCHANGED disp, NEW d \in Dispatchers, MessagesOf(d)
  PROVE  MessagesOf(d)'
<1>1. WorkIsCurrent(d)'
  BY DEF MessagesOf, WorkIsCurrent, Current, Working, RowsStay, OutboxInv, ItemsExist,
     ItemsAreThere, At
<1>2. ASSUME NEW i \in DOMAIN rows PROVE SendsAreCounted(d, i)'
  BY DEF MessagesOf, SendsAreCounted, Answered, RowsStay
<1>3. ASSUME NEW i \in DOMAIN rows' \ DOMAIN rows PROVE SendsAreCounted(d, i)'
  <2>1. ~Answered(d, i)'
    BY DEF Answered, OutboxInv, ItemsExist, ItemsAreThere, Working, At
  <2>2. rows'[i].status = "PENDING" /\ rows'[i].retry = 0
    BY NewRowsFit DEF RowsGrow
  <2>3. hist'[i].sends = 0 /\ hist'[i].accepted = 0 /\ hist'[i].lost = 0
    BY DEF RowsStay
  <2> QED
    BY <2>1, <2>2, <2>3 DEF SendsAreCounted, Settled
<1> QED
  BY <1>1, <1>2, <1>3 DEF MessagesOf, RowsGrow

LEMMA CountsStay ==
  ASSUME NEW d \in Dispatchers, MessagesOf(d), UNCHANGED <<rows, hist>>,
         \A i \in DOMAIN rows: Answered(d, i)' <=> Answered(d, i),
         disp[d].pc = "update" => (disp'[d].answer = "sent" <=> disp[d].answer = "sent")
  PROVE  \A i \in DOMAIN rows': SendsAreCounted(d, i)'
<1> SUFFICES ASSUME NEW i \in DOMAIN rows PROVE SendsAreCounted(d, i)'
  OBVIOUS
<1>1. SendsAreCounted(d, i)
  BY DEF MessagesOf
<1>2. Answered(d, i) => disp[d].pc = "update"
  BY DEF Answered
<1>3. rows'[i] = rows[i] /\ hist'[i] = hist[i]
  OBVIOUS
<1> HIDE DEF Answered
<1> QED
  BY <1>1, <1>2, <1>3 DEF SendsAreCounted

\* The dispatcher starts, ends a kind, or selects rows: they are as it read them.
LEMMA FetchKeepsMessages ==
  ASSUME OutboxInv, NEW d \in Dispatchers, MessagesOf(d),
         Execute(d) \/ EndPhase(d) \/ Fetch(d) \/ FetchFails(d)
  PROVE  MessagesOf(d)'
<1>0. disp[d] \in Dispatcher
  BY DEF OutboxInv, TypeOK
<1>1. UNCHANGED <<rows, hist>> /\ disp[d].pc \in {"idle", "fetch", "loop"}
  BY DEF Execute, EndPhase, Fetch, FetchFails
<1>2. /\ disp'[d].pc \in {"idle", "fetch", "loop"}
      /\ \A item \in disp'[d].batch: Current(item)
  <2>1. CASE Execute(d) \/ EndPhase(d)
    <3>1. PICK new \in Dispatcher: /\ DispStep(d, new)
                                  /\ new.batch = {} /\ new.pc \in {"idle", "fetch"}
      BY <2>1, StartEffect
    <3>2. disp'[d] = new
      BY <3>1 DEF DispStep, OutboxInv, TypeOK
    <3> QED
      BY <3>1, <3>2
  <2>2. CASE Fetch(d)
    <3>1. PICK ids \in Batches(disp[d].phase):
            DispStep(d, [disp[d] EXCEPT !.pc = "loop",
                           !.batch = {[id |-> i, retry |-> rows[i].retry]: i \in ids}])
      BY <2>2 DEF Fetch
    <3> DEFINE batch == {[id |-> i, retry |-> rows[i].retry]: i \in ids}
    <3>2. ids \subseteq Due(disp[d].phase)
      BY <3>1 DEF Batches, kSubset
    <3>3. \A i \in ids: rows[i].status \in Unsettled
      BY <3>2 DEF Due
    <3>4. \A item \in batch: Current(item)
      BY <3>3 DEF Current
    <3> HIDE DEF batch
    <3>5. disp'[d].pc = "loop" /\ disp'[d].batch = batch
      BY <1>0, <3>1 DEF DispStep, OutboxInv, TypeOK, Dispatcher, batch
    <3> QED
      BY <3>4, <3>5
  <2>3. CASE FetchFails(d)
    <3>1. disp'[d].pc = "loop" /\ disp'[d].batch = disp[d].batch
      BY <1>0, <2>3 DEF FetchFails, DispStep, OutboxInv, TypeOK, Dispatcher
    <3> QED
      BY <3>1 DEF MessagesOf, WorkIsCurrent
  <2> QED
    BY <2>1, <2>2, <2>3
<1>3. WorkIsCurrent(d)'
  BY <1>1, <1>2 DEF WorkIsCurrent, Current, Working
<1>4. \A i \in DOMAIN rows': SendsAreCounted(d, i)'
  BY <1>1, <1>2, CountsStay DEF Answered
<1> QED
  BY <1>3, <1>4 DEF MessagesOf

\* Two items of a batch are of two rows.
LEMMA ItemsDiffer ==
  ASSUME OutboxInv, NEW d \in Dispatchers, WorkIsCurrent(d),
         NEW one \in disp[d].batch, NEW two \in disp[d].batch, one # two
  PROVE  one.id # two.id
<1>1. one \in Item /\ two \in Item
  BY DEF OutboxInv, TypeOK, Dispatcher
<1>2. one = [id |-> one.id, retry |-> one.retry] /\ two = [id |-> two.id, retry |-> two.retry]
  BY <1>1 DEF Item
<1> QED
  BY <1>2 DEF WorkIsCurrent, Current

LEMMA AwaitKeepsMessages ==
  ASSUME OutboxInv, NEW d \in Dispatchers, MessagesOf(d), NEW item \in disp[d].batch,
         AwaitLimiter(d, item) \/ SettleFails(d, item)
  PROVE  MessagesOf(d)'
<1>0. disp[d] \in Dispatcher
  BY DEF OutboxInv, TypeOK
<1>1. UNCHANGED <<rows, hist>> /\ disp[d].pc = "loop"
  BY DEF AwaitLimiter, SettleFails
<1> DEFINE rest == Without(d, item)
<1>2. rest \in Dispatcher /\ rest.batch = disp[d].batch \ {item} /\ rest.pc = "loop"
  BY <1>0, <1>1 DEF Without, Dispatcher
<1>3. \/ DispStep(d, rest)
      \/ DispStep(d, [rest EXCEPT !.pc = "send", !.item = item])
  BY DEF AwaitLimiter, SettleFails
<1> HIDE DEF rest
<1>4. /\ \/ disp'[d].pc = "loop"
         \/ disp'[d].pc = "send" /\ disp'[d].item = item
      /\ disp'[d].batch = disp[d].batch \ {item}
  <2> DEFINE sending == [rest EXCEPT !.pc = "send", !.item = item]
  <2>1. sending.pc = "send" /\ sending.item = item /\ sending.batch = disp[d].batch \ {item}
    BY <1>2 DEF Dispatcher
  <2> HIDE DEF sending
  <2>2. disp'[d] = rest \/ disp'[d] = sending
    BY <1>3 DEF DispStep, OutboxInv, TypeOK, sending
  <2> QED
    BY <1>2, <2>1, <2>2
<1>5. \A other \in disp'[d].batch: Current(other) /\ other.id # item.id
  BY <1>4, ItemsDiffer DEF MessagesOf, WorkIsCurrent
<1>6. Current(item)
  BY DEF MessagesOf, WorkIsCurrent
<1>7. WorkIsCurrent(d)'
  BY <1>1, <1>4, <1>5, <1>6 DEF WorkIsCurrent, Current, Working
<1>8. \A i \in DOMAIN rows': SendsAreCounted(d, i)'
  BY <1>1, <1>4, CountsStay DEF Answered
<1> QED
  BY <1>7, <1>8 DEF MessagesOf

\* A row that is written, and what is counted of it, is of no other item.
LEMMA OtherCountsStay ==
  ASSUME OutboxInv, NEW d \in Dispatchers, MessagesOf(d), NEW id \in DOMAIN rows,
         \A j \in DOMAIN rows \ {id}: rows'[j] = rows[j] /\ hist'[j] = hist[j],
         \A j \in DOMAIN rows \ {id}: ~Answered(d, j) /\ ~Answered(d, j)'
  PROVE  \A j \in DOMAIN rows \ {id}: SendsAreCounted(d, j)'
<1> SUFFICES ASSUME NEW j \in DOMAIN rows \ {id} PROVE SendsAreCounted(d, j)'
  OBVIOUS
<1>1. SendsAreCounted(d, j)
  BY DEF MessagesOf
<1>2. rows'[j] = rows[j] /\ hist'[j] = hist[j] /\ ~Answered(d, j) /\ ~Answered(d, j)'
  OBVIOUS
<1> HIDE DEF Answered
<1> QED
  BY <1>1, <1>2 DEF SendsAreCounted

LEMMA CountsAreNumbers ==
  ASSUME OutboxInv, NEW i \in DOMAIN rows
  PROVE  /\ hist[i].sends \in Nat /\ hist[i].accepted \in Nat /\ hist[i].lost \in Nat
         /\ rows[i].retry \in 0 .. MaxRetry /\ rows[i].status \in Unsettled \cup Settled
<1>1. rows \in Seq(Row) /\ hist \in Seq(Hist) /\ Len(hist) = Len(rows)
  BY DEF OutboxInv, TypeOK, Hist
<1>2. hist[i] \in Hist /\ rows[i] \in Row
  <2> HIDE DEF Hist, Row
  <2> QED
    BY <1>1
<1> QED
  BY <1>2 DEF Hist, Row

LEMMA SettleKeepsMessages ==
  ASSUME OutboxInv, NEW d \in Dispatchers, MessagesOf(d), NEW item \in disp[d].batch, Settle(d,
        item)
  PROVE  /\ MessagesOf(d)'
         /\ \A i \in DOMAIN rows: rows[i].status \in Settled => rows'[i].status = rows[i].status
<1>0. disp[d] \in Dispatcher /\ rows \in Seq(Row) /\ disp[d].pc = "loop" /\ UNCHANGED hist
  BY DEF OutboxInv, TypeOK, Settle
<1>1. item \in Item /\ item.id \in DOMAIN rows /\ Current(item)
  BY <1>0 DEF OutboxInv, ItemsExist, ItemsAreThere, At, Dispatcher, MessagesOf, WorkIsCurrent
<1>2. PICK status \in {"FAILED_PERMANENT", "EXPIRED"}: UpdateMessageStatus(item.id, status,
            item.retry)
  BY DEF Settle
<1>3. /\ DOMAIN rows' = DOMAIN rows /\ \A j \in DOMAIN rows \ {item.id}: rows'[j] = rows[j]
      /\ rows'[item.id].status = status
  BY <1>0, <1>1, <1>2, UpdateEffect DEF Item, Settled
<1>4. disp'[d].pc = "loop" /\ disp'[d].batch = disp[d].batch \ {item}
  BY <1>0 DEF Settle, Without, DispStep, OutboxInv, TypeOK, Dispatcher
<1>5. WorkIsCurrent(d)'
  <2> SUFFICES ASSUME NEW other \in disp'[d].batch PROVE Current(other)'
    BY <1>4 DEF WorkIsCurrent, Working
  <2>1. Current(other) /\ other.id # item.id /\ other.id \in DOMAIN rows
    BY <1>4, ItemsDiffer DEF MessagesOf, WorkIsCurrent, OutboxInv, ItemsExist, ItemsAreThere, At
  <2> QED
    BY <1>3, <2>1 DEF Current
<1>6. \A j \in DOMAIN rows \ {item.id}: SendsAreCounted(d, j)'
  BY <1>0, <1>1, <1>3, <1>4, OtherCountsStay DEF Answered
<1>7. SendsAreCounted(d, item.id)'
  <2>1. SendsAreCounted(d, item.id) /\ rows[item.id].status \in Unsettled
    BY <1>1 DEF MessagesOf, Current
  <2>2. ~Answered(d, item.id) /\ ~Answered(d, item.id)'
    BY <1>0, <1>4 DEF Answered
  <2>3. status \notin Unsettled /\ status # "SENT"
    BY DEF Unsettled
  <2> QED
    BY <1>0, <1>1, <1>3, <2>1, <2>2, <2>3, CountsAreNumbers, ConstantsAssumption DEF SendsAreCounted
<1>8. \A i \in DOMAIN rows: rows[i].status \in Settled => rows'[i].status = rows[i].status
  BY <1>1, <1>3 DEF Current, Settled, Unsettled
<1> QED
  BY <1>3, <1>5, <1>6, <1>7, <1>8 DEF MessagesOf

LEMMA SendKeepsMessages ==
  ASSUME OutboxInv, NEW d \in Dispatchers, MessagesOf(d), Send(d) PROVE MessagesOf(d)'
<1> DEFINE i == disp[d].item.id
<1>0. disp[d] \in Dispatcher /\ disp[d].pc = "send" /\ UNCHANGED rows
  BY DEF OutboxInv, TypeOK, Send
<1>1. i \in DOMAIN rows /\ Current(disp[d].item)
  BY <1>0 DEF OutboxInv, ItemsExist, ItemsAreThere, At, MessagesOf, WorkIsCurrent, Working
<1>2. PICK answer: DispStep(d, [disp[d] EXCEPT !.pc = "update", !.answer = answer])
  BY DEF Send
<1>3. disp'[d].pc = "update" /\ disp'[d].batch = disp[d].batch /\ disp'[d].item = disp[d].item
  BY <1>0, <1>2 DEF DispStep, OutboxInv, TypeOK, Dispatcher
<1>4. WorkIsCurrent(d)'
  BY <1>0, <1>3 DEF MessagesOf, WorkIsCurrent, Current, Working
<1>5. \A j \in DOMAIN rows \ {i}: SendsAreCounted(d, j)'
  BY <1>0, <1>1, <1>3, SendCounts, OtherCountsStay DEF Answered, OutboxInv
<1>6. SendsAreCounted(d, i) /\ ~Answered(d, i) /\ rows[i].status \in Unsettled
  BY <1>0, <1>1 DEF MessagesOf, Current, Answered
<1> DEFINE old == hist[i]  new == hist'[i]
<1>7. old.sends <= rows[i].retry + old.lost /\ old.accepted <= old.lost
  BY <1>6 DEF SendsAreCounted
<1>8. /\ new.sends = old.sends + 1
      /\ \/ disp'[d].answer = "sent" /\ new.accepted = old.accepted + 1 /\ new.lost = old.lost
         \/ disp'[d].answer # "sent" /\ new.accepted = old.accepted /\ new.lost = old.lost
         \/ /\ disp'[d].answer # "sent"
            /\ new.accepted = old.accepted + 1 /\ new.lost = old.lost + 1
  BY <1>1, SendCounts DEF OutboxInv
<1>9. ASSUME NEW k, k = i PROVE SendsAreCounted(d, k)'
  <2>1. Answered(d, k)' /\ rows'[k].status \in Unsettled /\ rows'[k].status \notin Settled
    BY <1>0, <1>3, <1>6, <1>9 DEF Answered, Unsettled, Settled
  <2>2. rows'[k].retry = rows[i].retry /\ hist'[k] = new
    BY <1>0, <1>9
  <2>3. /\ old.sends \in Nat /\ old.accepted \in Nat /\ old.lost \in Nat /\ rows[i].retry \in Nat
    BY <1>1, CountsAreNumbers
  <2> HIDE DEF old, new
  <2> QED
    BY <1>7, <1>8, <2>1, <2>2, <2>3 DEF SendsAreCounted, Unsettled, Settled
<1> QED
  BY <1>0, <1>4, <1>5, <1>9 DEF MessagesOf

\* A rejected token changes the answer, not what is counted.
LEMMA DeleteKeepsMessages ==
  ASSUME OutboxInv, NEW d \in Dispatchers, MessagesOf(d),
         DeleteUserTokenByFCMToken(d) \/ DeleteTokenFails(d)
  PROVE  MessagesOf(d)'
<1>0. /\ disp[d] \in Dispatcher /\ UNCHANGED <<rows, hist>>
      /\ disp[d].pc = "update" /\ disp[d].answer = "unregistered"
      /\ DispStep(d, [disp[d] EXCEPT !.answer = "permanent"])
  BY DEF OutboxInv, TypeOK, DeleteUserTokenByFCMToken, DeleteTokenFails, Dropping
<1>1. /\ disp'[d].pc = "update" /\ disp'[d].batch = disp[d].batch /\ disp'[d].item = disp[d].item
      /\ disp'[d].answer = "permanent"
  BY <1>0 DEF DispStep, OutboxInv, TypeOK, Dispatcher
<1>2. WorkIsCurrent(d)'
  BY <1>0, <1>1 DEF MessagesOf, WorkIsCurrent, Current, Working
<1>3. \A i \in DOMAIN rows': SendsAreCounted(d, i)'
  BY <1>0, <1>1, CountsStay DEF Answered
<1> QED
  BY <1>2, <1>3 DEF MessagesOf

\* Every answer settles the row or counts the retry.
LEMMA RecordKeepsMessages ==
  ASSUME OutboxInv, NEW d \in Dispatchers, MessagesOf(d), RecordAnswer(d)
  PROVE  /\ MessagesOf(d)'
         /\ \A i \in DOMAIN rows: rows[i].status \in Settled => rows'[i].status = rows[i].status
<1> DEFINE item == disp[d].item  answer == disp[d].answer
           status == StatusAfter(answer)  retry == RetryAfter(answer, item.retry)
<1>0. disp[d] \in Dispatcher /\ rows \in Seq(Row) /\ disp[d].pc = "update" /\ UNCHANGED hist
  BY DEF OutboxInv, TypeOK, RecordAnswer
<1>1. /\ item \in Item /\ item.id \in DOMAIN rows /\ item.retry < MaxRetry /\ answer \in Answers
      /\ Current(item) /\ \A other \in disp[d].batch: other.id # item.id
  BY <1>0 DEF OutboxInv, ItemsExist, ItemsAreThere, At, MessagesOf, WorkIsCurrent, Working
<1>2. UpdateMessageStatus(item.id, status, retry) /\ NextItem(d)
  BY DEF RecordAnswer
<1>3. item.retry \in Nat /\ retry \in 0 .. MaxRetry
  BY <1>1, ConstantsAssumption DEF Item, RetryAfter
<1>4. /\ status \in Unsettled \cup Settled
      /\ status = "SENT" <=> answer = "sent"
      /\ status \in Unsettled <=> answer = "temporary"
  BY <1>1, StatusAfterAnswer
<1>5. retry = IF answer = "temporary" THEN item.retry + 1 ELSE item.retry
  BY DEF RetryAfter
<1> HIDE DEF status, retry
<1>6. /\ DOMAIN rows' = DOMAIN rows /\ \A j \in DOMAIN rows \ {item.id}: rows'[j] = rows[j]
      /\ rows'[item.id].status = status
      /\ rows'[item.id].retry = IF status = "SENT" THEN rows[item.id].retry ELSE retry
  BY <1>0, <1>1, <1>2, <1>3, <1>4, UpdateEffect
<1>7. disp'[d].pc = "loop" /\ disp'[d].batch = disp[d].batch
  BY <1>0, <1>2 DEF NextItem, DispStep, OutboxInv, TypeOK, Dispatcher
<1>8. WorkIsCurrent(d)'
  <2> SUFFICES ASSUME NEW other \in disp'[d].batch PROVE Current(other)'
    BY <1>7 DEF WorkIsCurrent, Working
  <2>1. Current(other) /\ other.id # item.id /\ other.id \in DOMAIN rows
    BY <1>1, <1>7 DEF MessagesOf, WorkIsCurrent, OutboxInv, ItemsExist, ItemsAreThere, At
  <2> QED
    BY <1>6, <2>1 DEF Current
<1>9. \A j \in DOMAIN rows \ {item.id}: SendsAreCounted(d, j)'
  BY <1>0, <1>1, <1>6, <1>7, OtherCountsStay DEF Answered
<1>10. ASSUME NEW k, k = item.id PROVE SendsAreCounted(d, k)'
  <2> DEFINE h == hist[item.id]
  <2>1. SendsAreCounted(d, item.id) /\ Answered(d, item.id)
    BY <1>0, <1>1 DEF MessagesOf, Answered
  <2>2. /\ h.sends <= rows[item.id].retry + h.lost + 1 /\ h.accepted <= h.lost + 1
        /\ IF answer = "sent" THEN h.accepted >= 1 ELSE h.accepted <= h.lost
    BY <2>1 DEF SendsAreCounted
  <2>3. ~Answered(d, k)' /\ rows[item.id].retry = item.retry /\ hist'[k] = h
    BY <1>0, <1>1, <1>7, <1>10 DEF Answered, Current
  <2>4. h.sends \in Nat /\ h.accepted \in Nat /\ h.lost \in Nat
    BY <1>1, CountsAreNumbers
  <2>5. rows'[k].status = status /\ rows'[k].retry = IF status = "SENT" THEN item.retry ELSE retry
    BY <1>6, <1>10, <2>3
  <2>6. status = "SENT" => status \notin Unsettled
    BY DEF Unsettled
  <2> HIDE DEF h, item, answer
  <2>7. status \in Unsettled =>
          h.sends <= rows'[k].retry + h.lost /\ h.accepted <= h.lost
    BY <1>3, <1>4, <1>5, <2>2, <2>3, <2>4, <2>5, <2>6
  <2>8. h.sends <= MaxRetry + h.lost /\ h.accepted <= 1 + h.lost
    BY <1>1, <1>3, <2>2, <2>3, <2>4, ConstantsAssumption
  <2>9. status = "SENT" => h.accepted >= 1
    BY <1>4, <2>2
  <2> QED
    BY <2>3, <2>5, <2>7, <2>8, <2>9 DEF SendsAreCounted
<1>11. \A i \in DOMAIN rows: rows[i].status \in Settled => rows'[i].status = rows[i].status
  BY <1>1, <1>6 DEF Current, Settled, Unsettled
<1> QED
  BY <1>6, <1>8, <1>9, <1>10, <1>11 DEF MessagesOf

\* A forgotten answer is counted as a loss; its row is as it was.
LEMMA ForgottenKeepsMessages ==
  ASSUME OutboxInv, NEW d \in Dispatchers, MessagesOf(d), RecordFails(d) \/ Crash(d)
  PROVE  MessagesOf(d)'
<1>0. disp[d] \in Dispatcher /\ UNCHANGED rows /\ Forgotten(d)
  BY DEF OutboxInv, TypeOK, RecordFails, Crash
<1>1. /\ disp'[d].pc \in {"loop", "idle"}
      /\ disp'[d].batch = disp[d].batch \/ disp'[d].batch = {}
  <2>1. CASE RecordFails(d)
    BY <1>0, <2>1 DEF RecordFails, NextItem, DispStep, OutboxInv, TypeOK, Dispatcher
  <2>2. CASE Crash(d)
    BY <2>2 DEF Crash, DispStep, Idle, OutboxInv, TypeOK
  <2> QED
    BY <2>1, <2>2
<1>2. WorkIsCurrent(d)'
  BY <1>0, <1>1 DEF MessagesOf, WorkIsCurrent, Current, Working
<1>3. disp[d].pc = "update" => disp[d].item.id \in DOMAIN rows /\ Current(disp[d].item)
  BY DEF OutboxInv, ItemsExist, ItemsAreThere, At, MessagesOf, WorkIsCurrent, Working
<1>4. ASSUME NEW j \in DOMAIN rows PROVE SendsAreCounted(d, j)'
  <2>1. SendsAreCounted(d, j)
    BY DEF MessagesOf
  <2>2. rows'[j] = rows[j] /\ ~Answered(d, j)'
    BY <1>0, <1>1 DEF Answered
  <2>3. CASE ~Answered(d, j)
    <3>1. hist'[j] = hist[j]
      BY <1>0, <1>3, <2>3, ForgottenCounts DEF OutboxInv
    <3> HIDE DEF Answered
    <3> QED
      BY <2>1, <2>2, <2>3, <3>1 DEF SendsAreCounted
  <2>4. CASE Answered(d, j)
    <3> DEFINE old == hist[j]  new == hist'[j]
    <3>1. new.sends = old.sends /\ new.accepted = old.accepted /\ new.lost = old.lost + 1
      BY <1>0, <1>3, <2>4, ForgottenCounts DEF OutboxInv
    <3>2. rows[j].status \in Unsettled /\ rows[j].status \notin Settled /\ rows[j].status # "SENT"
      BY <1>3, <2>4 DEF Answered, Current, Unsettled, Settled
    <3>3. /\ old.sends <= rows[j].retry + old.lost + 1 /\ old.accepted <= old.lost + 1
      BY <2>1, <2>4 DEF SendsAreCounted
    <3>4. old.sends \in Nat /\ old.accepted \in Nat /\ old.lost \in Nat /\ rows[j].retry \in Nat
      BY CountsAreNumbers
    <3>5. new.sends <= rows[j].retry + new.lost /\ new.accepted <= new.lost
      <4> HIDE DEF old, new
      <4> QED
        BY <3>1, <3>3, <3>4
    <3> QED
      BY <2>2, <3>2, <3>5 DEF SendsAreCounted
  <2> QED
    BY <2>3, <2>4
<1> QED
  BY <1>0, <1>2, <1>4 DEF MessagesOf

SettledStay == \A i \in DOMAIN rows: rows[i].status \in Settled => rows'[i].status = rows[i].status

\* Requests and time: the dispatcher waits, the rows there keep what was counted.
LEMMA OthersKeepMessages ==
  ASSUME OutboxInv, NEW d \in Dispatchers, MessagesOf(d), Request \/ Tick
  PROVE  MessagesOf(d)' /\ SettledStay
<1>1. RowsGrow /\ RowsStay /\ UNCHANGED disp
  <2>1. CASE SendTopic \/ \E u \in Users: SendToUser(u) \/ \E t \in Tokens: SendToDevice(u, t)
    <3>1. PICK new \in Seq(NewRows): Insert(new)
      BY <2>1, RequestsInsertNewRows DEF OutboxInv
    <3> QED
      BY <3>1, InsertEffect DEF Insert, OutboxInv, RowsGrow, RowsStay
  <2>2. ASSUME NEW u \in Users, NEW t \in Tokens, NEW new \in Tokens,
               RegisterUserToken(u, t) \/ UnregisterUserToken(u, t) \/ ReregisterUserToken(u, t,
                     new)
        PROVE  RowsGrow /\ RowsStay /\ UNCHANGED disp
    <3>1. UNCHANGED <<rows, disp, hist>>
      BY <2>2 DEF RegisterUserToken, UnregisterUserToken, ReregisterUserToken
    <3> QED
      BY <3>1 DEF OutboxInv, TypeOK, RowsFit, RowsGrow, RowsStay
  <2>3. CASE Tick
    BY <2>3, TickKeeps, TickEffect DEF Tick, RowsStay, OutboxInv, TypeOK
  <2> QED
    BY <2>1, <2>2, <2>3 DEF Request
<1> QED
  BY <1>1, RequestsKeepMessages DEF RowsStay, SettledStay

LEMMA MessagesStep ==
  ASSUME NEW d, Dispatchers = {d}, OutboxInv, MessagesOf(d), [Next]_vars
  PROVE  MessagesOf(d)' /\ SettledStay
<1>0. d \in Dispatchers
  OBVIOUS
<1>1. CASE Request \/ Tick
  BY <1>0, <1>1, OthersKeepMessages
<1>2. CASE \E item \in disp[d].batch: Settle(d, item)
  BY <1>0, <1>2, SettleKeepsMessages DEF Settle, SettledStay
<1>3. CASE RecordAnswer(d)
  BY <1>0, <1>3, RecordKeepsMessages DEF SettledStay
<1>4. CASE Execute(d) \/ EndPhase(d) \/ Fetch(d) \/ FetchFails(d)
  <2>1. UNCHANGED rows
    BY <1>4 DEF Execute, EndPhase, Fetch, FetchFails
  <2> QED
    BY <1>0, <1>4, <2>1, FetchKeepsMessages DEF SettledStay
<1>5. CASE \E item \in disp[d].batch: AwaitLimiter(d, item) \/ SettleFails(d, item)
  <2>1. UNCHANGED rows
    BY <1>5 DEF AwaitLimiter, SettleFails
  <2> QED
    BY <1>0, <1>5, <2>1, AwaitKeepsMessages DEF SettledStay
<1>6. CASE Send(d) \/ DeleteUserTokenByFCMToken(d) \/ DeleteTokenFails(d) \/ RecordFails(d) \/ Crash(d)
  <2>1. UNCHANGED rows
    BY <1>6 DEF Send, DeleteUserTokenByFCMToken, DeleteTokenFails, RecordFails, Crash
  <2> QED
    BY <1>0, <1>6, <2>1, SendKeepsMessages, DeleteKeepsMessages,
       ForgottenKeepsMessages DEF SettledStay
<1>7. CASE UNCHANGED vars
  BY <1>7 DEF vars, MessagesOf, WorkIsCurrent, Current, Working, SendsAreCounted, Answered,
     SettledStay
<1> QED
  BY <1>1, <1>2, <1>3, <1>4, <1>5, <1>6, <1>7 DEF Next, Work, FaultOf

LEMMA MessagesInvariant == OneDispatcher => (Spec => []MessagesInv)
<1> SUFFICES ASSUME OneDispatcher PROVE Spec => []MessagesInv
  OBVIOUS
<1> DEFINE MessagesOfAll == \A d \in Dispatchers: MessagesOf(d)
<1>1. Init => MessagesOfAll
  BY DEF Init, MessagesOf, WorkIsCurrent, Working, Idle
<1>2. OutboxInv /\ MessagesOfAll /\ [Next]_vars => MessagesOfAll'
  BY MessagesStep DEF OneDispatcher
<1>3. OutboxInv /\ MessagesOfAll => MessagesInv
  BY DEF MessagesInv, MessagesOf
<1> HIDE DEF MessagesOfAll
<1> QED
  BY <1>1, <1>2, <1>3, OutboxInvariant, PTL DEF Spec

\* FCM accepts a message of one dispatcher once, and once more for each answer or
\* update that was lost, whatever crashes; what is marked SENT was accepted.
THEOREM AcceptedOncePerLoss == OneDispatcher => (Spec => []AcceptedOnce)
<1> SUFFICES ASSUME OneDispatcher PROVE Spec => []AcceptedOnce
  OBVIOUS
<1>1. MessagesInv => AcceptedOnce
  <2> SUFFICES ASSUME MessagesInv, NEW i \in DOMAIN rows
               PROVE  /\ hist[i].accepted <= 1 + hist[i].lost
                      /\ rows[i].status = "SENT" => hist[i].accepted >= 1
    BY DEF AcceptedOnce
  <2>1. PICK d \in Dispatchers: SendsAreCounted(d, i)
    BY DEF OneDispatcher, MessagesInv
  <2>2. hist[i].accepted \in Nat /\ hist[i].lost \in Nat
    BY CountsAreNumbers DEF MessagesInv
  <2>3. rows[i].status \in Unsettled \cup Settled
    BY CountsAreNumbers DEF MessagesInv
  <2> QED
    BY <2>1, <2>2, <2>3 DEF SendsAreCounted
<1> QED
  BY <1>1, MessagesInvariant, PTL

\* No message is sent more often than it may be retried, but for the losses.
THEOREM AttemptsAreBounded == OneDispatcher => (Spec => []AttemptsBoundedByLosses)
<1> SUFFICES ASSUME OneDispatcher PROVE Spec => []AttemptsBoundedByLosses
  OBVIOUS
<1>1. MessagesInv => AttemptsBoundedByLosses
  <2> SUFFICES ASSUME MessagesInv,
            NEW i \in DOMAIN rows PROVE hist[i].sends <= MaxRetry + hist[i].lost
    BY DEF AttemptsBoundedByLosses
  <2>1. PICK d \in Dispatchers: Dispatchers = {d} /\ SendsAreCounted(d, i)
    BY DEF OneDispatcher, MessagesInv
  <2>2. hist[i].sends \in Nat /\ hist[i].lost \in Nat /\ rows[i].retry \in 0 .. MaxRetry
    BY CountsAreNumbers DEF MessagesInv
  <2>3. rows[i].status \in Unsettled \cup Settled
    BY CountsAreNumbers DEF MessagesInv
  <2>4. Answered(d, i) => rows[i].retry < MaxRetry
    BY DEF Answered, MessagesInv, WorkIsCurrent, Working, Current, OutboxInv, ItemsExist,
       ItemsAreThere
  <2> QED
    BY <2>1, <2>2, <2>3, <2>4, ConstantsAssumption DEF SendsAreCounted
<1> QED
  BY <1>1, MessagesInvariant, PTL

\* One dispatcher never reopens a settled message.
THEOREM SettledStaysSettled == OneDispatcher => (Spec => SettledIsFinal)
<1> SUFFICES ASSUME OneDispatcher PROVE Spec => SettledIsFinal
  OBVIOUS
<1>1. MessagesInv /\ [Next]_vars => [SettledStay]_vars
  BY MessagesStep DEF OneDispatcher, MessagesInv, MessagesOf
<1> QED
  BY <1>1, MessagesInvariant, PTL DEF Spec, SettledIsFinal, SettledStay
================================================================================
