--------------------------- MODULE FormNumberProofs ---------------------------
(***************************************************************************)
(* Proofs about FormNumber, for any number of calls, months and numbers.   *)
(***************************************************************************)
EXTENDS FormNumber, TLAPS

LEMMA FollowingIsDate == \A d \in Date: Following(d) \in Date /\ Before(d, Following(d))
  BY ConstantsAssumption DEF Following, Date, Before

LEMMA BeforeIsTransitive ==
  \A d, e, f \in Date: Before(d, e) /\ Before(e, f) => Before(d, f)
  BY DEF Date, Before

LEMMA BeforeIsTotal == \A d, e \in Date: Before(d, e) \/ d = e \/ Before(e, d)
<1> SUFFICES ASSUME NEW d \in Date, NEW e \in Date, ~Before(d, e), ~Before(e, d)
             PROVE  d = e
  OBVIOUS
<1>1. d.year = e.year /\ d.month = e.month
  BY DEF Before, Date
<1> QED
  BY <1>1 DEF Date

\* The row the statement of a call leaves behind.
LEMMA CountedRow ==
  ASSUME TypeOK, NEW c \in Calls, CountOn(c)
  PROVE  /\ row' \in Row /\ row'.date = call[c].date /\ call[c].date \in Date
         /\ row' # None
         /\ Printed(row') \in Number
         /\ issued' = Append(issued, Printed(row'))
         /\ row = None => row'.seq = 1
         /\ row # None => row'.seq = NextSequence(call[c].date)
<1>1. call[c] \in [zone: Zones, date: Date]
  BY DEF TypeOK, CountOn
<1>2. row # None => row \in Row /\ NextSequence(call[c].date) \in Nat
  BY DEF TypeOK, NextSequence, Row
<1>3. row' = [date |-> call[c].date,
              seq  |-> IF row = None THEN 1 ELSE NextSequence(call[c].date)]
  BY DEF CountOn
<1>4. row' \in Row
  BY <1>1, <1>2, <1>3 DEF Row
<1>5. row' # None
  BY <1>4, NoneAssumption
<1>6. Printed(row') \in Number
  BY <1>4 DEF Printed, Number, Row
<1> QED
  BY <1>1, <1>3, <1>4, <1>5, <1>6 DEF CountOn

LEMMA TypeStep == ASSUME TypeOK, [Next]_vars PROVE TypeOK'
<1> USE DEF TypeOK
<1>1. CASE Tick
  BY <1>1, FollowingIsDate DEF Tick
<1>2. ASSUME NEW c \in Calls, NEW zone \in Zones, ReadClock(c, zone) PROVE TypeOK'
  BY <1>2, FollowingIsDate DEF ReadClock, DateIn
<1>3. ASSUME NEW c \in Calls, Upsert(c) \/ FailAfterUpsert(c) PROVE TypeOK'
  <2>1. CountOn(c)
    BY <1>3 DEF Upsert, FailAfterUpsert
  <2>2. issued' \in Seq(Number) /\ row' \in Row /\ issued' = Append(issued, Printed(row'))
    BY <2>1, CountedRow
  <2>3. lost' \subseteq DOMAIN issued'
    <3>1. lost' \subseteq lost \cup {Len(issued')}
      BY <1>3 DEF Upsert, FailAfterUpsert
    <3>2. Len(issued') = Len(issued) + 1
      BY <2>2
    <3> QED
      BY <2>2, <3>1, <3>2
  <2> QED
    BY <2>1, <2>2, <2>3 DEF CountOn
<1>4. ASSUME NEW c \in Calls, Fail(c) PROVE TypeOK'
  BY <1>4 DEF Fail
<1>5. CASE UNCHANGED vars
  BY <1>5 DEF vars
<1> QED
  BY <1>1, <1>2, <1>3, <1>4, <1>5 DEF Next

\* A number that is not among those handed out may be handed out.
LEMMA AppendFresh ==
  ASSUME NEW S, NEW s \in Seq(S), NEW n \in S, IsInjective(s), \A i \in DOMAIN s: s[i] # n
  PROVE  IsInjective(Append(s, n))
  BY DEF IsInjective

\* A step that hands out no number and leaves the row alone keeps NumberInv.
LEMMA QuietStep ==
  ASSUME NumberInv, TypeOK', UNCHANGED <<type, row, issued>>
  PROVE  NumberInv'
  BY DEF NumberInv, UniqueInOrder, UniqueNumbers, InOrder, Before, RowIsLast, Printed, Behind

\* The statement shows its row as the number it hands out, and in order the new
\* number lies beyond all earlier ones.
LEMMA CountingKeepsNumberInv ==
  ASSUME NumberInv, TypeOK', NEW c \in Calls, CountOn(c)
  PROVE  NumberInv'
<1> PICK n \in Number: n = Printed(row')
  BY CountedRow DEF NumberInv
<1>1. /\ TypeOK /\ row' \in Row /\ row' # None /\ issued' = Append(issued, n)
      /\ row'.date = call[c].date /\ call[c].date \in Date
      /\ issued \in Seq(Number) /\ type' = type
  BY CountedRow DEF NumberInv, TypeOK, CountOn
<1>2. n.date = IF type = "CONTINUOUS" THEN None ELSE row'.date
  BY DEF Printed
<1>3. n.seq = row'.seq
  BY DEF Printed
<1>4. RowIsLast'
  BY <1>1 DEF RowIsLast, Printed
<1>5. ASSUME InOrder' PROVE InOrder
  <2>1. \A i \in DOMAIN issued: i \in DOMAIN issued' /\ issued'[i] = issued[i]
    BY <1>1
  <2> QED
    BY <1>1, <1>5, <2>1 DEF InOrder, Before
<1>6. ASSUME InOrder', row # None, NEW i \in DOMAIN issued
      PROVE  issued[i] # n /\ Behind(issued[i])'
  <2>1. /\ Behind(issued[i]) /\ row \in Row /\ issued[i] \in Number
        /\ row'.seq = NextSequence(call[c].date) /\ RowIsLast
    BY <1>1, <1>5, <1>6, CountedRow DEF NumberInv, TypeOK
  <2>2. issued[i].seq \in Nat /\ row.seq \in Nat /\ row.date \in Date
    BY <2>1 DEF Number, Row
  <2>3. CASE type = "CONTINUOUS"
    <3>1. row'.seq = row.seq + 1
      BY <2>1, <2>3 DEF NextSequence
    <3>2. issued[i].date = None /\ issued[i].seq <= row.seq
      BY <2>1, <2>3 DEF Behind
    <3> QED
      BY <1>1, <1>3, <2>2, <2>3, <3>1, <3>2 DEF Behind
  <2>4. CASE type = "RESET_PER_MONTH"
    <3>1. n.date = row'.date
      BY <1>2, <2>4
    <3>2. ~Before(row'.date, row.date)
      <4>1. /\ issued'[Len(issued)] = issued[Len(issued)] /\ issued'[Len(issued) + 1] = n
            /\ Len(issued) \in DOMAIN issued' /\ Len(issued) + 1 \in DOMAIN issued'
        BY <1>1, <2>1 DEF RowIsLast
      <4>2. issued[Len(issued)].date = row.date
        BY <2>1, <2>4 DEF RowIsLast, Printed
      <4> QED
        BY <1>1, <1>6, <2>4, <3>1, <4>1, <4>2 DEF InOrder, Before
    <3>3. /\ issued[i].date \in Date
          /\ Before(issued[i].date,
                row.date) \/ (issued[i].date = row.date /\ issued[i].seq <= row.seq)
      BY <2>1, <2>4 DEF Behind
    <3>4. CASE row'.date = row.date
      <4>1. row'.seq = row.seq + 1
        BY <1>1, <2>1, <3>4 DEF NextSequence, SameMonth
      <4>2. Before(issued[i].date, row.date) => issued[i].date # row.date
        BY <2>2, <3>3 DEF Before, Date
      <4>3. issued[i].date = row.date => issued[i].seq < row'.seq
        BY <2>2, <3>3, <4>1, <4>2
      <4>4. issued[i].date # n.date \/ issued[i].seq # n.seq
        BY <1>3, <2>2, <3>1, <3>4, <4>1, <4>3
      <4>5. Behind(issued[i])'
        BY <1>1, <2>2, <2>4, <3>3, <3>4, <4>1, <4>3 DEF Behind, Before
      <4> QED
        BY <4>4, <4>5
    <3>5. CASE row'.date # row.date
      <4>1. Before(row.date, row'.date)
        BY <1>1, <2>2, <3>2, <3>5, BeforeIsTotal
      <4>2. Before(issued[i].date, row'.date)
        BY <1>1, <2>2, <3>3, <4>1, BeforeIsTransitive
      <4>3. issued[i].date # row'.date
        BY <1>1, <3>3, <4>2 DEF Before, Date
      <4>4. Behind(issued[i])'
        BY <1>1, <2>4, <3>3, <4>2 DEF Behind, Before
      <4> QED
        BY <3>1, <4>3, <4>4
    <3> QED
      BY <3>4, <3>5
  <2> QED
    BY <1>1, <2>3, <2>4, ConstantsAssumption DEF TypeOK
<1>7. ASSUME InOrder' PROVE \A i \in DOMAIN issued: issued[i] # n /\ Behind(issued[i])'
  <2>1. CASE row = None
    BY <2>1 DEF NumberInv
  <2>2. CASE row # None
    BY <1>6, <1>7, <2>2
  <2> QED
    BY <2>1, <2>2
<1>8. ASSUME InOrder' PROVE UniqueNumbers'
  BY <1>1, <1>5, <1>7, <1>8, AppendFresh DEF NumberInv, UniqueInOrder, UniqueNumbers
<1>9. Behind(n)'
  <2>1. row'.date \in Date /\ row'.seq \in Nat
    BY <1>1 DEF Row
  <2> QED
    BY <1>1, <1>2, <1>3, <2>1 DEF Behind
<1>10. ASSUME InOrder' PROVE \A i \in DOMAIN issued': Behind(issued[i])'
  <2>1. \A i \in DOMAIN issued': \/ i \in DOMAIN issued /\ issued'[i] = issued[i]
                                \/ issued'[i] = n
    BY <1>1
  <2> QED
    BY <1>7, <1>9, <1>10, <2>1 DEF Behind
<1> QED
  BY <1>1, <1>4, <1>8, <1>10 DEF NumberInv, UniqueInOrder

LEMMA NumberInvStep == ASSUME NumberInv, [Next]_vars PROVE NumberInv'
<1>0. TypeOK'
  BY TypeStep DEF NumberInv
<1>1. CASE Tick
  BY <1>0, <1>1, QuietStep DEF Tick
<1>2. ASSUME NEW c \in Calls, NEW zone \in Zones, ReadClock(c, zone) PROVE NumberInv'
  BY <1>0, <1>2, QuietStep DEF ReadClock
<1>3. ASSUME NEW c \in Calls, Upsert(c) \/ FailAfterUpsert(c) PROVE NumberInv'
  BY <1>0, <1>3, CountingKeepsNumberInv DEF Upsert, FailAfterUpsert
<1>4. ASSUME NEW c \in Calls, Fail(c) PROVE NumberInv'
  BY <1>0, <1>4, QuietStep DEF Fail
<1>5. CASE UNCHANGED vars
  BY <1>0, <1>5, QuietStep DEF vars
<1> QED
  BY <1>1, <1>2, <1>3, <1>4, <1>5 DEF Next

LEMMA NumberInvInit == Init => NumberInv
<1> SUFFICES ASSUME Init PROVE NumberInv
  OBVIOUS
<1>1. now \in Date
  BY ConstantsAssumption DEF Init, Date
<1>2. TypeOK
  <2>1. issued \in Seq(Number)
    BY DEF Init
  <2>2. call \in [Calls -> [zone: Zones, date: Date] \cup {None}]
    BY Zenon DEF Init
  <2> QED
    BY <1>1, <2>1, <2>2 DEF Init, TypeOK
<1>3. UniqueInOrder
  BY DEF Init, UniqueInOrder, UniqueNumbers, IsInjective
<1> QED
  BY <1>2, <1>3 DEF Init, NumberInv

LEMMA NumberInvHolds == Spec => []NumberInv
<1>1. NumberInv /\ [Next]_vars => NumberInv'
  BY NumberInvStep
<1> QED
  BY <1>1, NumberInvInit, PTL DEF Spec

\* Whatever the database, the timezones and the delays, numbers repeat only after
\* a statement of an earlier month ran behind one of a later month.
THEOREM NumbersInOrderAreUnique == Spec => []UniqueInOrder
<1>1. NumberInv => UniqueInOrder
  BY DEF NumberInv
<1> QED
  BY <1>1, NumberInvHolds, PTL

\* A continuous form never repeats a number.
THEOREM ContinuousNumbersAreUnique == FormTypes = {"CONTINUOUS"} => (Spec => []UniqueNumbers)
<1> SUFFICES ASSUME FormTypes = {"CONTINUOUS"} PROVE Spec => []UniqueNumbers
  OBVIOUS
<1>1. NumberInv => UniqueNumbers
  BY DEF NumberInv, UniqueInOrder, InOrder, TypeOK
<1> QED
  BY <1>1, NumberInvHolds, PTL

\* What the statement hands out, but for MariaDB's: number 1, or the one after the
\* number handed out last, which then shows the same month.
LEMMA CountsOn ==
  ASSUME NumberInv, Dialect # "MariaDB", NEW c \in Calls, CountOn(c)
  PROVE  \E n \in Number:
           /\ issued \in Seq(Number) /\ issued' = Append(issued, n)
           /\ \/ n.seq = 1
              \/ /\ issued # << >> /\ issued[Len(issued)].date = n.date
                 /\ n.seq = issued[Len(issued)].seq + 1
<1>1. /\ TypeOK /\ row' \in Row /\ Printed(row') \in Number
      /\ issued' = Append(issued, Printed(row')) /\ issued \in Seq(Number)
      /\ row = None => row'.seq = 1
      /\ row # None => row'.seq = NextSequence(call[c].date) /\ RowIsLast
      /\ row'.date = call[c].date /\ type' = type
  BY CountedRow DEF NumberInv, TypeOK, CountOn
<1>2. CASE row'.seq = 1
  BY <1>1, <1>2 DEF Printed
<1>3. CASE row'.seq # 1
  <2>1. /\ row # None /\ RowIsLast /\ row'.seq = row.seq + 1
        /\ type = "RESET_PER_MONTH" => row.date = row'.date
    BY <1>1, <1>3 DEF NextSequence, SameMonth
  <2>2. type \in {"CONTINUOUS", "RESET_PER_MONTH"}
    BY <1>1, ConstantsAssumption DEF TypeOK
  <2>3. Printed(row').date = Printed(row).date /\ Printed(row').seq = Printed(row).seq + 1
    BY <2>1, <2>2 DEF Printed
  <2>4. issued # << >> /\ issued[Len(issued)] = Printed(row)
    BY <2>1 DEF RowIsLast
  <2> QED
    BY <1>1, <2>3, <2>4
<1> QED
  BY <1>2, <1>3

\* Each number counted, given or lost, is number 1 or follows one counted before.
EachFollows ==
  \A i \in DOMAIN issued: issued[i].seq = 1 \/ \E j \in DOMAIN issued: Follows(i, j)

CountInv == NumberInv /\ MonthlyReset /\ EachFollows

LEMMA CountInvStep == ASSUME CountInv, [Next]_vars, Dialect # "MariaDB" PROVE CountInv'
<1>1. NumberInv /\ NumberInv'
  BY NumberInvStep DEF CountInv
<1>2. ASSUME NEW c \in Calls, CountOn(c) PROVE MonthlyReset' /\ EachFollows'
  <2> PICK n \in Number:
        /\ issued \in Seq(Number) /\ issued' = Append(issued, n)
        /\ \/ n.seq = 1
           \/ /\ issued # << >> /\ issued[Len(issued)].date = n.date
              /\ n.seq = issued[Len(issued)].seq + 1
    BY <1>1, <1>2, CountsOn
  <2>1. ASSUME NEW i \in DOMAIN issued'
        PROVE  \/ i \in DOMAIN issued /\ \A j \in 1..i: j \in DOMAIN issued /\ issued'[j] = issued[j]
               \/ i = Len(issued) + 1 /\ issued'[i] = n
                  /\ \A j \in 1..(i - 1): j \in DOMAIN issued /\ issued'[j] = issued[j]
    OBVIOUS
  <2>2. ASSUME type' = "RESET_PER_MONTH", NEW i \in DOMAIN issued', First(i)'
        PROVE  issued'[i].seq = 1
    <3>1. type = "RESET_PER_MONTH"
      BY <1>2, <2>2 DEF CountOn
    <3>2. CASE i \in DOMAIN issued
      <4>1. First(i)
        BY <2>1, <2>2, <3>2 DEF First
      <4> QED
        BY <2>1, <3>1, <3>2, <4>1 DEF CountInv, MonthlyReset
    <3>3. CASE i = Len(issued) + 1
      BY <2>1, <2>2, <3>3 DEF First
    <3> QED
      BY <2>1, <3>2, <3>3
  <2>3. ASSUME NEW i \in DOMAIN issued'
        PROVE  issued'[i].seq = 1 \/ \E j \in DOMAIN issued': Follows(i, j)'
    <3>1. CASE i \in DOMAIN issued
      <4>1. ASSUME NEW j \in DOMAIN issued, Follows(i, j)
            PROVE  j \in DOMAIN issued' /\ Follows(i, j)'
        BY <2>1, <3>1, <4>1 DEF Follows
      <4> QED
        BY <2>1, <3>1, <4>1 DEF CountInv, EachFollows
    <3>2. CASE i = Len(issued) + 1 /\ issued # << >>
      <4>1. Len(issued) \in 1..(i - 1) /\ Len(issued) \in DOMAIN issued'
        BY <3>2
      <4> QED
        BY <2>1, <3>2, <4>1 DEF Follows
    <3> QED
      BY <2>1, <3>1, <3>2
  <2> QED
    BY <2>2, <2>3 DEF MonthlyReset, EachFollows
<1>3. UNCHANGED <<type, issued>> => MonthlyReset' /\ EachFollows'
  <2> SUFFICES ASSUME UNCHANGED <<type, issued>> PROVE MonthlyReset' /\ EachFollows'
    OBVIOUS
  <2>1. MonthlyReset'
    BY DEF CountInv, MonthlyReset, First
  <2>2. EachFollows'
    BY DEF CountInv, EachFollows, Follows
  <2> QED
    BY <2>1, <2>2
<1>4. Tick \/ UNCHANGED vars => UNCHANGED <<type, issued>>
  BY DEF Tick, vars
<1>5. \A c \in Calls: Fail(c) => UNCHANGED <<type, issued>>
  BY DEF Fail
<1>6. \A c \in Calls, zone \in Zones: ReadClock(c, zone) => UNCHANGED <<type, issued>>
  BY DEF ReadClock
<1>7. MonthlyReset' /\ EachFollows'
  BY <1>2, <1>3, <1>4, <1>5, <1>6 DEF Next, Upsert, FailAfterUpsert
<1> QED
  BY <1>1, <1>7 DEF CountInv

LEMMA CountInvHolds == Dialect # "MariaDB" => (Spec => []CountInv)
<1> SUFFICES ASSUME Dialect # "MariaDB" PROVE Spec => []CountInv
  OBVIOUS
<1>1. Init => CountInv
  BY NumberInvInit DEF Init, CountInv, MonthlyReset, EachFollows
<1>2. CountInv /\ [Next]_vars => CountInv'
  BY CountInvStep
<1> QED
  BY <1>1, <1>2, PTL DEF Spec

\* On every database but MariaDB, whatever overlaps or is delayed: the first number
\* of a month is 1.
THEOREM MonthsCountFromOne == Dialect # "MariaDB" => (Spec => []MonthlyReset)
<1>1. CountInv => MonthlyReset
  BY DEF CountInv
<1> QED
  BY <1>1, CountInvHolds, PTL

\* On every database but MariaDB, a number that is missing among those given to
\* callers was lost with a call that failed behind its statement.
THEOREM OnlyFailuresSkipNumbers == Dialect # "MariaDB" => (Spec => []GapsAreFailures)
<1>1. CountInv => GapsAreFailures
  BY DEF CountInv, EachFollows, GapsAreFailures, Given
<1> QED
  BY <1>1, CountInvHolds, PTL

\* The counter and the calls keep their types.
THEOREM TypeCorrect == Spec => []TypeOK
<1>1. NumberInv => TypeOK
  BY DEF NumberInv
<1> QED
  BY <1>1, NumberInvHolds, PTL

(***************************************************************************)
(* Calls that do not overlap, all in one timezone.                         *)
(***************************************************************************)
OneAfterAnother == (\E c: Calls \subseteq {c}) /\ (\E zone: Zones \subseteq {zone})

\* No month comes after the one a later reading of the clock would give.
NotAfter(d, e) == ~Before(e, d)
ClockIsLast ==
  \A zone \in Zones:
    /\ row # None => NotAfter(row.date, DateIn(zone))
    /\ \A c \in Calls: call[c] # None => NotAfter(call[c].date, DateIn(zone))
CallsAreLate == \A c \in Calls: call[c] # None /\ row # None => NotAfter(row.date, call[c].date)
RowIsLatest ==
  type = "RESET_PER_MONTH" =>
    \A i \in DOMAIN issued: issued[i].date \in Date /\ NotAfter(issued[i].date, row.date)
OrderInv == NumberInv /\ ClockIsLast /\ CallsAreLate /\ RowIsLatest /\ InOrder

LEMMA NotAfterIsTransitive ==
  \A d, e, f \in Date: NotAfter(d, e) /\ NotAfter(e, f) => NotAfter(d, f)
BY DEF Date, Before, NotAfter

LEMMA NotAfterItself == \A d \in Date: NotAfter(d, d)
BY DEF Date, Before, NotAfter

\* The clock of a zone never goes back, whether a month begins in it a tick earlier
\* or not.
LEMMA ClockGoesOn ==
  ASSUME TypeOK, Tick, NEW zone
  PROVE  DateIn(zone) \in Date /\ DateIn(zone)' \in Date /\ NotAfter(DateIn(zone), DateIn(zone)')
<1>1. /\ now \in Date /\ Following(now) \in Date /\ eve \in BOOLEAN
      /\ NotAfter(now, Following(now))
      /\ NotAfter(now, now) /\ NotAfter(Following(now), Following(now))
  BY FollowingIsDate, NotAfterItself DEF TypeOK, Before, NotAfter, Date
<1>2. now' = IF eve THEN Following(now) ELSE now
  BY DEF Tick
<1>3. eve' <=> ~eve
  BY DEF Tick
<1> QED
  BY <1>1, <1>2, <1>3 DEF DateIn

LEMMA TickKeepsOrder == ASSUME OrderInv, Tick PROVE OrderInv'
<1>1. UNCHANGED <<type, row, call, issued>> /\ TypeOK /\ NumberInv'
  BY NumberInvStep DEF OrderInv, NumberInv, Tick, Next
<1>2. /\ row # None => row.date \in Date
      /\ \A c \in Calls: call[c] # None => call[c].date \in Date
  BY <1>1 DEF TypeOK, Row
<1>3. ClockIsLast'
  BY <1>1, <1>2, ClockGoesOn, NotAfterIsTransitive DEF OrderInv, ClockIsLast
<1> QED
  BY <1>1, <1>3 DEF OrderInv, CallsAreLate, RowIsLatest, InOrder, NotAfter, Before

LEMMA ReadKeepsOrder ==
  ASSUME OneAfterAnother, OrderInv, NEW c \in Calls, NEW zone \in Zones, ReadClock(c, zone)
  PROVE  OrderInv'
<1>1. UNCHANGED <<now, eve, type, row, issued>> /\ TypeOK /\ NumberInv'
  BY NumberInvStep DEF OrderInv, NumberInv, ReadClock, Next
<1>2. DateIn(zone) \in Date
  BY <1>1, FollowingIsDate DEF TypeOK, DateIn
<1>3. call'[c].date = DateIn(zone)
  BY <1>1 DEF ReadClock, TypeOK
<1>4. Calls = {c} /\ Zones = {zone} /\ DateIn(zone)' = DateIn(zone)
  BY <1>1 DEF OneAfterAnother, DateIn
<1>5. ClockIsLast' /\ CallsAreLate'
  BY <1>1, <1>2, <1>3, <1>4, NotAfterItself DEF OrderInv, ClockIsLast, CallsAreLate
<1> QED
  BY <1>1, <1>5 DEF OrderInv, RowIsLatest, InOrder, NotAfter, Before

LEMMA UpsertKeepsOrder ==
  ASSUME OneAfterAnother, OrderInv, NEW c \in Calls, Upsert(c) \/ FailAfterUpsert(c) PROVE OrderInv'
<1>0. CountOn(c)
  BY DEF Upsert, FailAfterUpsert
<1>1. NumberInv' /\ UNCHANGED <<now, eve, type>> /\ Calls = {c} /\ call'[c] = None
  BY <1>0, NumberInvStep DEF OneAfterAnother, OrderInv, NumberInv, TypeOK, CountOn, Next
<1>2. /\ row'.date = call[c].date /\ call[c].date \in Date /\ row' # None
      /\ issued' = Append(issued, Printed(row')) /\ issued \in Seq(Number)
      /\ Printed(row') \in Number
      /\ row # None => row.date \in Date /\ NotAfter(row.date, call[c].date)
      /\ row = None => issued = << >>
  BY <1>0, CountedRow DEF OrderInv, NumberInv, TypeOK, CallsAreLate, Row, CountOn
<1>3. ClockIsLast' /\ CallsAreLate'
  BY <1>0, <1>1, <1>2 DEF OrderInv, ClockIsLast, CallsAreLate, DateIn, CountOn
<1>4. ASSUME type = "RESET_PER_MONTH"
      PROVE  /\ \A i \in DOMAIN issued': \/ issued'[i].date = row'.date
                                         \/ i \in DOMAIN issued /\ issued'[i] = issued[i]
             /\ \A i \in DOMAIN issued:
                  issued[i].date \in Date /\ NotAfter(issued[i].date, row'.date)
  <2>1. Printed(row').date = row'.date
    BY <1>1, <1>4 DEF Printed
  <2>2. \A i \in DOMAIN issued': \/ issued'[i] = Printed(row')
                                 \/ i \in DOMAIN issued /\ issued'[i] = issued[i]
    BY <1>2
  <2>3. \A i \in DOMAIN issued: issued[i].date \in Date /\ NotAfter(issued[i].date, row.date)
    BY <1>4 DEF OrderInv, RowIsLatest
  <2>4. DOMAIN issued # {} => row # None
    BY <1>2
  <2> QED
    BY <1>2, <2>1, <2>2, <2>3, <2>4, NotAfterIsTransitive
<1>5. RowIsLatest'
  BY <1>1, <1>2, <1>4, NotAfterItself DEF RowIsLatest
<1>6. InOrder'
  <2> SUFFICES ASSUME type = "RESET_PER_MONTH", NEW i \in DOMAIN issued',
                      NEW j \in DOMAIN issued', i < j
               PROVE  NotAfter(issued'[i].date, issued'[j].date)
    BY <1>1 DEF InOrder, NotAfter, Before
  <2>1. CASE j \in DOMAIN issued /\ issued'[j] = issued[j]
    <3>1. i \in DOMAIN issued /\ issued'[i] = issued[i]
      BY <1>2, <2>1
    <3> QED
      BY <2>1, <3>1 DEF OrderInv, InOrder, NotAfter
  <2>2. CASE issued'[j].date = row'.date
    BY <1>2, <1>4, <2>2, NotAfterItself
  <2> QED
    BY <1>4, <2>1, <2>2
<1> QED
  BY <1>1, <1>3, <1>5, <1>6 DEF OrderInv

\* Where calls follow one another in one timezone, whatever the database and however
\* long a call takes or fails, no number is handed out twice: a repetition takes two
\* calls that overlap or two timezones.
THEOREM SerialNumbersAreUnique == OneAfterAnother => (Spec => []UniqueNumbers)
<1> SUFFICES ASSUME OneAfterAnother PROVE Spec => []UniqueNumbers
  OBVIOUS
<1>1. Init => OrderInv
  BY NumberInvInit DEF Init, OrderInv, ClockIsLast, CallsAreLate, RowIsLatest, InOrder
<1>2. OrderInv /\ [Next]_vars => OrderInv'
  <2> SUFFICES ASSUME OrderInv, [Next]_vars PROVE OrderInv'
    OBVIOUS
  <2>1. ASSUME NEW c \in Calls, Fail(c) PROVE OrderInv'
    <3>1. NumberInv' /\ UNCHANGED <<now, eve, type, row, issued>>
      BY <2>1, NumberInvStep DEF OrderInv, Fail
    <3>2. \A b \in Calls: call'[b] # None => call'[b] = call[b]
      BY <2>1 DEF Fail, OrderInv, NumberInv, TypeOK
    <3> QED
      BY <3>1, <3>2 DEF OrderInv, ClockIsLast, CallsAreLate, RowIsLatest, InOrder, DateIn,
         NotAfter, Before
  <2>2. CASE UNCHANGED vars
    <3>1. NumberInv' /\ UNCHANGED <<now, eve, type, row, call, issued>>
      BY <2>2, NumberInvStep DEF OrderInv, vars
    <3> QED
      BY <3>1 DEF OrderInv, ClockIsLast, CallsAreLate, RowIsLatest, InOrder, DateIn,
         NotAfter, Before
  <2> QED
    BY <2>1, <2>2, TickKeepsOrder, ReadKeepsOrder, UpsertKeepsOrder DEF Next
<1>3. OrderInv => UniqueNumbers
  BY DEF OrderInv, NumberInv, UniqueInOrder
<1> QED
  BY <1>1, <1>2, <1>3, PTL DEF Spec
===============================================================================
