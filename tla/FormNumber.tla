------------------------------ MODULE FormNumber ------------------------------
(***************************************************************************)
(* module/form_number_management: the numbers of one form.  A call of      *)
(* Generate reads the clock in the timezone its caller asks for, and later *)
(* runs one statement that inserts or updates the form's row; the database *)
(* runs these statements one at a time.                                    *)
(*                                                                         *)
(* A number is the pair of the month it is printed with and its sequence.  *)
(* The digits of the template are left out.                                *)
(***************************************************************************)
EXTENDS Naturals, Sequences, Functions

CONSTANTS
  Calls,          \* calls of Generate in flight at the same time
  Zones,          \* timezones the callers pass
  Ahead,          \* those in which a month begins one tick earlier
  FormTypes,      \* the types the form may be created with
  Dialect,        \* the database, hence the statement
  MonthsPerYear,  \* 12
  MaxYears,       \* bound on the clock
  MaxIssued,      \* bound on the numbers of a behaviour
  None

Dialects == {"PostgreSQL", "Oracle", "SQLServer", "MariaDB"}

ASSUME ConstantsAssumption ==
  /\ Ahead \subseteq Zones
  /\ FormTypes \subseteq {"CONTINUOUS", "RESET_PER_MONTH"}
  /\ Dialect \in Dialects
  /\ MonthsPerYear \in Nat \ {0}
  /\ MaxYears \in Nat
  /\ MaxIssued \in Nat

VARIABLES
  now,     \* the month in the zones that are not ahead
  eve,     \* the tick in which the zones ahead are in the next month already
  type,    \* the form's type, a column of its row that no handler changes
  row,     \* the other columns of the row in form_number_counters, or None
  call,    \* call[c]: the date Generate read, or None
  issued,  \* history: the numbers the database counted, in that order, those of
           \* calls that fail afterwards included
  lost     \* history: the positions in issued of the numbers no caller was given

vars == <<now, eve, type, row, call, issued, lost>>

Date   == [year: Nat, month: 1..MonthsPerYear]
Row    == [date: Date, seq: Nat]
Number == [date: Date \cup {None}, seq: Nat]

\* A missing row, or a call that has not begun, is told from one that is there.
ASSUME NoneAssumption == None \notin Row \cup Date \cup [zone: Zones, date: Date]

TypeOK ==
  /\ now \in Date
  /\ eve \in BOOLEAN
  /\ type \in FormTypes
  /\ row \in Row \cup {None}
  /\ call \in [Calls -> [zone: Zones, date: Date] \cup {None}]
  /\ issued \in Seq(Number)
  /\ lost \subseteq DOMAIN issued

Init ==
  /\ now = [year |-> 0, month |-> 1]
  /\ eve = FALSE
  /\ type \in FormTypes
  /\ row = None
  /\ call = [c \in Calls |-> None]
  /\ issued = << >>
  /\ lost = {}

Following(date) ==
  IF date.month < MonthsPerYear
  THEN [date EXCEPT !.month = @ + 1]
  ELSE [year |-> date.year + 1, month |-> 1]

\* time.Now().In(loc)
DateIn(zone) == IF eve /\ zone \in Ahead THEN Following(now) ELSE now

Tick ==
  /\ IF eve THEN now' = Following(now) ELSE now' = now
  /\ now'.year < MaxYears
  /\ eve' = ~eve
  /\ UNCHANGED <<type, row, call, issued, lost>>

\* The first half of Generate: the clock is read.
ReadClock(c, zone) ==
  /\ call[c] = None
  /\ call' = [call EXCEPT ![c] = [zone |-> zone, date |-> DateIn(zone)]]
  /\ UNCHANGED <<now, eve, type, row, issued, lost>>

\* Faulty variant: the statement compares the months and not the years.
SameMonthOfAnyYear(date) == row.date.month = date.month

\* What the statement compares with the date.  MariaDB assigns from left to
\* right, so its CASE reads the columns that were just set.
SameMonth(date) == IF Dialect = "MariaDB" THEN TRUE ELSE row.date = date

\* Faulty variant: the row is reset whatever its type.
NextSequenceResets(date) == IF SameMonth(date) THEN row.seq + 1 ELSE 1

\* Faulty variant: THEN and ELSE of the inner CASE are swapped.
NextSequenceSwapped(date) ==
  IF type = "RESET_PER_MONTH" /\ SameMonth(date) THEN 1 ELSE row.seq + 1

\* Faulty variant: the statement is sent again when its answer is slow, and the
\* number of the first sending is dropped.
NextSequenceSentTwice(date) ==
  IF type = "RESET_PER_MONTH" /\ ~SameMonth(date) THEN 1 ELSE row.seq + 2

\* CASE of the four statements.
NextSequence(date) ==
  IF type = "RESET_PER_MONTH" /\ ~SameMonth(date) THEN 1 ELSE row.seq + 1

\* The number as it is printed: a continuous one shows no month.  (A monthly one
\* shows the year modulo 100; a behaviour is taken to last less than a century.)
Printed(r) == [date |-> IF type = "CONTINUOUS" THEN None ELSE r.date, seq |-> r.seq]

\* The statement, which commits by itself and returns the row.
CountOn(c) ==
  /\ call[c] # None
  /\ Len(issued) < MaxIssued
  /\ row' = [date |-> call[c].date,
             seq  |-> IF row = None THEN 1 ELSE NextSequence(call[c].date)]
  /\ issued' = Append(issued, Printed(row'))
  /\ call' = [call EXCEPT ![c] = None]
  /\ UNCHANGED <<now, eve, type>>

\* The second half of Generate: the statement's row is printed and returned.
Upsert(c) == CountOn(c) /\ UNCHANGED lost

\* The statement has run, and Generate returns an error all the same: the answer
\* does not arrive, is empty, or one of its columns is not of the expected type.
\* Nothing takes the row back.
FailAfterUpsert(c) == CountOn(c) /\ lost' = lost \cup {Len(issued')}

\* The statement fails, or its context is cancelled before it runs.
Fail(c) ==
  /\ call[c] # None
  /\ call' = [call EXCEPT ![c] = None]
  /\ UNCHANGED <<now, eve, type, row, issued, lost>>

Next ==
  \/ Tick
  \/ \E c \in Calls: \/ \E zone \in Zones: ReadClock(c, zone)
                     \/ Upsert(c)
                     \/ FailAfterUpsert(c)
                     \/ Fail(c)

Spec == Init /\ [][Next]_vars

(***************************************************************************)
(* Properties.                                                             *)
(***************************************************************************)
\* "Generate creates a new form number": no number is counted twice, and so none
\* given to two callers, however the calls overlap and whatever months they fall in.
UniqueNumbers == IsInjective(issued)

\* What is true of it: numbers repeat only when a statement dated in one month
\* runs after a statement dated in a later one, because it was delayed or because
\* its caller lives in another timezone.  A continuous form never repeats one.
Before(d, e) == d.year < e.year \/ (d.year = e.year /\ d.month < e.month)
InOrder ==
  type = "RESET_PER_MONTH" =>
    \A i, j \in DOMAIN issued: i < j => ~Before(issued[j].date, issued[i].date)
UniqueInOrder == InOrder => UniqueNumbers

\* "with automatic monthly reset": the first number a month is printed with is
\* number 1, even when months come out of order.
First(i) == \A j \in 1..(i - 1): issued[j].date # issued[i].date
MonthlyReset ==
  type = "RESET_PER_MONTH" => \A i \in DOMAIN issued: First(i) => issued[i].seq = 1

\* Number j was counted before number i of the same month, and i is the next one.
Given == DOMAIN issued \ lost
Follows(i, j) ==
  j < i /\ issued[j].date = issued[i].date /\ issued[i].seq = issued[j].seq + 1

\* Generate is a counter: a caller is given number 1 or the one after a number some
\* caller was given before.
NoGaps == \A i \in Given: issued[i].seq = 1 \/ \E j \in Given: Follows(i, j)

\* What is true of it: the number before one that is given was given too, or was
\* lost with a call that failed behind its statement.  Nothing else (a delay, a
\* call of another month in between, a call that fails before) leaves a gap.
GapsAreFailures ==
  \A i \in Given: \/ issued[i].seq = 1
                  \/ \E j \in Given: Follows(i, j)
                  \/ \E j \in lost: Follows(i, j)

(***************************************************************************)
(* The strengthening of the invariants that is inductive.                  *)
(***************************************************************************)
\* Number n lies behind the row: the next one cannot repeat it.
Behind(n) ==
  IF type = "CONTINUOUS"
  THEN n.date = None /\ n.seq <= row.seq
  ELSE /\ n.date \in Date
       /\ Before(n.date, row.date) \/ (n.date = row.date /\ n.seq <= row.seq)

\* The row shows the number handed out last.
RowIsLast == issued # << >> /\ issued[Len(issued)] = Printed(row)

NumberInv ==
  /\ TypeOK
  /\ row = None => issued = << >>
  /\ row # None => RowIsLast
  /\ (row # None /\ InOrder) => \A i \in DOMAIN issued: Behind(issued[i])
  /\ UniqueInOrder
===============================================================================
