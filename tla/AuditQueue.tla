------------------------------ MODULE AuditQueue ------------------------------
(***************************************************************************)
(* The audit log of module/account_lockout: requests hand events to        *)
(* writeAuditLog, which queues them for the goroutine asyncDBWriter or,    *)
(* when the queue is full or AsyncDBWrites is off, writes them itself.     *)
(* The writer collects a batch and flushes it when it is full or when the  *)
(* ticker fires; while it flushes it takes nothing from the queue.         *)
(***************************************************************************)
EXTENDS Naturals, Sequences

CONSTANTS
  Events,         \* the events of a behaviour; each is logged once
  AsyncDBWrites,
  BatchSizes,     \* batch_size may be any of these: no code validates it, 0 is legal
  Crashes,        \* whether the process may crash and restart
  Failures        \* whether an INSERT may fail

ASSUME ConstantsAssumption ==
  /\ AsyncDBWrites \in BOOLEAN /\ Crashes \in BOOLEAN /\ Failures \in BOOLEAN
  /\ BatchSizes \subseteq Nat

VARIABLES
  batchSize,        \* al.Config.BatchSize, read at the start
  new,              \* events not logged yet
  asyncWriteQueue,  \* the channel
  batch,            \* what the writer has taken from it
  flushing,         \* whether flushBatch runs; the batch holds what it still has to write
  sync,             \* events a request is about to write itself
  table,            \* account_lockout_events, in the order of the INSERTs
  lost,             \* events that will not be written
  order             \* history: events in the order they were queued

auditVars == <<batchSize, new, asyncWriteQueue, batch, flushing, sync, table, lost, order>>

Contents(s) == {s[i]: i \in DOMAIN s}

AuditTypeOK ==
  /\ batchSize \in Nat
  /\ new \subseteq Events /\ sync \subseteq Events /\ lost \subseteq Events
  /\ asyncWriteQueue \in Seq(Events) /\ Len(asyncWriteQueue) <= 2 * batchSize
  /\ batch \in Seq(Events) /\ (Len(batch) <= batchSize \/ Len(batch) = 1)
  /\ flushing \in BOOLEAN
  /\ table \in Seq(Events) /\ order \in Seq(Events)

AuditInit ==
  /\ batchSize \in BatchSizes
  /\ new = Events
  /\ asyncWriteQueue = << >> /\ batch = << >> /\ flushing = FALSE
  /\ sync = {} /\ lost = {}
  /\ table = << >> /\ order = << >>

QueueFull == Len(asyncWriteQueue) = 2 * batchSize

\* writeAuditLog, when the channel takes the event.
Enqueue(e) ==
  /\ e \in new
  /\ AsyncDBWrites /\ ~QueueFull
  /\ new' = new \ {e}
  /\ asyncWriteQueue' = Append(asyncWriteQueue, e)
  /\ order' = Append(order, e)
  /\ UNCHANGED <<batchSize, batch, flushing, sync, table, lost>>

\* writeAuditLog on a channel without a buffer, which takes an event only while the
\* writer waits at it: the writer has it in its batch at once, and flushes.
HandOver(e) ==
  /\ e \in new
  /\ AsyncDBWrites /\ batchSize = 0 /\ ~flushing
  /\ new' = new \ {e}
  /\ batch' = Append(batch, e)
  /\ flushing' = TRUE
  /\ order' = Append(order, e)
  /\ UNCHANGED <<batchSize, asyncWriteQueue, sync, table, lost>>

\* writeAuditLog, when it writes the event itself.
WriteSynchronously(e) ==
  /\ e \in new
  /\ ~AsyncDBWrites \/ QueueFull
  /\ new' = new \ {e}
  /\ sync' = sync \cup {e}
  /\ UNCHANGED <<batchSize, asyncWriteQueue, batch, flushing, table, lost, order>>

\* Faulty variant: an INSERT whose answer is lost is sent again.
InsertSentAgain(e) ==
  \/ /\ table' = Append(table, e) /\ UNCHANGED lost
  \/ /\ Failures /\ table' = Append(Append(table, e), e) /\ UNCHANGED lost

\* writeAuditLogSync: an error is logged and the event forgotten.
Insert(e) ==
  \/ /\ table' = Append(table, e) /\ UNCHANGED lost
  \/ /\ Failures /\ lost' = lost \cup {e} /\ UNCHANGED table

SyncInsert(e) ==
  /\ e \in sync
  /\ Insert(e)
  /\ sync' = sync \ {e}
  /\ UNCHANGED <<batchSize, new, asyncWriteQueue, batch, flushing, order>>

\* case event := <-al.asyncWriteQueue
Receive ==
  /\ ~flushing /\ asyncWriteQueue # << >>
  /\ batch' = Append(batch, Head(asyncWriteQueue))
  /\ asyncWriteQueue' = Tail(asyncWriteQueue)
  /\ flushing' = (Len(batch) + 1 >= batchSize)
  /\ UNCHANGED <<batchSize, new, sync, table, lost, order>>

\* Faulty variant: the ticker's case tests for a full batch.
FlushFullBatch ==
  /\ ~flushing /\ batch # << >> /\ Len(batch) >= batchSize
  /\ flushing' = TRUE
  /\ UNCHANGED <<batchSize, new, asyncWriteQueue, batch, sync, table, lost, order>>

\* case <-ticker.C
PeriodicFlush ==
  /\ ~flushing /\ batch # << >>
  /\ flushing' = TRUE
  /\ UNCHANGED <<batchSize, new, asyncWriteQueue, batch, sync, table, lost, order>>

\* Faulty variant: the batch is written from its end.
FlushLast ==
  /\ flushing
  /\ Insert(batch[Len(batch)])
  /\ batch' = SubSeq(batch, 1, Len(batch) - 1)
  /\ flushing' = (Len(batch) > 1)
  /\ UNCHANGED <<batchSize, new, asyncWriteQueue, sync, order>>

\* One round of the loop of flushBatch.
FlushNext ==
  /\ flushing
  /\ Insert(Head(batch))
  /\ batch' = Tail(batch)
  /\ flushing' = (Len(batch) > 1)
  /\ UNCHANGED <<batchSize, new, asyncWriteQueue, sync, order>>

\* The channel, the batch and the requests are gone; AuditInit makes new ones.
AuditCrash ==
  /\ Crashes
  /\ lost' = lost \cup Contents(asyncWriteQueue) \cup Contents(batch) \cup sync
  /\ asyncWriteQueue' = << >> /\ batch' = << >> /\ flushing' = FALSE /\ sync' = {}
  /\ UNCHANGED <<batchSize, new, table, order>>

Writer == Receive \/ PeriodicFlush \/ FlushNext

AuditNext ==
  \/ \E e \in Events: Enqueue(e) \/ HandOver(e) \/ WriteSynchronously(e) \/ SyncInsert(e)
  \/ Writer \/ AuditCrash

AuditSpec == AuditInit /\ [][AuditNext]_auditVars

\* The writer's goroutine runs for as long as the process, its ticker fires, and
\* a request that has to write does so.
FairAuditSpec == AuditSpec /\ WF_auditVars(Writer) /\ \A e \in Events: WF_auditVars(SyncInsert(e))

(***************************************************************************)
(* Properties.                                                             *)
(***************************************************************************)
\* An event is in one place and there once: nothing is written twice and nothing
\* disappears without a trace between request, channel, batch and table.
NoRepeats(s) == \A i, j \in DOMAIN s: s[i] = s[j] => i = j
Places == <<new, sync, lost, Contents(asyncWriteQueue), Contents(batch), Contents(table)>>

EachEventOnce ==
  /\ NoRepeats(asyncWriteQueue) /\ NoRepeats(batch) /\ NoRepeats(table)
  /\ \A i, j \in 1 .. 6: i # j => Places[i] \cap Places[j] = {}
  /\ UNION {Places[i]: i \in 1 .. 6} = Events

\* The queued events reach the table in the order they were queued, however the
\* writer batches them; those written synchronously overtake them.
WrittenInQueueOrder ==
  \A i, j \in DOMAIN table: i < j =>
    \A k, l \in DOMAIN order: order[k] = table[i] /\ order[l] = table[j] => k < l

\* The refinement mapping.
TrailState ==
  [e \in Events |->
    IF e \in new THEN "new"
    ELSE IF e \in Contents(table) THEN "written"
    ELSE IF e \in lost THEN "lost"
    ELSE "logged"]
Trail == INSTANCE AuditTrail WITH state <- TrailState, rows <- table

\* The detailed log implements AuditTrail: an event goes from logged to written
\* or lost once and stays there, and the table has one row of a written event and
\* none of another.
TrailSpec == Trail!Spec

\* "Periodic flush": an event does not stay in the channel or the batch forever.
NothingStaysQueued ==
  \A e \in Events:
    (e \in Contents(asyncWriteQueue) \cup Contents(batch) \cup sync)
      ~> (e \in Contents(table) \cup lost)

(***************************************************************************)
(* The strengthening of AuditTypeOK and EachEventOnce that is inductive.   *)
(***************************************************************************)
BatchIsPending ==
  /\ flushing => batch # << >>
  /\ ~flushing => Len(batch) < batchSize \/ batch = << >>

AuditInv == AuditTypeOK /\ EachEventOnce /\ BatchIsPending
===============================================================================
