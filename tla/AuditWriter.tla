---------------------------- MODULE AuditWriter -----------------------------
(***************************************************************************)
(* The audit log: core/audit/middleware.py hands an entry per request to the *)
(* bounded queue of core/audit/writer.py, one task writes them in batches,   *)
(* and the shutdown of main.py waits for it.  An entry is lost when it is    *)
(* refused by the database, or when the database is down as it is written.   *)
(* The queue is in memory: a crash of the hub is not modelled, it loses it.  *)
(***************************************************************************)
EXTENDS Naturals, Sequences, SequencesExt

CONSTANTS
  Entries,    \* requests to /api/, with their AuditLog
  Refusable,  \* those the database refuses
  QueueSize,  \* QUEUE_SIZE
  BatchSize,  \* BATCH_SIZE
  MaxOutages  \* bound: writes that fail whatever they hold

ASSUME AuditAssumption ==
  /\ Refusable \subseteq Entries
  /\ QueueSize \in Nat \ {0} /\ BatchSize \in Nat \ {0} /\ MaxOutages \in Nat

VARIABLES
  entry,       \* entry[e]: where the AuditLog of e is
  queue,       \* _queue
  unfinished,  \* puts without their task_done
  writer,      \* what _run awaits
  batch,       \* the batch of _run
  retry,       \* what _write has still to write one by one
  lifespan,    \* the hub is up, waits in flush, or has stopped
  outages,
  \* History
  unlucky      \* the entries whose own write met an outage

auditVars == <<entry, queue, unfinished, writer, batch, retry, lifespan, outages, unlucky>>

AuditTypeOK ==
  /\ entry \in [Entries -> {"new", "excluded", "queued", "dropped", "saved", "lost", "purged"}]
  /\ queue \in Seq(Entries) /\ Len(queue) <= QueueSize
  /\ unfinished \in Nat
  /\ writer \in {"off", "get", "batch", "single"}
  /\ batch \in Seq(Entries) /\ Len(batch) <= BatchSize /\ retry \in Seq(Entries)
  /\ lifespan \in {"up", "flush", "over"}
  /\ outages \in 0..MaxOutages /\ unlucky \subseteq Entries

AuditInit ==
  /\ entry = [e \in Entries |-> "new"]
  /\ queue = <<>> /\ unfinished = 0
  /\ writer = "off" /\ batch = <<>> /\ retry = <<>>
  /\ lifespan = "up"
  /\ outages = 0 /\ unlucky = {}

----------------------------------------------------------------------------
\* put_nowait raises QueueFull.
Full == Len(queue) >= QueueSize

\* submit: the task is started by the first; a full queue drops the entry.
Submit(e) ==
  /\ writer' = IF writer = "off" THEN "get" ELSE writer
  /\ IF Full
     THEN entry' = [entry EXCEPT ![e] = "dropped"] /\ UNCHANGED <<queue, unfinished>>
     ELSE /\ queue' = Append(queue, e)
          /\ unfinished' = unfinished + 1
          /\ entry' = [entry EXCEPT ![e] = "queued"]

\* dispatch, once the route has answered.  Requests end before the lifespan.
Dispatch(e) ==
  /\ lifespan = "up" /\ entry[e] = "new"
  /\ \/ Submit(e)
     \/ entry' = [entry EXCEPT ![e] = "excluded"] /\ UNCHANGED <<queue, unfinished, writer>>
  /\ UNCHANGED <<batch, retry, lifespan, outages, unlucky>>

----------------------------------------------------------------------------
(* _run and _write. *)

TakeBatch ==
  LET n == IF Len(queue) < BatchSize THEN Len(queue) ELSE BatchSize IN
  /\ writer = "get" /\ queue # <<>>
  /\ batch' = SubSeq(queue, 1, n)
  /\ queue' = SubSeq(queue, n + 1, Len(queue))
  /\ writer' = "batch"
  /\ UNCHANGED <<entry, unfinished, retry, lifespan, outages, unlucky>>

\* task_done for each of the batch.
TaskDone ==
  /\ writer' = "get" /\ batch' = <<>> /\ retry' = <<>>
  /\ unfinished' = unfinished - Len(batch)

Becomes(es, where) == entry' = [e \in Entries |-> IF e \in es THEN where ELSE entry[e]]

\* A write fails on an entry the database refuses, or in an outage.
Fails(es) ==
  IF es \cap Refusable # {} THEN UNCHANGED outages
  ELSE outages < MaxOutages /\ outages' = outages + 1

\* The batch of more than one that failed is written again, one by one.
Alone_Mutant == TRUE
Alone == Len(batch) = 1

WriteBatch ==
  LET es == ToSet(batch) IN
  /\ writer = "batch"
  /\ \/ /\ es \cap Refusable = {}
        /\ Becomes(es, "saved") /\ TaskDone
        /\ UNCHANGED <<outages, unlucky>>
     \/ /\ Alone
        /\ Fails(es)
        /\ Becomes(es, "lost") /\ TaskDone
        /\ unlucky' = IF outages' > outages THEN unlucky \cup es ELSE unlucky
     \/ /\ ~Alone
        /\ Fails(es)
        /\ writer' = "single" /\ retry' = batch
        /\ UNCHANGED <<entry, unfinished, batch, unlucky>>
  /\ UNCHANGED <<queue, lifespan>>

WriteOne ==
  LET e == Head(retry) IN
  /\ writer = "single"
  /\ \/ /\ e \notin Refusable
        /\ Becomes({e}, "saved")
        /\ UNCHANGED <<outages, unlucky>>
     \/ /\ Fails({e})
        /\ Becomes({e}, "lost")
        /\ unlucky' = IF outages' > outages THEN unlucky \cup {e} ELSE unlucky
  /\ IF Len(retry) = 1 THEN TaskDone
     ELSE retry' = Tail(retry) /\ UNCHANGED <<writer, batch, unfinished>>
  /\ UNCHANGED <<queue, lifespan>>

WriterRuns == TakeBatch \/ WriteBatch \/ WriteOne

----------------------------------------------------------------------------
\* The shutdown reaches audit_writer.stop.
Stop ==
  /\ lifespan = "up"
  /\ lifespan' = "flush"
  /\ UNCHANGED <<entry, queue, unfinished, writer, batch, retry, outages, unlucky>>

\* flush: without a task there is nothing to wait for; else queue.join.
Flushed_Mutant == writer = "off" \/ queue = <<>>
Flushed == writer = "off" \/ unfinished = 0

\* The task is cancelled at whatever it awaits.
CancelWriter ==
  /\ lifespan = "flush" /\ Flushed
  /\ lifespan' = "over"
  /\ writer' = "off"
  /\ UNCHANGED <<entry, queue, unfinished, batch, retry, outages, unlucky>>

\* cleanup_old_logs.
CleanupLogs ==
  /\ \E e \in Entries : entry[e] = "saved" /\ entry' = [entry EXCEPT ![e] = "purged"]
  /\ UNCHANGED <<queue, unfinished, writer, batch, retry, lifespan, outages, unlucky>>

AuditNext ==
  \/ \E e \in Entries : Dispatch(e)
  \/ WriterRuns \/ Stop \/ CancelWriter \/ CleanupLogs

AuditFair == WF_auditVars(WriterRuns)

AuditSpec == AuditInit /\ [][AuditNext]_auditVars /\ AuditFair

----------------------------------------------------------------------------
(* Properties. *)

\* Whatever the writer and the shutdown interleave, an entry is lost for a
\* failure of its own only (writer.py:66), and the hub does not stop with an
\* entry that was accepted and neither written nor lost (writer.py:81).
NothingLeftBehind ==
  /\ \A e \in Entries : entry[e] = "lost" => e \in Refusable \cup unlucky
  /\ lifespan = "over" => \A e \in Entries : entry[e] # "queued"

\* An entry that was queued is saved in the end, also when the hub stops
\* meanwhile; only one the database refuses, or one whose own write met an
\* outage, is lost: a bad entry does not take its batch with it
\* (writer.py:66, 81).
QueuedIsSaved ==
  \A e \in Entries :
    entry[e] = "queued" ~> \/ entry[e] = "saved"
                           \/ entry[e] = "lost" /\ e \in Refusable \cup unlucky
=============================================================================
