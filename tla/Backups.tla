------------------------------ MODULE Backups -------------------------------
(***************************************************************************)
(* The backups of one instance: rows of the Backup table and files of        *)
(* DATA_DIR/backups (hub/backups, POST and GET /agent/backups), the scheduler *)
(* that asks for them, and the deletion of the instance with its backups.     *)
(* The file moves before its row is committed: put in place first, unlinked    *)
(* first.  A row is dated when its object is made, before its commit.        *)
(***************************************************************************)
EXTENDS Naturals, FiniteSets

CONSTANTS
  Archives,   \* Backup.id; each uploaded at most once
  Keep,       \* backup_retention
  Sweeps,     \* runs of delete_backup outside an upload: an operator's, or
              \* those of delete_instance
  MaxAsked,   \* bound: backup.run commands
  MaxHalts    \* bound: runs cut short by an error or a restart

ASSUME BackupsAssumption ==
  /\ Archives \cap Sweeps = {}
  /\ Keep \in Nat /\ MaxAsked \in Nat /\ MaxHalts \in Nat

VARIABLES
  row,       \* row[b]: Backup.created_at, 0 without a row
  file,      \* the archives whose file is in place
  present,   \* the row of the instance exists
  dated,     \* dated[b]: the time the object of the row took, 0 before it is made
  clock,
  work,      \* work[w]: the upload of archive w, or the sweep w
  asked,     \* the open backup.run commands: <<who, number>>
  sent,      \* how many were queued
  planned,   \* _schedule_once has seen no open command
  halts,
  \* History
  ever,      \* the archives whose row was committed
  latest,    \* the one whose row was committed last, if any
  halted,    \* the runs that were cut short
  takers     \* takers[b]: the runs that unlinked b

runVars    == <<asked, sent, planned>>
rowVars    == <<row, dated, clock, ever, latest>>
backupVars == <<rowVars, file, present, work, runVars, halts, halted, takers>>

Runs    == Archives \cup Sweeps
NoWork  == [pc |-> "idle", kind |-> "none", olds |-> {}]
Busy    == {w \in Runs : work[w].pc \notin {"idle", "done"}}
Rows    == {b \in Archives : row[b] > 0}
Newer(b) == {d \in Rows : row[d] > row[b]}

BackupsTypeOK ==
  /\ row \in [Archives -> Nat] /\ file \subseteq Archives /\ present \in BOOLEAN
  /\ clock \in Nat \ {0} /\ dated \in [Archives -> Nat]
  /\ ever \subseteq Archives /\ latest \subseteq Archives
  /\ work \in [Runs -> [pc : {"idle", "writing", "placed", "dated", "kept", "unlinked", "done"},
                        kind : {"none", "upload", "remove", "instance"},
                        olds : SUBSET Archives]]
  /\ asked \subseteq {"operator", "scheduler"} \X (1..MaxAsked)
  /\ sent \in 0..MaxAsked /\ planned \in BOOLEAN
  /\ halts \in 0..MaxHalts
  /\ halted \subseteq Runs /\ takers \in [Archives -> SUBSET Runs]

BackupsInit ==
  /\ row = [b \in Archives |-> 0] /\ file = {} /\ present = TRUE
  /\ dated = [b \in Archives |-> 0] /\ clock = 1 /\ ever = {} /\ latest = {}
  /\ work = [w \in Runs |-> NoWork]
  /\ asked = {} /\ sent = 0 /\ planned = FALSE
  /\ halts = 0 /\ halted = {} /\ takers = [b \in Archives |-> {}]

Opens(w, j) ==
  /\ work[w].pc = "idle"
  /\ work' = [work EXCEPT ![w] = j]

Takes(w, olds) ==
  /\ file' = file \ olds
  /\ takers' = [b \in Archives |-> IF b \in olds THEN takers[b] \cup {w} ELSE takers[b]]

Closes(w) == work' = [work EXCEPT ![w] = [@ EXCEPT !.pc = "done", !.olds = {}]]

----------------------------------------------------------------------------
(* upload_backup. *)

UploadStarts(b) ==
  /\ present
  /\ Opens(b, [NoWork EXCEPT !.pc = "writing", !.kind = "upload"])
  /\ UNCHANGED <<rowVars, file, present, runVars, halts, halted, takers>>

\* Too large, or another sha256: the .part file is removed.
UploadRefused(b) ==
  /\ work[b].pc = "writing"
  /\ Closes(b)
  /\ UNCHANGED <<rowVars, file, present, runVars, halts, halted, takers>>

\* os.replace of the .part file.
Place(b) ==
  /\ work[b].pc = "writing"
  /\ file' = file \cup {b}
  /\ work' = [work EXCEPT ![b].pc = "placed"]
  /\ UNCHANGED <<rowVars, present, runVars, halts, halted, takers>>

\* After the command that asked for it was read: the object takes its time.
MakeRow(b) ==
  /\ work[b].pc = "placed"
  /\ dated' = [dated EXCEPT ![b] = clock]
  /\ clock' = clock + 1
  /\ work' = [work EXCEPT ![b].pc = "dated"]
  /\ UNCHANGED <<row, ever, latest, file, present, runVars, halts, halted, takers>>

\* The row is committed, unless the instance is gone: a foreign key.
CommitRow(b) ==
  /\ work[b].pc = "dated"
  /\ IF present
     THEN /\ row' = [row EXCEPT ![b] = dated[b]]
          /\ ever' = ever \cup {b} /\ latest' = {b}
          /\ work' = [work EXCEPT ![b].pc = "kept"]
          /\ UNCHANGED halted
     ELSE Closes(b) /\ halted' = halted \cup {b} /\ UNCHANGED <<row, ever, latest>>
  /\ UNCHANGED <<dated, clock, file, present, runVars, halts, takers>>

\* apply_retention: what is beyond the newest is unlinked as it is read.
Outdated_Mutant == {b \in Rows : Cardinality(Newer(b)) >= Keep - 1}
Outdated == {b \in Rows : Cardinality(Newer(b)) >= Keep}

Retain(b) ==
  /\ work[b].pc = "kept"
  /\ Takes(b, Outdated)
  /\ work' = [work EXCEPT ![b].pc = "unlinked", ![b].olds = Outdated]
  /\ UNCHANGED <<rowVars, present, runVars, halts, halted>>

----------------------------------------------------------------------------
(* Deletions. *)

\* delete_backup, up to the commit of its caller.
DeleteBackups(w, kind, olds) ==
  /\ present
  /\ Opens(w, [pc |-> "unlinked", kind |-> kind, olds |-> olds])
  /\ Takes(w, olds)
  /\ UNCHANGED <<rowVars, present, runVars, halts, halted>>

\* remove, of one; delete_instance, of those it finds.
RemoveBackup(w)   == \E b \in Rows : DeleteBackups(w, "remove", {b})
DeleteInstance(w) == DeleteBackups(w, "instance", Rows)

\* The rows go with the commit; a row already gone is only warned about.
\* The instance goes with them, unless a row still names it, and its commands.
Removed_Mutant(w) == {}
Removed(w) == work[w].olds

CommitRemoval(w) ==
  LET named == Rows \ Removed(w) # {} IN
  /\ work[w].pc = "unlinked"
  /\ IF work[w].kind = "instance" /\ named
     THEN halted' = halted \cup {w} /\ UNCHANGED <<row, present>>
     ELSE /\ row' = [b \in Archives |-> IF b \in Removed(w) THEN 0 ELSE row[b]]
          /\ present' = (present /\ work[w].kind # "instance")
          /\ UNCHANGED halted
  /\ asked' = IF present' THEN asked ELSE {}
  /\ Closes(w)
  /\ UNCHANGED <<dated, clock, ever, latest, file, sent, planned, halts, takers>>

\* A run ends at one of its awaits: an error, a lost connection, a restart.
Halt(w) ==
  /\ w \in Busy /\ halts < MaxHalts
  /\ halts' = halts + 1
  /\ halted' = halted \cup {w}
  /\ Closes(w)
  /\ UNCHANGED <<rowVars, file, present, runVars, takers>>

----------------------------------------------------------------------------
(* Requests for a backup. *)

\* run_backup: queued whatever else is open.
OperatorAsks ==
  /\ present /\ sent < MaxAsked
  /\ asked' = asked \cup {<<"operator", sent + 1>>}
  /\ sent' = sent + 1
  /\ UNCHANGED <<rowVars, file, present, work, planned, halts, halted, takers>>

\* _schedule_once: nothing recent, no open command; then queued.
NoneOpen_Mutant == \A a \in asked : a[1] = "scheduler"
NoneOpen == asked = {}

SchedulerLooks ==
  /\ present /\ ~planned /\ sent < MaxAsked
  /\ NoneOpen
  /\ planned' = TRUE
  /\ UNCHANGED <<rowVars, file, present, work, asked, sent, halts, halted, takers>>

SchedulerAsks ==
  /\ planned /\ present /\ sent < MaxAsked
  /\ asked' = asked \cup {<<"scheduler", sent + 1>>}
  /\ sent' = sent + 1
  /\ planned' = FALSE
  /\ UNCHANGED <<rowVars, file, present, work, halts, halted, takers>>

\* A command is answered, or expires.
AskSettles ==
  /\ \E a \in asked : asked' = asked \ {a}
  /\ UNCHANGED <<rowVars, file, present, work, sent, planned, halts, halted, takers>>

BackupsNext ==
  \/ \E b \in Archives : \/ UploadStarts(b) \/ UploadRefused(b) \/ Place(b)
                         \/ MakeRow(b) \/ CommitRow(b) \/ Retain(b)
  \/ \E w \in Sweeps : RemoveBackup(w) \/ DeleteInstance(w)
  \/ \E w \in Runs : CommitRemoval(w) \/ Halt(w)
  \/ OperatorAsks \/ SchedulerLooks \/ SchedulerAsks \/ AskSettles

BackupsSpec == BackupsInit /\ [][BackupsNext]_backupVars

----------------------------------------------------------------------------
(* Properties. *)

\* Where the rows and the files differ, a run is on its way or was cut short:
\* an archive without a row was being uploaded, a row without its archive was
\* being deleted (agents/router.py:211, backups/service.py:37).
FilesMatchRows ==
  /\ \A b \in file \ Rows : b \in Busy \cup halted
  /\ \A b \in Rows \ file : takers[b] \cap (Busy \cup halted) # {}

\* Once the upload whose row was committed last has returned, no more are kept
\* than the retention says, even if it was dated before others; and while nobody
\* deletes any, none goes before there are as many, and the newest are there to
\* be downloaded, whatever uploads run beside each other
\* (backups/service.py:45, agents/router.py:223).
RetentionExact ==
  /\ \A b \in latest \ (Busy \cup halted) : Cardinality(Rows) <= Keep
  /\ (\A w \in Sweeps : work[w].pc = "idle") =>
       /\ Rows = ever \/ Cardinality(Rows) >= Keep
       /\ \A b \in Rows : Cardinality(Newer(b)) < Keep => b \in file

\* The scheduler never has two commands open at an instance: it looks at the
\* open ones before it queues, and nothing else queues for it
\* (backups/service.py:78).
ScheduledOnce ==
  \A a, d \in asked : a[1] = "scheduler" /\ d[1] = "scheduler" => a = d
=============================================================================
