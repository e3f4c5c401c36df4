--------------------------- MODULE BackupsProofs ----------------------------
(***************************************************************************)
(* Proofs about module Backups, for any archives, sweeps, retention and      *)
(* bounds.                                                                   *)
(*                                                                         *)
(* Files and rows: what a run has unlinked, it names until it has removed the *)
(* row or was cut short (OldsGone, MissingTaken), and an archive is in place  *)
(* without a row only between its two steps (Uploading, StrayFiles).          *)
(* Retention: the upload that committed last keeps at most Keep of the rows it *)
(* finds, and none is added to them before another commits (WithinKeep); what  *)
(* is missing has Keep newer ones beside it (NewestKept): the ones that stay   *)
(* when the rows of the missing go.  Dates order the rows, whatever the order  *)
(* they were committed in (Dated).                                           *)
(***************************************************************************)
EXTENDS Backups, FiniteSetTheorems, WellFoundedInduction, TLAPS

\* Past its commit: what a run can take.
Committed(b) == work[b].pc \in {"kept", "unlinked", "done"}

Uploading ==
  \A b \in Archives :
    /\ work[b].pc \in {"idle", "writing"} => b \notin file /\ b \notin Rows
    /\ work[b].pc \in {"placed", "dated"} => b \in file /\ b \notin Rows

StrayFiles == \A b \in file \ Rows : work[b].pc \in {"placed", "dated"} \/ b \in halted

OldsGone ==
  \A w \in Runs : work[w].pc = "unlinked" =>
    \A b \in work[w].olds : b \notin file /\ Committed(b)

MissingTaken ==
  \A b \in Rows \ file : \E w \in takers[b] :
    w \in halted \/ (work[w].pc = "unlinked" /\ b \in work[w].olds)

PlannedAlone == planned => \A a \in asked : a[1] # "scheduler"

-----------------------------------------------------------------------------
(* Retention *)

RowsDated ==
  /\ IsFiniteSet(Rows)
  /\ \A b \in Rows : row[b] < clock
  /\ \A b, d \in Rows : row[b] = row[d] => b = d

Dated ==
  /\ \A b \in Archives : /\ dated[b] < clock
                         /\ work[b].pc = "dated" => dated[b] > 0
                         /\ b \in Rows => row[b] = dated[b]
  /\ \A b, d \in Archives : dated[b] = dated[d] /\ dated[b] > 0 => b = d

WithinKeep ==
  \A b \in latest :
    /\ Committed(b)
    /\ work[b].pc = "unlinked" => Cardinality(Rows \ work[b].olds) <= Keep
    /\ work[b].pc = "done" /\ b \notin halted => Cardinality(Rows) <= Keep

Undisturbed == \A w \in Sweeps : work[w].pc = "idle"

NewestKept ==
  Undisturbed => /\ Rows = ever \/ Cardinality(Rows) >= Keep
                 /\ \A b \in Rows : Cardinality(Newer(b)) < Keep => b \in file

FilesInv == Uploading /\ StrayFiles /\ OldsGone /\ MissingTaken
KeepInv  == RowsDated /\ Dated /\ WithinKeep /\ NewestKept
IndInv   == BackupsTypeOK /\ FilesInv /\ PlannedAlone /\ ScheduledOnce /\ KeepInv
-----------------------------------------------------------------------------
(* The steps: one run moves, and the others stay. *)

WorkRec == [pc : {"idle", "writing", "placed", "dated", "kept", "unlinked", "done"},
            kind : {"none", "upload", "remove", "instance"}, olds : SUBSET Archives]

Moves(w, pc, olds) ==
  /\ work' \in [Runs -> WorkRec]
  /\ work'[w].pc = pc /\ work'[w].olds = olds
  /\ \A x \in Runs \ {w} : work'[x] = work[x]

LEMMA Moved ==
  ASSUME work \in [Runs -> WorkRec], NEW w \in Runs, NEW j \in WorkRec,
         work' = [work EXCEPT ![w] = j]
  PROVE  Moves(w, j.pc, j.olds)
BY DEF Moves

LEMMA UploadMoves ==
  ASSUME BackupsTypeOK, NEW b \in Archives
  PROVE  /\ UploadStarts(b)  => work[b].pc = "idle" /\ Moves(b, "writing", {})
         /\ UploadRefused(b) => Moves(b, "done", {})
         /\ Place(b)         => Moves(b, "placed", work[b].olds)
         /\ MakeRow(b)       => Moves(b, "dated", work[b].olds)
         /\ CommitRow(b)     => \/ present /\ Moves(b, "kept", work[b].olds)
                                \/ ~present /\ Moves(b, "done", {})
         /\ Retain(b)        => Moves(b, "unlinked", Outdated)
<1>1. work \in [Runs -> WorkRec] /\ b \in Runs /\ work[b] \in WorkRec
  BY DEF BackupsTypeOK, WorkRec, Runs
<1>2. ASSUME UploadStarts(b) PROVE work[b].pc = "idle" /\ Moves(b, "writing", {})
  <2> DEFINE j == [NoWork EXCEPT !.pc = "writing", !.kind = "upload"]
  <2>1. j \in WorkRec /\ j.pc = "writing" /\ j.olds = {}
    BY DEF NoWork, WorkRec
  <2>2. work[b].pc = "idle" /\ work' = [work EXCEPT ![b] = j]
    BY <1>2 DEF UploadStarts, Opens
  <2> HIDE DEF j
  <2>3. QED
    BY <1>1, <2>1, <2>2, Moved
<1>3. ASSUME Closes(b) PROVE Moves(b, "done", {})
  <2> DEFINE j == [work[b] EXCEPT !.pc = "done", !.olds = {}]
  <2>1. j \in WorkRec /\ j.pc = "done" /\ j.olds = {}
    BY <1>1 DEF WorkRec
  <2>2. work' = [work EXCEPT ![b] = j]
    BY <1>3 DEF Closes
  <2> HIDE DEF j
  <2>3. QED
    BY <1>1, <2>1, <2>2, Moved
<1>4. ASSUME NEW pc \in {"placed", "dated", "kept"}, work' = [work EXCEPT ![b].pc = pc]
      PROVE  Moves(b, pc, work[b].olds)
  <2> DEFINE j == [work[b] EXCEPT !.pc = pc]
  <2>1. j \in WorkRec /\ j.pc = pc /\ j.olds = work[b].olds
    BY <1>1 DEF WorkRec
  <2>2. work' = [work EXCEPT ![b] = j]
    BY <1>4
  <2> HIDE DEF j
  <2>3. QED
    BY <1>1, <2>1, <2>2, Moved
<1>5. ASSUME Retain(b) PROVE Moves(b, "unlinked", Outdated)
  <2> DEFINE j == [work[b] EXCEPT !.pc = "unlinked", !.olds = Outdated]
  <2>1. j \in WorkRec /\ j.pc = "unlinked" /\ j.olds = Outdated
    BY <1>1 DEF WorkRec, Outdated, Rows
  <2>2. work' = [work EXCEPT ![b] = j]
    BY <1>5 DEF Retain
  <2> HIDE DEF j
  <2>3. QED
    BY <1>1, <2>1, <2>2, Moved
<1>6. /\ UploadRefused(b) => Closes(b)
      /\ Place(b) => work' = [work EXCEPT ![b].pc = "placed"]
      /\ MakeRow(b) => work' = [work EXCEPT ![b].pc = "dated"]
      /\ CommitRow(b) => \/ present /\ work' = [work EXCEPT ![b].pc = "kept"]
                         \/ ~present /\ Closes(b)
  BY DEF UploadRefused, Place, MakeRow, CommitRow, BackupsTypeOK
<1>7. QED
  BY <1>2, <1>3, <1>4, <1>5, <1>6

LEMMA SweepMoves ==
  ASSUME BackupsTypeOK, NEW w \in Runs
  PROVE  /\ CommitRemoval(w) \/ Halt(w) => Moves(w, "done", {})
         /\ \A kind \in {"remove", "instance"} : \A olds \in SUBSET Archives :
              DeleteBackups(w, kind, olds) => work[w].pc = "idle" /\ Moves(w, "unlinked", olds)
<1>1. work \in [Runs -> WorkRec] /\ work[w] \in WorkRec
  BY DEF BackupsTypeOK, WorkRec, Runs
<1>2. ASSUME Closes(w) PROVE Moves(w, "done", {})
  <2> DEFINE j == [work[w] EXCEPT !.pc = "done", !.olds = {}]
  <2>1. j \in WorkRec /\ j.pc = "done" /\ j.olds = {}
    BY <1>1 DEF WorkRec
  <2>2. work' = [work EXCEPT ![w] = j]
    BY <1>2 DEF Closes
  <2> HIDE DEF j
  <2>3. QED
    BY <1>1, <2>1, <2>2, Moved
<1>3. CommitRemoval(w) \/ Halt(w) => Closes(w)
  BY DEF CommitRemoval, Halt
<1>4. ASSUME NEW kind \in {"remove", "instance"}, NEW olds \in SUBSET Archives,
             DeleteBackups(w, kind, olds)
      PROVE  work[w].pc = "idle" /\ Moves(w, "unlinked", olds)
  <2> DEFINE j == [pc |-> "unlinked", kind |-> kind, olds |-> olds]
  <2>1. j \in WorkRec /\ j.pc = "unlinked" /\ j.olds = olds
    BY DEF WorkRec
  <2>2. work[w].pc = "idle" /\ work' = [work EXCEPT ![w] = j]
    BY <1>4 DEF DeleteBackups, Opens
  <2> HIDE DEF j
  <2>3. QED
    BY <1>1, <2>1, <2>2, Moved
<1>5. QED
  BY <1>2, <1>3, <1>4

\* The sweeps' deletions, by what they take.
LEMMA Deletes ==
  ASSUME NEW w \in Sweeps, RemoveBackup(w) \/ DeleteInstance(w)
  PROVE  \E kind \in {"remove", "instance"} : \E olds \in SUBSET Rows : DeleteBackups(w, kind, olds)
BY DEF RemoveBackup, DeleteInstance

LEMMA TypesKeep ==
  ASSUME BackupsTypeOK, BackupsNext
  PROVE  BackupsTypeOK'
<1> USE BackupsAssumption
<1>1. ASSUME NEW b \in Archives,
             \/ UploadStarts(b) \/ UploadRefused(b) \/ Place(b) \/ MakeRow(b) \/ CommitRow(b)
             \/ Retain(b)
      PROVE  BackupsTypeOK'
  <2>1. work' \in [Runs -> WorkRec]
    BY <1>1, UploadMoves DEF Moves
  <2>2. CASE CommitRow(b)
    <3>1. /\ row' \in [Archives -> Nat] /\ ever' \subseteq Archives /\ latest' \subseteq Archives
          /\ halted' \subseteq Runs
      BY <2>2 DEF CommitRow, BackupsTypeOK, Runs
    <3>2. QED
      BY <2>1, <2>2, <3>1 DEF CommitRow, BackupsTypeOK, WorkRec, runVars
  <2>3. CASE Retain(b)
    BY <2>1, <2>3 DEF Retain, Takes, BackupsTypeOK, WorkRec, runVars, rowVars, Runs
  <2>4. CASE UploadStarts(b) \/ UploadRefused(b) \/ Place(b)
    BY <2>1, <2>4 DEF UploadStarts, UploadRefused, Place, BackupsTypeOK, WorkRec, runVars, rowVars
  <2>5. CASE MakeRow(b)
    <3>1. dated' \in [Archives -> Nat] /\ clock' \in Nat \ {0}
      BY <2>5 DEF MakeRow, BackupsTypeOK
    <3>2. QED
      BY <2>1, <2>5, <3>1 DEF MakeRow, BackupsTypeOK, WorkRec, runVars
  <2>6. QED
    BY <1>1, <2>2, <2>3, <2>4, <2>5
<1>2. ASSUME NEW w \in Sweeps, RemoveBackup(w) \/ DeleteInstance(w) PROVE BackupsTypeOK'
  <2>1. PICK kind \in {"remove", "instance"}, olds \in SUBSET Rows : DeleteBackups(w, kind, olds)
    BY <1>2, Deletes
  <2>2. w \in Runs /\ olds \in SUBSET Archives
    BY DEF Runs, Rows
  <2>3. work' \in [Runs -> WorkRec]
    BY <2>1, <2>2, SweepMoves DEF Moves
  <2>4. QED
    BY <2>1, <2>2, <2>3 DEF DeleteBackups, Takes, BackupsTypeOK, WorkRec, runVars, rowVars
<1>3. ASSUME NEW w \in Runs, CommitRemoval(w) \/ Halt(w) PROVE BackupsTypeOK'
  <2>1. work' \in [Runs -> WorkRec]
    BY <1>3, SweepMoves DEF Moves
  <2>2. CASE CommitRemoval(w)
    <3>1. row' \in [Archives -> Nat] /\ present' \in BOOLEAN /\ halted' \subseteq Runs
      <4>1. CASE work[w].kind = "instance" /\ Rows \ Removed(w) # {}
        BY <2>2, <4>1 DEF CommitRemoval, BackupsTypeOK
      <4>2. CASE ~(work[w].kind = "instance" /\ Rows \ Removed(w) # {})
        <5>1. /\ row' = [b \in Archives |-> IF b \in Removed(w) THEN 0 ELSE row[b]]
              /\ halted' = halted
          BY <2>2, <4>2 DEF CommitRemoval
        <5>2. row' \in [Archives -> Nat]
          BY <5>1 DEF BackupsTypeOK
        <5>3. present' \in BOOLEAN
          BY <2>2, <4>2 DEF CommitRemoval
        <5>4. QED
          BY <5>1, <5>2, <5>3 DEF BackupsTypeOK
      <4>3. QED
        BY <4>1, <4>2
    <3>2. asked' \subseteq {"operator", "scheduler"} \X (1..MaxAsked)
      BY <2>2 DEF CommitRemoval, BackupsTypeOK
    <3>3. QED
      BY <2>1, <2>2, <3>1, <3>2 DEF CommitRemoval, BackupsTypeOK, WorkRec
  <2>3. CASE Halt(w)
    BY <2>1, <2>3 DEF Halt, BackupsTypeOK, WorkRec, runVars, rowVars
  <2>4. QED
    BY <1>3, <2>2, <2>3
<1>4. CASE OperatorAsks \/ SchedulerLooks \/ SchedulerAsks \/ AskSettles
  <2>1. \A who \in {"operator", "scheduler"} :
          sent < MaxAsked /\ sent \in Nat =>
            <<who, sent + 1>> \in {"operator", "scheduler"} \X (1..MaxAsked)
    OBVIOUS
  <2>2. sent \in Nat
    BY DEF BackupsTypeOK
  <2>3. CASE OperatorAsks
    BY <2>1, <2>2, <2>3 DEF OperatorAsks, BackupsTypeOK, rowVars
  <2>4. CASE SchedulerAsks
    <3>1. asked' \subseteq {"operator", "scheduler"} \X (1..MaxAsked) /\ sent' \in 0..MaxAsked
      BY <2>1, <2>2, <2>4 DEF SchedulerAsks, BackupsTypeOK
    <3>2. QED
      BY <2>4, <3>1 DEF SchedulerAsks, BackupsTypeOK, rowVars
  <2>5. CASE SchedulerLooks \/ AskSettles
    BY <2>5 DEF SchedulerLooks, AskSettles, BackupsTypeOK, rowVars
  <2>6. QED
    BY <1>4, <2>3, <2>4, <2>5
<1>5. QED
  BY <1>1, <1>2, <1>3, <1>4 DEF BackupsNext
-----------------------------------------------------------------------------
(* Files and rows *)

\* Files of rows are taken by a run that had nothing unlinked.
LEMMA TakenKeeps ==
  ASSUME BackupsTypeOK, FilesInv, NEW w \in Runs, NEW olds \in SUBSET Rows,
         work[w].pc \in {"idle", "kept"}, w \notin Archives \/ work[w].pc = "kept",
         Moves(w, "unlinked", olds), Takes(w, olds), UNCHANGED <<row, halted>>
  PROVE  FilesInv'
<1>1. Rows' = Rows /\ Rows \subseteq Archives /\ Archives \subseteq Runs /\ halted' = halted
      /\ file' = file \ olds
  BY DEF Rows, Runs, Takes
<1>2. \A b \in Rows : Committed(b)
  BY <1>1 DEF FilesInv, Uploading, Committed, BackupsTypeOK
<1>3. \A b \in Archives : Committed(b) => Committed(b)'
  BY <1>1 DEF Moves, Committed
<1>4. Uploading' /\ StrayFiles'
  <2>1. SUFFICES ASSUME NEW b \in Archives
                 PROVE  /\ work'[b].pc \in {"idle", "writing"} => b \notin file' /\ b \notin Rows
                        /\ work'[b].pc \in {"placed", "dated"} => b \in file' /\ b \notin Rows
                        /\ b \in file' /\ b \notin Rows =>
                             work'[b].pc \in {"placed", "dated"} \/ b \in halted
    BY <1>1 DEF Uploading, StrayFiles, BackupsTypeOK
  <2>2. CASE b = w
    BY <1>1, <2>2 DEF FilesInv, StrayFiles, Moves
  <2>3. CASE b # w
    BY <1>1, <2>3 DEF FilesInv, Uploading, StrayFiles, Moves
  <2>4. QED
    BY <2>2, <2>3
<1>5. OldsGone'
  <2>1. SUFFICES ASSUME NEW x \in Runs, work'[x].pc = "unlinked", NEW b \in work'[x].olds
                 PROVE  b \notin file' /\ Committed(b)'
    BY DEF OldsGone
  <2>2. CASE x = w
    BY <1>1, <1>2, <1>3, <2>1, <2>2 DEF Moves
  <2>3. CASE x # w
    <3>1. work[x].pc = "unlinked" /\ b \in work[x].olds /\ b \in Archives
      BY <2>1, <2>3 DEF Moves, BackupsTypeOK
    <3>2. QED
      BY <1>1, <1>3, <3>1 DEF FilesInv, OldsGone
  <2>4. QED
    BY <2>2, <2>3
<1>6. MissingTaken'
  <2>1. SUFFICES ASSUME NEW b \in Rows, b \notin file'
                 PROVE  \E x \in takers'[b] :
                          x \in halted \/ (work'[x].pc = "unlinked" /\ b \in work'[x].olds)
    BY <1>1 DEF MissingTaken
  <2>2. takers'[b] = IF b \in olds THEN takers[b] \cup {w} ELSE takers[b]
    BY <1>1 DEF Takes
  <2>3. CASE b \in olds
    BY <2>2, <2>3 DEF Moves
  <2>4. CASE b \notin olds
    <3>1. PICK x \in takers[b] : x \in halted \/ (work[x].pc = "unlinked" /\ b \in work[x].olds)
      BY <1>1, <2>1, <2>4 DEF FilesInv, MissingTaken
    <3>2. x \in Runs
      BY <1>1 DEF BackupsTypeOK
    <3>3. QED
      BY <2>2, <2>4, <3>1, <3>2 DEF Moves
  <2>5. QED
    BY <2>3, <2>4
<1>7. QED
  BY <1>4, <1>5, <1>6 DEF FilesInv

\* Rows of a run that has unlinked their files go with its end, or it is cut short.
LEMMA EndsKeep ==
  ASSUME BackupsTypeOK, FilesInv, NEW w \in Runs, Moves(w, "done", {}), UNCHANGED <<file, takers>>,
         NEW gone \in SUBSET work[w].olds,
         row' = [b \in Archives |-> IF b \in gone THEN 0 ELSE row[b]],
         \/ halted' = halted \cup {w} /\ gone = {}
         \/ work[w].pc = "unlinked" /\ halted' = halted /\ gone = work[w].olds
         \/ work[w].pc = "writing" /\ halted' = halted /\ gone = {},
         gone # {} => work[w].pc = "unlinked"
  PROVE  FilesInv'
<1>1. Rows' = Rows \ gone /\ Rows \subseteq Archives /\ Archives \subseteq Runs
  BY DEF Rows, Runs
<1>2. \A b \in Archives : Committed(b) => Committed(b)'
  BY <1>1 DEF Moves, Committed
<1>3. gone \cap file = {}
  BY DEF FilesInv, OldsGone
<1>4. Uploading'
  BY <1>1 DEF FilesInv, Uploading, Moves
<1>5. StrayFiles'
  <2>1. SUFFICES ASSUME NEW b \in file, b \notin Rows PROVE work'[b].pc \in {"placed", "dated"} \/ b \in halted'
    BY <1>1, <1>3 DEF StrayFiles
  <2>2. b \in Archives /\ (work[b].pc \in {"placed", "dated"} \/ b \in halted)
    BY <2>1 DEF FilesInv, StrayFiles, BackupsTypeOK
  <2>3. QED
    BY <1>1, <2>2 DEF Moves
<1>6. OldsGone'
  <2>1. SUFFICES ASSUME NEW x \in Runs, work'[x].pc = "unlinked", NEW b \in work'[x].olds
                 PROVE  b \notin file' /\ Committed(b)'
    BY DEF OldsGone
  <2>2. work[x].pc = "unlinked" /\ b \in work[x].olds /\ b \in Archives
    BY <2>1 DEF Moves, BackupsTypeOK
  <2>3. QED
    BY <1>2, <2>2 DEF FilesInv, OldsGone
<1>7. MissingTaken'
  <2>1. SUFFICES ASSUME NEW b \in Rows, b \notin gone, b \notin file
                 PROVE  \E x \in takers[b] :
                          x \in halted' \/ (work'[x].pc = "unlinked" /\ b \in work'[x].olds)
    BY <1>1 DEF MissingTaken
  <2>2. PICK x \in takers[b] : x \in halted \/ (work[x].pc = "unlinked" /\ b \in work[x].olds)
    BY <2>1 DEF FilesInv, MissingTaken
  <2>3. x \in Runs
    BY <1>1 DEF BackupsTypeOK
  <2>4. QED
    BY <2>1, <2>2, <2>3 DEF Moves
<1>8. QED
  BY <1>4, <1>5, <1>6, <1>7 DEF FilesInv

LEMMA UploadsKeepFiles ==
  ASSUME BackupsTypeOK, FilesInv, Dated, NEW b \in Archives,
         UploadStarts(b) \/ Place(b) \/ MakeRow(b) \/ CommitRow(b)
  PROVE  FilesInv'
<1>1. Archives \subseteq Runs /\ b \in Runs /\ Rows \subseteq Archives
      /\ row \in [Archives -> Nat] /\ takers \in [Archives -> SUBSET Runs] /\ file \subseteq Archives
      /\ work \in [Runs -> WorkRec] /\ \A x \in Runs : work[x].olds \subseteq Archives
  BY DEF Runs, Rows, BackupsTypeOK, WorkRec
<1>2. CASE UploadStarts(b)
  <2>1. Moves(b, "writing", {}) /\ work[b].pc = "idle" /\ Rows' = Rows
        /\ UNCHANGED <<file, halted, takers>>
    BY <1>2, UploadMoves DEF UploadStarts, Rows, rowVars
  <2>2. Uploading' /\ StrayFiles'
    BY <1>1, <2>1 DEF FilesInv, Uploading, StrayFiles, Moves
  <2>3. OldsGone'
    BY <1>1, <2>1 DEF FilesInv, OldsGone, Moves, Committed
  <2>4. MissingTaken'
    BY <1>1, <2>1 DEF FilesInv, MissingTaken, Moves
  <2>5. QED
    BY <2>2, <2>3, <2>4 DEF FilesInv
<1>3. CASE Place(b)
  <2>1. Moves(b, "placed", work[b].olds) /\ work[b].pc = "writing" /\ Rows' = Rows
        /\ file' = file \cup {b} /\ UNCHANGED <<halted, takers>>
    BY <1>3, UploadMoves DEF Place, Rows, rowVars
  <2>2. Uploading' /\ StrayFiles'
    BY <1>1, <2>1 DEF FilesInv, Uploading, StrayFiles, Moves
  <2>3. OldsGone'
    BY <1>1, <2>1 DEF FilesInv, OldsGone, Moves, Committed
  <2>4. MissingTaken'
    BY <1>1, <2>1 DEF FilesInv, MissingTaken, Moves
  <2>5. QED
    BY <2>2, <2>3, <2>4 DEF FilesInv
<1>4. CASE CommitRow(b) /\ present
  <2>1. work[b].pc = "dated" /\ Moves(b, "kept", work[b].olds)
    BY <1>4, UploadMoves DEF CommitRow, Moves, BackupsTypeOK
  <2>2. row' = [row EXCEPT ![b] = dated[b]] /\ UNCHANGED <<file, halted, takers>>
    BY <1>4 DEF CommitRow
  <2>3. Rows' = Rows \cup {b}
    BY <1>1, <2>1, <2>2 DEF Rows, BackupsTypeOK, Dated
  <2>4. Uploading' /\ StrayFiles'
    BY <1>1, <2>1, <2>2, <2>3 DEF FilesInv, Uploading, StrayFiles, Moves
  <2>5. OldsGone'
    BY <1>1, <2>1, <2>2 DEF FilesInv, OldsGone, Moves, Committed
  <2>6. MissingTaken'
    BY <1>1, <2>1, <2>2, <2>3 DEF FilesInv, MissingTaken, Uploading, Moves
  <2>7. QED
    BY <2>4, <2>5, <2>6 DEF FilesInv
<1>5. CASE CommitRow(b) /\ ~present
  <2>1. row' = [d \in Archives |-> IF d \in {} THEN 0 ELSE row[d]]
        /\ halted' = halted \cup {b} /\ UNCHANGED <<file, takers>>
    BY <1>1, <1>5 DEF CommitRow
  <2>2. Moves(b, "done", {})
    BY <1>5, UploadMoves
  <2>3. {} \in SUBSET work[b].olds
    OBVIOUS
  <2>4. QED
    BY <1>1, <2>1, <2>2, <2>3, EndsKeep
<1>6. CASE MakeRow(b)
  <2>1. Moves(b, "dated", work[b].olds) /\ work[b].pc = "placed" /\ Rows' = Rows
        /\ UNCHANGED <<file, halted, takers>>
    BY <1>6, UploadMoves DEF MakeRow, Rows
  <2>2. Uploading' /\ StrayFiles'
    BY <1>1, <2>1 DEF FilesInv, Uploading, StrayFiles, Moves
  <2>3. OldsGone'
    BY <1>1, <2>1 DEF FilesInv, OldsGone, Moves, Committed
  <2>4. MissingTaken'
    BY <1>1, <2>1 DEF FilesInv, MissingTaken, Moves
  <2>5. QED
    BY <2>2, <2>3, <2>4 DEF FilesInv
<1>7. QED
  BY <1>2, <1>3, <1>4, <1>5, <1>6

LEMMA FilesKeep ==
  ASSUME BackupsTypeOK, FilesInv, Dated, BackupsNext
  PROVE  FilesInv'
<1>1. row = [b \in Archives |-> IF b \in {} THEN 0 ELSE row[b]] /\ Archives \subseteq Runs
  BY DEF BackupsTypeOK, Runs
<1>2. ASSUME NEW b \in Archives, UploadRefused(b) PROVE FilesInv'
  <2>1. work[b].pc = "writing" /\ Moves(b, "done", {}) /\ UNCHANGED <<row, file, halted, takers>>
    BY <1>2, UploadMoves DEF UploadRefused, rowVars
  <2>2. QED
    BY <1>1, <2>1, EndsKeep
<1>3. ASSUME NEW b \in Archives, Retain(b) PROVE FilesInv'
  <2>1. work[b].pc = "kept" /\ Takes(b, Outdated) /\ UNCHANGED <<row, halted>>
        /\ Outdated \in SUBSET Rows
    BY <1>3 DEF Retain, Outdated, rowVars
  <2>2. Moves(b, "unlinked", Outdated)
    BY <1>3, UploadMoves
  <2>3. QED
    BY <1>1, <2>1, <2>2, TakenKeeps
<1>4. ASSUME NEW w \in Sweeps, RemoveBackup(w) \/ DeleteInstance(w) PROVE FilesInv'
  <2>1. PICK kind \in {"remove", "instance"}, olds \in SUBSET Rows : DeleteBackups(w, kind, olds)
    BY <1>4, Deletes
  <2>2. w \in Runs /\ w \notin Archives /\ olds \in SUBSET Archives
    BY BackupsAssumption DEF Runs, Rows
  <2>3. work[w].pc = "idle" /\ Moves(w, "unlinked", olds)
    BY <2>1, <2>2, SweepMoves
  <2>4. Takes(w, olds) /\ UNCHANGED <<row, halted>>
    BY <2>1 DEF DeleteBackups, rowVars
  <2>5. QED
    BY <2>2, <2>3, <2>4, TakenKeeps
<1>5. ASSUME NEW w \in Runs, CommitRemoval(w) PROVE FilesInv'
  <2>1. Moves(w, "done", {}) /\ UNCHANGED <<file, takers>> /\ work[w].pc = "unlinked"
    BY <1>5, SweepMoves DEF CommitRemoval
  <2>2. CASE work[w].kind = "instance" /\ Rows \ Removed(w) # {}
    <3>1. halted' = halted \cup {w} /\ row' = row
      BY <1>5, <2>2 DEF CommitRemoval
    <3>2. QED
      BY <1>1, <2>1, <3>1, EndsKeep
  <2>3. CASE ~(work[w].kind = "instance" /\ Rows \ Removed(w) # {})
    <3>1. halted' = halted
          /\ row' = [b \in Archives |-> IF b \in work[w].olds THEN 0 ELSE row[b]]
      BY <1>5, <2>3 DEF CommitRemoval, Removed
    <3>2. QED
      BY <2>1, <3>1, EndsKeep
  <2>4. QED
    BY <2>2, <2>3
<1>6. ASSUME NEW w \in Runs, Halt(w) PROVE FilesInv'
  <2>1. Moves(w, "done", {}) /\ UNCHANGED <<row, file, takers>> /\ halted' = halted \cup {w}
    BY <1>6, SweepMoves DEF Halt, rowVars
  <2>2. QED
    BY <1>1, <2>1, EndsKeep
<1>7. ASSUME UNCHANGED <<row, file, work, halted, takers>> PROVE FilesInv'
  BY <1>7 DEF FilesInv, Uploading, StrayFiles, OldsGone, MissingTaken, Rows, Committed
<1>8. OperatorAsks \/ SchedulerLooks \/ SchedulerAsks \/ AskSettles =>
        UNCHANGED <<row, file, work, halted, takers>>
  BY DEF OperatorAsks, SchedulerLooks, SchedulerAsks, AskSettles, rowVars
<1>9. QED
  BY <1>2, <1>3, <1>4, <1>5, <1>6, <1>7, <1>8, UploadsKeepFiles DEF BackupsNext
-----------------------------------------------------------------------------
(* Retention *)

LEMMA Least ==
  ASSUME NEW S \in SUBSET Nat, S # {}
  PROVE  \E m \in S : \A k \in S : m <= k
<1> DEFINE R == OpToRel(<, Nat)
<1>1. IsWellFoundedOn(R, Nat)
  BY NatLessThanWellFounded
<1>2. \A k, m \in Nat : k < m => <<k, m>> \in R
  BY DEF OpToRel
<1> HIDE DEF R
<1>3. PICK m \in S : \A k \in S : ~(<<k, m>> \in R)
  BY <1>1, WFMin
<1>4. \A k \in S : ~(k < m)
  BY <1>2, <1>3
<1>5. \A k \in S : m <= k
  BY <1>4
<1>6. QED
  BY <1>5

Keepers == {b \in Rows : Cardinality(Newer(b)) < Keep}

LEMMA Counts ==
  ASSUME RowsDated
  PROVE  /\ Keepers \subseteq Rows /\ Outdated \subseteq Rows /\ Outdated = Rows \ Keepers
         /\ Cardinality(Rows) \in Nat /\ IsFiniteSet(Keepers) /\ Cardinality(Keepers) \in Nat
         /\ \A b : Newer(b) \subseteq Rows /\ IsFiniteSet(Newer(b)) /\ Cardinality(Newer(b)) \in Nat
<1>1. IsFiniteSet(Rows) /\ \A S \in SUBSET Rows : IsFiniteSet(S) /\ Cardinality(S) \in Nat
  BY FS_Subset, FS_CardinalityType DEF RowsDated
<1>2. Keepers \subseteq Rows /\ Outdated \subseteq Rows /\ \A b : Newer(b) \subseteq Rows
  BY DEF Keepers, Outdated, Newer
<1>3. Outdated = Rows \ Keepers
  <2>1. \A b \in Rows : Cardinality(Newer(b)) >= Keep <=> ~(Cardinality(Newer(b)) < Keep)
    BY <1>1, <1>2, BackupsAssumption
  <2>2. QED
    BY <2>1 DEF Outdated, Keepers
<1>4. QED
  BY <1>1, <1>2, <1>3

\* Retention keeps no more than it says.
LEMMA KeepersFew ==
  ASSUME BackupsTypeOK, RowsDated
  PROVE  Cardinality(Keepers) <= Keep
<1>1. IsFiniteSet(Keepers) /\ Keepers \subseteq Rows /\ Cardinality(Keepers) \in Nat /\ Keep \in Nat
  BY Counts, BackupsAssumption
<1>2. CASE Keepers = {}
  BY <1>1, <1>2, FS_EmptySet
<1>3. CASE Keepers # {}
  <2> DEFINE S == {row[b] : b \in Keepers}
  <2>1. S \in SUBSET Nat /\ S # {}
    BY <1>1, <1>3 DEF BackupsTypeOK, Rows
  <2>2. PICK m \in S : \A k \in S : m <= k
    BY <2>1, Least
  <2>3. PICK b \in Keepers : row[b] = m
    BY <2>2
  <2>4. \A d \in Keepers : row[d] >= row[b] /\ row[d] \in Nat /\ row[b] \in Nat
    BY <1>1, <2>2, <2>3 DEF BackupsTypeOK, Rows
  <2>5. Keepers \ {b} \subseteq Newer(b)
    <3>1. SUFFICES ASSUME NEW d \in Keepers, d # b PROVE d \in Newer(b)
      OBVIOUS
    <3>2. row[d] # row[b]
      BY <1>1, <3>1 DEF RowsDated
    <3>3. row[d] > row[b]
      BY <2>4, <3>1, <3>2
    <3>4. QED
      BY <1>1, <3>1, <3>3 DEF Newer
  <2>6. Cardinality(Keepers \ {b}) <= Cardinality(Newer(b))
    BY <2>5, Counts, FS_Subset
  <2>7. Cardinality(Keepers \ {b}) = Cardinality(Keepers) - 1
    BY <1>1, <2>3, FS_RemoveElement
  <2>8. Cardinality(Newer(b)) < Keep /\ Cardinality(Newer(b)) \in Nat
    BY <2>3, Counts DEF Keepers
  <2>9. QED
    BY <1>1, <2>6, <2>7, <2>8
<1>4. QED
  BY <1>2, <1>3

\* And no fewer, of as many.
LEMMA KeepersEnough ==
  ASSUME BackupsTypeOK, RowsDated, Cardinality(Rows) >= Keep
  PROVE  Cardinality(Keepers) >= Keep
<1>1. /\ IsFiniteSet(Keepers) /\ Keepers \subseteq Rows /\ Outdated = Rows \ Keepers
      /\ Cardinality(Keepers) \in Nat /\ Keep \in Nat
  BY Counts, BackupsAssumption
<1>2. CASE Outdated = {}
  <2>1. Keepers = Rows
    BY <1>1, <1>2
  <2>2. QED
    BY <2>1
<1>3. CASE Outdated # {}
  <2> DEFINE S == {clock - row[b] : b \in Outdated}
  <2>1. \A b \in Outdated : row[b] \in Nat /\ row[b] < clock
    BY Counts DEF BackupsTypeOK, Rows, RowsDated
  <2>2. clock \in Nat
    BY DEF BackupsTypeOK
  <2>3. S \in SUBSET Nat /\ S # {}
    BY <1>3, <2>1, <2>2
  <2>4. PICK m \in S : \A k \in S : m <= k
    BY <2>3, Least
  <2>5. PICK b \in Outdated : clock - row[b] = m
    BY <2>4
  <2>6. ASSUME NEW d \in Outdated PROVE row[d] <= row[b]
    <3>1. clock - row[d] \in S
      OBVIOUS
    <3>2. clock - row[b] <= clock - row[d]
      BY <2>4, <2>5, <3>1
    <3>3. QED
      BY <2>1, <2>2, <3>2
  <2>7. Newer(b) \subseteq Keepers
    <3>1. SUFFICES ASSUME NEW d \in Newer(b), d \in Outdated PROVE FALSE
      BY <1>1, Counts
    <3>2. row[d] > row[b] /\ row[d] <= row[b] /\ row[d] \in Nat /\ row[b] \in Nat
      BY <2>1, <2>6, <3>1 DEF Newer
    <3>3. QED
      BY <3>2
  <2>8. Cardinality(Newer(b)) <= Cardinality(Keepers)
    BY <1>1, <2>7, FS_Subset
  <2>9. Cardinality(Newer(b)) >= Keep /\ Cardinality(Newer(b)) \in Nat
    BY <2>5, Counts DEF Outdated
  <2>10. QED
    BY <1>1, <2>8, <2>9
<1>4. QED
  BY <1>2, <1>3

\* They are the newest.
LEMMA KeepersNewest ==
  ASSUME BackupsTypeOK, RowsDated, NEW b \in Outdated
  PROVE  Keepers \subseteq Newer(b)
<1>1. SUFFICES ASSUME NEW e \in Keepers, e \notin Newer(b) PROVE FALSE
  OBVIOUS
<1>2. b \in Rows /\ e \in Rows /\ \A d \in Rows : row[d] \in Nat
  BY Counts DEF BackupsTypeOK, Rows
<1>3. row[e] <= row[b]
  BY <1>1, <1>2 DEF Newer
<1>4. Newer(b) \subseteq Newer(e)
  BY <1>2, <1>3 DEF Newer
<1>5. Cardinality(Newer(b)) <= Cardinality(Newer(e))
  BY <1>4, Counts, FS_Subset
<1>6. Cardinality(Newer(b)) >= Keep /\ Cardinality(Newer(e)) < Keep
      /\ Cardinality(Newer(b)) \in Nat /\ Cardinality(Newer(e)) \in Nat /\ Keep \in Nat
  BY Counts, BackupsAssumption DEF Outdated, Keepers
<1>7. QED
  BY <1>5, <1>6

\* A row is made: the newest so far, not there yet.
LEMMA MakeKeepsRetention ==
  ASSUME BackupsTypeOK, FilesInv, KeepInv, NEW b \in Archives, MakeRow(b)
  PROVE  KeepInv'
<1>1. /\ dated \in [Archives -> Nat] /\ clock \in Nat \ {0} /\ Rows \subseteq Archives
      /\ RowsDated /\ Dated /\ WithinKeep /\ NewestKept /\ latest \subseteq Archives
      /\ Archives \subseteq Runs /\ b \in Runs
  BY DEF BackupsTypeOK, Rows, Runs, KeepInv
<1>2. /\ dated' = [dated EXCEPT ![b] = clock] /\ clock' = clock + 1
      /\ UNCHANGED <<row, ever, latest, file, halted>>
      /\ work[b].pc = "placed" /\ Moves(b, "dated", work[b].olds)
  BY UploadMoves DEF MakeRow
<1>3. Rows' = Rows /\ b \notin Rows /\ b \notin latest /\ \A d : Newer(d)' = Newer(d)
  BY <1>1, <1>2 DEF Rows, Newer, FilesInv, Uploading, WithinKeep, Committed
<1>4. RowsDated'
  BY <1>1, <1>2, <1>3 DEF RowsDated, BackupsTypeOK, Rows
<1>5. Dated'
  <2>1. dated'[b] = clock /\ \A d \in Archives \ {b} : dated'[d] = dated[d] /\ dated[d] < clock
    BY <1>1, <1>2 DEF Dated
  <2>2. \A d \in Archives \ {b} : work'[d] = work[d]
    BY <1>1, <1>2 DEF Moves
  <2>3. \A d \in Archives : dated'[d] < clock' /\ (work'[d].pc = "dated" => dated'[d] > 0)
    BY <1>1, <1>2, <2>1, <2>2 DEF Dated
  <2>4. \A d \in Rows : row'[d] = dated'[d]
    BY <1>1, <1>2, <1>3, <2>1 DEF Dated
  <2>5. \A d, e \in Archives : dated'[d] = dated'[e] /\ dated'[d] > 0 => d = e
    BY <1>1, <2>1 DEF Dated
  <2>6. QED
    BY <1>3, <2>3, <2>4, <2>5 DEF Dated
<1>6. \A d \in latest : work'[d] = work[d]
  BY <1>1, <1>2, <1>3 DEF Moves
<1>7. WithinKeep'
  BY <1>1, <1>2, <1>3, <1>6 DEF WithinKeep, Committed
<1>8. NewestKept'
  <2>1. Undisturbed' => Undisturbed
    BY <1>1, <1>2, BackupsAssumption DEF Undisturbed, Moves, Runs
  <2>2. QED
    BY <1>1, <1>2, <1>3, <2>1 DEF NewestKept
<1>9. QED
  BY <1>4, <1>5, <1>7, <1>8 DEF KeepInv

\* A row is added, with the date it was made with.
LEMMA CommitKeepsRetention ==
  ASSUME BackupsTypeOK, FilesInv, KeepInv, NEW b \in Archives, CommitRow(b), present
  PROVE  KeepInv'
<1>1. /\ row \in [Archives -> Nat] /\ clock \in Nat \ {0} /\ Rows \subseteq Archives /\ b \in Runs
      /\ dated \in [Archives -> Nat] /\ Archives \subseteq Runs
      /\ RowsDated /\ Dated /\ WithinKeep /\ NewestKept /\ Keep \in Nat
  BY BackupsAssumption DEF BackupsTypeOK, Rows, Runs, KeepInv
<1>2. /\ row' = [row EXCEPT ![b] = dated[b]] /\ ever' = ever \cup {b} /\ latest' = {b}
      /\ UNCHANGED <<dated, clock, file, halted>>
      /\ work[b].pc = "dated" /\ Moves(b, "kept", work[b].olds)
  BY UploadMoves DEF CommitRow, BackupsTypeOK, Moves
<1>3. b \in file /\ b \notin Rows /\ dated[b] > 0 /\ Rows' = Rows \cup {b}
  BY <1>1, <1>2 DEF FilesInv, Uploading, Rows, Dated
<1>4. row'[b] = dated[b] /\ \A d \in Rows : row'[d] = row[d] /\ row[d] = dated[d] /\ row[d] > 0
  BY <1>1, <1>2, <1>3 DEF Dated, Rows
<1>5. RowsDated'
  <2>1. IsFiniteSet(Rows')
    BY <1>1, <1>3, FS_AddElement DEF RowsDated
  <2>2. \A d \in Rows' : row'[d] = dated[d] /\ dated[d] < clock /\ dated[d] > 0 /\ d \in Archives
    BY <1>1, <1>3, <1>4 DEF Dated
  <2>3. QED
    BY <1>1, <1>2, <2>1, <2>2 DEF RowsDated, Dated
<1>6. Dated'
  <2>1. \A d \in Archives : work'[d].pc = "dated" => work[d].pc = "dated"
    BY <1>1, <1>2 DEF Moves
  <2>2. QED
    BY <1>1, <1>2, <1>3, <1>4, <2>1 DEF Dated
<1>7. WithinKeep'
  BY <1>2 DEF WithinKeep, Committed, Moves
<1>8. NewestKept'
  <2>1. SUFFICES ASSUME Undisturbed'
                 PROVE  /\ Rows' = ever' \/ Cardinality(Rows') >= Keep
                        /\ \A d \in Rows' : Cardinality(Newer(d)') < Keep => d \in file'
    BY DEF NewestKept
  <2>2. Undisturbed
    BY <1>2, <2>1, BackupsAssumption DEF Undisturbed, Moves, Runs
  <2>3. Cardinality(Rows') = Cardinality(Rows) + 1 /\ Cardinality(Rows) \in Nat
    BY <1>1, <1>3, Counts, FS_AddElement DEF RowsDated
  <2>4. Rows' = ever' \/ Cardinality(Rows') >= Keep
    BY <1>1, <1>2, <1>3, <2>2, <2>3 DEF NewestKept
  <2>5. ASSUME NEW d \in Rows, Cardinality(Newer(d)') < Keep PROVE d \in file'
    <3>1. Newer(d) \subseteq Newer(d)'
      BY <1>3, <1>4 DEF Newer
    <3>2. Newer(d)' \subseteq Rows' /\ IsFiniteSet(Rows')
      BY <1>5 DEF Newer, RowsDated
    <3>3. IsFiniteSet(Newer(d)') /\ Cardinality(Newer(d)') \in Nat
      BY <3>2, FS_Subset, FS_CardinalityType
    <3>4. Cardinality(Newer(d)) <= Cardinality(Newer(d)') /\ Cardinality(Newer(d)) \in Nat
      BY <1>1, <3>1, <3>3, Counts, FS_Subset
    <3>5. Cardinality(Newer(d)) < Keep
      BY <1>1, <2>5, <3>3, <3>4
    <3>6. QED
      BY <1>1, <1>2, <2>2, <3>5 DEF NewestKept
  <2>6. QED
    BY <1>2, <1>3, <2>4, <2>5
<1>9. QED
  BY <1>5, <1>6, <1>7, <1>8 DEF KeepInv

\* The upload unlinks what is beyond the newest.
LEMMA RetainKeepsRetention ==
  ASSUME BackupsTypeOK, FilesInv, KeepInv, NEW b \in Archives, Retain(b)
  PROVE  KeepInv'
<1>1. RowsDated /\ Dated /\ WithinKeep /\ NewestKept /\ Keep \in Nat /\ Rows \subseteq Archives
      /\ b \in Runs /\ Archives \subseteq Runs /\ latest \subseteq Archives
  BY BackupsAssumption DEF Rows, Runs, KeepInv, BackupsTypeOK
<1>2. /\ Moves(b, "unlinked", Outdated) /\ UNCHANGED <<rowVars, halted>> /\ Rows' = Rows
      /\ UNCHANGED <<row, dated, clock, ever, latest>>
      /\ file' = file \ Outdated
  BY UploadMoves DEF Retain, Takes, Rows, rowVars
<1>3. \A d : Newer(d)' = Newer(d)
  BY <1>2 DEF Newer
<1>4. RowsDated' /\ Dated'
  <2>1. \A d \in Archives : work'[d].pc = "dated" => work[d].pc = "dated"
    BY <1>1, <1>2 DEF Moves
  <2>2. QED
    BY <1>1, <1>2, <2>1 DEF RowsDated, Dated
<1>5. WithinKeep'
  <2>1. SUFFICES ASSUME NEW d \in latest
                 PROVE  /\ Committed(d)'
                        /\ work'[d].pc = "unlinked" => Cardinality(Rows \ work'[d].olds) <= Keep
                        /\ work'[d].pc = "done" /\ d \notin halted => Cardinality(Rows) <= Keep
    BY <1>2 DEF WithinKeep
  <2>2. CASE d # b
    <3>1. work'[d] = work[d]
      BY <1>1, <1>2, <2>2 DEF Moves
    <3>2. QED
      BY <1>1, <3>1 DEF WithinKeep, Committed
  <2>3. CASE d = b
    <3>1. Rows \ Outdated = Keepers
      BY <1>1, Counts
    <3>2. QED
      BY <1>1, <1>2, <2>3, <3>1, KeepersFew DEF Moves, Committed
  <2>4. QED
    BY <2>2, <2>3
<1>6. NewestKept'
  <2>1. Undisturbed' => Undisturbed
    BY <1>1, <1>2, BackupsAssumption DEF Undisturbed, Moves, Runs
  <2>2. \A d \in Rows : Cardinality(Newer(d)) < Keep => d \notin Outdated
    BY <1>1, Counts DEF Keepers
  <2>3. QED
    BY <1>1, <1>2, <1>3, <2>1, <2>2 DEF NewestKept
<1>7. QED
  BY <1>4, <1>5, <1>6 DEF KeepInv

\* The rows of what was unlinked go.
LEMMA RemovalKeepsRetention ==
  ASSUME BackupsTypeOK, FilesInv, KeepInv, NEW w \in Runs, CommitRemoval(w),
         row' = [b \in Archives |-> IF b \in work[w].olds THEN 0 ELSE row[b]], halted' = halted
  PROVE  KeepInv'
<1>1. /\ row \in [Archives -> Nat] /\ Rows \subseteq Archives /\ Archives \subseteq Runs
      /\ RowsDated /\ Dated /\ WithinKeep /\ NewestKept /\ Keep \in Nat /\ latest \subseteq Archives
  BY BackupsAssumption DEF BackupsTypeOK, Rows, Runs, KeepInv
<1>2. work[w].pc = "unlinked" /\ Moves(w, "done", {})
      /\ UNCHANGED <<dated, clock, ever, latest, file>>
  BY SweepMoves DEF CommitRemoval
<1>3. Rows' = Rows \ work[w].olds /\ \A d \in Rows' : row'[d] = row[d]
  BY <1>1 DEF Rows
<1>4. IsFiniteSet(Rows') /\ RowsDated'
  <2>1. IsFiniteSet(Rows')
    BY <1>1, <1>3, FS_Subset DEF RowsDated
  <2>2. QED
    BY <1>1, <1>2, <1>3, <2>1 DEF RowsDated
<1>5. Dated'
  <2>1. \A d \in Archives : work'[d].pc = "dated" => work[d].pc = "dated"
    BY <1>1, <1>2 DEF Moves
  <2>2. QED
    BY <1>1, <1>2, <1>3, <2>1 DEF Dated
<1>6. WithinKeep'
  <2>1. SUFFICES ASSUME NEW d \in latest
                 PROVE  /\ Committed(d)'
                        /\ work'[d].pc = "unlinked" => Cardinality(Rows' \ work'[d].olds) <= Keep
                        /\ work'[d].pc = "done" /\ d \notin halted => Cardinality(Rows') <= Keep
    BY <1>2 DEF WithinKeep
  <2>2. ASSUME NEW S \in SUBSET Rows, NEW T \in SUBSET S
        PROVE  /\ Cardinality(T) <= Cardinality(S)
               /\ Cardinality(T) \in Nat /\ Cardinality(S) \in Nat
    BY <1>1, FS_Subset, FS_CardinalityType DEF RowsDated
  <2>3. CASE d = w
    BY <1>1, <1>2, <1>3, <2>3 DEF WithinKeep, Moves, Committed
  <2>4. CASE d # w
    <3>1. work'[d] = work[d]
      BY <1>1, <1>2, <2>4 DEF Moves
    <3>2. /\ Cardinality(Rows' \ work[d].olds) <= Cardinality(Rows \ work[d].olds)
          /\ Cardinality(Rows' \ work[d].olds) \in Nat /\ Cardinality(Rows \ work[d].olds) \in Nat
          /\ Cardinality(Rows') <= Cardinality(Rows)
          /\ Cardinality(Rows') \in Nat /\ Cardinality(Rows) \in Nat
      <4>1. Rows' \ work[d].olds \in SUBSET (Rows \ work[d].olds) /\ Rows' \in SUBSET Rows
        BY <1>3
      <4>2. QED
        BY <2>2, <4>1
    <3>3. QED
      BY <1>1, <3>1, <3>2 DEF WithinKeep, Committed
  <2>5. QED
    BY <2>3, <2>4
<1>7. NewestKept'
  <2>1. SUFFICES ASSUME Undisturbed'
                 PROVE  /\ Rows' = ever \/ Cardinality(Rows') >= Keep
                        /\ \A d \in Rows' : Cardinality(Newer(d)') < Keep => d \in file
    BY <1>2 DEF NewestKept
  <2>2. Undisturbed
    <3>1. w \notin Sweeps
      BY <1>2, <2>1 DEF Undisturbed, Moves
    <3>2. QED
      BY <1>2, <2>1, <3>1 DEF Undisturbed, Moves, Runs
  <2>3. Rows \cap work[w].olds \subseteq Outdated
    <3>1. \A b \in work[w].olds : b \notin file
      BY <1>2 DEF FilesInv, OldsGone
    <3>2. \A b \in Rows \ file : b \notin Keepers
      BY <1>1, <2>2 DEF NewestKept, Keepers
    <3>3. QED
      BY <1>1, <3>1, <3>2, Counts
  <2>4. CASE Rows \cap work[w].olds = {}
    <3>1. Rows' = Rows
      BY <1>3, <2>4
    <3>2. \A d \in Rows' : Newer(d)' = Newer(d)
      BY <1>3, <3>1 DEF Newer
    <3>3. QED
      BY <1>1, <2>2, <3>1, <3>2 DEF NewestKept
  <2>5. CASE Rows \cap work[w].olds # {}
    <3>1. PICK b \in Outdated : TRUE
      BY <2>3, <2>5
    <3>2. Cardinality(Newer(b)) >= Keep /\ Cardinality(Newer(b)) <= Cardinality(Rows)
          /\ Cardinality(Newer(b)) \in Nat /\ Cardinality(Rows) \in Nat
      BY <1>1, <3>1, Counts, FS_Subset DEF Outdated, RowsDated
    <3>3. Cardinality(Keepers) >= Keep
      BY <1>1, <3>2, KeepersEnough
    <3>4. Keepers \subseteq Rows'
      BY <1>1, <1>3, <2>3, Counts
    <3>5. ASSUME NEW S, Keepers \subseteq S, S \subseteq Rows'
          PROVE  Cardinality(S) >= Keep /\ Cardinality(S) \in Nat
      <4>1. IsFiniteSet(S)
        BY <1>4, <3>5, FS_Subset DEF RowsDated
      <4>2. Cardinality(Keepers) <= Cardinality(S) /\ Cardinality(S) \in Nat
            /\ Cardinality(Keepers) \in Nat
        BY <1>1, <3>5, <4>1, FS_Subset, FS_CardinalityType, Counts
      <4>3. QED
        BY <1>1, <3>3, <4>2
    <3>6. ASSUME NEW d \in Rows', d \notin file, Cardinality(Newer(d)') < Keep PROVE FALSE
      <4>1. d \in Outdated
        BY <1>1, <1>3, <2>2, <3>6, Counts DEF NewestKept, Keepers
      <4>2. Keepers \subseteq Newer(d)
        BY <1>1, <4>1, KeepersNewest
      <4>3. Keepers \subseteq Newer(d)' /\ Newer(d)' \subseteq Rows'
        BY <1>3, <3>4, <4>2 DEF Newer
      <4>4. Cardinality(Newer(d)') >= Keep /\ Cardinality(Newer(d)') \in Nat
        BY <3>5, <4>3
      <4>5. QED
        BY <1>1, <3>6, <4>4
    <3>7. QED
      BY <3>4, <3>5, <3>6
  <2>6. QED
    BY <2>4, <2>5
<1>8. QED
  BY <1>4, <1>5, <1>6, <1>7 DEF KeepInv

\* The other steps leave the rows as they are.
LEMMA OthersKeepRetention ==
  ASSUME BackupsTypeOK, FilesInv, KeepInv, UNCHANGED rowVars,
         \A d \in latest : work'[d] = work[d] \/ (work'[d].pc = "done" /\ d \in halted'),
         \A d \in Archives : work'[d].pc = "dated" => work[d].pc = "dated",
         halted \subseteq halted', Undisturbed' => Undisturbed /\ file \cap Rows \subseteq file'
  PROVE  KeepInv'
<1>1. /\ UNCHANGED <<row, dated, clock, ever, latest>> /\ Rows' = Rows
      /\ \A d : Newer(d)' = Newer(d)
  BY DEF rowVars, Rows, Newer
<1>2. RowsDated' /\ Dated'
  BY <1>1 DEF KeepInv, RowsDated, Dated
<1>3. WithinKeep'
  BY <1>1 DEF KeepInv, WithinKeep, Committed
<1>4. NewestKept'
  BY <1>1 DEF KeepInv, NewestKept
<1>5. QED
  BY <1>2, <1>3, <1>4 DEF KeepInv

LEMMA RetentionKeeps ==
  ASSUME BackupsTypeOK, FilesInv, KeepInv, BackupsNext
  PROVE  KeepInv'
<1>1. /\ Rows \subseteq Archives /\ Archives \subseteq Runs /\ Sweeps \subseteq Runs
      /\ Archives \cap Sweeps = {} /\ latest \subseteq Archives
      /\ \A d \in latest : Committed(d)
  BY BackupsAssumption DEF Rows, Runs, BackupsTypeOK, KeepInv, WithinKeep
<1>2. ASSUME NEW w \in Runs, NEW pc, NEW olds, Moves(w, pc, olds), pc \notin {"idle", "dated"}
      PROVE  /\ Undisturbed' => Undisturbed /\ w \notin Sweeps
             /\ \A d \in Archives : work'[d].pc = "dated" => work[d].pc = "dated"
             /\ \A d \in latest \ {w} : work'[d] = work[d]
  <2>1. Undisturbed' => Undisturbed /\ w \notin Sweeps
    BY <1>1, <1>2 DEF Undisturbed, Moves
  <2>2. QED
    BY <1>1, <1>2, <2>1 DEF Moves
<1>3. ASSUME NEW b \in Archives, UploadStarts(b) \/ UploadRefused(b) \/ Place(b) PROVE KeepInv'
  <2>1. UNCHANGED <<rowVars, halted>> /\ file \cap Rows \subseteq file'
    BY <1>3 DEF UploadStarts, UploadRefused, Place
  <2>2. b \notin latest
    BY <1>1, <1>3 DEF UploadStarts, Opens, UploadRefused, Place, Committed
  <2>3. PICK pc \in {"writing", "done", "placed"} : \E olds : Moves(b, pc, olds)
    BY <1>3, UploadMoves
  <2>4. QED
    BY <1>1, <1>2, <2>1, <2>2, <2>3, OthersKeepRetention
<1>4. ASSUME NEW b \in Archives, CommitRow(b) PROVE KeepInv'
  <2>1. CASE present
    BY <1>4, <2>1, CommitKeepsRetention
  <2>2. CASE ~present
    <3>1. UNCHANGED <<rowVars, file>> /\ halted' = halted \cup {b}
      BY <1>4, <2>2 DEF CommitRow, rowVars
    <3>2. Moves(b, "done", {})
      BY <1>4, <2>2, UploadMoves
    <3>3. \A d \in latest : work'[d] = work[d] \/ (work'[d].pc = "done" /\ d \in halted')
      BY <1>1, <3>1, <3>2 DEF Moves
    <3>4. QED
      BY <1>1, <1>2, <3>1, <3>2, <3>3, OthersKeepRetention
  <2>3. QED
    BY <2>1, <2>2
<1>5. ASSUME NEW w \in Sweeps, RemoveBackup(w) \/ DeleteInstance(w) PROVE KeepInv'
  <2>1. PICK kind \in {"remove", "instance"}, olds \in SUBSET Rows : DeleteBackups(w, kind, olds)
    BY <1>5, Deletes
  <2>2. Moves(w, "unlinked", olds) /\ UNCHANGED <<rowVars, halted>>
    BY <1>1, <2>1, SweepMoves DEF DeleteBackups
  <2>3. ~Undisturbed' /\ w \in Runs /\ w \notin latest
    BY <1>1, <1>2, <2>2
  <2>4. QED
    BY <1>1, <1>2, <2>2, <2>3, OthersKeepRetention
<1>6. ASSUME NEW w \in Runs, CommitRemoval(w) PROVE KeepInv'
  <2>1. CASE work[w].kind = "instance" /\ Rows \ Removed(w) # {}
    <3>1. UNCHANGED <<rowVars, file>> /\ halted' = halted \cup {w} /\ Moves(w, "done", {})
      BY <1>6, <2>1, SweepMoves DEF CommitRemoval, rowVars
    <3>2. \A d \in latest : work'[d] = work[d] \/ (work'[d].pc = "done" /\ d \in halted')
      BY <1>1, <3>1 DEF Moves
    <3>3. QED
      BY <1>1, <1>2, <3>1, <3>2, OthersKeepRetention
  <2>2. CASE ~(work[w].kind = "instance" /\ Rows \ Removed(w) # {})
    <3>1. halted' = halted
          /\ row' = [b \in Archives |-> IF b \in work[w].olds THEN 0 ELSE row[b]]
      BY <1>6, <2>2 DEF CommitRemoval, Removed
    <3>2. QED
      BY <1>6, <3>1, RemovalKeepsRetention
  <2>3. QED
    BY <2>1, <2>2
<1>7. ASSUME NEW w \in Runs, Halt(w) PROVE KeepInv'
  <2>1. UNCHANGED <<rowVars, file>> /\ halted' = halted \cup {w} /\ Moves(w, "done", {})
    BY <1>7, SweepMoves DEF Halt
  <2>2. \A d \in latest : work'[d] = work[d] \/ (work'[d].pc = "done" /\ d \in halted')
    BY <1>1, <2>1 DEF Moves
  <2>3. QED
    BY <1>1, <1>2, <2>1, <2>2, OthersKeepRetention
<1>8. ASSUME UNCHANGED <<rowVars, file, work, halted>> PROVE KeepInv'
  BY <1>8, OthersKeepRetention DEF Undisturbed
<1>9. OperatorAsks \/ SchedulerLooks \/ SchedulerAsks \/ AskSettles =>
        UNCHANGED <<rowVars, file, work, halted>>
  BY DEF OperatorAsks, SchedulerLooks, SchedulerAsks, AskSettles
<1>10. QED
  BY <1>3, <1>4, <1>5, <1>6, <1>7, <1>8, <1>9, MakeKeepsRetention, RetainKeepsRetention
  DEF BackupsNext

-----------------------------------------------------------------------------
(* The invariant, and the theorems *)

LEMMA RequestsKeep ==
  ASSUME BackupsTypeOK, PlannedAlone, ScheduledOnce, BackupsNext
  PROVE  PlannedAlone' /\ ScheduledOnce'
<1>1. asked \subseteq {"operator", "scheduler"} \X (1..MaxAsked)
  BY DEF BackupsTypeOK
<1>2. ASSUME planned' = planned, asked' \subseteq asked PROVE PlannedAlone' /\ ScheduledOnce'
  BY <1>2 DEF PlannedAlone, ScheduledOnce
<1>3. CASE OperatorAsks
  <2>1. asked' = asked \cup {<<"operator", sent + 1>>} /\ planned' = planned
    BY <1>3 DEF OperatorAsks
  <2>2. \A a \in asked' : a[1] = "scheduler" => a \in asked
    BY <2>1
  <2>3. PlannedAlone'
    BY <2>1, <2>2 DEF PlannedAlone
  <2>4. ScheduledOnce'
    BY <2>2 DEF ScheduledOnce
  <2>5. QED
    BY <2>3, <2>4
<1>4. CASE SchedulerLooks
  BY <1>4 DEF SchedulerLooks, NoneOpen, PlannedAlone, ScheduledOnce
<1>5. CASE SchedulerAsks
  <2>1. asked' = asked \cup {<<"scheduler", sent + 1>>} /\ ~planned'
        /\ \A a \in asked : a[1] # "scheduler"
    BY <1>5 DEF SchedulerAsks, PlannedAlone
  <2>2. PlannedAlone'
    BY <2>1 DEF PlannedAlone
  <2>3. ScheduledOnce'
    BY <2>1 DEF ScheduledOnce
  <2>4. QED
    BY <2>2, <2>3
<1>6. CASE AskSettles
  <2>1. planned' = planned /\ asked' \subseteq asked
    BY <1>6 DEF AskSettles
  <2>2. QED
    BY <1>2, <2>1
<1>7. CASE \E w \in Runs : CommitRemoval(w)
  <2>1. planned' = planned /\ asked' \subseteq asked
    BY <1>7 DEF CommitRemoval
  <2>2. QED
    BY <1>2, <2>1
<1>8. CASE \/ \E b \in Archives : \/ UploadStarts(b) \/ UploadRefused(b) \/ Place(b)
                                  \/ MakeRow(b) \/ CommitRow(b) \/ Retain(b)
           \/ \E w \in Sweeps : RemoveBackup(w) \/ DeleteInstance(w)
           \/ \E w \in Runs : Halt(w)
  <2>1. UNCHANGED runVars
    BY <1>8 DEF UploadStarts, UploadRefused, Place, MakeRow, CommitRow, Retain, RemoveBackup,
                DeleteInstance, DeleteBackups, Halt
  <2>2. QED
    BY <1>2, <2>1 DEF runVars
<1>9. QED
  BY <1>3, <1>4, <1>5, <1>6, <1>7, <1>8 DEF BackupsNext

LEMMA InitEstablishes == BackupsInit => IndInv
<1> SUFFICES ASSUME BackupsInit PROVE IndInv
  OBVIOUS
<1>1. Rows = {} /\ row = [b \in Archives |-> 0] /\ file = {} /\ clock = 1
      /\ dated = [b \in Archives |-> 0] /\ ever = {} /\ latest = {}
      /\ work = [w \in Runs |-> NoWork] /\ NoWork.pc = "idle" /\ Archives \subseteq Runs
      /\ NoWork \in WorkRec
  BY DEF BackupsInit, Rows, NoWork, Runs, WorkRec
<1>2. BackupsTypeOK
  <2>1. work \in [Runs -> WorkRec]
    BY <1>1
  <2>2. row \in [Archives -> Nat] /\ takers \in [Archives -> SUBSET Runs] /\ halted \subseteq Runs
    BY <1>1 DEF BackupsInit
  <2>3. sent \in 0..MaxAsked /\ halts \in 0..MaxHalts
        /\ asked \subseteq {"operator", "scheduler"} \X (1..MaxAsked)
    BY BackupsAssumption DEF BackupsInit
  <2>4. present \in BOOLEAN /\ planned \in BOOLEAN
    BY Zenon DEF BackupsInit
  <2>5. /\ file \subseteq Archives /\ clock \in Nat \ {0} /\ dated \in [Archives -> Nat]
        /\ ever \subseteq Archives /\ latest \subseteq Archives
    BY <1>1
  <2>6. QED
    BY <2>1, <2>2, <2>3, <2>4, <2>5 DEF BackupsTypeOK, WorkRec
<1>3. FilesInv
  BY <1>1 DEF FilesInv, Uploading, StrayFiles, OldsGone, MissingTaken
<1>4. PlannedAlone /\ ScheduledOnce
  BY DEF BackupsInit, PlannedAlone, ScheduledOnce
<1>5. KeepInv
  BY <1>1, FS_EmptySet DEF KeepInv, RowsDated, Dated, WithinKeep, NewestKept
<1>6. QED
  BY <1>2, <1>3, <1>4, <1>5 DEF IndInv

LEMMA Inductive == IndInv /\ [BackupsNext]_backupVars => IndInv'
<1> SUFFICES ASSUME IndInv, [BackupsNext]_backupVars PROVE IndInv'
  OBVIOUS
<1>1. CASE BackupsNext
  BY <1>1, TypesKeep, FilesKeep, RequestsKeep, RetentionKeeps DEF IndInv, KeepInv
<1>2. CASE UNCHANGED backupVars
  <2>1. UNCHANGED <<row, dated, ever, latest, file, present, clock, work, asked, sent, planned, halts,
                    halted, takers>>
    BY <1>2 DEF backupVars, rowVars, runVars
  <2>2. BackupsTypeOK'
    BY <2>1 DEF IndInv, BackupsTypeOK
  <2>3. FilesInv'
    BY <2>1 DEF IndInv, FilesInv, Uploading, StrayFiles, OldsGone, MissingTaken, Rows, Committed
  <2>4. PlannedAlone' /\ ScheduledOnce'
    BY <2>1 DEF IndInv, PlannedAlone, ScheduledOnce
  <2>5. KeepInv'
    BY <2>1, OthersKeepRetention DEF IndInv, Undisturbed, rowVars
  <2>6. QED
    BY <2>2, <2>3, <2>4, <2>5 DEF IndInv
<1>3. QED
  BY <1>1, <1>2

LEMMA Invariant == BackupsSpec => []IndInv
<1>1. QED
  BY InitEstablishes, Inductive, PTL DEF BackupsSpec

\* What the rows, the archives and the runs on them can be.
THEOREM BackupTypes == BackupsSpec => []BackupsTypeOK
<1>1. IndInv => BackupsTypeOK
  BY DEF IndInv
<1>2. QED
  BY Invariant, <1>1, PTL

\* An archive without its row was being uploaded, a row without its archive was
\* being deleted: a run is on its way or was cut short (backups/service.py:37).
THEOREM FilesMatched == BackupsSpec => []FilesMatchRows
<1>1. IndInv => FilesMatchRows
  <2>1. ASSUME IndInv PROVE FilesMatchRows
    <3>1. \A b \in file \ Rows : b \in Busy \cup halted
      BY <2>1 DEF IndInv, FilesInv, StrayFiles, BackupsTypeOK, Busy, Runs
    <3>2. \A b \in Rows \ file : takers[b] \cap (Busy \cup halted) # {}
      BY <2>1 DEF IndInv, FilesInv, MissingTaken, BackupsTypeOK, Busy, Rows
    <3>3. QED
      BY <3>1, <3>2 DEF FilesMatchRows
  <2>2. QED
    BY <2>1
<1>2. QED
  BY Invariant, <1>1, PTL

\* Retention keeps what it says, no more and no less, whatever uploads run beside
\* each other and in whatever order the rows they made are committed
\* (backups/service.py:45, agents/router.py:223).
THEOREM RetentionKept == BackupsSpec => []RetentionExact
<1>1. IndInv => RetentionExact
  <2>1. ASSUME IndInv PROVE RetentionExact
    <3>1. ASSUME NEW b \in latest, b \notin Busy \cup halted PROVE Cardinality(Rows) <= Keep
      <4>1. work[b].pc = "done"
        BY <2>1, <3>1 DEF IndInv, KeepInv, WithinKeep, Committed, BackupsTypeOK, Busy, Runs
      <4>2. QED
        BY <2>1, <3>1, <4>1 DEF IndInv, KeepInv, WithinKeep
    <3>2. QED
      BY <2>1, <3>1 DEF IndInv, KeepInv, NewestKept, Undisturbed, RetentionExact
  <2>2. QED
    BY <2>1
<1>2. QED
  BY Invariant, <1>1, PTL

\* The scheduler never has two commands open (backups/service.py:78).
THEOREM OneScheduled == BackupsSpec => []ScheduledOnce
<1>1. IndInv => ScheduledOnce
  BY DEF IndInv
<1>2. QED
  BY Invariant, <1>1, PTL
=============================================================================
