--------------------------- MODULE ServicesProofs ---------------------------
(***************************************************************************)
(* Proofs about modules RateLimiter and AuditWriter, for any keys, requests, *)
(* thresholds and number of restarts, and any entries, sizes of the queue    *)
(* and of the batches and number of outages.                                 *)
(*                                                                         *)
(* ScheduleHolds is inductive: a record, a row and a copy on its way change  *)
(* only as wholes.  BlocksAreStored needs to know what a request in flight   *)
(* has in hand.  A key is clean as long as the requests of its record did    *)
(* not overlap with others and none was dropped.  What such a request copied *)
(* is then the record itself (HandFits), and a request whose record was      *)
(* reset under it has met those who counted since (ResetSeen), so that its   *)
(* commit touches no clean row.                                              *)
(*                                                                         *)
(* NothingLeftBehind is inductive with what the shutdown waits for: the      *)
(* counter of the queue is what is in it and in the batch (QueueCounted),    *)
(* and an accepted entry is in one of the two.                               *)
(***************************************************************************)
EXTENDS RateLimiter, AuditWriter, TLAPS

Sound(rec) == OnSchedule(rec) /\ (rec.blocked => rec.attempts > 0)

AllSound ==
  \A k \in LimitKeys :
    /\ Sound(record[k]) /\ Sound(stored[k])
    /\ \A a \in Attempts : Sound(copied[a][k])

Together == \A a, b \in InFlight : a # b => {a, b} \in beside

CountedKnown ==
  \A k \in LimitKeys :
    /\ \A a \in counted[k] : /\ k \in KeysOf[a]
                             /\ attempt[a] \notin {"new", "resetting", "deleting"}
    /\ counted[k] # {} => record[k].attempts > 0

AttemptKnown ==
  \A a \in Attempts :
    /\ todo[a] \subseteq KeysOf[a]
    /\ attempt[a] \in {"new", "checking"} => todo[a] = KeysOf[a]
    /\ \A k \in LimitKeys \ KeysOf[a] : copied[a][k] = NoRecord

Clean(k) ==
  \A a \in counted[k] :
    /\ attempt[a] # "dropped"
    /\ \A b \in Attempts : b # a => {a, b} \notin beside

HandFits ==
  \A k \in LimitKeys : Clean(k) =>
    \A a \in counted[k] :
      attempt[a] = "failing" /\ k \notin todo[a] => copied[a][k] = record[k]

ResetSeen ==
  \A a \in InFlight : \A k \in KeysOf[a] :
    a \notin counted[k] /\ record[k].attempts > 0 =>
      \E c \in counted[k] : c # a /\ {a, c} \in beside

BlockKept ==
  \A k \in LimitKeys : Clean(k) /\ record[k].blocked =>
    stored[k] = record[k] \/ \E a \in InFlight : a \in counted[k]

IndInv ==
  /\ LimiterTypeOK
  /\ AllSound /\ Together /\ CountedKnown /\ AttemptKnown
  /\ HandFits /\ ResetSeen /\ BlockKept
-----------------------------------------------------------------------------
(* Records *)

LEMMA NoRecordSound == NoRecord \in Record /\ Sound(NoRecord)
BY LimiterAssumption DEF NoRecord, Record, Sound, OnSchedule

LEMMA CountedSound ==
  ASSUME NEW rec \in Record, Sound(rec)
  PROVE  /\ Counted(rec) \in Record /\ Sound(Counted(rec))
         /\ Counted(rec).attempts > 0
<1>1. /\ rec.attempts \in Nat /\ rec.block_count \in Nat /\ rec.blocked \in BOOLEAN
  BY DEF Record
<1>2. [rec EXCEPT !.attempts = rec.attempts + 1] \in Record
  BY <1>1 DEF Record
<1>3. CASE ShouldBlock(rec.attempts + 1, rec.block_count)
  <2>1. Counted(rec) = [attempts |-> rec.attempts + 1, block_count |-> rec.block_count + 1,
                        blocked |-> TRUE]
    BY <1>3 DEF Counted
  <2>2. QED
    BY <1>1, <1>3, <2>1, LimiterAssumption DEF Sound, OnSchedule, ShouldBlock, Record
<1>4. CASE ~ShouldBlock(rec.attempts + 1, rec.block_count)
  <2>1. Counted(rec) = [rec EXCEPT !.attempts = rec.attempts + 1]
    BY <1>4 DEF Counted
  <2>2. /\ Counted(rec).attempts = rec.attempts + 1
        /\ Counted(rec).block_count = rec.block_count
        /\ Counted(rec).blocked = rec.blocked
    BY <2>1, <1>1 DEF Record
  <2>3. QED
    BY <1>1, <1>2, <1>4, <2>1, <2>2, LimiterAssumption DEF Sound, OnSchedule, ShouldBlock
<1>5. QED
  BY <1>3, <1>4

\* A block that ends takes nothing but the block.
LEMMA PastSound ==
  ASSUME NEW rec \in Record, Sound(rec)
  PROVE  /\ [rec EXCEPT !.blocked = FALSE] \in Record
         /\ Sound([rec EXCEPT !.blocked = FALSE])
         /\ [rec EXCEPT !.blocked = FALSE].attempts = rec.attempts
         /\ ~[rec EXCEPT !.blocked = FALSE].blocked
BY DEF Record, Sound, OnSchedule
-----------------------------------------------------------------------------
(* Steps that leave the records alone *)

\* A request that does not begin: who is in flight overlaps as before, and what
\* was reset under it stays seen.
LEMMA RecordsStand ==
  ASSUME IndInv, LimiterTypeOK', UNCHANGED <<record, counted, beside>>,
         InFlight' \subseteq InFlight
  PROVE  Together' /\ ResetSeen'
<1>1. Together'
  BY DEF IndInv, Together
<1>2. ResetSeen'
  BY DEF IndInv, ResetSeen
<1>3. QED
  BY <1>1, <1>2

\* Who was dropped stays dropped.
LEMMA CleanBefore ==
  ASSUME NEW k, UNCHANGED <<counted, beside>>,
         \A a \in counted[k] : attempt[a] = "dropped" => attempt'[a] = "dropped"
  PROVE  Clean(k)' => Clean(k)
BY DEF Clean

LEMMA RecordFailureKeeps ==
  ASSUME IndInv, NEW a \in Attempts, NEW k \in LimitKeys, RecordFailure(a, k)
  PROVE  IndInv'
<1> USE DEF RecordFailure, Persisted
<1>1. /\ attempt[a] \in {"checking", "failing"} /\ attempt' = [attempt EXCEPT ![a] = "failing"]
      /\ copied' = [copied EXCEPT ![a][k] = record[k]]
      /\ todo' = [todo EXCEPT ![a] = todo[a] \ {k}]
      /\ k \in todo[a]
      /\ UNCHANGED <<record, stored, reboots, counted, beside>>
  BY DEF IndInv, LimiterTypeOK
<1>2. LimiterTypeOK'
  BY <1>1 DEF IndInv, LimiterTypeOK
<1>3. AllSound'
  BY <1>1 DEF IndInv, LimiterTypeOK, AllSound
<1>4. InFlight' = InFlight
  BY <1>1 DEF InFlight, IndInv, LimiterTypeOK
<1>5. Together' /\ ResetSeen'
  BY <1>1, <1>2, <1>4, RecordsStand
<1>6. CountedKnown'
  BY <1>1 DEF IndInv, LimiterTypeOK, CountedKnown
<1>7. AttemptKnown'
  <2>1. k \in KeysOf[a]
    BY <1>1 DEF IndInv, AttemptKnown
  <2>2. QED
    BY <1>1, <2>1 DEF IndInv, LimiterTypeOK, AttemptKnown
<1>8. \A m \in LimitKeys : Clean(m)' => Clean(m)
  BY <1>1, CleanBefore DEF IndInv, LimiterTypeOK
<1>9. HandFits'
  <2> SUFFICES ASSUME NEW m \in LimitKeys, Clean(m)', NEW c \in counted'[m],
                      attempt'[c] = "failing", m \notin todo'[c]
               PROVE  copied'[c][m] = record'[m]
    BY DEF HandFits
  <2>1. c \in counted[m] /\ c \in Attempts /\ m \in KeysOf[c] /\ Clean(m)
    BY <1>1, <1>8 DEF IndInv, LimiterTypeOK, CountedKnown
  <2>2. CASE c = a /\ m = k
    BY <1>1, <2>2 DEF IndInv, LimiterTypeOK
  <2>3. CASE c = a /\ m # k
    <3>1. m \notin todo[a]
      BY <1>1, <2>3 DEF IndInv, LimiterTypeOK
    <3>2. attempt[a] = "failing"
      BY <1>1, <2>1, <2>3, <3>1 DEF IndInv, AttemptKnown
    <3>3. QED
      BY <1>1, <2>1, <2>3, <3>1, <3>2 DEF IndInv, LimiterTypeOK, HandFits
  <2>4. CASE c # a
    BY <1>1, <2>1, <2>4 DEF IndInv, LimiterTypeOK, HandFits
  <2>5. QED
    BY <2>2, <2>3, <2>4
<1>10. BlockKept'
  BY <1>1, <1>4, <1>8 DEF IndInv, BlockKept
<1>11. QED
  BY <1>2, <1>3, <1>5, <1>6, <1>7, <1>9, <1>10 DEF IndInv

\* What its transaction held is in the table, or nowhere.
LEMMA ClosedTyped ==
  ASSUME LimiterTypeOK, NEW a \in Attempts, Closed(a)
  PROVE  /\ copied' \in [Attempts -> [LimitKeys -> Record]]
         /\ todo' \in [Attempts -> SUBSET LimitKeys]
         /\ todo'[a] = {} /\ \A k \in LimitKeys : copied'[a][k] = NoRecord
         /\ \A b \in Attempts \ {a} : todo'[b] = todo[b] /\ copied'[b] = copied[b]
BY NoRecordSound DEF LimiterTypeOK, Closed

\* A request that ends.
LEMMA EndsKeeps ==
  ASSUME IndInv, LimiterTypeOK', NEW a \in Attempts,
         NEW pc \in {"recorded", "dropped"}, attempt' = [attempt EXCEPT ![a] = pc],
         a \in InFlight, Closed(a), UNCHANGED <<record, counted, beside>>
  PROVE  /\ Together' /\ ResetSeen' /\ CountedKnown' /\ AttemptKnown' /\ HandFits'
         /\ InFlight' = InFlight \ {a}
         /\ \A k \in LimitKeys : Clean(k)' => Clean(k)
<1>1. InFlight' = InFlight \ {a}
  BY DEF InFlight, IndInv, LimiterTypeOK
<1>2. Together' /\ ResetSeen'
  BY <1>1, RecordsStand
<1>3. CountedKnown'
  BY DEF IndInv, LimiterTypeOK, CountedKnown
<1>4. LimiterTypeOK
  BY DEF IndInv
<1>5. AttemptKnown'
  BY <1>4, ClosedTyped, NoRecordSound DEF IndInv, LimiterTypeOK, AttemptKnown
<1>6. \A k \in LimitKeys : Clean(k)' => Clean(k)
  <2>1. attempt[a] # "dropped"
    BY DEF InFlight
  <2>2. QED
    BY <2>1, CleanBefore DEF IndInv, LimiterTypeOK
<1>7. HandFits'
  <2>1. \A c \in Attempts : attempt'[c] = "failing" => c # a /\ attempt[c] = "failing"
    BY <1>4 DEF LimiterTypeOK
  <2>2. \A c \in Attempts \ {a} : todo'[c] = todo[c] /\ copied'[c] = copied[c]
    BY <1>4, ClosedTyped
  <2>3. \A k \in LimitKeys : counted[k] \subseteq Attempts
    BY <1>4 DEF LimiterTypeOK
  <2>4. QED
    BY <1>6, <2>1, <2>2, <2>3 DEF IndInv, HandFits
<1>8. QED
  BY <1>1, <1>2, <1>3, <1>5, <1>6, <1>7

\* The copies of a are the records themselves where they are clean.
LEMMA CommitFailureKeeps ==
  ASSUME IndInv, NEW a \in Attempts, CommitFailure(a)
  PROVE  IndInv'
<1> USE DEF CommitFailure
<1>1. LimiterTypeOK
  BY DEF IndInv
<1>2. LimiterTypeOK'
  <2>1. stored' \in [LimitKeys -> Record]
    BY <1>1 DEF LimiterTypeOK
  <2>2. QED
    BY <1>1, <2>1, ClosedTyped DEF LimiterTypeOK
<1>3. a \in InFlight
  BY DEF InFlight
<1>4. /\ Together' /\ ResetSeen' /\ CountedKnown' /\ AttemptKnown' /\ HandFits'
      /\ InFlight' = InFlight \ {a}
      /\ \A k \in LimitKeys : Clean(k)' => Clean(k)
  BY <1>2, <1>3, EndsKeeps
<1>5. AllSound'
  <2>1. \A k \in LimitKeys : Sound(stored'[k])
    BY <1>1 DEF IndInv, AllSound, LimiterTypeOK
  <2>2. \A k \in LimitKeys : Sound(record'[k])
    BY DEF IndInv, AllSound
  <2>3. \A k \in LimitKeys, b \in Attempts : Sound(copied'[b][k])
    BY <1>1, ClosedTyped, NoRecordSound DEF IndInv, AllSound
  <2>4. QED
    BY <2>1, <2>2, <2>3 DEF AllSound
<1>6. BlockKept'
  <2> SUFFICES ASSUME NEW k \in LimitKeys, Clean(k)', record'[k].blocked
               PROVE  stored'[k] = record'[k] \/ \E c \in InFlight' : c \in counted'[k]
    BY DEF BlockKept
  <2>1. Clean(k) /\ record[k].blocked /\ counted[k] \subseteq Attempts
    BY <1>1, <1>4 DEF LimiterTypeOK
  <2>2. stored'[k] = IF copied[a][k].attempts > 0 THEN copied[a][k] ELSE stored[k]
    OBVIOUS
  <2>3. CASE a \in counted[k]
    <3>1. copied[a][k] = record[k]
      BY <2>1, <2>3 DEF IndInv, HandFits
    <3>2. record[k].attempts > 0
      BY <2>3 DEF IndInv, CountedKnown
    <3>3. QED
      BY <2>2, <3>1, <3>2
  <2>4. CASE a \notin counted[k]
    <3>1. k \notin KeysOf[a]
      <4>1. record[k].attempts > 0
        BY <2>1 DEF IndInv, AllSound, Sound
      <4>2. ASSUME k \in KeysOf[a] PROVE FALSE
        <5>1. PICK c \in counted[k] : c # a /\ {a, c} \in beside
          BY <1>3, <2>4, <4>1, <4>2 DEF IndInv, ResetSeen
        <5>2. {c, a} = {a, c}
          OBVIOUS
        <5>3. QED
          BY <2>1, <5>1, <5>2 DEF Clean
      <4>3. QED
        BY <4>2
    <3>2. stored'[k] = stored[k]
      <4>1. copied[a][k] = NoRecord
        BY <3>1 DEF IndInv, AttemptKnown
      <4>2. QED
        BY <2>2, <4>1 DEF NoRecord
    <3>3. QED
      BY <1>4, <2>1, <2>4, <3>2 DEF IndInv, BlockKept
  <2>5. QED
    BY <2>3, <2>4
<1>7. QED
  BY <1>2, <1>4, <1>5, <1>6 DEF IndInv

LEMMA DropKeeps ==
  ASSUME IndInv, NEW a \in Attempts, Drop(a)
  PROVE  IndInv'
<1> USE DEF Drop
<1>1. LimiterTypeOK
  BY DEF IndInv
<1>2. LimiterTypeOK'
  BY <1>1, ClosedTyped DEF LimiterTypeOK
<1>3. /\ Together' /\ ResetSeen' /\ CountedKnown' /\ AttemptKnown' /\ HandFits'
      /\ InFlight' = InFlight \ {a}
      /\ \A k \in LimitKeys : Clean(k)' => Clean(k)
  BY <1>2, EndsKeeps
<1>4. AllSound'
  BY <1>1, ClosedTyped, NoRecordSound DEF IndInv, AllSound
<1>5. BlockKept'
  <2>1. \A k \in LimitKeys : Clean(k)' => a \notin counted[k]
    BY <1>1 DEF Clean, LimiterTypeOK
  <2>2. QED
    BY <1>3, <2>1 DEF IndInv, BlockKept
<1>6. QED
  BY <1>2, <1>3, <1>4, <1>5 DEF IndInv

\* Its rows are not those of clean keys: whoever counted them since overlaps.
LEMMA CommitSuccessKeeps ==
  ASSUME IndInv, NEW a \in Attempts, CommitSuccess(a)
  PROVE  IndInv'
<1> USE DEF CommitSuccess
<1>1. LimiterTypeOK
  BY DEF IndInv
<1>2. LimiterTypeOK'
  <2>1. stored' \in [LimitKeys -> Record]
    BY <1>1, NoRecordSound DEF LimiterTypeOK
  <2>2. QED
    BY <1>1, <2>1, ClosedTyped DEF LimiterTypeOK
<1>3. a \in InFlight
  BY DEF InFlight
<1>4. /\ Together' /\ ResetSeen' /\ CountedKnown' /\ AttemptKnown' /\ HandFits'
      /\ InFlight' = InFlight \ {a}
      /\ \A k \in LimitKeys : Clean(k)' => Clean(k)
  BY <1>2, <1>3, EndsKeeps
<1>5. AllSound'
  <2>1. \A k \in LimitKeys : Sound(stored'[k])
    BY <1>1, NoRecordSound DEF IndInv, AllSound, LimiterTypeOK
  <2>2. \A k \in LimitKeys : Sound(record'[k])
    BY DEF IndInv, AllSound
  <2>3. \A k \in LimitKeys, b \in Attempts : Sound(copied'[b][k])
    BY <1>1, ClosedTyped, NoRecordSound DEF IndInv, AllSound
  <2>4. QED
    BY <2>1, <2>2, <2>3 DEF AllSound
<1>6. BlockKept'
  <2> SUFFICES ASSUME NEW k \in LimitKeys, Clean(k)', record'[k].blocked
               PROVE  stored'[k] = record'[k] \/ \E c \in InFlight' : c \in counted'[k]
    BY DEF BlockKept
  <2>1. Clean(k) /\ record[k].blocked /\ counted[k] \subseteq Attempts
    BY <1>1, <1>4 DEF LimiterTypeOK
  <2>2. a \notin counted[k]
    BY DEF IndInv, CountedKnown
  <2>3. k \notin KeysOf[a]
    <3>1. record[k].attempts > 0
      BY <2>1 DEF IndInv, AllSound, Sound
    <3>2. ASSUME k \in KeysOf[a] PROVE FALSE
      <4>1. PICK c \in counted[k] : c # a /\ {a, c} \in beside
        BY <1>3, <2>2, <3>1, <3>2 DEF IndInv, ResetSeen
      <4>2. {c, a} = {a, c}
        OBVIOUS
      <4>3. QED
        BY <2>1, <4>1, <4>2 DEF Clean
    <3>3. QED
      BY <3>2
  <2>4. stored'[k] = stored[k]
    BY <2>3 DEF IndInv, AttemptKnown
  <2>5. QED
    BY <1>4, <2>1, <2>2, <2>4 DEF IndInv, BlockKept
<1>7. QED
  BY <1>2, <1>4, <1>5, <1>6 DEF IndInv

LEMMA DeleteRowsKeeps ==
  ASSUME IndInv, NEW a \in Attempts, DeleteRows(a)
  PROVE  IndInv'
<1> USE DEF DeleteRows
<1>1. LimiterTypeOK'
  BY LimiterAssumption DEF IndInv, LimiterTypeOK
<1>2. InFlight' = InFlight
  BY DEF InFlight, IndInv, LimiterTypeOK
<1>3. Together' /\ ResetSeen'
  BY <1>1, <1>2, RecordsStand
<1>4. AllSound' /\ CountedKnown' /\ AttemptKnown'
  BY DEF IndInv, LimiterTypeOK, AllSound, CountedKnown, AttemptKnown
<1>5. \A k \in LimitKeys : Clean(k)' => Clean(k)
  BY CleanBefore DEF IndInv, LimiterTypeOK
<1>6. HandFits'
  BY <1>5 DEF IndInv, LimiterTypeOK, HandFits
<1>7. BlockKept'
  BY <1>2, <1>5 DEF IndInv, BlockKept
<1>8. QED
  BY <1>1, <1>3, <1>4, <1>6, <1>7 DEF IndInv

LEMMA CleanupRowsKeeps ==
  ASSUME IndInv, CleanupRows
  PROVE  IndInv'
<1>1. PICK k \in LimitKeys : ~stored[k].blocked /\ stored' = [stored EXCEPT ![k] = NoRecord]
  BY DEF CleanupRows
<1>2. UNCHANGED <<record, attempt, copied, todo, reboots, counted, beside>>
  BY DEF CleanupRows
<1>3. LimiterTypeOK'
  BY <1>1, <1>2, NoRecordSound DEF IndInv, LimiterTypeOK
<1>4. AllSound'
  BY <1>1, <1>2, NoRecordSound DEF IndInv, LimiterTypeOK, AllSound
<1>5. InFlight' = InFlight
  BY <1>2 DEF InFlight
<1>6. Together' /\ ResetSeen'
  BY <1>2, <1>3, <1>5, RecordsStand
<1>7. CountedKnown' /\ AttemptKnown'
  BY <1>2 DEF IndInv, CountedKnown, AttemptKnown
<1>8. \A m \in LimitKeys : Clean(m)' => Clean(m)
  BY <1>2, CleanBefore
<1>9. HandFits'
  BY <1>2, <1>8 DEF IndInv, HandFits
<1>10. BlockKept'
  BY <1>1, <1>2, <1>5, <1>8 DEF IndInv, LimiterTypeOK, BlockKept
<1>11. QED
  BY <1>3, <1>4, <1>6, <1>7, <1>9, <1>10 DEF IndInv
-----------------------------------------------------------------------------
(* Steps that change the records *)

LEMMA RecordSuccessKeeps ==
  ASSUME IndInv, NEW a \in Attempts, RecordSuccess(a)
  PROVE  IndInv'
<1> USE DEF RecordSuccess
<1>1. LimiterTypeOK
  BY DEF IndInv
<1>2. LimiterTypeOK'
  <2>1. record' \in [LimitKeys -> Record] /\ counted' \in [LimitKeys -> SUBSET Attempts]
    BY <1>1, NoRecordSound DEF LimiterTypeOK
  <2>2. QED
    BY <1>1, <2>1 DEF LimiterTypeOK
<1>3. \A k \in LimitKeys : IF k \in KeysOf[a] THEN record'[k] = NoRecord /\ counted'[k] = {}
                           ELSE record'[k] = record[k] /\ counted'[k] = counted[k]
  OBVIOUS
<1>4. AllSound'
  BY <1>3, NoRecordSound DEF IndInv, AllSound
<1>5. InFlight' = InFlight
  BY <1>1 DEF InFlight, LimiterTypeOK
<1>6. Together'
  BY <1>5 DEF IndInv, Together
<1>7. CountedKnown'
  <2>1. \A k \in LimitKeys : counted[k] \subseteq Attempts /\ (a \in counted[k] => k \in KeysOf[a])
    BY <1>1 DEF IndInv, LimiterTypeOK, CountedKnown
  <2>2. QED
    BY <1>1, <1>3, <2>1 DEF IndInv, LimiterTypeOK, CountedKnown
<1>8. AttemptKnown'
  BY <1>1 DEF IndInv, LimiterTypeOK, AttemptKnown
<1>9. \A k \in LimitKeys : counted'[k] # {} /\ Clean(k)' => Clean(k)
  BY <1>1, <1>3 DEF LimiterTypeOK, Clean
<1>10. HandFits'
  <2>1. \A c \in Attempts : attempt'[c] = "failing" => attempt[c] = "failing"
    BY <1>1 DEF LimiterTypeOK
  <2>2. \A k \in LimitKeys : counted'[k] \subseteq counted[k] /\ counted[k] \subseteq Attempts
    BY <1>1, <1>3 DEF LimiterTypeOK
  <2>3. QED
    BY <1>3, <1>9, <2>1, <2>2 DEF IndInv, HandFits
<1>11. ResetSeen'
  <2> SUFFICES ASSUME NEW b \in InFlight', NEW k \in KeysOf[b],
                      b \notin counted'[k], record'[k].attempts > 0
               PROVE  \E c \in counted'[k] : c # b /\ {b, c} \in beside'
    BY DEF ResetSeen
  <2>1. k \in LimitKeys /\ b \in InFlight
    BY <1>5, LimiterAssumption DEF InFlight
  <2>2. k \notin KeysOf[a]
    BY <1>3, <2>1 DEF NoRecord
  <2>3. QED
    BY <1>3, <2>1, <2>2 DEF IndInv, ResetSeen
<1>12. BlockKept'
  <2> SUFFICES ASSUME NEW k \in LimitKeys, Clean(k)', record'[k].blocked
               PROVE  stored'[k] = record'[k] \/ \E c \in InFlight' : c \in counted'[k]
    BY DEF BlockKept
  <2>1. k \notin KeysOf[a] /\ record'[k] = record[k] /\ counted'[k] = counted[k]
    BY <1>3 DEF NoRecord
  <2>2. Clean(k)
    BY <1>1, <2>1 DEF LimiterTypeOK, Clean
  <2>3. QED
    BY <1>5, <2>1, <2>2 DEF IndInv, BlockKept
<1>13. QED
  BY <1>2, <1>4, <1>6, <1>7, <1>8, <1>10, <1>11, <1>12 DEF IndInv

\* The same value loses its block wherever it is: what was equal stays equal.
LEMMA BlockEndsKeeps ==
  ASSUME IndInv, NEW k \in LimitKeys, BlockEnds(k)
  PROVE  IndInv'
<1>1. LimiterTypeOK
  BY DEF IndInv
<1> DEFINE Past(b, rec) == IF rec = b THEN [rec EXCEPT !.blocked = FALSE] ELSE rec
<1>2. PICK b : /\ b.blocked
               /\ record' = [record EXCEPT ![k] = Past(b, record[k])]
               /\ stored' = [stored EXCEPT ![k] = Past(b, stored[k])]
               /\ copied' = [a \in Attempts |-> [copied[a] EXCEPT ![k] = Past(b, copied[a][k])]]
               /\ UNCHANGED <<attempt, todo, reboots, counted, beside>>
  BY <1>1 DEF BlockEnds, LimiterTypeOK
<1>3. ASSUME NEW rec \in Record, Sound(rec)
      PROVE  /\ Past(b, rec) \in Record /\ Sound(Past(b, rec))
             /\ Past(b, rec).attempts = rec.attempts
             /\ Past(b, rec).blocked => rec.blocked /\ Past(b, rec) = rec
             /\ rec = NoRecord => Past(b, rec) = NoRecord
  <2>1. CASE rec = b
    <3>1. rec # NoRecord
      BY <1>2, <2>1 DEF NoRecord
    <3>2. Past(b, rec) = [rec EXCEPT !.blocked = FALSE]
      BY <2>1
    <3>3. QED
      BY <1>3, <3>1, <3>2, PastSound
  <2>2. CASE rec # b
    BY <1>3, <2>2
  <2>3. QED
    BY <2>1, <2>2
<1> HIDE DEF Past
<1>4. /\ record[k] \in Record /\ Sound(record[k])
      /\ stored[k] \in Record /\ Sound(stored[k])
      /\ \A a \in Attempts : copied[a][k] \in Record /\ Sound(copied[a][k])
  BY <1>1 DEF IndInv, AllSound, LimiterTypeOK
<1>5. /\ record'[k] = Past(b, record[k]) /\ stored'[k] = Past(b, stored[k])
      /\ \A a \in Attempts : copied'[a][k] = Past(b, copied[a][k])
      /\ \A m \in LimitKeys \ {k} : /\ record'[m] = record[m] /\ stored'[m] = stored[m]
                                   /\ \A a \in Attempts : copied'[a][m] = copied[a][m]
  BY <1>1, <1>2 DEF LimiterTypeOK
<1>6. LimiterTypeOK'
  BY <1>1, <1>2, <1>3, <1>4 DEF LimiterTypeOK
<1>7. AllSound'
  BY <1>3, <1>4, <1>5 DEF IndInv, AllSound
<1>8. InFlight' = InFlight
  BY <1>2 DEF InFlight
<1>9. Together'
  BY <1>2, <1>8 DEF IndInv, Together
<1>10. \A m \in LimitKeys : record'[m].attempts = record[m].attempts
  BY <1>3, <1>4, <1>5
<1>11. CountedKnown'
  BY <1>2, <1>10 DEF IndInv, CountedKnown
<1>12. AttemptKnown'
  <2>1. \A a \in Attempts, m \in LimitKeys : copied[a][m] = NoRecord => copied'[a][m] = NoRecord
    BY <1>3, <1>4, <1>5
  <2>2. QED
    BY <1>2, <2>1 DEF IndInv, AttemptKnown
<1>13. \A m : Clean(m)' => Clean(m)
  BY <1>2, CleanBefore
<1>14. HandFits'
  <2>1. \A m \in LimitKeys, a \in Attempts :
          copied[a][m] = record[m] => copied'[a][m] = record'[m]
    BY <1>5
  <2>2. \A m \in LimitKeys : counted[m] \subseteq Attempts
    BY <1>1 DEF LimiterTypeOK
  <2>3. QED
    BY <1>2, <1>13, <2>1, <2>2 DEF IndInv, HandFits
<1>15. ResetSeen'
  <2>1. \A a \in InFlight : KeysOf[a] \subseteq LimitKeys
    BY LimiterAssumption DEF InFlight
  <2>2. QED
    BY <1>2, <1>8, <1>10, <2>1 DEF IndInv, ResetSeen
<1>16. BlockKept'
  <2>1. \A m \in LimitKeys : record'[m].blocked =>
          /\ record[m].blocked
          /\ stored[m] = record[m] => stored'[m] = record'[m]
    BY <1>3, <1>4, <1>5
  <2>2. QED
    BY <1>2, <1>8, <1>13, <2>1 DEF IndInv, BlockKept
<1>17. QED
  BY <1>6, <1>7, <1>9, <1>11, <1>12, <1>14, <1>15, <1>16 DEF IndInv

\* After a restart nothing is in flight, and what blocks comes from the table.
LEMMA RebootKeeps ==
  ASSUME IndInv, Reboot
  PROVE  IndInv'
<1> USE DEF Reboot, Loaded
<1>1. LimiterTypeOK
  BY DEF IndInv
<1>2. reboots' \in 0..MaxReboots
  BY <1>1, LimiterAssumption DEF LimiterTypeOK
<1>3. /\ record' \in [LimitKeys -> Record]
      /\ counted' \in [LimitKeys -> SUBSET Attempts]
      /\ attempt' \in [Attempts -> {"new", "checking", "failing", "resetting", "deleting",
                                    "recorded", "refused", "dropped"}]
      /\ copied' \in [Attempts -> [LimitKeys -> Record]]
      /\ todo' \in [Attempts -> SUBSET LimitKeys]
  BY <1>1, NoRecordSound DEF LimiterTypeOK
<1>4. LimiterTypeOK'
  BY <1>1, <1>2, <1>3 DEF LimiterTypeOK
<1>5. AllSound'
  BY NoRecordSound DEF IndInv, AllSound
<1>6. InFlight' = {}
  BY DEF InFlight
<1>7. Together' /\ ResetSeen'
  BY <1>6 DEF Together, ResetSeen
<1>8. CountedKnown'
  <2> SUFFICES ASSUME NEW k \in LimitKeys
               PROVE  /\ \A a \in counted'[k] :
                           k \in KeysOf[a] /\ attempt'[a] \notin {"new", "resetting", "deleting"}
                      /\ counted'[k] # {} => record'[k].attempts > 0
    BY DEF CountedKnown
  <2>1. CASE stored[k].blocked
    <3>1. counted'[k] = counted[k] /\ counted[k] \subseteq Attempts /\ record'[k] = stored[k]
      BY <1>1, <2>1 DEF LimiterTypeOK
    <3>2. stored[k].attempts > 0
      BY <2>1 DEF IndInv, AllSound, Sound
    <3>3. QED
      BY <3>1, <3>2 DEF IndInv, CountedKnown
  <2>2. CASE ~stored[k].blocked
    BY <2>2
  <2>3. QED
    BY <2>1, <2>2
<1>9. AttemptKnown'
  BY <1>1 DEF IndInv, AttemptKnown, InFlight
<1>10. HandFits'
  <2>1. \A a \in Attempts : attempt'[a] # "failing"
    BY DEF InFlight
  <2>2. \A k \in LimitKeys : counted'[k] \subseteq Attempts
    BY <1>3
  <2>3. QED
    BY <2>1, <2>2 DEF HandFits
<1>11. BlockKept'
  <2>1. \A k \in LimitKeys : record'[k].blocked => stored'[k] = record'[k]
    BY DEF NoRecord
  <2>2. QED
    BY <2>1 DEF BlockKept
<1>12. QED
  BY <1>4, <1>5, <1>7, <1>8, <1>9, <1>10, <1>11 DEF IndInv

\* Records that were dropped as stale block nothing; a request that counts
\* meets all that are in flight, so that the keys it shares with them are not
\* clean.
LEMMA BeginAttemptKeeps ==
  ASSUME IndInv, NEW a \in Attempts, BeginAttempt(a)
  PROVE  IndInv'
<1>1. LimiterTypeOK /\ attempt[a] = "new"
  BY DEF IndInv, BeginAttempt
<1> DEFINE kept(stale) == [k \in LimitKeys |-> IF k \in stale THEN NoRecord ELSE record[k]]
<1>2. PICK stale \in SUBSET Dropable :
        IF \E k \in KeysOf[a] : kept(stale)[k].blocked
        THEN /\ record' = kept(stale)
             /\ counted' = [k \in LimitKeys |-> IF k \in stale THEN {} ELSE counted[k]]
             /\ attempt' = [attempt EXCEPT ![a] = "refused"]
             /\ UNCHANGED beside
        ELSE /\ record' = [k \in LimitKeys |->
                             IF k \in KeysOf[a] THEN Counted(kept(stale)[k]) ELSE kept(stale)[k]]
             /\ counted' = [k \in LimitKeys |-> (IF k \in stale THEN {} ELSE counted[k])
                                                \cup (IF k \in KeysOf[a] THEN {a} ELSE {})]
             /\ attempt' = [attempt EXCEPT ![a] = "checking"]
             /\ beside' = beside \cup {{a, b} : b \in InFlight}
  BY DEF BeginAttempt
<1> DEFINE old == kept(stale)
           left == [k \in LimitKeys |-> IF k \in stale THEN {} ELSE counted[k]]
<1>3. /\ old \in [LimitKeys -> Record] /\ left \in [LimitKeys -> SUBSET Attempts]
      /\ \A k \in LimitKeys : Sound(old[k])
      /\ \A k \in LimitKeys : \/ old[k] = NoRecord /\ left[k] = {}
                              \/ old[k] = record[k] /\ left[k] = counted[k]
  <2>1. \A k \in LimitKeys : \/ old[k] = NoRecord /\ left[k] = {}
                             \/ old[k] = record[k] /\ left[k] = counted[k]
    OBVIOUS
  <2>2. /\ record \in [LimitKeys -> Record] /\ counted \in [LimitKeys -> SUBSET Attempts]
        /\ NoRecord \in Record
    BY <1>1, NoRecordSound DEF LimiterTypeOK
  <2>3. old \in [LimitKeys -> Record]
    BY <2>2
  <2>4. left \in [LimitKeys -> SUBSET Attempts]
    BY <2>2
  <2>5. \A k \in LimitKeys : Sound(record[k]) /\ Sound(NoRecord)
    BY NoRecordSound DEF IndInv, AllSound
  <2> HIDE DEF old, left
  <2>6. \A k \in LimitKeys : Sound(old[k])
    BY <2>1, <2>5
  <2>7. QED
    BY <2>1, <2>3, <2>4, <2>6
<1>4. \A k \in LimitKeys : /\ left[k] # {} => old[k].attempts > 0
                          /\ a \notin left[k] /\ left[k] \subseteq Attempts
  BY <1>1, <1>3 DEF IndInv, CountedKnown
<1>5. UNCHANGED <<stored, copied, todo, reboots>>
  BY DEF BeginAttempt
<1>6. ~NoRecord.blocked /\ NoRecord.attempts = 0
  BY DEF NoRecord
<1>7. KeysOf[a] \subseteq LimitKeys /\ a \notin InFlight
  BY <1>1, LimiterAssumption DEF InFlight
<1>8. CASE \E k \in KeysOf[a] : old[k].blocked
  <2>1. /\ record' = old /\ counted' = left
        /\ attempt' = [attempt EXCEPT ![a] = "refused"] /\ beside' = beside
    BY <1>2, <1>8
  <2> HIDE DEF old, left
  <2>2. LimiterTypeOK'
    BY <1>1, <1>3, <1>5, <2>1 DEF LimiterTypeOK
  <2>3. AllSound'
    BY <1>3, <1>5, <2>1 DEF IndInv, AllSound
  <2>4. InFlight' = InFlight
    BY <1>1, <2>1 DEF InFlight, LimiterTypeOK
  <2>5. Together'
    BY <2>1, <2>4 DEF IndInv, Together
  <2>6. CountedKnown'
    BY <1>1, <1>3, <1>4, <2>1 DEF IndInv, LimiterTypeOK, CountedKnown
  <2>7. AttemptKnown'
    BY <1>1, <1>5, <2>1 DEF IndInv, LimiterTypeOK, AttemptKnown
  <2>8. \A k \in LimitKeys : left[k] = counted[k] /\ Clean(k)' => Clean(k)
    BY <1>1, <2>1 DEF LimiterTypeOK, Clean
  <2>9. HandFits'
    BY <1>1, <1>3, <1>4, <1>5, <2>1, <2>8 DEF IndInv, LimiterTypeOK, HandFits
  <2>10. ResetSeen'
    <3> SUFFICES ASSUME NEW b \in InFlight', NEW k \in KeysOf[b],
                        b \notin counted'[k], record'[k].attempts > 0
                 PROVE  \E c \in counted'[k] : c # b /\ {b, c} \in beside'
      BY DEF ResetSeen
    <3>1. k \in LimitKeys /\ b \in InFlight
      BY <2>4, LimiterAssumption DEF InFlight
    <3>2. old[k] = record[k] /\ left[k] = counted[k]
      BY <1>3, <1>6, <2>1, <3>1
    <3>3. b \notin counted[k] /\ record[k].attempts > 0
      BY <2>1, <3>2
    <3>4. PICK c \in counted[k] : c # b /\ {b, c} \in beside
      BY <3>1, <3>3 DEF IndInv, ResetSeen
    <3>5. QED
      BY <2>1, <3>2, <3>4
  <2>11. BlockKept'
    BY <1>3, <1>5, <1>6, <2>1, <2>4, <2>8 DEF IndInv, BlockKept
  <2>12. QED
    BY <2>2, <2>3, <2>5, <2>6, <2>7, <2>9, <2>10, <2>11 DEF IndInv
<1>9. CASE ~\E k \in KeysOf[a] : old[k].blocked
  <2>1. /\ record' = [k \in LimitKeys |-> IF k \in KeysOf[a] THEN Counted(old[k]) ELSE old[k]]
        /\ counted' = [k \in LimitKeys |-> left[k] \cup (IF k \in KeysOf[a] THEN {a} ELSE {})]
        /\ attempt' = [attempt EXCEPT ![a] = "checking"]
        /\ beside' = beside \cup {{a, b} : b \in InFlight}
    BY <1>2, <1>9
  <2> HIDE DEF old, left
  <2>2. /\ \A k \in KeysOf[a] : /\ record'[k] = Counted(old[k])
                               /\ counted'[k] = left[k] \cup {a}
        /\ \A k \in LimitKeys \ KeysOf[a] : record'[k] = old[k] /\ counted'[k] = left[k]
    BY <1>7, <2>1
  <2>3. \A k \in LimitKeys : Counted(old[k]) \in Record /\ Sound(Counted(old[k]))
                            /\ Counted(old[k]).attempts > 0
    BY <1>3, CountedSound
  <2>4. beside' \subseteq SUBSET Attempts /\ beside \subseteq beside'
    BY <1>1, <2>1 DEF LimiterTypeOK, InFlight
  <2>5. record' \in [LimitKeys -> Record] /\ counted' \in [LimitKeys -> SUBSET Attempts]
    BY <1>3, <1>4, <2>1, <2>3
  <2>6. LimiterTypeOK'
    BY <1>1, <1>5, <2>1, <2>4, <2>5 DEF LimiterTypeOK
  <2>7. AllSound'
    BY <1>3, <1>5, <1>7, <2>2, <2>3 DEF IndInv, AllSound
  <2>8. InFlight' = InFlight \cup {a} /\ attempt'[a] = "checking"
    BY <1>1, <2>1 DEF InFlight, LimiterTypeOK
  <2>9. \A b \in InFlight : {a, b} \in beside' /\ {b, a} \in beside'
    <3>1. \A b \in InFlight : {b, a} = {a, b}
      OBVIOUS
    <3>2. QED
      BY <2>1, <3>1
  <2>10. Together'
    BY <2>4, <2>8, <2>9 DEF IndInv, Together
  <2>11. CountedKnown'
    <3>1. \A k \in LimitKeys : counted'[k] # {} => record'[k].attempts > 0
      BY <1>4, <2>2, <2>3
    <3>2. \A k \in LimitKeys : \A b \in counted'[k] :
            (b = a /\ k \in KeysOf[a]) \/ (b \in counted[k] /\ b # a)
      <4> SUFFICES ASSUME NEW k \in LimitKeys, NEW b \in counted'[k]
                   PROVE  (b = a /\ k \in KeysOf[a]) \/ (b \in counted[k] /\ b # a)
        OBVIOUS
      <4>1. left[k] \subseteq counted[k] /\ a \notin left[k]
        BY <1>3, <1>4
      <4>2. b \in left[k] \/ (b = a /\ k \in KeysOf[a])
        BY <2>2
      <4>3. QED
        BY <4>1, <4>2
    <3>3. \A b \in Attempts \ {a} : attempt'[b] = attempt[b]
      BY <1>1, <2>1 DEF LimiterTypeOK
    <3>4. \A k \in LimitKeys : counted[k] \subseteq Attempts
      BY <1>1 DEF LimiterTypeOK
    <3>5. QED
      BY <2>8, <3>1, <3>2, <3>3, <3>4 DEF IndInv, CountedKnown
  <2>12. AttemptKnown'
    BY <1>1, <1>5, <2>1 DEF IndInv, LimiterTypeOK, AttemptKnown
  <2>13. \A k \in LimitKeys \ KeysOf[a] : left[k] = counted[k] /\ Clean(k)' => Clean(k)
    <3>1. \A b \in Attempts \ {a} : attempt'[b] = attempt[b]
      BY <1>1, <2>1 DEF LimiterTypeOK
    <3>2. QED
      BY <1>4, <2>2, <2>4, <3>1 DEF Clean
  <2>14. HandFits'
    <3> SUFFICES ASSUME NEW k \in LimitKeys, Clean(k)', NEW c \in counted'[k],
                        attempt'[c] = "failing", k \notin todo'[c]
                 PROVE  copied'[c][k] = record'[k]
      BY DEF HandFits
    <3>1. c # a /\ c \in left[k] /\ c \in Attempts
      BY <1>4, <2>2, <2>8
    <3>2. attempt[c] = "failing" /\ c \in InFlight
      BY <1>1, <2>1, <3>1 DEF LimiterTypeOK, InFlight
    <3>3. k \notin KeysOf[a]
      BY <2>2, <2>9, <3>1, <3>2 DEF Clean
    <3>4. left[k] = counted[k] /\ old[k] = record[k]
      BY <1>3, <3>1
    <3>5. QED
      BY <1>5, <2>2, <2>13, <3>1, <3>2, <3>3, <3>4 DEF IndInv, HandFits
  <2>15. ResetSeen'
    <3> SUFFICES ASSUME NEW b \in InFlight', NEW k \in KeysOf[b],
                        b \notin counted'[k], record'[k].attempts > 0
                 PROVE  \E c \in counted'[k] : c # b /\ {b, c} \in beside'
      BY DEF ResetSeen
    <3>1. b # a /\ b \in InFlight /\ k \in LimitKeys
      BY <2>2, <2>8, LimiterAssumption DEF InFlight
    <3>2. CASE k \in KeysOf[a]
      BY <2>2, <2>9, <3>1, <3>2
    <3>3. CASE k \notin KeysOf[a]
      <4>1. old[k] = record[k] /\ left[k] = counted[k]
        BY <1>3, <1>6, <2>2, <3>1, <3>3
      <4>2. QED
        BY <2>2, <2>4, <3>1, <3>3, <4>1 DEF IndInv, ResetSeen
    <3>4. QED
      BY <3>2, <3>3
  <2>16. BlockKept'
    <3> SUFFICES ASSUME NEW k \in LimitKeys, Clean(k)', record'[k].blocked
                 PROVE  stored'[k] = record'[k] \/ \E c \in InFlight' : c \in counted'[k]
      BY DEF BlockKept
    <3>1. CASE k \in KeysOf[a]
      BY <2>2, <2>8, <3>1
    <3>2. CASE k \notin KeysOf[a]
      <4>1. old[k] = record[k] /\ left[k] = counted[k]
        BY <1>3, <1>6, <2>2, <3>2
      <4>2. QED
        BY <1>5, <2>2, <2>8, <2>13, <3>2, <4>1 DEF IndInv, BlockKept
    <3>3. QED
      BY <3>1, <3>2
  <2>17. QED
    BY <2>6, <2>7, <2>10, <2>11, <2>12, <2>14, <2>15, <2>16 DEF IndInv
<1>10. QED
  BY <1>8, <1>9
-----------------------------------------------------------------------------
(* The theorems *)

LEMMA StepKeeps ==
  ASSUME IndInv, [LimiterNext]_limiterVars
  PROVE  IndInv'
<1>1. CASE LimiterNext
  BY <1>1, BeginAttemptKeeps, CommitFailureKeeps, RecordSuccessKeeps, DeleteRowsKeeps,
     CommitSuccessKeeps, DropKeeps, RecordFailureKeeps, BlockEndsKeeps, CleanupRowsKeeps,
     RebootKeeps DEF LimiterNext
<1>2. CASE UNCHANGED limiterVars
  <2>1. UNCHANGED <<record, stored, attempt, copied, todo, reboots, counted, beside>>
    BY <1>2 DEF limiterVars
  <2>2. InFlight' = InFlight /\ \A k : Clean(k)' = Clean(k)
    BY <2>1 DEF InFlight, Clean
  <2>3. QED
    BY <2>1, <2>2 DEF IndInv, LimiterTypeOK, AllSound, Together, CountedKnown, AttemptKnown,
                      HandFits, ResetSeen, BlockKept
<1>3. QED
  BY <1>1, <1>2

LEMMA InitHolds == LimiterInit => IndInv
<1> SUFFICES ASSUME LimiterInit PROVE IndInv
  OBVIOUS
<1> USE LimiterAssumption, NoRecordSound DEF LimiterInit
<1>1. LimiterTypeOK
  BY DEF LimiterTypeOK
<1>2. InFlight = {}
  BY DEF InFlight
<1>3. AllSound /\ AttemptKnown
  BY DEF AllSound, AttemptKnown
<1>4. Together /\ CountedKnown /\ HandFits /\ ResetSeen
  BY <1>2 DEF Together, CountedKnown, HandFits, ResetSeen
<1>5. BlockKept
  BY DEF BlockKept, NoRecord
<1>6. QED
  BY <1>1, <1>3, <1>4, <1>5 DEF IndInv

LEMMA Inductive == LimiterSpec => []IndInv
<1>1. QED
  BY InitHolds, StepKeeps, PTL DEF LimiterSpec

\* Every variable of RateLimiter keeps its type.
THEOREM LimiterTyped == LimiterSpec => []LimiterTypeOK
<1>1. IndInv => LimiterTypeOK
  BY DEF IndInv
<1>2. QED
  BY <1>1, Inductive, PTL

\* The blocks and the attempts of a key go together by the schedule, for any
\* thresholds, in memory, in the table and on the way (rate_limiter.py:144-150).
THEOREM OnScheduleAlways == LimiterSpec => []ScheduleHolds
<1>1. IndInv => ScheduleHolds
  BY DEF IndInv, AllSound, Sound, ScheduleHolds
<1>2. QED
  BY <1>1, Inductive, PTL

\* A block survives a restart once the requests that made it have ended, unless
\* one recorded nothing or two overlapped (rate_limiter.py:152-181).
THEOREM BlocksSurvive == LimiterSpec => []BlocksAreStored
<1>1. ASSUME IndInv PROVE BlocksAreStored
  <2> SUFFICES ASSUME NEW k \in LimitKeys, record[k].blocked, stored[k] # record[k]
               PROVE  \/ \E a \in InFlight : k \in KeysOf[a]
                      \/ \E a \in counted[k] : attempt[a] = "dropped"
                      \/ \E a \in counted[k], b \in Attempts : a # b /\ {a, b} \in beside
    BY DEF BlocksAreStored
  <2>1. CASE Clean(k)
    <3>1. PICK a \in InFlight : a \in counted[k]
      BY <1>1, <2>1 DEF IndInv, BlockKept
    <3>2. k \in KeysOf[a]
      BY <1>1, <3>1 DEF IndInv, CountedKnown
    <3>3. QED
      BY <3>1, <3>2
  <2>2. CASE ~Clean(k)
    BY <2>2 DEF Clean
  <2>3. QED
    BY <2>1, <2>2
<1>2. QED
  BY <1>1, Inductive, PTL
-----------------------------------------------------------------------------
(* The audit log *)

\* What the writer has still to write of its batch.
InHand == IF writer = "batch" THEN ToSet(batch)
          ELSE IF writer = "single" THEN ToSet(retry) ELSE {}

\* The counter of the queue, and when the writer has a batch.
QueueCounted ==
  /\ unfinished = Len(queue) + Len(batch)
  /\ writer \in {"off", "get"} => batch = <<>>
  /\ writer \in {"batch", "single"} => batch # <<>>
  /\ writer = "single" => retry # <<>>
  /\ writer = "off" => queue = <<>>

AuditInv ==
  /\ AuditTypeOK
  /\ QueueCounted
  /\ \A e \in Entries : entry[e] = "queued" => e \in ToSet(queue) \cup InHand
  /\ NothingLeftBehind

LEMMA ToSetAppend ==
  ASSUME NEW S, NEW s \in Seq(S), NEW e \in S
  PROVE  ToSet(s) \subseteq ToSet(Append(s, e)) /\ e \in ToSet(Append(s, e))
BY SMTT(30) DEF ToSet

LEMMA ToSetSplit ==
  ASSUME NEW S, NEW s \in Seq(S), NEW n \in 0..Len(s)
  PROVE  /\ SubSeq(s, 1, n) \in Seq(S) /\ SubSeq(s, n + 1, Len(s)) \in Seq(S)
         /\ Len(SubSeq(s, 1, n)) = n /\ Len(SubSeq(s, n + 1, Len(s))) = Len(s) - n
         /\ ToSet(s) \subseteq ToSet(SubSeq(s, 1, n)) \cup ToSet(SubSeq(s, n + 1, Len(s)))
<1> DEFINE a == SubSeq(s, 1, n)
           b == SubSeq(s, n + 1, Len(s))
<1>1. /\ a \in Seq(S) /\ b \in Seq(S)
      /\ Len(a) = n /\ Len(b) = Len(s) - n
      /\ \A k \in 1..n : a[k] = s[k]
      /\ \A k \in 1..(Len(s) - n) : b[k] = s[n + k]
  OBVIOUS
<1> HIDE DEF a, b
<1>2. ASSUME NEW k \in 1..Len(s)
      PROVE  s[k] \in ToSet(a) \cup ToSet(b)
  <2>1. CASE k <= n
    <3>1. k \in 1..Len(a) /\ a[k] = s[k]
      BY <1>1, <2>1
    <3>2. QED
      BY <1>1, <3>1 DEF ToSet
  <2>2. CASE k > n
    <3>1. k - n \in 1..Len(b) /\ b[k - n] = s[k]
      BY <1>1, <2>2
    <3>2. QED
      BY <1>1, <3>1 DEF ToSet
  <2>3. QED
    BY <2>1, <2>2
<1>3. ToSet(s) \subseteq ToSet(a) \cup ToSet(b)
  BY <1>2 DEF ToSet
<1>4. QED
  BY <1>1, <1>3, Zenon DEF a, b

LEMMA ToSetTail ==
  ASSUME NEW S, NEW s \in Seq(S), s # <<>>
  PROVE  /\ Head(s) \in S /\ Tail(s) \in Seq(S)
         /\ ToSet(s) \subseteq {Head(s)} \cup ToSet(Tail(s))
         /\ Len(s) = 1 => Tail(s) = <<>>
         /\ Len(s) # 1 => Tail(s) # <<>>
<1> DEFINE t == Tail(s)
<1>1. /\ t \in Seq(S) /\ Len(t) = Len(s) - 1 /\ Head(s) = s[1] /\ Len(s) > 0 /\ Head(s) \in S
      /\ \A k \in 1..Len(t) : t[k] = s[k + 1]
  OBVIOUS
<1> HIDE DEF t
<1>2. ASSUME NEW k \in 1..Len(s), k # 1
      PROVE  s[k] \in ToSet(t)
  <2>1. k - 1 \in 1..Len(t) /\ t[k - 1] = s[k]
    BY <1>1, <1>2
  <2>2. QED
    BY <1>1, <2>1 DEF ToSet
<1>3. ToSet(s) \subseteq {Head(s)} \cup ToSet(t)
  BY <1>1, <1>2 DEF ToSet
<1>4. (Len(s) = 1 => t = <<>>) /\ (Len(s) # 1 => t # <<>>)
  BY <1>1
<1>5. QED
  BY <1>1, <1>3, <1>4, Zenon DEF t

LEMMA ToSetEmpty == ToSet(<<>>) = {}
BY DEF ToSet

LEMMA ToSetTyped ==
  ASSUME NEW S, NEW s \in Seq(S)
  PROVE  ToSet(s) \subseteq S
BY DEF ToSet

LEMMA DispatchKeeps ==
  ASSUME AuditInv, NEW e \in Entries, Dispatch(e)
  PROVE  AuditInv'
<1> USE DEF AuditInv
<1>1. AuditTypeOK /\ QueueCounted /\ lifespan = "up" /\ lifespan' = "up"
      /\ UNCHANGED <<batch, retry, outages, unlucky>>
  BY DEF Dispatch
<1>2. CASE entry' = [entry EXCEPT ![e] = "excluded"] /\ UNCHANGED <<queue, unfinished, writer>>
  BY <1>1, <1>2 DEF AuditTypeOK, QueueCounted, InHand, NothingLeftBehind
<1>3. CASE Submit(e)
  <2>1. CASE Full
    <3>1. queue # <<>>
      BY <2>1, AuditAssumption DEF Full, AuditAssumption
    <3>2. writer' = writer
      BY <1>1, <1>3, <3>1 DEF Submit, QueueCounted
    <3>3. entry' = [entry EXCEPT ![e] = "dropped"] /\ UNCHANGED <<queue, unfinished>>
      BY <1>3, <2>1 DEF Submit
    <3>4. QED
      BY <1>1, <3>2, <3>3 DEF AuditTypeOK, QueueCounted, InHand, NothingLeftBehind
  <2>2. CASE ~Full
    <3>1. /\ queue' = Append(queue, e) /\ unfinished' = unfinished + 1
          /\ entry' = [entry EXCEPT ![e] = "queued"]
          /\ writer' = IF writer = "off" THEN "get" ELSE writer
      BY <1>3, <2>2 DEF Submit
    <3>2. /\ queue' \in Seq(Entries) /\ Len(queue') = Len(queue) + 1 /\ Len(queue) + 1 <= QueueSize
          /\ Len(queue) \in Nat /\ Len(batch) \in Nat /\ queue' # <<>>
      BY SMTT(30), <1>1, <2>2, <3>1, AuditAssumption DEF Full, AuditTypeOK, AuditAssumption
    <3>3. AuditTypeOK'
      BY <1>1, <3>1, <3>2 DEF AuditTypeOK
    <3>4. QueueCounted'
      BY <1>1, <3>1, <3>2 DEF AuditTypeOK, QueueCounted
    <3>5. InHand' = InHand
      BY <1>1, <3>1 DEF InHand, QueueCounted
    <3>6. ASSUME NEW d \in Entries, entry'[d] = "queued"
          PROVE  d \in ToSet(queue') \cup InHand'
      BY <1>1, <3>1, <3>5, <3>6, ToSetAppend DEF AuditTypeOK
    <3>7. NothingLeftBehind'
      BY <1>1, <3>1 DEF NothingLeftBehind, AuditTypeOK
    <3>8. QED
      BY <3>3, <3>4, <3>6, <3>7
  <2>3. QED
    BY <2>1, <2>2
<1>4. QED
  BY <1>2, <1>3 DEF Dispatch

LEMMA TakeKeeps == AuditInv /\ TakeBatch => AuditInv'
<1> SUFFICES ASSUME AuditInv, TakeBatch PROVE AuditInv'
  OBVIOUS
<1> DEFINE n == IF Len(queue) < BatchSize THEN Len(queue) ELSE BatchSize
<1>1. /\ AuditTypeOK /\ QueueCounted /\ NothingLeftBehind /\ writer = "get" /\ queue # <<>>
      /\ queue \in Seq(Entries) /\ Len(queue) \in Nat /\ Len(queue) <= QueueSize
      /\ BatchSize \in Nat \ {0} /\ QueueSize \in Nat
  BY AuditAssumption DEF AuditInv, TakeBatch, AuditTypeOK, AuditAssumption
<1>2. n \in 1..Len(queue) /\ n <= BatchSize
  BY <1>1
<1>3. /\ batch' = SubSeq(queue, 1, n) /\ queue' = SubSeq(queue, n + 1, Len(queue))
      /\ writer' = "batch" /\ UNCHANGED <<entry, unfinished, retry, lifespan, outages, unlucky>>
  BY DEF TakeBatch
<1> HIDE DEF n
<1>4. /\ batch' \in Seq(Entries) /\ queue' \in Seq(Entries)
      /\ Len(batch') = n /\ Len(queue') = Len(queue) - n
      /\ ToSet(queue) \subseteq ToSet(batch') \cup ToSet(queue')
  <2>1. n \in 0..Len(queue)
    BY <1>2
  <2>2. QED
    BY <1>1, <1>3, <2>1, ToSetSplit
<1>5. AuditTypeOK'
  BY <1>1, <1>2, <1>3, <1>4 DEF AuditTypeOK
<1>6. QueueCounted'
  <2>1. batch = <<>> /\ unfinished = Len(queue)
    BY <1>1 DEF QueueCounted
  <2>2. batch' # <<>> /\ unfinished' = Len(queue') + Len(batch')
    BY <1>1, <1>2, <1>3, <1>4, <2>1
  <2>3. QED
    BY <1>3, <2>2 DEF QueueCounted
<1>7. ASSUME NEW e \in Entries, entry'[e] = "queued"
      PROVE  e \in ToSet(queue') \cup InHand'
  <2>1. e \in ToSet(queue)
    BY <1>1, <1>3, <1>7 DEF AuditInv, InHand
  <2>2. InHand' = ToSet(batch')
    BY <1>3 DEF InHand
  <2>3. QED
    BY <1>4, <2>1, <2>2
<1>8. NothingLeftBehind'
  BY <1>1, <1>3 DEF NothingLeftBehind
<1>9. QED
  BY <1>5, <1>6, <1>7, <1>8 DEF AuditInv

\* The entries of es have been tried.
LEMMA BecomesKeeps ==
  ASSUME AuditTypeOK, NothingLeftBehind, NEW es \in SUBSET Entries,
         NEW where \in {"saved", "lost"}, Becomes(es, where), lifespan' = lifespan,
         unlucky \subseteq unlucky', where = "lost" => es \subseteq Refusable \cup unlucky'
  PROVE  /\ entry' \in [Entries -> {"new", "excluded", "queued", "dropped", "saved", "lost", "purged"}]
         /\ NothingLeftBehind'
         /\ \A e \in Entries : entry'[e] = "queued" => entry[e] = "queued" /\ e \notin es
BY DEF AuditTypeOK, NothingLeftBehind, Becomes

\* A failed write counts as an outage when nothing in it is refusable.
LEMMA FailsTyped ==
  ASSUME AuditTypeOK, NEW es \in SUBSET Entries, Fails(es)
  PROVE  /\ outages' \in 0..MaxOutages
         /\ outages' > outages \/ es \cap Refusable # {}
BY AuditAssumption DEF AuditTypeOK, AuditAssumption, Fails

LEMMA DoneTyped ==
  ASSUME AuditTypeOK, QueueCounted, TaskDone, UNCHANGED <<queue, lifespan>>,
         writer \in {"batch", "single"}
  PROVE  /\ QueueCounted' /\ InHand' = {}
         /\ unfinished' \in Nat /\ writer' = "get" /\ batch' = <<>> /\ retry' = <<>>
<1>1. Len(batch) \in Nat /\ Len(queue) \in Nat /\ unfinished = Len(queue) + Len(batch)
  BY DEF AuditTypeOK, QueueCounted
<1>2. /\ unfinished' = Len(queue) /\ queue' = queue /\ writer' = "get"
      /\ batch' = <<>> /\ retry' = <<>>
  BY <1>1 DEF TaskDone
<1>3. Len(<<>>) = 0
  OBVIOUS
<1>4. QED
  BY <1>1, <1>2, <1>3 DEF QueueCounted, InHand

LEMMA WriteBatchKeeps == AuditInv /\ WriteBatch => AuditInv'
<1> SUFFICES ASSUME AuditInv, WriteBatch PROVE AuditInv'
  OBVIOUS
<1> DEFINE es == ToSet(batch)
<1>1. /\ AuditTypeOK /\ QueueCounted /\ NothingLeftBehind /\ writer = "batch"
      /\ es \in SUBSET Entries /\ queue' = queue /\ lifespan' = lifespan
      /\ \A e \in Entries : entry[e] = "queued" => e \in ToSet(queue) \cup es
  BY ToSetTyped DEF AuditInv, WriteBatch, AuditTypeOK, InHand
<1>2. \/ /\ es \cap Refusable = {}
         /\ Becomes(es, "saved") /\ TaskDone
         /\ UNCHANGED <<outages, unlucky>>
      \/ /\ Fails(es)
         /\ Becomes(es, "lost") /\ TaskDone
         /\ unlucky' = IF outages' > outages THEN unlucky \cup es ELSE unlucky
         /\ Alone
      \/ /\ Fails(es)
         /\ writer' = "single" /\ retry' = batch
         /\ UNCHANGED <<entry, unfinished, batch, unlucky>>
  BY DEF WriteBatch
<1> HIDE DEF es
<1>3. ASSUME NEW where \in {"saved", "lost"}, Becomes(es, where), TaskDone,
             outages' \in 0..MaxOutages, unlucky \subseteq unlucky', unlucky' \subseteq Entries,
             where = "lost" => es \subseteq Refusable \cup unlucky'
      PROVE  AuditInv'
  <2>1. /\ entry' \in [Entries -> {"new", "excluded", "queued", "dropped", "saved", "lost", "purged"}]
        /\ NothingLeftBehind'
        /\ \A e \in Entries : entry'[e] = "queued" => entry[e] = "queued" /\ e \notin es
    BY <1>1, <1>3, BecomesKeeps
  <2>2. /\ QueueCounted' /\ InHand' = {}
        /\ unfinished' \in Nat /\ writer' = "get" /\ batch' = <<>> /\ retry' = <<>>
    BY <1>1, <1>3, DoneTyped
  <2>3. AuditTypeOK'
    BY <1>1, <1>3, <2>1, <2>2, AuditAssumption DEF AuditTypeOK, AuditAssumption
  <2>4. QED
    BY <1>1, <2>1, <2>2, <2>3 DEF AuditInv
<1>4. CASE /\ es \cap Refusable = {} /\ Becomes(es, "saved") /\ TaskDone
           /\ UNCHANGED <<outages, unlucky>>
  BY <1>1, <1>3, <1>4 DEF AuditTypeOK
<1>5. CASE /\ Fails(es) /\ Becomes(es, "lost") /\ TaskDone
           /\ unlucky' = IF outages' > outages THEN unlucky \cup es ELSE unlucky
           /\ Alone
  <2>1. outages' \in 0..MaxOutages /\ (outages' > outages \/ es \cap Refusable # {})
    BY <1>1, <1>5, FailsTyped
  <2>2. \E e \in Entries : es = {e}
    BY <1>1, <1>5 DEF Alone, es, ToSet, AuditTypeOK
  <2>3. es \subseteq Refusable \cup unlucky'
    BY <1>5, <2>1, <2>2
  <2>4. QED
    BY <1>1, <1>3, <1>5, <2>1, <2>3 DEF AuditTypeOK
<1>6. CASE /\ Fails(es) /\ writer' = "single" /\ retry' = batch
           /\ UNCHANGED <<entry, unfinished, batch, unlucky>>
  <2>1. outages' \in 0..MaxOutages
    BY <1>1, <1>6, FailsTyped
  <2>2. AuditTypeOK'
    BY <1>1, <1>6, <2>1 DEF AuditTypeOK
  <2>3. QueueCounted'
    BY <1>1, <1>6 DEF QueueCounted
  <2>4. InHand' = es
    BY <1>6 DEF InHand, es
  <2>5. NothingLeftBehind'
    BY <1>1, <1>6 DEF NothingLeftBehind
  <2>6. QED
    BY <1>1, <1>6, <2>2, <2>3, <2>4, <2>5 DEF AuditInv
<1>7. QED
  BY <1>2, <1>4, <1>5, <1>6

LEMMA WriteOneKeeps == AuditInv /\ WriteOne => AuditInv'
<1> SUFFICES ASSUME AuditInv, WriteOne PROVE AuditInv'
  OBVIOUS
<1> DEFINE e == Head(retry)
<1>1. /\ AuditTypeOK /\ QueueCounted /\ NothingLeftBehind /\ writer = "single"
      /\ queue' = queue /\ lifespan' = lifespan /\ retry # <<>> /\ retry \in Seq(Entries)
      /\ \A d \in Entries : entry[d] = "queued" => d \in ToSet(queue) \cup ToSet(retry)
  BY DEF AuditInv, WriteOne, AuditTypeOK, InHand, QueueCounted
<1>2. /\ e \in Entries /\ Tail(retry) \in Seq(Entries)
      /\ ToSet(retry) \subseteq {e} \cup ToSet(Tail(retry))
      /\ Len(retry) = 1 => Tail(retry) = <<>>
      /\ Len(retry) # 1 => Tail(retry) # <<>>
  BY <1>1, ToSetTail
<1>3. /\ \/ /\ e \notin Refusable
            /\ Becomes({e}, "saved")
            /\ UNCHANGED <<outages, unlucky>>
         \/ /\ Fails({e})
            /\ Becomes({e}, "lost")
            /\ unlucky' = IF outages' > outages THEN unlucky \cup {e} ELSE unlucky
      /\ \/ Len(retry) = 1 /\ TaskDone
         \/ Len(retry) # 1 /\ retry' = Tail(retry) /\ UNCHANGED <<writer, batch, unfinished>>
  BY DEF WriteOne
<1> HIDE DEF e
<1>4. PICK where \in {"saved", "lost"} :
        /\ Becomes({e}, where) /\ outages' \in 0..MaxOutages
        /\ unlucky \subseteq unlucky' /\ unlucky' \subseteq Entries
        /\ where = "lost" => {e} \subseteq Refusable \cup unlucky'
  <2>1. CASE e \notin Refusable /\ Becomes({e}, "saved") /\ UNCHANGED <<outages, unlucky>>
    BY <1>1, <2>1 DEF AuditTypeOK
  <2>2. CASE /\ Fails({e}) /\ Becomes({e}, "lost")
             /\ unlucky' = IF outages' > outages THEN unlucky \cup {e} ELSE unlucky
    <3>1. outages' \in 0..MaxOutages /\ (outages' > outages \/ {e} \cap Refusable # {})
      BY <1>1, <1>2, <2>2, FailsTyped
    <3>2. QED
      BY <1>1, <1>2, <2>2, <3>1 DEF AuditTypeOK
  <2>3. QED
    BY <1>3, <2>1, <2>2
<1>5. /\ entry' \in [Entries -> {"new", "excluded", "queued", "dropped", "saved", "lost", "purged"}]
      /\ NothingLeftBehind'
      /\ \A d \in Entries : entry'[d] = "queued" => entry[d] = "queued" /\ d \notin {e}
  BY <1>1, <1>2, <1>4, BecomesKeeps
<1>6. CASE Len(retry) = 1 /\ TaskDone
  <2>1. /\ QueueCounted' /\ InHand' = {}
        /\ unfinished' \in Nat /\ writer' = "get" /\ batch' = <<>> /\ retry' = <<>>
    BY <1>1, <1>6, DoneTyped
  <2>2. AuditTypeOK'
    BY <1>1, <1>4, <1>5, <2>1, AuditAssumption DEF AuditTypeOK, AuditAssumption
  <2>3. QED
    BY <1>1, <1>2, <1>5, <1>6, <2>1, <2>2, ToSetEmpty DEF AuditInv
<1>7. CASE Len(retry) # 1 /\ retry' = Tail(retry) /\ UNCHANGED <<writer, batch, unfinished>>
  <2>1. AuditTypeOK'
    BY <1>1, <1>2, <1>4, <1>5, <1>7 DEF AuditTypeOK
  <2>2. QueueCounted'
    BY <1>1, <1>2, <1>7 DEF QueueCounted
  <2>3. InHand' = ToSet(Tail(retry))
    BY <1>1, <1>7 DEF InHand
  <2>4. QED
    BY <1>1, <1>2, <1>5, <2>1, <2>2, <2>3 DEF AuditInv
<1>8. QED
  BY <1>3, <1>6, <1>7

LEMMA AuditStep == AuditInv /\ AuditNext => AuditInv'
<1> SUFFICES ASSUME AuditInv, AuditNext PROVE AuditInv'
  OBVIOUS
<1>1. AuditTypeOK /\ QueueCounted /\ NothingLeftBehind
  BY DEF AuditInv
<1>2. CASE Stop
  BY <1>1, <1>2 DEF AuditInv, Stop, AuditTypeOK, QueueCounted, InHand, NothingLeftBehind
<1>3. CASE CancelWriter
  <2>1. queue = <<>> /\ batch = <<>> /\ writer \in {"off", "get"}
    <3>1. CASE writer = "off"
      BY <1>1, <3>1 DEF QueueCounted
    <3>2. CASE unfinished = 0
      <4>1. /\ Len(queue) \in Nat /\ Len(batch) \in Nat /\ Len(queue) + Len(batch) = 0
            /\ queue \in Seq(Entries) /\ batch \in Seq(Entries)
        BY <1>1, <3>2 DEF AuditTypeOK, QueueCounted
      <4>2. queue = <<>> /\ batch = <<>>
        BY <4>1
      <4>3. QED
        BY <1>1, <4>2 DEF AuditTypeOK, QueueCounted
    <3>3. QED
      BY <1>3, <3>1, <3>2 DEF CancelWriter, Flushed
  <2>2. /\ lifespan' = "over" /\ writer' = "off"
        /\ UNCHANGED <<entry, queue, unfinished, batch, retry, outages, unlucky>>
    BY <1>3 DEF CancelWriter
  <2>3. \A e \in Entries : entry[e] # "queued"
    BY <2>1, ToSetEmpty DEF AuditInv, InHand
  <2>4. AuditTypeOK' /\ QueueCounted'
    BY <1>1, <2>1, <2>2 DEF AuditTypeOK, QueueCounted
  <2>5. NothingLeftBehind'
    BY <1>1, <2>2, <2>3 DEF NothingLeftBehind
  <2>6. QED
    BY <2>2, <2>3, <2>4, <2>5 DEF AuditInv
<1>4. CASE CleanupLogs
  <2>1. PICK d \in Entries : entry[d] = "saved" /\ entry' = [entry EXCEPT ![d] = "purged"]
    BY <1>4 DEF CleanupLogs
  <2>2. UNCHANGED <<queue, unfinished, writer, batch, retry, lifespan, outages, unlucky>>
    BY <1>4 DEF CleanupLogs
  <2>3. AuditTypeOK' /\ QueueCounted' /\ NothingLeftBehind'
    BY <1>1, <2>1, <2>2 DEF AuditTypeOK, QueueCounted, NothingLeftBehind
  <2>4. QED
    BY <1>1, <2>1, <2>2, <2>3 DEF AuditInv, InHand, AuditTypeOK
<1>5. QED
  BY <1>2, <1>3, <1>4, DispatchKeeps, TakeKeeps, WriteBatchKeeps, WriteOneKeeps
     DEF AuditNext, WriterRuns

LEMMA AuditInductive == AuditSpec => []AuditInv
<1>1. AuditInit => AuditInv
  <2> SUFFICES ASSUME AuditInit PROVE AuditInv
    OBVIOUS
  <2>1. <<>> \in Seq(Entries) /\ Len(<<>>) = 0 /\ 0 + 0 = 0
    OBVIOUS
  <2>2. AuditTypeOK
    BY <2>1, AuditAssumption DEF AuditInit, AuditTypeOK, AuditAssumption
  <2>3. QED
    BY <2>1, <2>2 DEF AuditInit, AuditInv, QueueCounted, NothingLeftBehind
<1>2. AuditInv /\ UNCHANGED auditVars => AuditInv'
  BY DEF AuditInv, auditVars, AuditTypeOK, QueueCounted, InHand, NothingLeftBehind
<1>3. AuditInv /\ [AuditNext]_auditVars => AuditInv'
  BY <1>2, AuditStep
<1>4. QED
  BY <1>1, <1>3, PTL DEF AuditSpec

\* Every variable of AuditWriter keeps its type, for any queue and batch sizes.
THEOREM AuditTyped == AuditSpec => []AuditTypeOK
<1>1. AuditInv => AuditTypeOK
  BY DEF AuditInv
<1>2. QED
  BY <1>1, AuditInductive, PTL

\* An entry is lost for a failure of its own only, and the hub does not stop
\* with an accepted entry still to write, for any number of entries and
\* outages, any size of the queue and of the batches (writer.py:66, 81).
THEOREM LeftBehind == AuditSpec => []NothingLeftBehind
<1>1. AuditInv => NothingLeftBehind
  BY DEF AuditInv
<1>2. QED
  BY <1>1, AuditInductive, PTL
=============================================================================
