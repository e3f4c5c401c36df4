---------------------------- MODULE RateLimiter -----------------------------
(***************************************************************************)
(* core/auth/rate_limiter.py: the counters of failed attempts per key, in     *)
(* memory and in the LoginAttempt table, as the login, the second factor, the *)
(* agents' endpoints and the API keys use them: begin_attempt, an await, then *)
(* record_failure or record_success, and the commit of the caller.  Times are *)
(* what they decide: whether a block is over.                                *)
(***************************************************************************)
EXTENDS Naturals

CONSTANTS
  LimitKeys,         \* client IPs and "u:<name>"
  Attempts,          \* requests, each made once
  KeysOf,            \* KeysOf[a]: the keys request a counts for
  InitialThreshold,  \* INITIAL_THRESHOLD
  SecondThreshold,   \* SECOND_THRESHOLD
  MaxReboots         \* bound: restarts

ASSUME LimiterAssumption ==
  /\ KeysOf \in [Attempts -> SUBSET LimitKeys]
  /\ InitialThreshold \in Nat \ {0} /\ SecondThreshold \in Nat \ {0}
  /\ MaxReboots \in Nat

VARIABLES
  record,   \* record[k]: the _Record of k; attempts = 0 without one
  stored,   \* stored[k]: the row of LoginAttempt; attempts = 0 without one
  attempt,  \* attempt[a]: how far request a is
  copied,   \* copied[a][k]: what record_failure read of k, to be committed
  todo,     \* todo[a]: the keys record_failure has not read yet, or the rows
            \* record_success has deleted
  reboots,
  \* History
  counted,  \* counted[k]: the requests of the current record of k
  beside    \* the pairs of requests at the same time

limiterVars == <<record, stored, attempt, copied, todo, reboots, counted, beside>>

Record   == [attempts : Nat, block_count : Nat, blocked : BOOLEAN]
NoRecord == [attempts |-> 0, block_count |-> 0, blocked |-> FALSE]
InFlight == {a \in Attempts : attempt[a] \in {"checking", "failing", "resetting", "deleting"}}

LimiterTypeOK ==
  /\ record \in [LimitKeys -> Record]
  /\ stored \in [LimitKeys -> Record]
  /\ attempt \in [Attempts -> {"new", "checking", "failing", "resetting", "deleting",
                               "recorded", "refused", "dropped"}]
  /\ copied \in [Attempts -> [LimitKeys -> Record]]
  /\ todo \in [Attempts -> SUBSET LimitKeys]
  /\ reboots \in 0..MaxReboots
  /\ counted \in [LimitKeys -> SUBSET Attempts]
  /\ beside \subseteq SUBSET Attempts

LimiterInit ==
  /\ record = [k \in LimitKeys |-> NoRecord]
  /\ stored = [k \in LimitKeys |-> NoRecord]
  /\ attempt = [a \in Attempts |-> "new"]
  /\ copied = [a \in Attempts |-> [k \in LimitKeys |-> NoRecord]]
  /\ todo = KeysOf
  /\ reboots = 0
  /\ counted = [k \in LimitKeys |-> {}]
  /\ beside = {}

----------------------------------------------------------------------------
\* _should_block, after n attempts and b blocks.
ShouldBlock_Mutant(n, b) ==
  \/ b = 0 /\ n >= InitialThreshold
  \/ b = 1 /\ n >= InitialThreshold + SecondThreshold
  \/ b > 1 /\ n > InitialThreshold + SecondThreshold + b
ShouldBlock(n, b) ==
  \/ b = 0 /\ n >= InitialThreshold
  \/ b = 1 /\ n >= InitialThreshold + SecondThreshold
  \/ b > 1 /\ n > InitialThreshold + SecondThreshold + (b - 2)

Counted(rec) ==
  LET n == rec.attempts + 1
      b == rec.block_count
  IN IF ShouldBlock(n, b)
     THEN [attempts |-> n, block_count |-> b + 1, blocked |-> TRUE]
     ELSE [rec EXCEPT !.attempts = n]

\* _cleanup_stale: records that block nothing, if they are old.
Dropable == {k \in LimitKeys : ~record[k].blocked}

\* begin_attempt: all keys are looked at, then all are counted, under the lock.
BeginAttempt(a) ==
  LET keys == KeysOf[a] IN
  /\ attempt[a] = "new"
  /\ \E stale \in SUBSET Dropable :
       LET kept == [k \in LimitKeys |-> IF k \in stale THEN NoRecord ELSE record[k]] IN
       IF \E k \in keys : kept[k].blocked
       THEN /\ record' = kept
            /\ counted' = [k \in LimitKeys |-> IF k \in stale THEN {} ELSE counted[k]]
            /\ attempt' = [attempt EXCEPT ![a] = "refused"]
            /\ UNCHANGED beside
       ELSE /\ record' = [k \in LimitKeys |-> IF k \in keys THEN Counted(kept[k]) ELSE kept[k]]
            /\ counted' = [k \in LimitKeys |->
                             (IF k \in stale THEN {} ELSE counted[k])
                               \cup (IF k \in keys THEN {a} ELSE {})]
            /\ attempt' = [attempt EXCEPT ![a] = "checking"]
            /\ beside' = beside \cup {{a, b} : b \in InFlight}
  /\ UNCHANGED <<stored, copied, todo, reboots>>

\* record_failure: the keys in turn, with a statement for each; a key without a
\* record, which a success took, is skipped.
Persisted_Mutant(rec) == [rec EXCEPT !.blocked = FALSE]
Persisted(rec) == rec

RecordFailure(a, k) ==
  /\ attempt[a] \in {"checking", "failing"} /\ k \in todo[a]
  /\ copied' = [copied EXCEPT ![a][k] = Persisted(record[k])]
  /\ todo' = [todo EXCEPT ![a] = @ \ {k}]
  /\ attempt' = [attempt EXCEPT ![a] = "failing"]
  /\ UNCHANGED <<record, stored, reboots, counted, beside>>

\* An upsert waits for a transaction that has deleted the row.
RowsFree(a) ==
  \A b \in Attempts : attempt[b] = "deleting" => todo[b] \cap KeysOf[a] = {}

Closed(a) == /\ copied' = [copied EXCEPT ![a] = [k \in LimitKeys |-> NoRecord]]
             /\ todo' = [todo EXCEPT ![a] = {}]

CommitFailure(a) ==
  /\ attempt[a] = "failing" /\ todo[a] = {} /\ RowsFree(a)
  /\ stored' = [k \in LimitKeys |-> IF copied[a][k].attempts > 0 THEN copied[a][k] ELSE stored[k]]
  /\ attempt' = [attempt EXCEPT ![a] = "recorded"]
  /\ Closed(a)
  /\ UNCHANGED <<record, reboots, counted, beside>>

\* record_success: the records at once, then the rows it finds; they go with
\* the caller's commit.
RecordSuccess(a) ==
  /\ attempt[a] = "checking"
  /\ record' = [k \in LimitKeys |-> IF k \in KeysOf[a] THEN NoRecord ELSE record[k]]
  /\ counted' = [k \in LimitKeys |-> IF k \in KeysOf[a] THEN {} ELSE counted[k]]
  /\ attempt' = [attempt EXCEPT ![a] = "resetting"]
  /\ UNCHANGED <<stored, copied, todo, reboots, beside>>

DeleteRows(a) ==
  /\ attempt[a] = "resetting" /\ RowsFree(a)
  /\ todo' = [todo EXCEPT ![a] = {k \in KeysOf[a] : stored[k].attempts > 0}]
  /\ attempt' = [attempt EXCEPT ![a] = "deleting"]
  /\ UNCHANGED <<record, stored, copied, reboots, counted, beside>>

CommitSuccess(a) ==
  /\ attempt[a] = "deleting"
  /\ stored' = [k \in LimitKeys |-> IF k \in todo[a] THEN NoRecord ELSE stored[k]]
  /\ attempt' = [attempt EXCEPT ![a] = "recorded"]
  /\ Closed(a)
  /\ UNCHANGED <<record, reboots, counted, beside>>

\* A request that records nothing: an error before or in the caller's commit.
Drop(a) ==
  /\ a \in InFlight
  /\ attempt' = [attempt EXCEPT ![a] = "dropped"]
  /\ Closed(a)
  /\ UNCHANGED <<record, stored, reboots, counted, beside>>

\* A block ends, wherever it has been written: it has its end with it.
BlockEnds(k) ==
  \E b \in {record[k], stored[k]} \cup {copied[a][k] : a \in Attempts} :
    LET Past(rec) == IF rec = b THEN [rec EXCEPT !.blocked = FALSE] ELSE rec IN
    /\ b.blocked
    /\ record' = [record EXCEPT ![k] = Past(@)]
    /\ stored' = [stored EXCEPT ![k] = Past(@)]
    /\ copied' = [a \in Attempts |-> [copied[a] EXCEPT ![k] = Past(@)]]
    /\ UNCHANGED <<attempt, todo, reboots, counted, beside>>

\* cleanup_stale: rows that block nothing, idle for a day.
CleanupRows ==
  /\ \E k \in LimitKeys :
       /\ stored[k].attempts > 0 /\ ~stored[k].blocked
       /\ stored' = [stored EXCEPT ![k] = NoRecord]
  /\ UNCHANGED <<record, attempt, copied, todo, reboots, counted, beside>>

\* load_from_db: the rows that block now (on a host whose clock is UTC).
Loaded(k) == IF stored[k].blocked THEN stored[k] ELSE NoRecord

Reboot ==
  /\ reboots < MaxReboots
  /\ reboots' = reboots + 1
  /\ record' = [k \in LimitKeys |-> Loaded(k)]
  /\ counted' = [k \in LimitKeys |-> IF stored[k].blocked THEN counted[k] ELSE {}]
  /\ attempt' = [a \in Attempts |-> IF a \in InFlight THEN "dropped" ELSE attempt[a]]
  /\ copied' = [a \in Attempts |-> [k \in LimitKeys |-> NoRecord]]
  /\ todo' = [a \in Attempts |-> IF a \in InFlight THEN {} ELSE todo[a]]
  /\ UNCHANGED <<stored, beside>>

LimiterNext ==
  \/ \E a \in Attempts : \/ BeginAttempt(a) \/ CommitFailure(a) \/ RecordSuccess(a)
                         \/ DeleteRows(a) \/ CommitSuccess(a) \/ Drop(a)
                         \/ \E k \in LimitKeys : RecordFailure(a, k)
  \/ \E k \in LimitKeys : BlockEnds(k)
  \/ CleanupRows \/ Reboot

LimiterSpec == LimiterInit /\ [][LimiterNext]_limiterVars

----------------------------------------------------------------------------
(* Properties. *)

\* The backoff schedule: blocks and attempts go together, in memory, in the
\* table and in what is on its way there, across restarts and resets
\* (rate_limiter.py:11-14, 142-148).
OnSchedule(rec) ==
  LET n == rec.attempts
      s == InitialThreshold + SecondThreshold
  IN rec.block_count = IF n < InitialThreshold THEN 0
                       ELSE IF n < s THEN 1 ELSE n - s + 2

ScheduleHolds ==
  \A k \in LimitKeys :
    /\ OnSchedule(record[k]) /\ OnSchedule(stored[k])
    /\ \A a \in Attempts : OnSchedule(copied[a][k])

\* A block is in the table, so that it survives a restart, once the requests
\* that made it have ended: but for one that recorded nothing, or for two that
\* overlapped and stored their counts out of order (rate_limiter.py:155).
BlocksAreStored ==
  \A k \in LimitKeys :
    record[k].blocked /\ stored[k] # record[k] =>
      \/ \E a \in InFlight : k \in KeysOf[a]
      \/ \E a \in counted[k] : attempt[a] = "dropped"
      \/ \E a \in counted[k], b \in Attempts : a # b /\ {a, b} \in beside
=============================================================================
