------------------------------ MODULE Commands ------------------------------
(***************************************************************************)
(* Persistent commands: hub/agents/dispatcher.py with the registry and the *)
(* control channel it works through.                                        *)
(*                                                                         *)
(* The hub is one asyncio process: a coroutine runs alone between two      *)
(* awaits, and at each await any other may run.  One action below is one   *)
(* such stretch.  Three kinds of coroutine share the Command table, the    *)
(* registry and the waiters:                                                *)
(*   - the caller of queue_command or run_command, one per command (task);  *)
(*   - the control channel of each connection (phase): it registers,        *)
(*     re-sends what is pending, then handles one result at a time;         *)
(*   - expire_task.                                                         *)
(* The agent is external: it answers every copy of a command with the       *)
(* result of the first execution (docs/PROTOCOL.md, "Commands").            *)
(*                                                                         *)
(* Time is abstracted to the set of commands whose expires_at has passed.   *)
(* The handshake before registration is in module AgentChannel.             *)
(***************************************************************************)
EXTENDS Registry, Sequences, Naturals, FiniteSets

CONSTANTS
  Cmds,         \* the commands that may be issued
  RunCmds,      \* those issued by run_command; queue_command issues the rest
  NoCmd,        \* "no result in hand"
  Target,       \* Target[c]: the instance c is for
  Owner,        \* Owner[k]: the instance whose agent opens connection k
  CapSets,      \* what a hello may announce: sets of supported commands
  Results,      \* how an execution may end: "done", "failed" or either
  Capacity,     \* frames an outbox holds (asyncio.Queue(maxsize=1000))
  MaxIssued,    \* bound: commands issued
  MaxRestarts,  \* bound: hub restarts
  MaxDbErrors   \* bound: failing transactions

ASSUME CommandsAssumption ==
  /\ IsFiniteSet(Cmds)
  /\ NoCmd \notin Cmds
  /\ RunCmds \subseteq Cmds
  /\ Target \in [Cmds -> Instances]
  /\ Owner \in [Conns -> Instances]
  /\ CapSets \subseteq SUBSET Cmds
  /\ Results \subseteq {"done", "failed"}
  /\ Capacity \in Nat \ {0}
  /\ MaxIssued \in Nat
  /\ MaxRestarts \in Nat
  /\ MaxDbErrors \in Nat

VARIABLES
  \* The database: what survives a restart
  row,       \* row[c]: Command.status, "none" before the insert
  age,       \* age[c]: Command.created_at, as a number
  overdue,   \* the commands with expires_at <= now
  \* The callers
  task,      \* task[c]: where the coroutine that issued c stands
  future,    \* future[c]: the future run_command awaits
  waiters,   \* Registry._waiters: the commands with an entry
  \* The control channels
  phase,     \* phase[k]: where the handler of connection k stands
  sock,      \* sock[k]: "open", "lost" (the hub has not noticed), "closed"
  caps,      \* caps[k]: the commands k's agent announced
  outbox,    \* outbox[k]: frames queued towards the agent
  toHub,     \* toHub[k]: results on their way to the hub
  batch,     \* batch[k]: what resend_pending selected, then what it sent
  work,      \* work[k]: the command whose result is in hand
  seen,      \* seen[k]: the status handle_result read for it
  \* The agent, and the bounds
  executed,  \* executed[c]: the agent's cached result
  handed,    \* history of the live connections: <<c, k>> when k's outbox
             \* accepted a frame for c
  dropped,   \* the same: those whose outbox was full for some frame
  early,     \* <<c, k>> in handed: c's caller sent it before k's resend
  overlapped, \* history: <<b, c>> when c was created before b's caller sent b
  issued, restarts, dbErrors

dbVars     == <<row, age, overdue>>
callVars   == <<task, future, waiters>>
connVars   == <<phase, sock, caps, outbox, toHub, batch, work,
                seen>>
history    == <<handed, dropped, early, overlapped>>
boundVars  == <<issued, restarts, dbErrors>>
vars == <<dbVars, callVars, connVars, boundVars, online, executed, history>>

QueueCmds == Cmds \ RunCmds
Pending   == {"queued", "sent"}
Answers   == {"done", "failed"}
Statuses  == {"none", "expired"} \cup Pending \cup Answers
Tasks     == {"idle", "creating", "inserted", "marking", "dirty", "waiting", "finished"}
Phases    == {"unused", "registered", "selected", "marking", "loop",
              "handling", "storing", "ended"}

TypeOK ==
  /\ RegistryType
  /\ row \in [Cmds -> Statuses]
  /\ age \in [Cmds -> 0..MaxIssued]
  /\ overdue \subseteq Cmds
  /\ task \in [Cmds -> Tasks]
  /\ future \in [Cmds -> {"none", "pending"} \cup Answers]
  /\ waiters \subseteq Cmds
  /\ phase \in [Conns -> Phases]
  /\ sock \in [Conns -> {"none", "open", "lost", "closed"}]
  /\ caps \in [Conns -> SUBSET Cmds]
  /\ outbox \in [Conns -> Seq(Cmds)]
  /\ toHub \in [Conns -> Seq(Cmds)]
  /\ batch \in [Conns -> SUBSET Cmds]
  /\ work \in [Conns -> Cmds \cup {NoCmd}]
  /\ seen \in [Conns -> Statuses]
  /\ executed \in [Cmds -> {"none"} \cup Answers]
  /\ handed \subseteq Cmds \X Conns
  /\ dropped \subseteq Conns
  /\ early \subseteq Cmds \X Conns
  /\ overlapped \subseteq Cmds \X Cmds
  /\ issued \in 0..MaxIssued
  /\ restarts \in 0..MaxRestarts
  /\ dbErrors \in 0..MaxDbErrors

Init ==
  /\ online = EmptyRegistry
  /\ row = [c \in Cmds |-> "none"]
  /\ age = [c \in Cmds |-> 0]
  /\ overdue = {}
  /\ task = [c \in Cmds |-> "idle"]
  /\ future = [c \in Cmds |-> "none"]
  /\ waiters = {}
  /\ phase = [k \in Conns |-> "unused"]
  /\ sock = [k \in Conns |-> "none"]
  /\ caps = [k \in Conns |-> {}]
  /\ outbox = [k \in Conns |-> <<>>]
  /\ toHub = [k \in Conns |-> <<>>]
  /\ batch = [k \in Conns |-> {}]
  /\ work = [k \in Conns |-> NoCmd]
  /\ seen = [k \in Conns |-> "none"]
  /\ executed = [c \in Cmds |-> "none"]
  /\ handed = {}
  /\ dropped = {}
  /\ early = {}
  /\ overlapped = {}
  /\ issued = 0
  /\ restarts = 0
  /\ dbErrors = 0

-----------------------------------------------------------------------------
(* The statements that read and write Command.status.  A definition named   *)
(* ..._Mutant is a plausible mistake in the one that follows it; nothing     *)
(* uses it but the mutation runs.                                            *)

MarkedSent_Mutant(S) == [c \in Cmds |-> IF c \in S THEN "sent" ELSE row[c]]

\* _mark_sent: UPDATE ... SET status='sent' WHERE id IN S AND status='queued'.
MarkedSent(S) ==
  [c \in Cmds |-> IF c \in S /\ row[c] = "queued" THEN "sent" ELSE row[c]]

Expirable_Mutant(c) == row[c] = "sent" /\ c \in overdue

\* expire_task: what its UPDATE selects, and the table after it.
Expirable(c) == row[c] \in Pending /\ c \in overdue
Swept == [c \in Cmds |-> IF Expirable(c) THEN "expired" ELSE row[c]]

Unanswered_Mutant(i, c) ==
  Target[c] = i /\ row[c] = "queued" /\ c \notin overdue

\* resend_pending: what its SELECT returns for instance i.
Unanswered(i, c) == Target[c] = i /\ row[c] \in Pending /\ c \notin overdue

Stored_Mutant(c, was) ==
  [row EXCEPT ![c] = IF was = "sent" THEN executed[c] ELSE row[c]]
StoredFlag_Mutant(c, was) == [row EXCEPT ![c] = "ok"]

\* handle_result assigns the status to the row object it read: the column is
\* written only when that differs from the value read.
Stored(c, was) ==
  [row EXCEPT ![c] = IF was = executed[c] THEN row[c] ELSE executed[c]]

\* _send puts a frame only on a registered connection whose agent announced
\* the command, and only while its outbox has room.
Reaches(c) == IsOnline(Target[c]) /\ c \in caps[online[Target[c]]]

Accepts(c) ==
  /\ Reaches(c)
  /\ Len(outbox[online[Target[c]]]) < Capacity

\* Connection k's resend_pending has sent what it selected.
PastResend(k) == phase[k] \notin {"unused", "registered", "selected"}

Dropped_Mutant(c) == waiters

\* Registry.drop_waiter, and the pop in Registry.resolve.
Dropped(c) == waiters \ {c}

-----------------------------------------------------------------------------
(* Callers: queue_command and run_command *)

\* The row object is made, with its created_at.  run_command refuses (409) an
\* instance that is offline or whose agent does not support the command;
\* queue_command does not look.
Issue(c) ==
  /\ task[c] = "idle"
  /\ issued < MaxIssued
  /\ c \in RunCmds => Reaches(c)
  /\ task' = [task EXCEPT ![c] = "creating"]
  /\ issued' = issued + 1
  /\ age' = [age EXCEPT ![c] = issued + 1]
  /\ overlapped' = overlapped \cup
       {<<b, c>> : b \in {b \in Cmds : task[b] \in {"creating", "inserted"}}}
  /\ UNCHANGED <<row, overdue, future, waiters, connVars, restarts, dbErrors,
                 online, executed, handed, dropped, early>>

\* Its insert is committed.
Insert(c) ==
  /\ task[c] = "creating"
  /\ task' = [task EXCEPT ![c] = "inserted"]
  /\ row' = [row EXCEPT ![c] = "queued"]
  /\ UNCHANGED <<age, overdue, future, waiters, connVars, boundVars, online,
                 executed, history>>

\* After the commit the frame goes out, or it does not: then run_command
\* drops its waiter and answers 409, queue_command returns, and the row
\* stays queued for the next connection.
SendNow(c) ==
  /\ task[c] = "inserted"
  /\ \/ /\ Accepts(c)
        /\ outbox' = [outbox EXCEPT ![online[Target[c]]] = Append(@, c)]
        /\ handed' = handed \cup {<<c, online[Target[c]]>>}
        /\ early' = early \cup IF PastResend(online[Target[c]]) THEN {}
                              ELSE {<<c, online[Target[c]]>>}
        /\ task' = [task EXCEPT ![c] = "marking"]
        /\ IF c \in RunCmds
             THEN /\ waiters' = waiters \cup {c}
                  /\ future' = [future EXCEPT ![c] = "pending"]
             ELSE UNCHANGED <<waiters, future>>
        /\ UNCHANGED dropped
     \/ /\ ~Accepts(c)
        /\ task' = [task EXCEPT ![c] = "finished"]
        /\ dropped' = dropped \cup IF Reaches(c) THEN {online[Target[c]]} ELSE {}
        /\ UNCHANGED <<outbox, handed, early, waiters, future>>
  /\ UNCHANGED <<dbVars, phase, sock, caps, toHub, batch, work, seen,
                 boundVars, online, executed, overlapped>>

\* _mark_sent commits in a session of its own.  queue_command then assigns
\* "sent" to its own copy of the row, which its caller's session still holds.
MarkSent(c) ==
  /\ task[c] = "marking"
  /\ row' = MarkedSent({c})
  /\ task' = [task EXCEPT ![c] = IF c \in RunCmds THEN "waiting" ELSE "dirty"]
  /\ UNCHANGED <<age, overdue, future, waiters, connVars, boundVars,
                 online, executed, history>>

\* The transaction of the insert or of _mark_sent fails: the exception leaves
\* the coroutine, and nothing drops the waiter run_command had registered.
CallerFails(c) ==
  /\ task[c] \in {"creating", "marking"}
  /\ dbErrors < MaxDbErrors
  /\ dbErrors' = dbErrors + 1
  /\ task' = [task EXCEPT ![c] = "finished"]
  /\ UNCHANGED <<dbVars, future, waiters, connVars, issued, restarts,
                 online, executed, history>>

\* The caller's session commits (at the latest when the request ends) and
\* flushes the copy queue_command left dirty: UPDATE ... SET status='sent',
\* whatever the row holds by now.
CallerCommit(c) ==
  /\ task[c] = "dirty"
  /\ row' = [row EXCEPT ![c] = "sent"]
  /\ task' = [task EXCEPT ![c] = "finished"]
  /\ UNCHANGED <<age, overdue, future, waiters, connVars, boundVars,
                 online, executed, history>>

\* The caller fails later on, or closes its session without a commit.
CallerRollback(c) ==
  /\ task[c] = "dirty"
  /\ task' = [task EXCEPT ![c] = "finished"]
  /\ UNCHANGED <<dbVars, future, waiters, connVars, boundVars, online,
                 executed, history>>

\* run_command returns the result (200, or 502 when the agent failed).
CallerReturns(c) ==
  /\ task[c] = "waiting"
  /\ future[c] \in Answers
  /\ task' = [task EXCEPT ![c] = "finished"]
  /\ UNCHANGED <<dbVars, future, waiters, connVars, boundVars, online,
                 executed, history>>

\* wait_for gives up: the future is cancelled, its entry goes, 504.
CallerTimesOut(c) ==
  /\ task[c] = "waiting"
  /\ future[c] = "pending"
  /\ future' = [future EXCEPT ![c] = "none"]
  /\ waiters' = Dropped(c)
  /\ task' = [task EXCEPT ![c] = "finished"]
  /\ UNCHANGED <<dbVars, connVars, boundVars, online, executed, history>>

-----------------------------------------------------------------------------
(* The control channel of connection k *)

\* The agent connects when it has no live socket.  Its handler registers the
\* connection; a half-open one it displaces is closed.
Connect(k) ==
  LET i == Owner[k]
      old == online[i]
  IN
  /\ phase[k] = "unused"
  /\ \A j \in Conns : Owner[j] = i => sock[j] # "open"
  /\ Register(i, k)
  /\ phase' = [phase EXCEPT ![k] = "registered"]
  /\ sock' = [j \in Conns |-> IF j = k THEN "open"
                              ELSE IF j = old THEN "closed" ELSE sock[j]]
  /\ \E S \in CapSets : caps' = [caps EXCEPT ![k] = S]
  /\ UNCHANGED <<dbVars, callVars, outbox, toHub, batch, work, seen,
                 boundVars, executed, history>>

\* The `finally` of the handler: the writer is cancelled, the connection
\* unregistered, and its queues go with it.
Finish(k) ==
  /\ phase' = [phase EXCEPT ![k] = "ended"]
  /\ sock' = [sock EXCEPT ![k] = "closed"]
  /\ caps' = [caps EXCEPT ![k] = {}]
  /\ outbox' = [outbox EXCEPT ![k] = <<>>]
  /\ toHub' = [toHub EXCEPT ![k] = <<>>]
  /\ Unregister(Owner[k], k)
  /\ handed' = {h \in handed : h[2] # k}
  /\ early' = {h \in early : h[2] # k}
  /\ dropped' = dropped \ {k}
  /\ UNCHANGED overlapped

\* What the handler does when it is back at receive_text: on a socket the hub
\* itself closed that raises at once.
BackToLoop(k) ==
  \/ sock[k] = "closed" /\ Finish(k)
  \/ /\ sock[k] # "closed"
     /\ phase' = [phase EXCEPT ![k] = "loop"]
     /\ UNCHANGED <<sock, caps, outbox, toHub, online, history>>

\* resend_pending reads what is not answered and not overdue...
ResendSelect(k) ==
  /\ phase[k] = "registered"
  /\ batch' = [batch EXCEPT ![k] = {c \in Cmds : Unanswered(Owner[k], c)}]
  /\ phase' = [phase EXCEPT ![k] = "selected"]
  /\ UNCHANGED <<dbVars, callVars, sock, caps, outbox, toHub, work, seen,
                 boundVars, online, executed, history>>

OldestFirst_Mutant(S) ==
  {s \in [1..Cardinality(S) -> S] : \A c \in S : \E n \in DOMAIN s : s[n] = c}

\* The commands of S, oldest first.
OldestFirst(S) ==
  {s \in [1..Cardinality(S) -> S] :
     /\ \A c \in S : \E n \in DOMAIN s : s[n] = c
     /\ \A m, n \in DOMAIN s : m < n => age[s[m]] < age[s[n]]}

\* ...and sends it oldest first, to whatever connection is registered by
\* then, as far as the outbox has room.
ResendSend(k) ==
  LET cur == online[Owner[k]]
      offered == {c \in batch[k] : Reaches(c)}
      room == IF cur = NoConn THEN 0 ELSE Capacity - Len(outbox[cur])
      fits == IF Cardinality(offered) < room THEN Cardinality(offered)
              ELSE room
  IN
  /\ phase[k] = "selected"
  /\ \E order \in OldestFirst(offered) :
       LET accepted == {order[n] : n \in 1..fits} IN
       /\ batch' = [batch EXCEPT ![k] = accepted]
       /\ outbox' = [j \in Conns |->
                       IF j = cur THEN outbox[j] \o SubSeq(order, 1, fits)
                       ELSE outbox[j]]
       /\ handed' = handed \cup (accepted \X {cur})
       /\ dropped' = dropped \cup IF accepted = offered THEN {} ELSE {cur}
  /\ phase' = [phase EXCEPT ![k] = "marking"]
  /\ UNCHANGED <<dbVars, callVars, sock, caps, toHub, work, seen,
                 boundVars, online, executed, early, overlapped>>

\* The commands whose frame was accepted are marked; then the receive loop.
ResendMark(k) ==
  /\ phase[k] = "marking"
  /\ row' = MarkedSent(batch[k])
  /\ batch' = [batch EXCEPT ![k] = {}]
  /\ BackToLoop(k)
  /\ UNCHANGED <<age, overdue, callVars, work, seen, boundVars, executed>>

\* A cmd_result arrives: the waiter is resolved before anything is awaited.
\* A receive that was already pending when the hub closed the socket may
\* still return a frame.
Receive(k) ==
  LET c == Head(toHub[k]) IN
  /\ phase[k] = "loop"
  /\ toHub[k] # <<>>
  /\ toHub' = [toHub EXCEPT ![k] = Tail(@)]
  /\ waiters' = Dropped(c)
  /\ future' = [future EXCEPT ![c] =
                  IF c \in waiters /\ @ = "pending" THEN executed[c] ELSE @]
  /\ work' = [work EXCEPT ![k] = c]
  /\ phase' = [phase EXCEPT ![k] = "handling"]
  /\ UNCHANGED <<dbVars, task, sock, caps, outbox, batch, seen, boundVars,
                 online, executed, history>>

\* handle_result reads the row...
ReadRow(k) ==
  /\ phase[k] = "handling"
  /\ seen' = [seen EXCEPT ![k] = row[work[k]]]
  /\ phase' = [phase EXCEPT ![k] = "storing"]
  /\ UNCHANGED <<dbVars, callVars, sock, caps, outbox, toHub, batch, work,
                 boundVars, online, executed, history>>

\* ...and commits the answer, also over "expired".
StoreResult(k) ==
  /\ phase[k] = "storing"
  /\ row' = Stored(work[k], seen[k])
  /\ work' = [work EXCEPT ![k] = NoCmd]
  /\ seen' = [seen EXCEPT ![k] = "none"]
  /\ BackToLoop(k)
  /\ UNCHANGED <<age, overdue, callVars, batch, boundVars, executed>>

\* ...or its transaction fails: the exception is logged and the loop goes on,
\* with the result lost.
StoreFails(k) ==
  /\ phase[k] \in {"handling", "storing"}
  /\ dbErrors < MaxDbErrors
  /\ dbErrors' = dbErrors + 1
  /\ work' = [work EXCEPT ![k] = NoCmd]
  /\ seen' = [seen EXCEPT ![k] = "none"]
  /\ BackToLoop(k)
  /\ UNCHANGED <<dbVars, callVars, batch, issued, restarts,
                 executed>>

\* The pending receive_text raises: the `finally` unregisters.
ChannelEnds(k) ==
  /\ phase[k] = "loop"
  /\ sock[k] \in {"lost", "closed"}
  /\ Finish(k)
  /\ UNCHANGED <<dbVars, callVars, batch, work, seen, boundVars,
                 executed>>

-----------------------------------------------------------------------------
(* The writer task with the agent behind it, and the network *)

\* The writer takes a frame from the outbox.  On a live socket the agent gets
\* it: the first copy of a command is executed, each copy is answered.
Deliver(k) ==
  LET c == Head(outbox[k]) IN
  /\ phase[k] \notin {"unused", "ended"}
  /\ outbox[k] # <<>>
  /\ outbox' = [outbox EXCEPT ![k] = Tail(@)]
  /\ IF sock[k] = "open"
       THEN /\ toHub' = [toHub EXCEPT ![k] = Append(@, c)]
            /\ \E r \in Results :
                 executed' = [executed EXCEPT ![c] =
                                IF @ = "none" THEN r ELSE @]
       ELSE UNCHANGED <<toHub, executed>>
  /\ UNCHANGED <<dbVars, callVars, phase, sock, caps, batch, work, seen,
                 boundVars, online, history>>

\* Another connection can replace each one that breaks: the bound on failures.
Replaceable(i) == \E k \in Conns : Owner[k] = i /\ phase[k] = "unused"

\* The link breaks: the agent gives the socket up, the hub has not noticed.
\* Of the results in flight a prefix reached the hub's side.
LoseLink(k) ==
  /\ sock[k] = "open"
  /\ Replaceable(Owner[k])
  /\ sock' = [sock EXCEPT ![k] = "lost"]
  /\ \E n \in 0..Len(toHub[k]) :
       toHub' = [toHub EXCEPT ![k] = SubSeq(@, 1, n)]
  /\ UNCHANGED <<dbVars, callVars, phase, caps, outbox, batch, work, seen,
                 boundVars, online, executed, history>>

-----------------------------------------------------------------------------
(* Time and restarts *)

\* expires_at passes.
Elapse(c) ==
  /\ row[c] # "none"
  /\ c \notin overdue
  /\ overdue' = overdue \cup {c}
  /\ UNCHANGED <<row, age, callVars, connVars, boundVars, online,
                 executed, history>>

\* One round of expire_task.
ExpireSweep ==
  /\ \E c \in Cmds : Expirable(c)
  /\ row' = Swept
  /\ UNCHANGED <<age, overdue, callVars, connVars, boundVars, online,
                 executed, history>>

\* The hub stops and starts again: everything in memory is gone.
Restart ==
  /\ restarts < MaxRestarts
  /\ \A i \in Instances : Replaceable(i)
  /\ restarts' = restarts + 1
  /\ online' = EmptyRegistry
  /\ task' = [c \in Cmds |-> IF task[c] = "idle" THEN "idle" ELSE "finished"]
  /\ future' = [c \in Cmds |-> IF future[c] = "pending" THEN "none"
                               ELSE future[c]]
  /\ waiters' = {}
  /\ phase' = [k \in Conns |-> IF phase[k] = "unused" THEN "unused"
                               ELSE "ended"]
  /\ sock' = [k \in Conns |-> IF sock[k] = "none" THEN "none" ELSE "closed"]
  /\ caps' = [k \in Conns |-> {}]
  /\ outbox' = [k \in Conns |-> <<>>]
  /\ toHub' = [k \in Conns |-> <<>>]
  /\ batch' = [k \in Conns |-> {}]
  /\ work' = [k \in Conns |-> NoCmd]
  /\ seen' = [k \in Conns |-> "none"]
  /\ handed' = {}
  /\ dropped' = {}
  /\ early' = {}
  /\ UNCHANGED <<dbVars, issued, dbErrors, executed, overlapped>>

-----------------------------------------------------------------------------
CallerStep(c) ==
  \/ Issue(c) \/ Insert(c) \/ SendNow(c) \/ MarkSent(c) \/ CallerFails(c)
  \/ CallerCommit(c) \/ CallerRollback(c)
  \/ CallerReturns(c) \/ CallerTimesOut(c)

ChannelStep(k) ==
  \/ ResendSelect(k) \/ ResendSend(k) \/ ResendMark(k)
  \/ Receive(k) \/ ReadRow(k) \/ StoreResult(k) \/ StoreFails(k)
  \/ ChannelEnds(k)

Next ==
  \/ \E c \in Cmds : CallerStep(c) \/ Elapse(c)
  \/ \E k \in Conns : Connect(k) \/ ChannelStep(k) \/ Deliver(k) \/ LoseLink(k)
  \/ ExpireSweep
  \/ Restart

Spec == Init /\ [][Next]_vars

\* The event loop runs every coroutine that can run, agents keep
\* reconnecting, and expire_task wakes every minute.  Nothing makes a caller
\* issue a command, a link break, a deadline pass or the hub restart.
Fairness ==
  /\ \A c \in Cmds :
       /\ WF_vars(Insert(c))
       /\ WF_vars(SendNow(c))
       /\ WF_vars(MarkSent(c))
       /\ WF_vars(CallerCommit(c) \/ CallerRollback(c))
       /\ WF_vars(CallerReturns(c) \/ CallerTimesOut(c))
  /\ \A k \in Conns :
       /\ WF_vars(Connect(k))
       /\ WF_vars(ChannelStep(k))
       /\ WF_vars(Deliver(k))
  /\ WF_vars(ExpireSweep)

FairSpec == Spec /\ Fairness
-----------------------------------------------------------------------------
(* Properties *)

\* The rows written for run_command keep the lifecycle the Command table
\* promises: whatever the interleaving of _mark_sent, the results of two
\* connections, the expiry and a restart, an answer is never taken back and an
\* expired row is only reopened by a result.
RunLifecycle ==
  INSTANCE CommandLifecycle
    WITH Cmds <- RunCmds, status <- [c \in RunCmds |-> row[c]]
RunLifecycleHolds == RunLifecycle!Spec

\* The same promise for queue_command's rows, as hub/models.py:186-188 states
\* it for every command.  The caller's late flush of its own copy breaks it.
QueueLifecycle ==
  INSTANCE CommandLifecycle
    WITH Cmds <- QueueCmds, status <- [c \in QueueCmds |-> row[c]]
QueueLifecycleHolds == QueueLifecycle!Spec

\* No command falls between queue_command and resend_pending: once a
\* connection has done its resend, every unanswered command it supports that
\* its agent has not executed was put on this very connection, or its caller
\* is about to put it there - unless the outbox overflowed.
NothingForgotten ==
  \A c \in Cmds :
    LET k == online[Target[c]] IN
      ( /\ Reaches(c)
        /\ PastResend(k)
        /\ row[c] \in Pending
        /\ c \notin overdue
        /\ executed[c] = "none" )
      => task[c] = "inserted" \/ <<c, k>> \in handed \/ k \in dropped

\* "Everything not answered yet, oldest first" (dispatcher.py:126): an agent
\* does not execute a command while an older one that it supports, and that is
\* neither answered nor overdue, was not executed - across broken links,
\* resends by displaced handlers and late callers.  Except that the newer one
\* was created before the older was sent, or was sent between the registration
\* of the connection and its resend, or that the outbox overflowed.
ExecutedInOrder ==
  [][\A c, d \in Cmds :
       LET k == online[Target[d]] IN
         ( /\ executed[d] = "none" /\ executed'[d] # "none"
           /\ Target[c] = Target[d] /\ age[c] < age[d]
           /\ row[c] \in Pending /\ c \notin overdue
           /\ executed[c] = "none" /\ Reaches(c) )
           => <<c, d>> \in overlapped \/ <<d, k>> \in early \/ k \in dropped
    ]_vars

\* The registry keeps a waiter only for a caller that will remove it
\* (registry.py:85-86): none is left behind for a result that may never come.
NoOrphanWaiter ==
  \A c \in waiters : task[c] \in {"marking", "waiting"}

\* A command is executed unless its time runs out first, whatever links break
\* and however often the hub restarts: lost frames are sent again.
Delivered ==
  \A c \in Cmds : row[c] \in Pending ~> executed[c] # "none" \/ c \in overdue

\* Once its deadline is past a row settles, and stays settled: it is answered
\* or expired, never open for good.
Settled ==
  \A c \in Cmds :
    (row[c] # "none" /\ c \in overdue) ~> [](row[c] \notin Pending)

\* What run_command returned to the operator is what the table says in the
\* end, also when the hub stopped after resolving the waiter and before the
\* row was stored - unless the deadline passed meanwhile.
ReturnedIsRecorded ==
  \A c \in RunCmds :
    future[c] \in Answers ~> row[c] = future[c] \/ c \in overdue
=============================================================================
