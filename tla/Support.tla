------------------------------ MODULE Support ------------------------------
(***************************************************************************)
(* Support sessions: hub/support/service.py with the listeners of            *)
(* hub/support/tunnels.py and close_support_sessions of                      *)
(* hub/instances/service.py.                                                 *)
(*                                                                         *)
(* A session is a row, a TCP port with a listener, and an access on the      *)
(* instance.  Each is opened by a coroutine of its own (op) that reads,      *)
(* asks the instance and writes with awaits in between, and may be closed    *)
(* meanwhile by others: an operator, the expiry task, an event of the        *)
(* instance, a revocation.  The closers, and the openers where they call     *)
(* close, run the same steps (at): the rows are read, one listener is        *)
(* stopped, its row committed, the instance told.                            *)
(*                                                                         *)
(* Of the dispatcher only this is used (module Commands): a command reaches  *)
(* the agent in order while the link holds; what the link lost, or what was  *)
(* queued without one, is sent again after a reconnect, behind whatever was  *)
(* sent before the resend.  Of the accesses only the SSH grant is modelled,  *)
(* of which an instance has one; UI accounts are one per session.            *)
(***************************************************************************)
EXTENDS Naturals, Sequences, FiniteSets

CONSTANTS
  Sessions,     \* the support sessions that may be opened
  Ssh,          \* those of kind "ssh"; the rest are of kind "ui"
  Instances,
  Inst,         \* Inst[s]: the instance s is on
  Ports,        \* the support port range
  NoPort,       \* "not allocated"
  NoSession,    \* "no grant"
  Tasks,        \* coroutines that close sessions, each used once
  Expiry,       \* expiry_task, which runs for ever
  MaxRestarts,  \* bound: hub restarts
  MaxDbErrors   \* bound: commits of a closer that fail

Procs == Sessions \cup Tasks \cup {Expiry}

ASSUME SupportAssumption ==
  /\ Ssh \subseteq Sessions
  /\ Inst \in [Sessions -> Instances]
  /\ Ports \subseteq Nat
  /\ NoPort \notin Ports
  /\ NoSession \notin Sessions
  /\ Tasks \cap Sessions = {}
  /\ Expiry \notin Sessions \cup Tasks
  /\ MaxRestarts \in Nat
  /\ MaxDbErrors \in Nat

VARIABLES
  \* The database
  row,        \* row[s]: SupportSession.status, "none" before the insert
  port,       \* port[s]: the port chosen for s
  due,        \* the sessions with expires_at <= now
  active,     \* the instances with status "active"
  \* The openers
  op,         \* op[s]: where open_ui or open_ssh of s stands
  \* The closers
  at,         \* at[p]: where the coroutine p stands with its closes
  kind,       \* kind[q]: what task q is
  todo,       \* todo[p]: the rows p read and has yet to close
  closing,    \* closing[p]: those it is closing now
  revoking,   \* revoking[q]: the instance task q is revoking
  \* The listeners
  bound,      \* the sessions whose port is bound
  listeners,  \* _listeners: those that stop_listener finds
  unrestored, \* the sessions whose listener a restart could not bring back
  \* The instances (external)
  wire,       \* wire[i]: commands on their way to the agent of i
  held,       \* held[i]: commands that wait for a resend
  answered,   \* the sessions whose support.ssh.grant was executed
  grant,      \* grant[i]: the session that i's SSH grant was written for
  lapsed,     \* the instances with an SSH expiry yet to be handled
  \* History
  overlap,    \* <<s, t>>: open_ssh of t was under way when s looked
  overtaken,  \* the sessions closed while their listener was starting
  late,       \* those being opened while their instance was revoked
  crossed,    \* SSH sessions whose grant another open or close may have undone
  \* What went wrong in the hub
  unserved,   \* the sessions of a close that failed once their listener was stopped
  restarts,
  dbErrors

rowVars    == <<row, port, due, active>>
closeVars  == <<at, kind, todo, closing, revoking>>
portVars   == <<bound, listeners, unrestored>>
agentVars  == <<wire, held, answered, grant, lapsed>>
history    == <<overlap, overtaken, late, crossed>>
faults     == <<unserved, restarts, dbErrors>>
vars == <<rowVars, op, closeVars, portVars, agentVars, history, faults>>

Statuses == {"none", "open", "closed", "expired", "replaced"}
Openings == {"idle", "checked", "read", "granting", "granted", "inserted", "binding",
             "failing", "ended"}
Opening(s) == op[s] \in {"checked", "read", "granting", "granted"}
Starting(s) == op[s] \in {"inserted", "binding"}
Kinds == {"none", "operator", "event", "revoke", "expiry"}
Command == [name : {"grant", "revoke"}, of : Sessions]

TypeOK ==
  /\ row \in [Sessions -> Statuses]
  /\ port \in [Sessions -> Ports \cup {NoPort}]
  /\ due \subseteq Sessions
  /\ active \subseteq Instances
  /\ op \in [Sessions -> Openings]
  /\ at \in [Procs -> {"idle", "read", "stopped", "committed", "ended"}]
  /\ kind \in [Procs -> Kinds]
  /\ todo \in [Procs -> SUBSET Sessions]
  /\ closing \in [Procs -> SUBSET Sessions]
  /\ revoking \in [Tasks -> SUBSET Instances]
  /\ listeners \subseteq bound /\ bound \subseteq Sessions
  /\ unrestored \subseteq Sessions
  /\ wire \in [Instances -> Seq(Command)]
  /\ held \in [Instances -> Seq(Command)]
  /\ answered \subseteq Ssh
  /\ grant \in [Instances -> Ssh \cup {NoSession}]
  /\ lapsed \subseteq Instances
  /\ overlap \subseteq Ssh \X Ssh
  /\ overtaken \subseteq Sessions
  /\ late \subseteq Sessions
  /\ crossed \subseteq Ssh
  /\ unserved \subseteq Sessions
  /\ restarts \in 0..MaxRestarts
  /\ dbErrors \in 0..MaxDbErrors

Init ==
  /\ row = [s \in Sessions |-> "none"]
  /\ port = [s \in Sessions |-> NoPort]
  /\ due = {}
  /\ active = Instances
  /\ op = [s \in Sessions |-> "idle"]
  /\ at = [p \in Procs |-> "idle"]
  /\ kind = [p \in Procs |-> IF p = Expiry THEN "expiry" ELSE "none"]
  /\ todo = [p \in Procs |-> {}]
  /\ closing = [p \in Procs |-> {}]
  /\ revoking = [q \in Tasks |-> {}]
  /\ bound = {}
  /\ listeners = {}
  /\ unrestored = {}
  /\ wire = [i \in Instances |-> <<>>]
  /\ held = [i \in Instances |-> <<>>]
  /\ answered = {}
  /\ grant = [i \in Instances |-> NoSession]
  /\ lapsed = {}
  /\ overlap = {}
  /\ overtaken = {}
  /\ late = {}
  /\ crossed = {}
  /\ unserved = {}
  /\ restarts = 0
  /\ dbErrors = 0

-----------------------------------------------------------------------------
(* What the queries select.  A definition named ..._Mutant is a plausible    *)
(* mistake in the one that follows it, for the mutation runs only.           *)

OpenRows == {s \in Sessions : row[s] = "open"}

Previous_Mutant(s) == {t \in OpenRows \cap Ssh : t = s}

\* open_ssh: the open SSH sessions of the instance of s.
Previous(s) == {t \in OpenRows \cap Ssh : Inst[t] = Inst[s]}

OpenOf_Mutant(i) == {s \in OpenRows \cap Ssh : Inst[s] = i}

\* close_support_sessions: the open sessions of i.
OpenOf(i) == {s \in OpenRows : Inst[s] = i}

Overdue_Mutant == OpenRows \cap due \cap Ssh

\* expiry_task: the open rows with expires_at in the past.
Overdue == OpenRows \cap due

\* _allocate_port: neither a registered listener nor an open row has it.
Used == {port[s] : s \in listeners \cup OpenRows}
Free == Ports \ Used

\* The status a closer gives, and whether it tells the instance.
Verdict(p) ==
  IF p \in Sessions
    THEN IF op[p] = "failing" THEN "closed" ELSE "replaced"
    ELSE IF kind[p] \in {"expiry", "event"} THEN "expired" ELSE "closed"

Tells_Mutant(p) == Verdict(p) # "expired" /\ kind[p] # "revoke"

Tells(p) == Verdict(p) = "closed" /\ kind[p] # "revoke"

\* queue_command and run_command: the frame goes out or, when there is no
\* link, waits for a resend.
Post(i, cmd) ==
  \/ wire' = [wire EXCEPT ![i] = Append(@, cmd)] /\ UNCHANGED held
  \/ /\ wire[i] = <<>>
     /\ held' = [held EXCEPT ![i] = Append(@, cmd)]
     /\ UNCHANGED wire

\* History only: a command for i is held, or an operator is closing an SSH
\* session of i, or a failed bind is closing one or may be.
Unsettled(i) ==
  \/ held[i] # <<>>
  \/ \E q \in Tasks : \E t \in (todo[q] \cup closing[q]) \cap Ssh :
       Inst[t] = i /\ kind[q] = "operator"
  \/ \E t \in Ssh : Inst[t] = i /\ op[t] \in {"inserted", "failing"}

\* History only: the SSH sessions of i whose grant is on its way.
Granting(i) == {s \in Ssh : Inst[s] = i /\ op[s] \in {"granting", "granted"}}

-----------------------------------------------------------------------------
(* Opening: open_ui and open_ssh *)

\* The routes look at the instance first.
Check(s) ==
  /\ op[s] = "idle"
  /\ Inst[s] \in active
  /\ op' = [op EXCEPT ![s] = "checked"]
  /\ late' = late \cup IF \E q \in Tasks : Inst[s] \in revoking[q] THEN {s}
                        ELSE {}
  /\ UNCHANGED <<rowVars, closeVars, portVars, agentVars, overlap, overtaken,
                 crossed, faults>>

\* open_ssh looks for the open SSH sessions of the instance.  When there are
\* some it goes on only if asked to replace them, and leaves with 409 otherwise.
ReadPrevious(s) ==
  /\ s \in Ssh
  /\ op[s] = "checked"
  /\ todo' = [todo EXCEPT ![s] = Previous(s)]
  /\ op' = [op EXCEPT ![s] = "read"]
  /\ overlap' = overlap \cup
       {<<s, t>> : t \in {t \in Ssh \ {s} : Inst[t] = Inst[s] /\ Opening(t)}}
  /\ UNCHANGED <<rowVars, at, kind, closing, revoking, portVars, agentVars,
                 overtaken, late, crossed, faults>>

\* The lowest free port is chosen, then the instance is asked for the access.
Allocate(s) ==
  /\ op[s] = IF s \in Ssh THEN "read" ELSE "checked"
  /\ \E n \in Free :
       /\ \A m \in Free : n <= m
       /\ port' = [port EXCEPT ![s] = n]
  /\ op' = [op EXCEPT ![s] = "granting"]
  /\ IF s \in Ssh THEN Post(Inst[s], [name |-> "grant", of |-> s])
                  ELSE UNCHANGED <<wire, held>>
  /\ crossed' = crossed \cup todo[s] \cup IF s \in Ssh /\ Unsettled(Inst[s]) THEN {s}
                                        ELSE {}
  /\ UNCHANGED <<row, due, active, closeVars, portVars, answered, grant, lapsed,
                 overlap, overtaken, late, faults>>

\* The result is back.  Now open_ssh closes the sessions it had found.
Granted(s) ==
  /\ op[s] = "granting"
  /\ s \in Ssh => s \in answered
  /\ op' = [op EXCEPT ![s] = "granted"]
  /\ at' = [at EXCEPT ![s] = IF todo[s] = {} THEN "idle" ELSE "read"]
  /\ UNCHANGED <<rowVars, kind, todo, closing, revoking, portVars, agentVars,
                 history, faults>>

\* No port, no connection, no answer in time, a session that was not to be
\* replaced: the opener leaves, and what it had found stays open.  Later a
\* certificate that cannot be signed or a failed commit has the same effect.
OpenFails(s) ==
  /\ op[s] \in {"checked", "read", "granting"} \/ (op[s] = "granted" /\ at[s] = "idle")
  /\ op' = [op EXCEPT ![s] = "ended"]
  /\ todo' = [todo EXCEPT ![s] = {}]
  /\ UNCHANGED <<rowVars, at, kind, closing, revoking, portVars, agentVars,
                 history, faults>>

\* The row is committed...
Insert(s) ==
  /\ op[s] = "granted"
  /\ at[s] = "idle"
  /\ row' = [row EXCEPT ![s] = "open"]
  /\ op' = [op EXCEPT ![s] = "inserted"]
  /\ UNCHANGED <<port, due, active, closeVars, portVars, agentVars, history,
                 faults>>

\* ...and its port bound.
Bind(s) ==
  /\ op[s] = "inserted"
  /\ \A t \in bound : port[t] # port[s]
  /\ bound' = bound \cup {s}
  /\ op' = [op EXCEPT ![s] = "binding"]
  /\ UNCHANGED <<rowVars, closeVars, listeners, unrestored, agentVars, history,
                 faults>>

\* The port is taken, by another session or by anything on the host: the
\* session is closed again.
BindFails(s) ==
  /\ op[s] = "inserted"
  /\ op' = [op EXCEPT ![s] = "failing"]
  /\ at' = [at EXCEPT ![s] = "read"]
  /\ todo' = [todo EXCEPT ![s] = {s}]
  /\ UNCHANGED <<rowVars, kind, closing, revoking, portVars, agentVars, history,
                 faults>>

\* start_server returns: the listener is registered, whatever became of the
\* session.
Registered(s) ==
  /\ op[s] = "binding"
  /\ listeners' = listeners \cup {s}
  /\ op' = [op EXCEPT ![s] = "ended"]
  /\ UNCHANGED <<rowVars, closeVars, bound, unrestored, agentVars, history,
                 faults>>

-----------------------------------------------------------------------------
(* Closing *)

\* A closer has read the rows of S.
Reads(q, S, k) ==
  /\ at[q] = "idle"
  /\ at' = [at EXCEPT ![q] = IF S = {} /\ k # "revoke" THEN "ended" ELSE "read"]
  /\ todo' = [todo EXCEPT ![q] = S]
  /\ kind' = [kind EXCEPT ![q] = k]
  /\ UNCHANGED <<rowVars, op, closing, portVars, wire, held, answered, grant,
                 overlap, overtaken, faults>>

\* An operator closes a session; the expiry task wakes up.
OperatorReads(q) ==
  /\ \E s \in OpenRows :
       /\ Reads(q, {s}, "operator")
       /\ crossed' = crossed \cup IF s \in Ssh THEN Granting(Inst[s]) ELSE {}
  /\ UNCHANGED <<revoking, lapsed, late>>

ExpiryReads ==
  /\ Overdue # {}
  /\ Reads(Expiry, Overdue, "expiry")
  /\ UNCHANGED <<revoking, lapsed, late, crossed>>

\* on_instance_expired: the instance removed accesses at their expiry.
EventReads(q) ==
  /\ \/ \E s \in OpenRows \ Ssh : s \in due /\ Reads(q, {s}, "event")
                                  /\ UNCHANGED lapsed
     \/ \E i \in lapsed : /\ Reads(q, OpenOf(i) \cap Ssh, "event")
                          /\ lapsed' = lapsed \ {i}
  /\ UNCHANGED <<revoking, late, crossed>>

\* revoke_instance reads all open sessions of an instance.
RevokeReads(q) ==
  /\ \E i \in active :
       /\ Reads(q, OpenOf(i), "revoke")
       /\ revoking' = [revoking EXCEPT ![q] = {i}]
       /\ late' = late \cup {s \in Sessions : Inst[s] = i /\ Opening(s)}
  /\ UNCHANGED <<lapsed, crossed>>

\* What a closer closes together: a revocation all it read, others one by one.
Parts(p) ==
  IF kind[p] = "revoke" THEN {todo[p]} ELSE {{s} : s \in todo[p]}

StopListeners_Mutant(S) ==
  /\ UNCHANGED listeners
  /\ bound' = bound \ S

NoClose_Mutant(S) ==
  /\ listeners' = listeners \ S
  /\ UNCHANGED bound

\* stop_listener: a registered listener goes, and its port with it.  One that
\* is still starting is not found.
StopListeners(S) ==
  /\ listeners' = listeners \ S
  /\ bound' = bound \ (S \cap listeners)

\* close, up to its commit.
Stop(p) ==
  /\ at[p] = "read"
  /\ \E S \in Parts(p) :
       /\ StopListeners(S)
       /\ todo' = [todo EXCEPT ![p] = @ \ S]
       /\ closing' = [closing EXCEPT ![p] = S]
       /\ overtaken' = overtaken \cup {s \in S : Starting(s)}
  /\ at' = [at EXCEPT ![p] = "stopped"]
  /\ UNCHANGED <<rowVars, op, kind, revoking, unrestored, agentVars, overlap,
                 late, crossed, faults>>

\* Where the closer goes when a session is done.
NextClose(p) ==
  /\ closing' = [closing EXCEPT ![p] = {}]
  /\ at' = [at EXCEPT ![p] =
              IF todo[p] # {} THEN "read"
              ELSE IF p \in Tasks THEN "ended" ELSE "idle"]
  /\ op' = IF p \in Sessions /\ op[p] = "failing"
             THEN [op EXCEPT ![p] = "ended"] ELSE op

\* The row takes its verdict, whatever it holds by now: the closer trusts the
\* status it read.  A revocation commits the instance's status with it.
Commit(p) ==
  /\ at[p] = "stopped"
  /\ row' = [s \in Sessions |-> IF s \in closing[p] THEN Verdict(p) ELSE row[s]]
  /\ IF Tells(p) /\ closing[p] \subseteq Ssh
       THEN at' = [at EXCEPT ![p] = "committed"] /\ UNCHANGED <<op, closing>>
       ELSE NextClose(p)
  /\ IF p \in Tasks
       THEN /\ active' = active \ revoking[p]
            /\ revoking' = [revoking EXCEPT ![p] = {}]
       ELSE UNCHANGED <<active, revoking>>
  /\ UNCHANGED <<port, due, kind, todo, portVars, agentVars, history, faults>>

\* support.ssh.revoke is queued for the instance.
Tell(p) ==
  /\ at[p] = "committed"
  /\ \E s \in closing[p] : Post(Inst[s], [name |-> "revoke", of |-> s])
  /\ NextClose(p)
  /\ UNCHANGED <<rowVars, kind, todo, revoking, portVars, answered, grant,
                 lapsed, history, faults>>

\* The commit of a closer fails, or the one queue_command makes for it.  What was
\* stopped by then is not started again, and the exception ends the whole pass:
\* the open that asked for it, the revocation with all it read.
CloseFails(p) ==
  /\ at[p] \in {"stopped", "committed"}
  /\ dbErrors < MaxDbErrors
  /\ dbErrors' = dbErrors + 1
  /\ unserved' = unserved \cup IF at[p] = "stopped" THEN closing[p] ELSE {}
  /\ at' = [at EXCEPT ![p] = IF p \in Tasks THEN "ended" ELSE "idle"]
  /\ op' = [s \in Sessions |-> IF s = p THEN "ended" ELSE op[s]]
  /\ todo' = [todo EXCEPT ![p] = {}]
  /\ closing' = [closing EXCEPT ![p] = {}]
  /\ revoking' = [q \in Tasks |-> IF q = p THEN {} ELSE revoking[q]]
  /\ UNCHANGED <<rowVars, kind, portVars, agentVars, history, restarts>>

-----------------------------------------------------------------------------
(* The instance, and the link to it *)

\* The agent runs the next command.  The grant is one line: a new one takes
\* the place of the last, and a revoke removes whatever is there.
AgentRuns(i) ==
  LET cmd == Head(wire[i]) IN
  /\ i \in active
  /\ wire[i] # <<>>
  /\ wire' = [wire EXCEPT ![i] = Tail(@)]
  /\ IF cmd.name = "grant"
       THEN /\ grant' = [grant EXCEPT ![i] = cmd.of]
            /\ answered' = answered \cup {cmd.of}
       ELSE /\ grant' = [grant EXCEPT ![i] = NoSession]
            /\ UNCHANGED answered
  /\ UNCHANGED <<rowVars, op, closeVars, portVars, held, lapsed, history,
                 faults>>

\* The grant runs out; the agent removes it and reports that.
AgentExpires(i) ==
  /\ grant[i] \in due
  /\ grant' = [grant EXCEPT ![i] = NoSession]
  /\ lapsed' = lapsed \cup {i}
  /\ UNCHANGED <<rowVars, op, closeVars, portVars, wire, held, answered, history,
                 faults>>

\* The link breaks: what it carried waits for the resend.
LoseLink(i) ==
  /\ wire[i] # <<>>
  /\ held' = [held EXCEPT ![i] = @ \o wire[i]]
  /\ wire' = [wire EXCEPT ![i] = <<>>]
  /\ UNCHANGED <<rowVars, op, closeVars, portVars, answered, grant, lapsed,
                 history, faults>>

\* resend_pending on a new connection, behind what was sent since it opened.
Resend(i) ==
  /\ held[i] # <<>>
  /\ wire' = [wire EXCEPT ![i] = @ \o held[i]]
  /\ held' = [held EXCEPT ![i] = <<>>]
  /\ UNCHANGED <<rowVars, op, closeVars, portVars, answered, grant, lapsed,
                 history, faults>>

-----------------------------------------------------------------------------
(* Time and restarts *)

\* expires_at passes, of the row or of a grant whose opener failed.
Elapse(s) ==
  /\ row[s] # "none" \/ (s \in answered /\ op[s] = "ended")
  /\ s \notin due
  /\ due' = due \cup {s}
  /\ UNCHANGED <<row, port, active, op, closeVars, portVars, agentVars, history,
                 faults>>

Restorable_Mutant == (OpenRows \ due) \ Ssh

\* restore_listeners starts one for each open row that is not overdue.
Restorable == OpenRows \ due

\* The hub stops, and starts again with restore_listeners.  Some ports cannot be
\* bound: of two rows with one port, one at most can.
Restart ==
  /\ restarts < MaxRestarts
  /\ restarts' = restarts + 1
  /\ op' = [s \in Sessions |-> IF op[s] = "idle" THEN "idle" ELSE "ended"]
  /\ at' = [p \in Procs |-> IF p \in Tasks /\ at[p] # "idle" THEN "ended"
                            ELSE "idle"]
  /\ todo' = [p \in Procs |-> {}]
  /\ closing' = [p \in Procs |-> {}]
  /\ revoking' = [q \in Tasks |-> {}]
  /\ row' = [s \in Sessions |-> IF s \in Overdue THEN "expired" ELSE row[s]]
  /\ \E R \in SUBSET Restorable :
       /\ \A s, t \in R : port[s] = port[t] => s = t
       /\ bound' = R
       /\ listeners' = R
       /\ unrestored' = unrestored \cup (Restorable \ R)
  /\ held' = [i \in Instances |-> held[i] \o wire[i]]
  /\ wire' = [i \in Instances |-> <<>>]
  /\ unserved' = {}
  /\ UNCHANGED <<port, due, active, kind, answered, grant, lapsed, history, dbErrors>>

-----------------------------------------------------------------------------
OpenStep(s) ==
  \/ Check(s) \/ ReadPrevious(s) \/ Allocate(s) \/ Granted(s) \/ OpenFails(s)
  \/ Insert(s) \/ Bind(s) \/ BindFails(s) \/ Registered(s)

CloseStep(p) == Stop(p) \/ Commit(p) \/ Tell(p)

AgentStep(i) == AgentRuns(i) \/ AgentExpires(i) \/ LoseLink(i) \/ Resend(i)

Next ==
  \/ \E s \in Sessions : OpenStep(s) \/ Elapse(s)
  \/ \E p \in Procs : CloseStep(p) \/ CloseFails(p)
  \/ \E q \in Tasks : OperatorReads(q) \/ EventReads(q) \/ RevokeReads(q)
  \/ ExpiryReads
  \/ \E i \in Instances : AgentStep(i)
  \/ Restart

Spec == Init /\ [][Next]_vars

\* The expiry task wakes up every 30 s, and the event loop runs it when it can
\* run.  Of the others nothing is asked: nothing makes anybody open or close a
\* session or come to the end of it, an instance answer, a link break, a commit
\* fail, time pass or the hub restart.
Fairness ==
  /\ WF_vars(ExpiryReads)
  /\ WF_vars(CloseStep(Expiry))

FairSpec == Spec /\ Fairness
-----------------------------------------------------------------------------
(* Properties *)

\* A port is open only for an open session - or for one that was closed
\* between its insert and the end of start_server, when stop_listener did not
\* find the listener.  No other order of opens, closes, expiries, revocations
\* and restarts leaves one behind.
StrayOnlyOvertaken ==
  \A s \in bound : row[s] = "open" \/ s \in overtaken

\* An open session whose opener is gone has its listener, unless a closer is
\* between stopping it and its commit, its port could not be bound again at a
\* restart, or the commit of a close failed: close and revoke_instance stop the
\* listener first, and nothing starts it again before the next restart.  A bind
\* that fails leaves an open session in that last case only.
OpenIsServed ==
  \A s \in OpenRows :
    op[s] = "ended" =>
      \/ s \in listeners \cup unrestored \cup unserved
      \/ \E p \in Procs : s \in closing[p]

\* "One SSH grant per instance": two sessions share it only when their
\* open_ssh overlapped, so that neither saw the row of the other.
SharedOnlyOverlapping ==
  \A s, t \in OpenRows \cap Ssh :
    s # t /\ Inst[s] = Inst[t] => <<s, t>> \in overlap \/ <<t, s>> \in overlap

\* An instance that is not active has no open session, except one that was
\* being opened while the instance was revoked.
RevokedOnlyLate ==
  \A s \in OpenRows : Inst[s] \in active \/ s \in late

\* "Sessions expire by themselves": past its deadline a session does not stay
\* open, and its port goes - overtaken ones excepted.  One that a failed close
\* left open without a listener is met again by a later pass.
DueSettles ==
  \A s \in Sessions :
    (row[s] = "open" /\ s \in due) ~>
       row[s] # "open" /\ (s \notin bound \/ s \in overtaken)

\* "Two open sessions would share it, and closing either would revoke both":
\* one SSH session per instance at a time.
OneSshPerInstance ==
  \A s, t \in OpenRows \cap Ssh : Inst[s] = Inst[t] => s = t

\* "No support.ssh.revoke for the old one: it would remove the grant just
\* written."  An open SSH session keeps its grant until it is due: one opened
\* in the place of another as well, whatever the link does - unless a close of
\* another session crossed its opening, or its open_ssh overlapped with another.
GrantStands ==
  \A s \in OpenRows \cap Ssh :
    \/ grant[Inst[s]] = s
    \/ s \in due \cup crossed
    \/ \E t \in Ssh : <<s, t>> \in overlap \/ <<t, s>> \in overlap
=============================================================================
