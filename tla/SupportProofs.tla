--------------------------- MODULE SupportProofs ----------------------------
(***************************************************************************)
(* Proofs about modules Support and Tunnels, for any sessions, instances,  *)
(* ports, tasks, links, endpoints and bounds.                              *)
(*                                                                         *)
(* Support: the invariant says of each opener how far its row, its         *)
(* listener and its closes are (Stages, Listening, Closers, Failing), of   *)
(* what is being closed that it will not be bound again unseen             *)
(* (ClosedUnbound), of a revocation that it has read every open session or *)
(* that one is late (RevokersMeet), of an open_ssh that it has still to    *)
(* close every open session it did not overlap with (ReadersMeet), and of  *)
(* the grant of an open session that it is the last thing its agent was    *)
(* told (StandingMeets).                                                   *)
(*                                                                         *)
(* Tunnels: who waits for its link to end is the one the link was given,   *)
(* and whoever is served is counted (TunnelsInv).                          *)
(***************************************************************************)
EXTENDS Support, Tunnels, FiniteSetTheorems, SequenceTheorems, TLAPS

\* Most steps leave unserved and the bounded counters alone.
USE DEF faults

\* The commands of SSH grants only.
SshCommand == [name : {"grant", "revoke"}, of : Ssh]

SupportTyped ==
  /\ row \in [Sessions -> Statuses]
  /\ port \in [Sessions -> Ports \cup {NoPort}]
  /\ due \subseteq Sessions /\ active \subseteq Instances
  /\ op \in [Sessions -> Openings]
  /\ at \in [Procs -> {"idle", "read", "stopped", "committed", "ended"}]
  /\ kind \in [Procs -> Kinds] /\ \A s \in Sessions : kind[s] = "none"
  /\ todo \in [Procs -> SUBSET Sessions] /\ closing \in [Procs -> SUBSET Sessions]
  /\ revoking \in [Tasks -> SUBSET Instances]
  /\ listeners \subseteq bound /\ bound \subseteq Sessions /\ unrestored \subseteq Sessions
  /\ wire \in [Instances -> Seq(SshCommand)] /\ held \in [Instances -> Seq(SshCommand)]
  /\ answered \subseteq Ssh /\ grant \in [Instances -> Ssh \cup {NoSession}]
  /\ lapsed \subseteq Instances /\ overlap \subseteq Ssh \X Ssh
  /\ overtaken \subseteq Sessions /\ late \subseteq Sessions /\ crossed \subseteq Ssh
  /\ unserved \subseteq Sessions /\ restarts \in 0..MaxRestarts /\ dbErrors \in 0..MaxDbErrors
  /\ \A s \in Sessions : op[s] = "idle" \/ Opening(s) => todo[s] \subseteq Ssh
  /\ \A p \in Procs : at[p] = "committed" => closing[p] \subseteq Ssh

-----------------------------------------------------------------------------
(* Rows, listeners and closers *)

\* A row comes with the insert.
Stages ==
  \A s \in Sessions :
    /\ op[s] = "idle" \/ Opening(s) => row[s] = "none"
    /\ op[s] \in {"inserted", "binding", "failing"} => row[s] # "none"

\* A listener is registered with the end of its opener; a port bound without one
\* is on its way.
Listening ==
  /\ \A s \in listeners : op[s] = "ended"
  /\ \A s \in bound \ listeners : op[s] = "binding"
  /\ \A s \in Sessions : op[s] = "binding" => s \in bound

\* What is read had a row; what is being closed is named by its closer, and closed
\* once that has committed.
Closers ==
  /\ \A p \in Procs : \A s \in todo[p] \cup closing[p] : row[s] # "none"
  /\ \A p \in Procs : at[p] \in {"idle", "read", "ended"} => closing[p] = {}
  /\ \A p \in Procs : at[p] = "committed" => \A s \in closing[p] : row[s] # "open"

\* An opener closes the sessions it replaces, or its own when the bind failed.
Failing ==
  \A s \in Sessions :
    /\ op[s] \notin {"granted", "failing"} => at[s] = "idle"
    /\ op[s] = "failing" => \/ at[s] = "read" /\ todo[s] = {s}
                            \/ /\ at[s] \in {"stopped", "committed"}
                               /\ closing[s] = {s} /\ todo[s] = {}

\* Who is closed while starting is overtaken; who is being closed is unbound or is.
ClosedUnbound ==
  /\ \A p \in Procs : \A s \in closing[p] : Starting(s) \/ s \in bound => s \in overtaken
  /\ \A s \in Sessions : Starting(s) => row[s] = "open" \/ s \in overtaken

RowsInv == /\ Stages /\ Listening /\ Closers /\ Failing /\ ClosedUnbound
           /\ StrayOnlyOvertaken /\ OpenIsServed
-----------------------------------------------------------------------------
(* Revocations *)

RevokersMeet ==
  \A q \in Tasks : \A i \in revoking[q] :
    /\ kind[q] = "revoke" /\ at[q] \in {"read", "stopped"}
    /\ at[q] = "stopped" => todo[q] = {}
    /\ \A s \in Sessions : Inst[s] = i =>
         /\ Opening(s) => s \in late
         /\ row[s] = "open" => s \in todo[q] \cup closing[q] \cup late

OpenersMet == \A s \in Sessions : Opening(s) => Inst[s] \in active \/ s \in late

RevokeInv == RevokersMeet /\ OpenersMet /\ RevokedOnlyLate
-----------------------------------------------------------------------------
(* One SSH session per instance *)

HasRead(s) == op[s] \in {"read", "granting", "granted"}
Beside(s, t) == <<s, t>> \in overlap \/ <<t, s>> \in overlap
Rivals(s) == {t \in Ssh \ {s} : Inst[t] = Inst[s] /\ ~Beside(s, t)}

ReadersMeet ==
  \A s \in Ssh : HasRead(s) =>
    \A t \in Rivals(s) :
      /\ ~HasRead(t)
      /\ row[t] = "open" => t \in todo[s] \/ (t \in closing[s] /\ at[s] = "stopped")

DoneClosing == \A s \in Ssh : op[s] = "granted" /\ at[s] = "idle" => todo[s] = {}

ShareInv == ReadersMeet /\ DoneClosing /\ SharedOnlyOverlapping

-----------------------------------------------------------------------------
(* The grant of an open session *)

GrantOf(s) == [name |-> "grant", of |-> s]

\* w does not hold the grant of s; w holds it once, as its last command.
Lacks(w, s) == \A k \in 1..Len(w) : w[k] # GrantOf(s)
EndsWith(w, s) == /\ w # <<>> /\ w[Len(w)] = GrantOf(s)
                  /\ \A k \in 1..Len(w) : k # Len(w) => w[k] # GrantOf(s)

\* Only operators and failed binds tell the instance.
Tellers ==
  /\ kind[Expiry] = "expiry"
  /\ \A q \in Tasks : at[q] # "idle" => kind[q] # "none"
  /\ \A p \in Procs : at[p] = "committed" => \/ p \in Tasks /\ kind[p] = "operator"
                                             \/ p \in Sessions /\ op[p] = "failing"

\* A grant is asked for once, of one instance, and answered before the row is there.
Asked ==
  \A s \in Ssh :
    /\ \A i \in Instances : i # Inst[s] \/ op[s] \in {"idle", "checked", "read"} =>
         Lacks(wire[i], s) /\ Lacks(held[i], s)
    /\ op[s] \in {"idle", "checked", "read"} => s \notin answered
    /\ op[s] = "granted" \/ row[s] # "none" => s \in answered

\* s has asked for its grant, and nobody's open or close crossed its opening.
Standing(s) ==
  /\ op[s] \in {"granting", "granted"} \/ row[s] = "open"
  /\ s \notin crossed /\ \A t \in Ssh : ~Beside(s, t)

\* No other opener or operator will have the agent write or remove a grant...
Unopposed(s) ==
  \A t \in Ssh \ {s} : Inst[t] = Inst[s] =>
    op[t] \notin {"granting", "granted", "inserted", "failing"}
Unclosed(s) ==
  \A q \in Tasks : kind[q] = "operator" =>
    \A t \in (todo[q] \cup closing[q]) \cap Ssh : Inst[t] = Inst[s] => t = s

\* ...and the grant of s is the last thing the agent has been told.
LastTold(w, h, s) == (h = <<>> /\ EndsWith(w, s)) \/ (w = <<>> /\ EndsWith(h, s))
Reaches(s) ==
  IF s \in answered
    THEN wire[Inst[s]] = <<>> /\ held[Inst[s]] = <<>> /\ (grant[Inst[s]] = s \/ s \in due)
    ELSE LastTold(wire[Inst[s]], held[Inst[s]], s)

StandingMeets == \A s \in Ssh : Standing(s) => Unopposed(s) /\ Unclosed(s) /\ Reaches(s)

GrantInv == Tellers /\ Asked /\ StandingMeets

IndInv == SupportTyped /\ RowsInv /\ RevokeInv /\ ShareInv /\ GrantInv
Core == RowsInv /\ RevokeInv /\ ShareInv
-----------------------------------------------------------------------------
(* Types *)

LEMMA Sequences ==
  ASSUME NEW w \in Seq(SshCommand), NEW v \in Seq(SshCommand), NEW c \in SshCommand
  PROVE  /\ Append(w, c) \in Seq(SshCommand) /\ w \o v \in Seq(SshCommand)
         /\ w # <<>> => Head(w) \in SshCommand /\ Tail(w) \in Seq(SshCommand)
OBVIOUS

LEMMA Posts ==
  ASSUME SupportTyped, NEW i \in Instances, NEW c \in SshCommand, Post(i, c)
  PROVE  wire' \in [Instances -> Seq(SshCommand)] /\ held' \in [Instances -> Seq(SshCommand)]
<1>1. /\ wire \in [Instances -> Seq(SshCommand)] /\ held \in [Instances -> Seq(SshCommand)]
      /\ Append(wire[i], c) \in Seq(SshCommand) /\ Append(held[i], c) \in Seq(SshCommand)
  BY Sequences DEF SupportTyped
<1>2. QED
  BY <1>1 DEF Post

LEMMA Known ==
  /\ Ssh \subseteq Sessions /\ Sessions \subseteq Procs /\ Tasks \subseteq Procs /\ Expiry \in Procs
  /\ \A s \in Sessions : Inst[s] \in Instances /\ s \notin Tasks /\ s # Expiry
  /\ Expiry \notin Tasks /\ NoSession \notin Sessions
BY SupportAssumption DEF Procs

LEMMA OpenTypes ==
  ASSUME SupportTyped, Core, NEW s \in Sessions, OpenStep(s)
  PROVE  SupportTyped'
<1> USE Known
<1>1. CASE Check(s)
  BY <1>1 DEF Check, SupportTyped, Openings, Opening, rowVars, closeVars, portVars, agentVars
<1>2. CASE ReadPrevious(s)
  <2>1. Previous(s) \subseteq Sessions \cap Ssh
    BY DEF Previous, OpenRows
  <2>2. overlap' \subseteq Ssh \X Ssh
    BY <1>2 DEF ReadPrevious, SupportTyped
  <2>3. QED
    BY <1>2, <2>1, <2>2 DEF ReadPrevious, SupportTyped, Openings, Opening, rowVars, portVars, agentVars
<1>3. CASE Allocate(s)
  <2>1. port' \in [Sessions -> Ports \cup {NoPort}]
    BY <1>3 DEF Allocate, SupportTyped, Free
  <2>2. wire' \in [Instances -> Seq(SshCommand)] /\ held' \in [Instances -> Seq(SshCommand)]
    <3>1. CASE s \in Ssh
      <4>1. [name |-> "grant", of |-> s] \in SshCommand
        BY <3>1 DEF SshCommand
      <4>2. Post(Inst[s], [name |-> "grant", of |-> s])
        BY <1>3, <3>1 DEF Allocate
      <4>3. QED
        BY <4>1, <4>2, Posts
    <3>2. CASE s \notin Ssh
      BY <1>3, <3>2 DEF Allocate, SupportTyped
    <3>3. QED
      BY <3>1, <3>2
  <2>3. crossed' \subseteq Ssh
    BY <1>3 DEF Allocate, SupportTyped, Opening
  <2>4. QED
    BY <1>3, <2>1, <2>2, <2>3 DEF Allocate, SupportTyped, Openings, Opening, closeVars, portVars
<1>4. CASE Granted(s)
  BY <1>4 DEF Granted, SupportTyped, Openings, Opening, rowVars, portVars, agentVars, history
<1>9. CASE OpenFails(s)
  BY <1>9 DEF OpenFails, SupportTyped, Openings, Opening, rowVars, portVars, agentVars, history
<1>5. CASE Insert(s)
  BY <1>5 DEF Insert, SupportTyped, Openings, Opening, Statuses, closeVars, portVars, agentVars, history
<1>6. CASE Bind(s)
  BY <1>6 DEF Bind, SupportTyped, Openings, Opening, rowVars, closeVars, agentVars, history
<1>8. CASE Registered(s)
  <2>1. s \in bound
    BY <1>8 DEF Registered, Core, RowsInv, Listening
  <2>2. QED
    BY <1>8, <2>1 DEF Registered, SupportTyped, Openings, Opening, rowVars, closeVars, agentVars, history
<1>7. CASE BindFails(s)
  BY <1>7 DEF BindFails, SupportTyped, Openings, Opening, rowVars, portVars, agentVars, history
<1>10. QED
  BY <1>1, <1>2, <1>3, <1>4, <1>5, <1>6, <1>7, <1>8, <1>9 DEF OpenStep

LEMMA CloseTypes ==
  ASSUME SupportTyped, NEW p \in Procs, CloseStep(p)
  PROVE  SupportTyped'
<1> USE Known
<1>1. Verdict(p) \in Statuses
  BY DEF Verdict, Statuses
<1>2. CASE Stop(p)
  <2>1. PICK S : /\ S \in Parts(p) /\ StopListeners(S)
                 /\ todo' = [todo EXCEPT ![p] = @ \ S] /\ closing' = [closing EXCEPT ![p] = S]
                 /\ overtaken' = overtaken \cup {s \in S : Starting(s)}
    BY <1>2 DEF Stop
  <2>2. S \subseteq Sessions
    BY <2>1 DEF Parts, SupportTyped
  <2>3. /\ todo' \in [Procs -> SUBSET Sessions] /\ closing' \in [Procs -> SUBSET Sessions]
        /\ at' \in [Procs -> {"idle", "read", "stopped", "committed", "ended"}]
        /\ overtaken' \subseteq Sessions
        /\ \A x \in Procs : todo'[x] \subseteq todo[x]
    BY <1>2, <2>1, <2>2 DEF Stop, SupportTyped
  <2>4. listeners' \subseteq bound' /\ bound' \subseteq Sessions
    BY <2>1 DEF StopListeners, SupportTyped
  <2>5. QED
    BY <1>2, <2>3, <2>4 DEF Stop, SupportTyped, Opening, rowVars, agentVars
<1>3. ASSUME NextClose(p)
      PROVE  /\ closing' \in [Procs -> SUBSET Sessions]
             /\ at' \in [Procs -> {"idle", "read", "stopped", "committed", "ended"}]
             /\ op' \in [Sessions -> Openings]
             /\ \A s \in Sessions : op'[s] = op[s] \/ op'[s] = "ended"
             /\ \A x \in Procs : at'[x] = "committed" => at[x] = "committed" /\ closing'[x] = closing[x]
  BY <1>3 DEF NextClose, SupportTyped, Openings
<1>4. CASE Commit(p)
  <2>1. row' \in [Sessions -> Statuses]
    BY <1>1, <1>4 DEF Commit, SupportTyped
  <2>2. /\ closing' \in [Procs -> SUBSET Sessions]
        /\ at' \in [Procs -> {"idle", "read", "stopped", "committed", "ended"}]
        /\ op' \in [Sessions -> Openings]
        /\ \A s \in Sessions : op'[s] = op[s] \/ op'[s] = "ended"
        /\ \A x \in Procs : at'[x] = "committed" => closing'[x] \subseteq Ssh
    BY <1>3, <1>4 DEF Commit, SupportTyped
  <2>3. active' \subseteq Instances /\ revoking' \in [Tasks -> SUBSET Instances]
    BY <1>4 DEF Commit, SupportTyped
  <2>4. QED
    BY <1>4, <2>1, <2>2, <2>3 DEF Commit, SupportTyped, Opening, portVars, agentVars, history
<1>5. CASE Tell(p)
  <2>1. wire' \in [Instances -> Seq(SshCommand)] /\ held' \in [Instances -> Seq(SshCommand)]
    <3>1. PICK s \in closing[p] : Post(Inst[s], [name |-> "revoke", of |-> s])
      BY <1>5 DEF Tell
    <3>2. s \in Ssh /\ s \in Sessions
      BY <1>5 DEF Tell, SupportTyped
    <3>3. [name |-> "revoke", of |-> s] \in SshCommand
      BY <3>2 DEF SshCommand
    <3>4. QED
      BY <3>1, <3>2, <3>3, Posts
  <2>2. QED
    BY <1>3, <1>5, <2>1 DEF Tell, SupportTyped, Opening, rowVars, portVars, history
<1>6. QED
  BY <1>2, <1>4, <1>5 DEF CloseStep

LEMMA FailTypes ==
  ASSUME SupportTyped, NEW p \in Procs, CloseFails(p)
  PROVE  SupportTyped'
<1> USE Known
<1>1. /\ at' \in [Procs -> {"idle", "read", "stopped", "committed", "ended"}]
      /\ op' \in [Sessions -> Openings]
      /\ todo' \in [Procs -> SUBSET Sessions] /\ closing' \in [Procs -> SUBSET Sessions]
      /\ revoking' \in [Tasks -> SUBSET Instances] /\ unserved' \subseteq Sessions
  BY DEF CloseFails, SupportTyped, Openings
<1>2. dbErrors' \in 0..MaxDbErrors
  BY SupportAssumption DEF CloseFails, SupportTyped
<1>3. /\ \A s \in Sessions : op'[s] = "idle" \/ Opening(s)' => todo'[s] \subseteq Ssh
      /\ \A x \in Procs : at'[x] = "committed" => closing'[x] \subseteq Ssh
  BY DEF CloseFails, SupportTyped, Opening
<1>4. UNCHANGED <<rowVars, kind, portVars, agentVars, history, restarts>>
  BY DEF CloseFails
<1>5. QED
  BY <1>1, <1>2, <1>3, <1>4 DEF SupportTyped, rowVars, portVars, agentVars, history

LEMMA ReadTypes ==
  ASSUME SupportTyped, NEW q \in Tasks \cup {Expiry}, NEW S \in SUBSET Sessions,
         NEW k \in Kinds, Reads(q, S, k)
  PROVE  /\ at' \in [Procs -> {"idle", "read", "stopped", "committed", "ended"}]
         /\ kind' \in [Procs -> Kinds] /\ \A s \in Sessions : kind'[s] = "none"
         /\ todo' \in [Procs -> SUBSET Sessions]
         /\ \A s \in Sessions : op[s] = "idle" \/ Opening(s) => todo'[s] \subseteq Ssh
         /\ \A p \in Procs : at'[p] = "committed" => closing[p] \subseteq Ssh
BY Known DEF Reads, SupportTyped

LEMMA ReadersTypes ==
  ASSUME SupportTyped,
         \/ \E q \in Tasks : OperatorReads(q) \/ EventReads(q) \/ RevokeReads(q)
         \/ ExpiryReads
  PROVE  SupportTyped'
<1> USE Known
<1>1. OpenRows \subseteq Sessions /\ Overdue \subseteq Sessions
      /\ \A i : OpenOf(i) \subseteq Sessions /\ OpenOf(i) \cap Ssh \subseteq Sessions
  BY DEF OpenRows, Overdue, OpenOf
<1>2. ASSUME NEW q \in Tasks \cup {Expiry}, NEW S \in SUBSET Sessions, NEW k \in Kinds,
             Reads(q, S, k), revoking' \in [Tasks -> SUBSET Instances], lapsed' \subseteq lapsed,
             late' \subseteq Sessions, crossed' \subseteq Ssh
      PROVE  SupportTyped'
  <2>1. /\ at' \in [Procs -> {"idle", "read", "stopped", "committed", "ended"}]
        /\ kind' \in [Procs -> Kinds] /\ \A s \in Sessions : kind'[s] = "none"
        /\ todo' \in [Procs -> SUBSET Sessions]
        /\ \A s \in Sessions : op[s] = "idle" \/ Opening(s) => todo'[s] \subseteq Ssh
        /\ \A p \in Procs : at'[p] = "committed" => closing[p] \subseteq Ssh
    BY <1>2, ReadTypes
  <2>2. UNCHANGED <<rowVars, op, closing, portVars, wire, held, answered, grant, overlap, overtaken,
                    faults>>
    BY <1>2 DEF Reads
  <2>3. QED
    BY <1>2, <2>1, <2>2 DEF SupportTyped, Opening, rowVars, portVars
<1>3. {"operator", "event", "revoke", "expiry"} \subseteq Kinds
      /\ revoking \in [Tasks -> SUBSET Instances] /\ late \subseteq Sessions /\ crossed \subseteq Ssh
  BY DEF Kinds, SupportTyped
<1>4. ASSUME NEW q \in Tasks, OperatorReads(q) PROVE SupportTyped'
  <2>1. PICK s \in OpenRows : /\ Reads(q, {s}, "operator")
                              /\ crossed' = crossed \cup IF s \in Ssh THEN Granting(Inst[s]) ELSE {}
    BY <1>4 DEF OperatorReads
  <2>2. {s} \in SUBSET Sessions /\ crossed' \subseteq Ssh
    BY <1>1, <1>3, <2>1 DEF Granting
  <2>3. UNCHANGED <<revoking, lapsed, late>>
    BY <1>4 DEF OperatorReads
  <2>4. QED
    BY <1>2, <1>3, <2>1, <2>2, <2>3
<1>5. ASSUME NEW q \in Tasks, EventReads(q) PROVE SupportTyped'
  <2>1. \E S \in SUBSET Sessions : Reads(q, S, "event")
    BY <1>1, <1>5 DEF EventReads
  <2>2. UNCHANGED <<revoking, late, crossed>> /\ lapsed' \subseteq lapsed
    BY <1>5 DEF EventReads
  <2>3. QED
    BY <1>2, <1>3, <2>1, <2>2
<1>6. ASSUME NEW q \in Tasks, RevokeReads(q) PROVE SupportTyped'
  <2>1. PICK i \in active : /\ Reads(q, OpenOf(i), "revoke")
                            /\ revoking' = [revoking EXCEPT ![q] = {i}]
                            /\ late' = late \cup {s \in Sessions : Inst[s] = i /\ Opening(s)}
    BY <1>6 DEF RevokeReads
  <2>2. revoking' \in [Tasks -> SUBSET Instances] /\ late' \subseteq Sessions
    BY <1>3, <2>1 DEF SupportTyped
  <2>3. UNCHANGED <<lapsed, crossed>>
    BY <1>6 DEF RevokeReads
  <2>4. QED
    BY <1>1, <1>2, <1>3, <2>1, <2>2, <2>3
<1>7. ASSUME ExpiryReads PROVE SupportTyped'
  <2>1. Reads(Expiry, Overdue, "expiry") /\ UNCHANGED <<revoking, lapsed, late, crossed>>
    BY <1>7 DEF ExpiryReads
  <2>2. QED
    BY <1>1, <1>2, <1>3, <2>1
<1>8. QED
  BY <1>4, <1>5, <1>6, <1>7

LEMMA AgentTypes ==
  ASSUME SupportTyped, NEW i \in Instances, AgentStep(i)
  PROVE  SupportTyped'
<1>1. wire[i] \in Seq(SshCommand) /\ held[i] \in Seq(SshCommand)
      /\ wire \in [Instances -> Seq(SshCommand)] /\ held \in [Instances -> Seq(SshCommand)]
      /\ grant \in [Instances -> Ssh \cup {NoSession}] /\ answered \subseteq Ssh
      /\ lapsed \subseteq Instances /\ <<>> \in Seq(SshCommand)
  BY DEF SupportTyped
<1>2. CASE AgentRuns(i)
  <2>1. Head(wire[i]) \in SshCommand /\ Tail(wire[i]) \in Seq(SshCommand)
    BY <1>1, <1>2 DEF AgentRuns
  <2>2. Head(wire[i]).of \in Ssh
    BY <2>1 DEF SshCommand
  <2>3. wire' \in [Instances -> Seq(SshCommand)] /\ grant' \in [Instances -> Ssh \cup {NoSession}]
        /\ answered' \subseteq Ssh
    BY <1>1, <1>2, <2>1, <2>2 DEF AgentRuns
  <2>4. QED
    BY <1>2, <2>3 DEF AgentRuns, SupportTyped, Opening, rowVars, closeVars, portVars, history
<1>3. CASE AgentExpires(i)
  <2>1. grant' \in [Instances -> Ssh \cup {NoSession}] /\ lapsed' \subseteq Instances
    BY <1>1, <1>3 DEF AgentExpires
  <2>2. QED
    BY <1>3, <2>1 DEF AgentExpires, SupportTyped, Opening, rowVars, closeVars, portVars, history
<1>4. CASE LoseLink(i)
  <2>1. held[i] \o wire[i] \in Seq(SshCommand)
    BY <1>1
  <2>2. wire' \in [Instances -> Seq(SshCommand)] /\ held' \in [Instances -> Seq(SshCommand)]
    BY <1>1, <1>4, <2>1 DEF LoseLink
  <2>3. QED
    BY <1>4, <2>2 DEF LoseLink, SupportTyped, Opening, rowVars, closeVars, portVars, history
<1>5. CASE Resend(i)
  <2>1. wire[i] \o held[i] \in Seq(SshCommand)
    BY <1>1
  <2>2. wire' \in [Instances -> Seq(SshCommand)] /\ held' \in [Instances -> Seq(SshCommand)]
    BY <1>1, <1>5, <2>1 DEF Resend
  <2>3. QED
    BY <1>5, <2>2 DEF Resend, SupportTyped, Opening, rowVars, closeVars, portVars, history
<1>6. QED
  BY <1>2, <1>3, <1>4, <1>5 DEF AgentStep

LEMMA RestartTypes ==
  ASSUME SupportTyped, Restart
  PROVE  SupportTyped'
<1>1. /\ at' \in [Procs -> {"idle", "read", "stopped", "committed", "ended"}]
      /\ op' \in [Sessions -> Openings]
      /\ todo' \in [Procs -> SUBSET Sessions] /\ closing' \in [Procs -> SUBSET Sessions]
      /\ revoking' \in [Tasks -> SUBSET Instances] /\ row' \in [Sessions -> Statuses]
      /\ \A p \in Procs : closing'[p] = {} /\ todo'[p] = {}
  BY DEF Restart, SupportTyped, Openings, Statuses
<1>2. listeners' \subseteq bound' /\ bound' \subseteq Sessions /\ unrestored' \subseteq Sessions
  BY DEF Restart, SupportTyped, Restorable, OpenRows
<1>3. wire' \in [Instances -> Seq(SshCommand)] /\ held' \in [Instances -> Seq(SshCommand)]
  <2>1. \A i \in Instances : held[i] \o wire[i] \in Seq(SshCommand)
    BY Sequences DEF SupportTyped
  <2>2. QED
    BY <2>1 DEF Restart
<1>4. restarts' \in 0..MaxRestarts
  BY SupportAssumption DEF Restart, SupportTyped
<1>5. UNCHANGED <<port, due, active, kind, answered, grant, lapsed, history, dbErrors>>
      /\ unserved' = {}
  BY DEF Restart
<1>6. QED
  BY <1>1, <1>2, <1>3, <1>4, <1>5, Known DEF SupportTyped, history

LEMMA TypesKeep ==
  ASSUME SupportTyped, Core, Next
  PROVE  SupportTyped'
<1>1. ASSUME NEW s \in Sessions, Elapse(s) PROVE SupportTyped'
  BY <1>1 DEF Elapse, SupportTyped, Opening, closeVars, portVars, agentVars, history
<1>2. QED
  BY <1>1, OpenTypes, CloseTypes, FailTypes, ReadersTypes, AgentTypes, RestartTypes DEF Next
-----------------------------------------------------------------------------
(* Rows, listeners and closers *)

\* Where an opener goes.
LEMMA Opens ==
  ASSUME SupportTyped, NEW s \in Sessions
  PROVE  /\ Check(s) => op[s] = "idle" /\ op' = [op EXCEPT ![s] = "checked"]
         /\ ReadPrevious(s) => op[s] = "checked" /\ op' = [op EXCEPT ![s] = "read"]
         /\ Allocate(s) => op[s] \in {"checked", "read"} /\ op' = [op EXCEPT ![s] = "granting"]
         /\ Granted(s) => op[s] = "granting" /\ op' = [op EXCEPT ![s] = "granted"]
         /\ OpenFails(s) => Opening(s) /\ op' = [op EXCEPT ![s] = "ended"]
BY DEF Check, ReadPrevious, Allocate, Granted, OpenFails, Opening

\* Before the insert there is neither a row nor a listener.
LEMMA EarlyKeepRows ==
  ASSUME SupportTyped, RowsInv, NEW s \in Sessions,
         Check(s) \/ ReadPrevious(s) \/ Allocate(s) \/ Granted(s) \/ OpenFails(s)
  PROVE  RowsInv'
<1>1. /\ Sessions \subseteq Procs /\ op \in [Sessions -> Openings] /\ todo \in [Procs -> SUBSET Sessions]
      /\ closing \in [Procs -> SUBSET Sessions] /\ bound \subseteq Sessions /\ listeners \subseteq bound
  BY Known DEF SupportTyped
<1>2. PICK o \in Openings :
        /\ op[s] = "idle" \/ Opening(s)
        /\ op' = [op EXCEPT ![s] = o] /\ o \in {"checked", "read", "granting", "granted", "ended"}
  BY Opens DEF Opening, Openings
<1>3. /\ UNCHANGED <<row, closing, bound, listeners, unrestored, unserved, overtaken>>
      /\ \A x \in Sessions \ {s} : op'[x] = op[x]
      /\ op'[s] = o /\ row[s] = "none"
  BY <1>1, <1>2 DEF Check, ReadPrevious, Allocate, Granted, OpenFails, rowVars, closeVars, portVars, history,
                    RowsInv, Stages
<1>4. s \notin bound /\ s \notin listeners
  BY <1>1, <1>2 DEF RowsInv, Listening, Opening
<1>5. Stages'
  BY <1>1, <1>2, <1>3 DEF RowsInv, Stages, Opening
<1>6. Listening'
  BY <1>1, <1>2, <1>3, <1>4 DEF RowsInv, Listening
<1>7. \A x \in Sessions : Starting(x)' <=> Starting(x)
  BY <1>2, <1>3 DEF Starting, Opening
<1>8. ClosedUnbound' /\ StrayOnlyOvertaken' /\ OpenIsServed'
  <2>1. OpenRows' = OpenRows /\ s \notin OpenRows
    BY <1>3 DEF OpenRows
  <2>2. OpenIsServed'
    BY <1>3, <2>1 DEF RowsInv, OpenIsServed, OpenRows
  <2>3. StrayOnlyOvertaken'
    BY <1>3 DEF RowsInv, StrayOnlyOvertaken
  <2>4. ClosedUnbound'
    BY <1>1, <1>3, <1>7 DEF RowsInv, ClosedUnbound
  <2>5. QED
    BY <2>2, <2>3, <2>4
<1>9. /\ \A p \in Procs \ {s} : at'[p] = at[p] /\ todo'[p] = todo[p]
      /\ at'[s] = at[s] \/ (o = "granted" /\ at[s] = "idle" /\ at'[s] \in {"idle", "read"})
      /\ o = "ended" => at[s] = "idle"
      /\ \A t \in todo'[s] : t \in todo[s] \/ row[t] # "none"
  <2>1. at \in [Procs -> {"idle", "read", "stopped", "committed", "ended"}] /\ s \in Procs
    BY Known DEF SupportTyped
  <2>2. op[s] # "granted" => at[s] = "idle"
    BY <1>2 DEF RowsInv, Failing, Opening
  <2>3. CASE Check(s) \/ Allocate(s)
    BY <1>1, <1>3, <2>1, <2>2, <2>3 DEF Check, Allocate, closeVars
  <2>4. CASE ReadPrevious(s)
    BY <1>1, <1>3, <2>1, <2>2, <2>4 DEF ReadPrevious, Previous, OpenRows
  <2>5. CASE Granted(s)
    BY <1>1, <1>3, <2>1, <2>2, <2>5 DEF Granted
  <2>6. CASE OpenFails(s)
    BY <1>1, <1>3, <2>1, <2>2, <2>6 DEF OpenFails
  <2>7. QED
    BY <2>3, <2>4, <2>5, <2>6
<1>10. Closers'
  <2>1. \A p \in Procs : \A x \in todo'[p] \cup closing'[p] : row[x] # "none"
    BY <1>1, <1>3, <1>9 DEF RowsInv, Closers
  <2>2. \A p \in Procs : /\ at'[p] \in {"idle", "read", "ended"} => closing[p] = {}
                         /\ at'[p] = "committed" => \A x \in closing[p] : row[x] # "open"
    BY <1>1, <1>3, <1>9 DEF RowsInv, Closers
  <2>3. QED
    BY <1>3, <2>1, <2>2 DEF Closers
<1>11. Failing'
  <2>1. SUFFICES ASSUME NEW x \in Sessions
                 PROVE  /\ op'[x] \notin {"granted", "failing"} => at'[x] = "idle"
                        /\ op'[x] = "failing" => \/ at'[x] = "read" /\ todo'[x] = {x}
                                                \/ /\ at'[x] \in {"stopped", "committed"}
                                                   /\ closing'[x] = {x} /\ todo'[x] = {}
    BY DEF Failing
  <2>2. CASE x = s
    <3>1. op[s] # "granted" => at[s] = "idle"
      BY <1>2 DEF RowsInv, Failing, Opening
    <3>2. CASE o = "ended"
      BY <1>2, <1>3, <1>9, <2>2, <3>1, <3>2
    <3>3. CASE o \in {"checked", "read", "granting"}
      <4>1. op[s] # "granted"
        BY <1>1, <1>2, <3>3, Opens DEF OpenFails, Granted, Check, ReadPrevious, Allocate
      <4>2. QED
        BY <1>3, <1>9, <2>2, <3>1, <3>3, <4>1
    <3>4. CASE o = "granted"
      BY <1>3, <2>2, <3>4
    <3>5. QED
      BY <1>2, <3>2, <3>3, <3>4
  <2>3. CASE x # s
    BY <1>1, <1>3, <1>9, <2>1, <2>3 DEF RowsInv, Failing
  <2>4. QED
    BY <2>2, <2>3
<1>12. QED
  BY <1>5, <1>6, <1>8, <1>10, <1>11 DEF RowsInv

\* The insert, and the listener.
LEMMA LateKeepRows ==
  ASSUME SupportTyped, RowsInv, NEW s \in Sessions,
         Insert(s) \/ Bind(s) \/ BindFails(s) \/ Registered(s)
  PROVE  RowsInv'
<1>1. /\ Sessions \subseteq Procs /\ s \in Procs /\ op \in [Sessions -> Openings]
      /\ row \in [Sessions -> Statuses] /\ todo \in [Procs -> SUBSET Sessions]
      /\ closing \in [Procs -> SUBSET Sessions] /\ bound \subseteq Sessions /\ listeners \subseteq bound
      /\ at \in [Procs -> {"idle", "read", "stopped", "committed", "ended"}]
  BY Known DEF SupportTyped
<1>2. /\ Stages /\ Listening /\ Closers /\ Failing /\ ClosedUnbound
      /\ StrayOnlyOvertaken /\ OpenIsServed
  BY DEF RowsInv
<1>3. CASE Insert(s)
  <2>1. /\ op[s] = "granted" /\ at[s] = "idle" /\ row' = [row EXCEPT ![s] = "open"]
        /\ op' = [op EXCEPT ![s] = "inserted"]
        /\ UNCHANGED <<at, todo, closing, bound, listeners, unrestored, unserved, overtaken>>
        /\ row[s] = "none" /\ s \notin bound
    BY <1>1, <1>2, <1>3 DEF Insert, closeVars, portVars, history, Stages, Opening, Listening
  <2>2. Stages' /\ Listening'
    BY <1>1, <1>2, <2>1 DEF Stages, Listening, Opening
  <2>3. Closers' /\ Failing'
    BY <1>1, <1>2, <2>1 DEF Closers, Failing
  <2>4. ClosedUnbound' /\ StrayOnlyOvertaken' /\ OpenIsServed'
    <3>1. \A p \in Procs : s \notin closing[p]
      BY <1>2, <2>1 DEF Closers
    <3>2. ClosedUnbound'
      BY <1>1, <1>2, <2>1, <3>1 DEF ClosedUnbound, Starting
    <3>3. StrayOnlyOvertaken' /\ OpenIsServed'
      BY <1>1, <1>2, <2>1 DEF StrayOnlyOvertaken, OpenIsServed, OpenRows
    <3>4. QED
      BY <3>2, <3>3
  <2>5. QED
    BY <2>2, <2>3, <2>4 DEF RowsInv
<1>4. CASE Bind(s)
  <2>1. /\ op[s] = "inserted" /\ op' = [op EXCEPT ![s] = "binding"] /\ bound' = bound \cup {s}
        /\ UNCHANGED <<row, at, todo, closing, listeners, unrestored, unserved, overtaken>>
    BY <1>4 DEF Bind, rowVars, closeVars, history
  <2>2. Stages' /\ Listening'
    BY <1>1, <1>2, <2>1 DEF Stages, Listening, Opening
  <2>3. Closers' /\ Failing'
    BY <1>1, <1>2, <2>1 DEF Closers, Failing
  <2>4. ClosedUnbound'
    BY <1>1, <1>2, <2>1 DEF ClosedUnbound, Starting
  <2>5. StrayOnlyOvertaken' /\ OpenIsServed'
    BY <1>1, <1>2, <2>1 DEF ClosedUnbound, Starting, StrayOnlyOvertaken, OpenIsServed, OpenRows
  <2>6. QED
    BY <2>2, <2>3, <2>4, <2>5 DEF RowsInv
<1>5. CASE BindFails(s)
  <2>1. /\ op[s] = "inserted" /\ op' = [op EXCEPT ![s] = "failing"]
        /\ at' = [at EXCEPT ![s] = "read"] /\ todo' = [todo EXCEPT ![s] = {s}]
        /\ UNCHANGED <<row, closing, bound, listeners, unrestored, unserved, overtaken>>
        /\ at[s] = "idle" /\ row[s] # "none"
    BY <1>2, <1>5 DEF BindFails, rowVars, portVars, Failing, Stages, history
  <2>2. Stages' /\ Listening'
    BY <1>1, <1>2, <2>1 DEF Stages, Listening, Opening
  <2>3. Closers' /\ Failing'
    BY <1>1, <1>2, <2>1 DEF Closers, Failing
  <2>4. ClosedUnbound'
    BY <1>1, <1>2, <2>1 DEF ClosedUnbound, Starting
  <2>5. StrayOnlyOvertaken' /\ OpenIsServed'
    BY <1>1, <1>2, <2>1 DEF StrayOnlyOvertaken, OpenIsServed, OpenRows
  <2>6. QED
    BY <2>2, <2>3, <2>4, <2>5 DEF RowsInv
<1>6. CASE Registered(s)
  <2>1. /\ op[s] = "binding" /\ op' = [op EXCEPT ![s] = "ended"] /\ listeners' = listeners \cup {s}
        /\ UNCHANGED <<row, at, todo, closing, bound, unrestored, unserved, overtaken>>
    BY <1>6 DEF Registered, rowVars, closeVars, history
  <2>2. Stages' /\ Listening'
    BY <1>1, <1>2, <2>1 DEF Stages, Listening, Opening
  <2>3. Closers' /\ Failing'
    BY <1>1, <1>2, <2>1 DEF Closers, Failing
  <2>4. ClosedUnbound'
    BY <1>1, <1>2, <2>1 DEF ClosedUnbound, Starting
  <2>5. StrayOnlyOvertaken' /\ OpenIsServed'
    BY <1>1, <1>2, <2>1 DEF StrayOnlyOvertaken, OpenIsServed, OpenRows
  <2>6. QED
    BY <2>2, <2>3, <2>4, <2>5 DEF RowsInv
<1>7. QED
  BY <1>3, <1>4, <1>5, <1>6

\* A closer stops a listener.
LEMMA StopKeepsRows ==
  ASSUME SupportTyped, RowsInv, NEW p \in Procs, Stop(p)
  PROVE  RowsInv'
<1>1. /\ Sessions \subseteq Procs /\ op \in [Sessions -> Openings]
      /\ row \in [Sessions -> Statuses] /\ todo \in [Procs -> SUBSET Sessions]
      /\ closing \in [Procs -> SUBSET Sessions] /\ bound \subseteq Sessions /\ listeners \subseteq bound
      /\ at \in [Procs -> {"idle", "read", "stopped", "committed", "ended"}]
      /\ \A s \in Sessions : kind[s] = "none"
  BY Known DEF SupportTyped
<1>2. /\ Stages /\ Listening /\ Closers /\ Failing /\ ClosedUnbound
      /\ StrayOnlyOvertaken /\ OpenIsServed
  BY DEF RowsInv
<1>3. PICK S \in Parts(p) :
        /\ StopListeners(S) /\ todo' = [todo EXCEPT ![p] = @ \ S] /\ closing' = [closing EXCEPT ![p] = S]
        /\ overtaken' = overtaken \cup {s \in S : Starting(s)}
        /\ at[p] = "read" /\ at' = [at EXCEPT ![p] = "stopped"]
        /\ UNCHANGED <<row, op, unrestored, unserved>>
  BY DEF Stop, rowVars
<1>4. S \subseteq todo[p] /\ S \subseteq Sessions /\ closing[p] = {}
  BY <1>1, <1>2, <1>3 DEF Parts, Closers
<1>5. listeners' = listeners \ S /\ bound' = bound \ (S \cap listeners)
  BY <1>3 DEF StopListeners
<1>6. \A x \in Sessions : Starting(x)' <=> Starting(x)
  BY <1>3 DEF Starting
<1>7. Stages' /\ Listening'
  BY <1>1, <1>2, <1>3, <1>5 DEF Stages, Listening, Opening
<1>8. Closers'
  BY <1>1, <1>2, <1>3, <1>4 DEF Closers
<1>9. Failing'
  <2>1. SUFFICES ASSUME NEW x \in Sessions
                 PROVE  /\ op[x] \notin {"granted", "failing"} => at'[x] = "idle"
                        /\ op[x] = "failing" => \/ at'[x] = "read" /\ todo'[x] = {x}
                                                \/ /\ at'[x] \in {"stopped", "committed"}
                                                   /\ closing'[x] = {x} /\ todo'[x] = {}
    BY <1>3 DEF Failing
  <2>2. CASE x = p
    <3>1. op[x] \notin {"granted", "failing"} => FALSE
      BY <1>2, <1>3, <2>2 DEF Failing
    <3>2. op[x] = "failing" => todo[x] = {x}
      BY <1>2, <1>3, <2>2 DEF Failing
    <3>3. Parts(p) = {{y} : y \in todo[p]}
      BY <1>1, <2>2 DEF Parts
    <3>4. op[x] = "failing" => S = {x}
      BY <1>3, <2>2, <3>2, <3>3
    <3>5. QED
      BY <1>1, <1>3, <2>2, <3>1, <3>2, <3>4
  <2>3. CASE x # p
    BY <1>1, <1>2, <1>3, <2>3 DEF Failing
  <2>4. QED
    BY <2>2, <2>3
<1>10. ClosedUnbound'
  <2>1. ASSUME NEW x \in S, Starting(x) \/ x \in bound' PROVE x \in overtaken'
    <3>1. CASE Starting(x)
      BY <1>3, <3>1
    <3>2. CASE x \in bound'
      <4>1. x \in bound \ listeners
        BY <1>5, <3>2
      <4>2. Starting(x)
        BY <1>2, <4>1 DEF Listening, Starting
      <4>3. QED
        BY <1>3, <4>2
    <3>3. QED
      BY <2>1, <3>1, <3>2
  <2>2. QED
    BY <1>1, <1>2, <1>3, <1>4, <1>5, <1>6, <2>1 DEF ClosedUnbound
<1>11. StrayOnlyOvertaken' /\ OpenIsServed'
  <2>1. StrayOnlyOvertaken'
    BY <1>2, <1>3, <1>5 DEF StrayOnlyOvertaken
  <2>2. \A q \in Procs \ {p} : closing'[q] = closing[q]
    BY <1>1, <1>3
  <2>3. closing'[p] = S
    BY <1>1, <1>3
  <2>4. OpenIsServed'
    BY <1>2, <1>3, <1>4, <1>5, <2>2, <2>3 DEF OpenIsServed, OpenRows
  <2>5. QED
    BY <2>1, <2>4
<1>12. QED
  BY <1>7, <1>8, <1>9, <1>10, <1>11 DEF RowsInv

\* A closer commits, and tells the instance.
LEMMA ClosesEnd ==
  ASSUME SupportTyped, RowsInv, NEW p \in Procs, NextClose(p), at[p] \in {"stopped", "committed"},
         \A s \in Sessions : row'[s] = IF s \in closing[p] THEN row'[s] ELSE row[s],
         row' \in [Sessions -> Statuses],
         \A s \in closing[p] : row'[s] \notin {"none", "open"},
         UNCHANGED <<todo, bound, listeners, unrestored, unserved, overtaken>>
  PROVE  RowsInv'
<1>1. /\ Sessions \subseteq Procs /\ op \in [Sessions -> Openings] /\ Tasks \cap Sessions = {}
      /\ row \in [Sessions -> Statuses] /\ todo \in [Procs -> SUBSET Sessions]
      /\ closing \in [Procs -> SUBSET Sessions] /\ bound \subseteq Sessions /\ listeners \subseteq bound
      /\ at \in [Procs -> {"idle", "read", "stopped", "committed", "ended"}]
  BY Known DEF SupportTyped
<1>2. /\ Stages /\ Listening /\ Closers /\ Failing /\ ClosedUnbound
      /\ StrayOnlyOvertaken /\ OpenIsServed
  BY DEF RowsInv
<1>3. /\ closing' = [closing EXCEPT ![p] = {}]
      /\ at' = [at EXCEPT ![p] = IF todo[p] # {} THEN "read"
                                 ELSE IF p \in Tasks THEN "ended" ELSE "idle"]
      /\ op' = IF p \in Sessions /\ op[p] = "failing" THEN [op EXCEPT ![p] = "ended"] ELSE op
  BY DEF NextClose
<1>4. \A s \in Sessions : /\ op'[s] = op[s] \/ (s = p /\ op[s] = "failing" /\ op'[s] = "ended")
                          /\ op'[s] = "failing" => s # p
  BY <1>1, <1>3
<1>5. /\ \A q \in Procs \ {p} : closing'[q] = closing[q] /\ at'[q] = at[q]
      /\ closing'[p] = {} /\ at'[p] \in {"read", "ended", "idle"}
  BY <1>1, <1>3
<1>6. Stages'
  <2>1. \A s \in Sessions : op'[s] = "idle" \/ Opening(s)' => s \notin closing[p] /\ row[s] = "none"
    BY <1>1, <1>2, <1>4 DEF Stages, Opening, Closers
  <2>2. \A s \in Sessions : op'[s] \in {"inserted", "binding", "failing"} => row'[s] # "none"
    BY <1>1, <1>2, <1>4 DEF Stages
  <2>3. QED
    BY <2>1, <2>2 DEF Stages
<1>7. Listening'
  BY <1>1, <1>2, <1>4 DEF Listening
<1>8. Closers'
  <2>1. \A q \in Procs : \A s \in todo[q] \cup closing'[q] : row'[s] # "none"
    BY <1>1, <1>2, <1>5 DEF Closers
  <2>2. \A q \in Procs : at'[q] \in {"idle", "read", "ended"} => closing'[q] = {}
    BY <1>2, <1>5 DEF Closers
  <2>3. \A q \in Procs : at'[q] = "committed" => \A s \in closing'[q] : row'[s] # "open"
    BY <1>1, <1>2, <1>5 DEF Closers
  <2>4. QED
    BY <2>1, <2>2, <2>3 DEF Closers
<1>9. Failing'
  <2>1. SUFFICES ASSUME NEW x \in Sessions
                 PROVE  /\ op'[x] \notin {"granted", "failing"} => at'[x] = "idle"
                        /\ op'[x] = "failing" => \/ at'[x] = "read" /\ todo[x] = {x}
                                                \/ /\ at'[x] \in {"stopped", "committed"}
                                                   /\ closing'[x] = {x} /\ todo[x] = {}
    BY DEF Failing
  <2>2. CASE x = p
    <3>1. op[x] \in {"granted", "failing"}
      BY <1>2, <2>2 DEF Failing
    <3>2. op[x] = "failing" => todo[x] = {}
      BY <1>2, <2>2 DEF Failing
    <3>3. op'[x] # "failing"
      BY <1>4, <2>2
    <3>4. op'[x] = "ended" => at'[x] = "idle"
      BY <1>1, <1>3, <1>4, <2>2, <3>1, <3>2
    <3>5. QED
      BY <1>4, <2>2, <3>1, <3>3, <3>4
  <2>3. CASE x # p
    BY <1>1, <1>2, <1>4, <1>5, <2>3 DEF Failing
  <2>4. QED
    BY <2>2, <2>3
<1>10. ClosedUnbound'
  <2>1. \A s \in Sessions : Starting(s)' => Starting(s)
    BY <1>4 DEF Starting
  <2>2. \A q \in Procs : \A s \in closing'[q] : Starting(s)' \/ s \in bound => s \in overtaken
    BY <1>1, <1>2, <1>5, <2>1 DEF ClosedUnbound
  <2>3. \A s \in Sessions : Starting(s)' => row'[s] = "open" \/ s \in overtaken
    BY <1>1, <1>2, <2>1 DEF ClosedUnbound
  <2>4. QED
    BY <2>2, <2>3 DEF ClosedUnbound
<1>11. StrayOnlyOvertaken'
  BY <1>1, <1>2 DEF StrayOnlyOvertaken, ClosedUnbound
<1>12. OpenIsServed'
  <2>1. SUFFICES ASSUME NEW s \in Sessions, row'[s] = "open", op'[s] = "ended"
                 PROVE  s \in listeners \cup unrestored \cup unserved \/ \E q \in Procs : s \in closing'[q]
    BY DEF OpenIsServed, OpenRows
  <2>2. s \notin closing[p] /\ row[s] = "open"
    BY <2>1
  <2>3. op[s] = "ended"
    <3>1. SUFFICES ASSUME s = p, op[s] = "failing" PROVE FALSE
      BY <1>4, <2>1
    <3>2. closing[s] = {s}
      BY <1>2, <3>1 DEF Failing
    <3>3. QED
      BY <2>2, <3>1, <3>2
  <2>4. QED
    BY <1>2, <1>5, <2>2, <2>3 DEF OpenIsServed, OpenRows
<1>13. QED
  BY <1>6, <1>7, <1>8, <1>9, <1>10, <1>11, <1>12 DEF RowsInv

LEMMA EndsKeepRows ==
  ASSUME SupportTyped, RowsInv, NEW p \in Procs, Commit(p) \/ Tell(p)
  PROVE  RowsInv'
<1>1. /\ Sessions \subseteq Procs /\ closing \in [Procs -> SUBSET Sessions]
      /\ row \in [Sessions -> Statuses] /\ Verdict(p) \in Statuses \ {"none", "open"}
      /\ op \in [Sessions -> Openings]
      /\ at \in [Procs -> {"idle", "read", "stopped", "committed", "ended"}]
  BY Known DEF SupportTyped, Verdict, Statuses
<1>2. /\ Stages /\ Listening /\ Closers /\ Failing /\ ClosedUnbound
      /\ StrayOnlyOvertaken /\ OpenIsServed
  BY DEF RowsInv
<1>3. CASE Commit(p)
  <2>1. /\ at[p] = "stopped" /\ UNCHANGED <<todo, bound, listeners, unrestored, unserved, overtaken>>
        /\ row' = [s \in Sessions |-> IF s \in closing[p] THEN Verdict(p) ELSE row[s]]
    BY <1>3 DEF Commit, portVars, history
  <2>2. /\ row' \in [Sessions -> Statuses]
        /\ \A s \in Sessions : row'[s] = IF s \in closing[p] THEN row'[s] ELSE row[s]
        /\ \A s \in closing[p] : row'[s] \notin {"none", "open"}
    BY <1>1, <2>1
  <2>3. CASE NextClose(p)
    BY <2>1, <2>2, <2>3, ClosesEnd
  <2>4. CASE at' = [at EXCEPT ![p] = "committed"] /\ UNCHANGED <<op, closing>>
    <3>1. Stages' /\ Listening'
      <4>1. \A s \in Sessions : op[s] = "idle" \/ Opening(s) => s \notin closing[p]
        BY <1>1, <1>2 DEF Stages, Closers
      <4>2. Stages'
        BY <1>2, <2>1, <2>2, <2>4, <4>1 DEF Stages, Opening
      <4>3. Listening'
        BY <1>2, <2>1, <2>4 DEF Listening
      <4>4. QED
        BY <4>2, <4>3
    <3>2. Closers'
      <4>1. \A q \in Procs : \A s \in todo[q] \cup closing[q] : s \in Sessions /\ row'[s] # "none"
        BY <1>1, <1>2, <2>2 DEF Closers, SupportTyped
      <4>2. \A q \in Procs : at'[q] \in {"idle", "read", "ended"} => closing[q] = {}
        BY <1>1, <1>2, <2>4 DEF Closers
      <4>3. \A q \in Procs : at'[q] = "committed" => \A s \in closing[q] : row'[s] # "open"
        BY <1>1, <1>2, <2>2, <2>4 DEF Closers
      <4>4. QED
        BY <2>1, <2>4, <4>1, <4>2, <4>3 DEF Closers
    <3>3. Failing'
      BY <1>1, <1>2, <2>1, <2>4 DEF Failing
    <3>4. ClosedUnbound' /\ StrayOnlyOvertaken'
      <4>1. \A s \in Sessions : Starting(s)' <=> Starting(s)
        BY <2>4 DEF Starting
      <4>2. \A q \in Procs : \A s \in closing'[q] : Starting(s)' \/ s \in bound' => s \in overtaken'
        BY <1>1, <1>2, <2>1, <2>4, <4>1 DEF ClosedUnbound
      <4>3. \A s \in closing[p] : Starting(s) \/ s \in bound => s \in overtaken
        BY <1>2 DEF ClosedUnbound
      <4>4. \A s \in Sessions : Starting(s)' => row'[s] = "open" \/ s \in overtaken'
        BY <1>2, <2>1, <2>2, <4>1, <4>3 DEF ClosedUnbound
      <4>5. ClosedUnbound'
        BY <4>2, <4>4 DEF ClosedUnbound
      <4>6. StrayOnlyOvertaken'
        BY <1>2, <2>1, <2>2, <4>3 DEF StrayOnlyOvertaken, SupportTyped
      <4>7. QED
        BY <4>5, <4>6
    <3>5. OpenIsServed'
      BY <1>1, <1>2, <2>1, <2>2, <2>4 DEF OpenIsServed, OpenRows
    <3>6. QED
      BY <3>1, <3>2, <3>3, <3>4, <3>5 DEF RowsInv
  <2>5. QED
    BY <1>3, <2>3, <2>4 DEF Commit
<1>4. CASE Tell(p)
  <2>1. /\ at[p] = "committed" /\ NextClose(p)
        /\ UNCHANGED <<row, todo, bound, listeners, unrestored, unserved, overtaken>>
    BY <1>4 DEF Tell, rowVars, portVars, history
  <2>2. \A s \in closing[p] : row'[s] \notin {"none", "open"}
    BY <1>2, <2>1 DEF Closers
  <2>3. QED
    BY <1>1, <2>1, <2>2, ClosesEnd
<1>5. QED
  BY <1>3, <1>4

\* A close fails: who was being closed is open and unserved, or closed already.
LEMMA FailsKeepRows ==
  ASSUME SupportTyped, RowsInv, NEW p \in Procs, CloseFails(p)
  PROVE  RowsInv'
<1>1. /\ Sessions \subseteq Procs /\ Tasks \cap Sessions = {} /\ op \in [Sessions -> Openings]
      /\ listeners \subseteq bound /\ bound \subseteq Sessions
      /\ todo \in [Procs -> SUBSET Sessions] /\ closing \in [Procs -> SUBSET Sessions]
      /\ at \in [Procs -> {"idle", "read", "stopped", "committed", "ended"}]
  BY Known DEF SupportTyped
<1>2. /\ Stages /\ Listening /\ Closers /\ Failing /\ ClosedUnbound
      /\ StrayOnlyOvertaken /\ OpenIsServed
  BY DEF RowsInv
<1>3. /\ at[p] \in {"stopped", "committed"}
      /\ UNCHANGED <<row, bound, listeners, unrestored, overtaken>>
      /\ \A s \in Sessions : op'[s] = IF s = p THEN "ended" ELSE op[s]
      /\ \A q \in Procs \ {p} : /\ at'[q] = at[q] /\ todo'[q] = todo[q]
                                /\ closing'[q] = closing[q]
      /\ at'[p] \in {"idle", "ended"} /\ (p \in Sessions => at'[p] = "idle")
      /\ todo'[p] = {} /\ closing'[p] = {}
      /\ unserved \subseteq unserved' /\ (at[p] = "stopped" => closing[p] \subseteq unserved')
  BY <1>1 DEF CloseFails, rowVars, portVars, history
<1>4. p \in Sessions => op[p] \in {"granted", "failing"}
  BY <1>2, <1>3 DEF Failing
<1>5. Stages' /\ Listening'
  <2>1. Stages'
    BY <1>2, <1>3 DEF Stages, Opening
  <2>2. Listening'
    BY <1>1, <1>2, <1>3, <1>4 DEF Listening
  <2>3. QED
    BY <2>1, <2>2
<1>6. Closers' /\ Failing'
  <2>1. Closers'
    BY <1>1, <1>2, <1>3 DEF Closers
  <2>2. Failing'
    BY <1>1, <1>2, <1>3 DEF Failing
  <2>3. QED
    BY <2>1, <2>2
<1>7. ClosedUnbound' /\ StrayOnlyOvertaken'
  BY <1>1, <1>2, <1>3 DEF ClosedUnbound, Starting, StrayOnlyOvertaken
<1>8. OpenIsServed'
  <2>1. SUFFICES ASSUME NEW s \in Sessions, row[s] = "open", op'[s] = "ended"
                 PROVE  \/ s \in listeners \cup unrestored \cup unserved'
                        \/ \E q \in Procs : s \in closing'[q]
    BY <1>3 DEF OpenIsServed, OpenRows
  <2>2. s \in closing[p] => s \in unserved'
    BY <1>2, <1>3, <2>1 DEF Closers
  <2>3. CASE s = p
    <3>1. op[s] = "failing" /\ closing[s] = {s}
      BY <1>2, <1>3, <1>4, <2>1, <2>3 DEF Stages, Opening, Failing
    <3>2. QED
      BY <2>2, <2>3, <3>1
  <2>4. CASE s # p
    <3>1. s \in listeners \cup unrestored \cup unserved \/ \E q \in Procs : s \in closing[q]
      BY <1>2, <1>3, <2>1, <2>4 DEF OpenIsServed, OpenRows
    <3>2. QED
      BY <1>3, <2>2, <3>1
  <2>5. QED
    BY <2>3, <2>4
<1>9. QED
  BY <1>5, <1>6, <1>7, <1>8 DEF RowsInv

\* A closer reads what it will close; everybody starts again.
LEMMA ReadsKeepRows ==
  ASSUME SupportTyped, RowsInv, NEW q \in Tasks \cup {Expiry}, NEW S \in SUBSET OpenRows, NEW k,
         Reads(q, S, k)
  PROVE  RowsInv'
<1>1. /\ q \in Procs /\ q \notin Sessions /\ Sessions \subseteq Procs
      /\ todo \in [Procs -> SUBSET Sessions] /\ closing \in [Procs -> SUBSET Sessions]
      /\ at \in [Procs -> {"idle", "read", "stopped", "committed", "ended"}]
  BY Known DEF SupportTyped
<1>2. /\ Stages /\ Listening /\ Closers /\ Failing /\ ClosedUnbound
      /\ StrayOnlyOvertaken /\ OpenIsServed
  BY DEF RowsInv
<1>3. /\ UNCHANGED <<row, op, closing, bound, listeners, unrestored, unserved, overtaken>>
      /\ at[q] = "idle" /\ todo' = [todo EXCEPT ![q] = S]
      /\ \E a \in {"ended", "read"} : at' = [at EXCEPT ![q] = a]
      /\ \A s \in S : row[s] = "open"
  BY DEF Reads, rowVars, portVars, OpenRows
<1>4. Stages' /\ Listening'
  BY <1>2, <1>3 DEF Stages, Listening, Opening
<1>5. Closers' /\ Failing'
  BY <1>1, <1>2, <1>3 DEF Closers, Failing
<1>6. ClosedUnbound' /\ StrayOnlyOvertaken' /\ OpenIsServed'
  BY <1>2, <1>3 DEF ClosedUnbound, Starting, StrayOnlyOvertaken, OpenIsServed, OpenRows
<1>7. QED
  BY <1>4, <1>5, <1>6 DEF RowsInv

LEMMA RestartKeepsRows ==
  ASSUME SupportTyped, RowsInv, Restart
  PROVE  RowsInv'
<1>1. /\ Sessions \subseteq Procs /\ row \in [Sessions -> Statuses] /\ Sessions \cap Tasks = {}
      /\ op \in [Sessions -> Openings]
  BY Known DEF SupportTyped
<1>2. PICK R \in SUBSET Restorable :
        bound' = R /\ listeners' = R /\ unrestored' = unrestored \cup (Restorable \ R)
  BY DEF Restart
<1>3. /\ \A s \in Sessions : /\ op'[s] = IF op[s] = "idle" THEN "idle" ELSE "ended"
                             /\ at'[s] = "idle"
                             /\ row'[s] = IF s \in Overdue THEN "expired" ELSE row[s]
      /\ \A p \in Procs : closing'[p] = {} /\ todo'[p] = {} /\ at'[p] \in {"idle", "ended"}
      /\ overtaken' = overtaken
  BY <1>1 DEF Restart, history
<1>4. \A s \in Sessions : row'[s] = "open" <=> s \in Restorable
  BY <1>1, <1>3 DEF Restorable, OpenRows, Overdue
<1>5. Stages'
  BY <1>1, <1>3 DEF RowsInv, Stages, Opening, Overdue, OpenRows
<1>6. Listening'
  <2>1. \A s \in Restorable : op[s] # "idle" /\ s \in Sessions
    BY DEF RowsInv, Stages, Restorable, OpenRows
  <2>2. QED
    BY <1>2, <1>3, <2>1 DEF Listening
<1>7. Closers' /\ Failing' /\ ClosedUnbound'
  BY <1>3 DEF Closers, Failing, ClosedUnbound, Starting
<1>8. StrayOnlyOvertaken' /\ OpenIsServed'
  <2>1. Restorable \subseteq Sessions
    BY DEF Restorable, OpenRows
  <2>2. QED
    BY <1>2, <1>4, <2>1 DEF StrayOnlyOvertaken, OpenIsServed, OpenRows
<1>9. QED
  BY <1>5, <1>6, <1>7, <1>8 DEF RowsInv

\* What the readers read.
LEMMA Readers ==
  ASSUME \/ \E q \in Tasks : OperatorReads(q) \/ EventReads(q) \/ RevokeReads(q)
         \/ ExpiryReads
  PROVE  \E q \in Tasks \cup {Expiry}, S \in SUBSET OpenRows, k \in Kinds : Reads(q, S, k)
<1>1. {"operator", "event", "revoke", "expiry"} \subseteq Kinds
      /\ Overdue \subseteq OpenRows /\ \A i : OpenOf(i) \subseteq OpenRows
  BY DEF Kinds, Overdue, OpenOf
<1>2. ASSUME NEW q \in Tasks, OperatorReads(q)
      PROVE  \E S \in SUBSET OpenRows : Reads(q, S, "operator")
  BY <1>2 DEF OperatorReads
<1>3. ASSUME NEW q \in Tasks, EventReads(q) PROVE \E S \in SUBSET OpenRows : Reads(q, S, "event")
  BY <1>1, <1>3 DEF EventReads
<1>4. ASSUME NEW q \in Tasks, RevokeReads(q) PROVE \E S \in SUBSET OpenRows : Reads(q, S, "revoke")
  BY <1>1, <1>4 DEF RevokeReads
<1>5. ExpiryReads => Reads(Expiry, Overdue, "expiry")
  BY DEF ExpiryReads
<1>6. QED
  BY <1>1, <1>2, <1>3, <1>4, <1>5

\* The variables of the three parts of the invariant.
coreVars == <<row, active, op, at, kind, todo, closing, revoking, bound, listeners, unrestored,
              unserved, overlap, overtaken, late>>

LEMMA Outside ==
  ASSUME \/ \E s \in Sessions : Elapse(s)
         \/ \E i \in Instances : AgentStep(i)
  PROVE  UNCHANGED coreVars
BY DEF Elapse, AgentStep, AgentRuns, AgentExpires, LoseLink, Resend, coreVars, rowVars, closeVars,
       portVars, history

LEMMA RowsStay ==
  ASSUME RowsInv, UNCHANGED coreVars
  PROVE  RowsInv'
<1> USE DEF coreVars
<1>1. Stages' /\ Listening' /\ Closers' /\ Failing'
  BY DEF RowsInv, Stages, Listening, Closers, Failing, Opening
<1>2. ClosedUnbound' /\ StrayOnlyOvertaken' /\ OpenIsServed'
  BY DEF RowsInv, ClosedUnbound, Starting, StrayOnlyOvertaken, OpenIsServed, OpenRows
<1>3. QED
  BY <1>1, <1>2 DEF RowsInv

LEMMA RowsKeep ==
  ASSUME SupportTyped, RowsInv, Next
  PROVE  RowsInv'
<1>1. CASE \E s \in Sessions : OpenStep(s)
  BY <1>1, EarlyKeepRows, LateKeepRows DEF OpenStep
<1>2. CASE \E p \in Procs : CloseStep(p) \/ CloseFails(p)
  BY <1>2, StopKeepsRows, EndsKeepRows, FailsKeepRows DEF CloseStep
<1>3. CASE \/ \E q \in Tasks : OperatorReads(q) \/ EventReads(q) \/ RevokeReads(q)
           \/ ExpiryReads
  BY <1>3, Readers, ReadsKeepRows
<1>4. CASE \/ \E s \in Sessions : Elapse(s)
           \/ \E i \in Instances : AgentStep(i)
  BY <1>4, Outside, RowsStay
<1>5. CASE Restart
  BY <1>5, RestartKeepsRows
<1>6. QED
  BY <1>1, <1>2, <1>3, <1>4, <1>5 DEF Next
-----------------------------------------------------------------------------
(* Revocations *)

LEMMA OpensKeepRevoke ==
  ASSUME SupportTyped, RowsInv, RevokeInv, NEW s \in Sessions, OpenStep(s)
  PROVE  RevokeInv'
<1>1. /\ \A q \in Tasks : q \in Procs /\ q # s
      /\ Sessions \subseteq Procs /\ op \in [Sessions -> Openings] /\ row \in [Sessions -> Statuses]
      /\ at \in [Procs -> {"idle", "read", "stopped", "committed", "ended"}]
      /\ todo \in [Procs -> SUBSET Sessions]
  BY Known DEF SupportTyped
<1>2. RevokersMeet /\ OpenersMet /\ RevokedOnlyLate
  BY DEF RevokeInv
<1>3. /\ UNCHANGED <<active, kind, closing, revoking>>
      /\ \A q \in Tasks : at'[q] = at[q] /\ todo'[q] = todo[q]
      /\ \A x \in Sessions \ {s} : op'[x] = op[x] /\ row'[x] = row[x]
      /\ late \subseteq late'
  BY <1>1 DEF OpenStep, Check, ReadPrevious, Allocate, Granted, OpenFails, Insert, Bind, BindFails,
              Registered, rowVars, closeVars, history
<1>4. Opening(s)' => Opening(s) \/ /\ Inst[s] \in active
                                   /\ \A q \in Tasks : Inst[s] \in revoking[q] => s \in late'
  BY <1>1 DEF OpenStep, Check, ReadPrevious, Allocate, Granted, OpenFails, Insert, Bind, BindFails,
              Registered, Opening
<1>5. row'[s] = "open" => row[s] = "open" \/ Opening(s)
  BY <1>1 DEF OpenStep, Check, ReadPrevious, Allocate, Granted, OpenFails, Insert, Bind, BindFails,
              Registered, Opening, rowVars
<1>6. RevokersMeet'
  <2>1. SUFFICES ASSUME NEW q \in Tasks, NEW i \in revoking[q], NEW x \in Sessions, Inst[x] = i
                 PROVE  /\ Opening(x)' => x \in late'
                        /\ row'[x] = "open" => x \in todo[q] \cup closing[q] \cup late'
    BY <1>2, <1>3 DEF RevokersMeet
  <2>2. /\ Opening(x) => x \in late
        /\ row[x] = "open" => x \in todo[q] \cup closing[q] \cup late
    BY <1>2, <2>1 DEF RevokersMeet
  <2>3. CASE x = s
    BY <1>3, <1>4, <1>5, <2>1, <2>2, <2>3
  <2>4. CASE x # s
    BY <1>3, <2>2, <2>4 DEF Opening
  <2>5. QED
    BY <2>3, <2>4
<1>7. OpenersMet' /\ RevokedOnlyLate'
  <2>1. \A x \in Sessions : Opening(x)' => Inst[x] \in active \/ x \in late'
    BY <1>2, <1>3, <1>4 DEF OpenersMet, Opening
  <2>2. \A x \in Sessions : row'[x] = "open" => Inst[x] \in active \/ x \in late'
    BY <1>2, <1>3, <1>5 DEF OpenersMet, RevokedOnlyLate, OpenRows
  <2>3. QED
    BY <1>3, <2>1, <2>2 DEF OpenersMet, RevokedOnlyLate, OpenRows
<1>8. QED
  BY <1>6, <1>7 DEF RevokeInv

LEMMA ClosesKeepRevoke ==
  ASSUME SupportTyped, RowsInv, RevokeInv, NEW p \in Procs, CloseStep(p)
  PROVE  RevokeInv'
<1>1. /\ Tasks \subseteq Procs /\ op \in [Sessions -> Openings] /\ row \in [Sessions -> Statuses]
      /\ at \in [Procs -> {"idle", "read", "stopped", "committed", "ended"}]
      /\ todo \in [Procs -> SUBSET Sessions] /\ closing \in [Procs -> SUBSET Sessions]
      /\ revoking \in [Tasks -> SUBSET Instances] /\ Verdict(p) # "open"
  BY Known DEF SupportTyped, Verdict
<1>2. RevokersMeet /\ OpenersMet /\ RevokedOnlyLate
  BY DEF RevokeInv
<1>3. CASE Stop(p)
  <2>1. PICK S \in Parts(p) :
          /\ todo' = [todo EXCEPT ![p] = @ \ S] /\ closing' = [closing EXCEPT ![p] = S]
          /\ at[p] = "read" /\ at' = [at EXCEPT ![p] = "stopped"]
          /\ UNCHANGED <<row, active, op, kind, revoking, late>>
    BY <1>3 DEF Stop, rowVars
  <2>2. kind[p] = "revoke" => S = todo[p]
    BY <2>1 DEF Parts
  <2>3. RevokersMeet'
    <3>1. SUFFICES ASSUME NEW q \in Tasks, NEW i \in revoking[q]
                   PROVE  /\ kind[q] = "revoke" /\ at'[q] \in {"read", "stopped"}
                          /\ at'[q] = "stopped" => todo'[q] = {}
                          /\ todo'[q] \cup closing'[q] = todo[q] \cup closing[q]
                             \/ todo[q] \cup closing[q] \subseteq todo'[q] \cup closing'[q]
      BY <1>2, <2>1 DEF RevokersMeet, Opening
    <3>2. CASE q = p
      <4>1. kind[p] = "revoke" /\ S = todo[p] /\ closing[p] = {}
        BY <1>2, <2>1, <2>2, <3>1, <3>2 DEF RevokersMeet, RowsInv, Closers
      <4>2. QED
        BY <1>1, <2>1, <3>2, <4>1
    <3>3. CASE q # p
      BY <1>1, <1>2, <2>1, <3>1, <3>3 DEF RevokersMeet
    <3>4. QED
      BY <3>2, <3>3
  <2>4. OpenersMet' /\ RevokedOnlyLate'
    BY <1>2, <2>1 DEF OpenersMet, Opening, RevokedOnlyLate, OpenRows
  <2>5. QED
    BY <2>3, <2>4 DEF RevokeInv
<1>4. ASSUME NextClose(p)
      PROVE  /\ \A q \in Procs \ {p} : at'[q] = at[q] /\ closing'[q] = closing[q]
             /\ \A s \in Sessions : Opening(s)' => Opening(s)
  BY <1>1, <1>4 DEF NextClose, Opening
<1>5. CASE Commit(p)
  <2>1. /\ at[p] = "stopped" /\ UNCHANGED <<kind, todo, late>>
        /\ row' = [s \in Sessions |-> IF s \in closing[p] THEN Verdict(p) ELSE row[s]]
        /\ IF p \in Tasks THEN /\ active' = active \ revoking[p]
                               /\ revoking' = [revoking EXCEPT ![p] = {}]
                          ELSE UNCHANGED <<active, revoking>>
    BY <1>5 DEF Commit, history
  <2>2. /\ \A q \in Procs \ {p} : at'[q] = at[q] /\ closing'[q] = closing[q]
        /\ \A s \in Sessions : Opening(s)' => Opening(s)
    BY <1>1, <1>4, <1>5 DEF Commit, Opening
  <2>3. \A s \in Sessions : row'[s] = "open" => row[s] = "open" /\ s \notin closing[p]
    BY <1>1, <2>1
  <2>4. RevokersMeet'
    <3>1. SUFFICES ASSUME NEW q \in Tasks, NEW i \in revoking'[q]
                   PROVE  q # p /\ i \in revoking[q]
      BY <1>1, <1>2, <2>1, <2>2, <2>3 DEF RevokersMeet
    <3>2. QED
      BY <1>1, <2>1
  <2>5. ASSUME NEW s \in Sessions, Opening(s)' \/ row'[s] = "open"
        PROVE  Inst[s] \in active' \/ s \in late
    <3>1. Inst[s] \in active \/ s \in late
      BY <1>2, <2>2, <2>3, <2>5 DEF OpenersMet, RevokedOnlyLate, OpenRows
    <3>2. CASE p \in Tasks /\ Inst[s] \in revoking[p]
      <4>1. todo[p] = {} /\ (Opening(s) => s \in late)
            /\ (row[s] = "open" => s \in todo[p] \cup closing[p] \cup late)
        BY <1>2, <2>1, <3>2 DEF RevokersMeet
      <4>2. QED
        BY <2>2, <2>3, <2>5, <4>1
    <3>3. CASE ~(p \in Tasks /\ Inst[s] \in revoking[p])
      BY <2>1, <3>1, <3>3
    <3>4. QED
      BY <3>2, <3>3
  <2>6. OpenersMet' /\ RevokedOnlyLate'
    BY <2>1, <2>5 DEF OpenersMet, RevokedOnlyLate, OpenRows
  <2>7. QED
    BY <2>4, <2>6 DEF RevokeInv
<1>6. CASE Tell(p)
  <2>1. at[p] = "committed" /\ NextClose(p) /\ UNCHANGED <<row, active, kind, todo, revoking, late>>
    BY <1>6 DEF Tell, rowVars, history
  <2>2. RevokersMeet'
    <3>1. \A q \in Tasks : \A i \in revoking[q] : q # p
      BY <1>2, <2>1 DEF RevokersMeet
    <3>2. QED
      BY <1>1, <1>2, <1>4, <2>1, <3>1 DEF RevokersMeet
  <2>3. OpenersMet' /\ RevokedOnlyLate'
    BY <1>2, <1>4, <2>1 DEF OpenersMet, RevokedOnlyLate, OpenRows
  <2>4. QED
    BY <2>2, <2>3 DEF RevokeInv
<1>7. QED
  BY <1>3, <1>5, <1>6 DEF CloseStep

LEMMA FailsKeepRevoke ==
  ASSUME SupportTyped, RevokeInv, NEW p \in Procs, CloseFails(p)
  PROVE  RevokeInv'
<1>1. /\ Tasks \subseteq Procs /\ revoking \in [Tasks -> SUBSET Instances]
      /\ at \in [Procs -> {"idle", "read", "stopped", "committed", "ended"}]
      /\ todo \in [Procs -> SUBSET Sessions] /\ closing \in [Procs -> SUBSET Sessions]
  BY Known DEF SupportTyped
<1>2. RevokersMeet /\ OpenersMet /\ RevokedOnlyLate
  BY DEF RevokeInv
<1>3. /\ UNCHANGED <<row, active, kind, late>>
      /\ \A q \in Tasks : revoking'[q] = IF q = p THEN {} ELSE revoking[q]
      /\ \A q \in Procs \ {p} : /\ at'[q] = at[q] /\ todo'[q] = todo[q]
                                /\ closing'[q] = closing[q]
      /\ \A s \in Sessions : Opening(s)' => Opening(s)
  BY <1>1 DEF CloseFails, Opening, rowVars, history
<1>4. RevokersMeet'
  <2>1. \A q \in Tasks : \A i \in revoking'[q] : q \in Procs \ {p} /\ i \in revoking[q]
    BY <1>1, <1>3
  <2>2. QED
    BY <1>2, <1>3, <2>1 DEF RevokersMeet
<1>5. OpenersMet' /\ RevokedOnlyLate'
  BY <1>2, <1>3 DEF OpenersMet, RevokedOnlyLate, OpenRows
<1>6. QED
  BY <1>4, <1>5 DEF RevokeInv

LEMMA ReadsKeepRevoke ==
  ASSUME SupportTyped, RevokeInv,
         \/ \E q \in Tasks : OperatorReads(q) \/ EventReads(q) \/ RevokeReads(q)
         \/ ExpiryReads
  PROVE  RevokeInv'
<1>1. /\ Tasks \subseteq Procs /\ Expiry \notin Tasks
      /\ at \in [Procs -> {"idle", "read", "stopped", "committed", "ended"}]
      /\ todo \in [Procs -> SUBSET Sessions] /\ kind \in [Procs -> Kinds]
      /\ revoking \in [Tasks -> SUBSET Instances]
  BY Known DEF SupportTyped
<1>2. RevokersMeet /\ OpenersMet /\ RevokedOnlyLate
  BY DEF RevokeInv
<1>3. \A q \in Tasks : at[q] = "idle" => revoking[q] = {}
  BY <1>1, <1>2 DEF RevokersMeet
<1>4. CASE UNCHANGED <<revoking, late>>
  <2>1. PICK q \in Tasks \cup {Expiry}, S \in SUBSET OpenRows, k \in Kinds : Reads(q, S, k)
    BY Readers
  <2>2. /\ UNCHANGED <<row, active, op, closing>> /\ at[q] = "idle"
        /\ \A x \in Procs \ {q} : at'[x] = at[x] /\ todo'[x] = todo[x] /\ kind'[x] = kind[x]
    BY <1>1, <2>1 DEF Reads, rowVars
  <2>3. RevokersMeet'
    <3>1. \A x \in Tasks : \A i \in revoking[x] : x \in Procs \ {q}
      BY <1>1, <1>3, <2>2
    <3>2. QED
      BY <1>2, <1>4, <2>2, <3>1 DEF RevokersMeet, Opening
  <2>4. OpenersMet' /\ RevokedOnlyLate'
    BY <1>2, <1>4, <2>2 DEF OpenersMet, Opening, RevokedOnlyLate, OpenRows
  <2>5. QED
    BY <2>3, <2>4 DEF RevokeInv
<1>5. ASSUME NEW q \in Tasks, RevokeReads(q) PROVE RevokeInv'
  <2>1. PICK i \in active : /\ Reads(q, OpenOf(i), "revoke")
                            /\ revoking' = [revoking EXCEPT ![q] = {i}]
                            /\ late' = late \cup {s \in Sessions : Inst[s] = i /\ Opening(s)}
    BY <1>5 DEF RevokeReads
  <2>2. /\ UNCHANGED <<row, active, op, closing>> /\ at[q] = "idle"
        /\ \A x \in Procs \ {q} : at'[x] = at[x] /\ todo'[x] = todo[x] /\ kind'[x] = kind[x]
        /\ at'[q] = "read" /\ todo'[q] = OpenOf(i) /\ kind'[q] = "revoke"
    BY <1>1, <2>1 DEF Reads, rowVars
  <2>3. RevokersMeet'
    <3>1. SUFFICES ASSUME NEW x \in Tasks, NEW k \in revoking'[x]
                   PROVE  /\ kind'[x] = "revoke" /\ at'[x] \in {"read", "stopped"}
                          /\ at'[x] = "stopped" => todo'[x] = {}
                          /\ \A s \in Sessions : Inst[s] = k =>
                               /\ Opening(s)' => s \in late'
                               /\ row'[s] = "open" => s \in todo'[x] \cup closing'[x] \cup late'
      BY DEF RevokersMeet
    <3>2. CASE x = q
      <4>1. k = i
        BY <1>1, <2>1, <3>1, <3>2
      <4>2. \A s \in Sessions : Inst[s] = i /\ row[s] = "open" => s \in OpenOf(i)
        BY DEF OpenOf, OpenRows
      <4>3. QED
        BY <2>1, <2>2, <3>2, <4>1, <4>2 DEF Opening
    <3>3. CASE x # q
      <4>1. k \in revoking[x] /\ x \in Procs \ {q}
        BY <1>1, <2>1, <3>1, <3>3
      <4>2. QED
        BY <1>2, <2>1, <2>2, <4>1 DEF RevokersMeet, Opening
    <3>4. QED
      BY <3>2, <3>3
  <2>4. OpenersMet' /\ RevokedOnlyLate'
    BY <1>2, <2>1, <2>2 DEF OpenersMet, Opening, RevokedOnlyLate, OpenRows
  <2>5. QED
    BY <2>3, <2>4 DEF RevokeInv
<1>6. (\E q \in Tasks : OperatorReads(q) \/ EventReads(q)) \/ ExpiryReads => UNCHANGED <<revoking, late>>
  BY DEF OperatorReads, EventReads, ExpiryReads
<1>7. QED
  BY <1>4, <1>5, <1>6

LEMMA RevokeKeeps ==
  ASSUME SupportTyped, RowsInv, RevokeInv, Next
  PROVE  RevokeInv'
<1>1. CASE Restart
  <2>1. /\ \A q \in Tasks : revoking'[q] = {}
        /\ \A s \in Sessions : ~Opening(s)' /\ (row'[s] = "open" => row[s] = "open")
        /\ UNCHANGED <<active, late>>
    BY <1>1 DEF Restart, Opening, history
  <2>2. QED
    BY <2>1 DEF RevokeInv, RevokersMeet, OpenersMet, RevokedOnlyLate, OpenRows
<1>2. CASE UNCHANGED coreVars
  BY <1>2 DEF coreVars, RevokeInv, RevokersMeet, OpenersMet, RevokedOnlyLate, OpenRows, Opening
<1>3. QED
  BY <1>1, <1>2, Outside, OpensKeepRevoke, ClosesKeepRevoke, FailsKeepRevoke, ReadsKeepRevoke DEF Next
-----------------------------------------------------------------------------
(* One SSH session per instance *)

\* What s has yet to close of what it read.
Pending(s, t) == t \in todo[s] \/ (t \in closing[s] /\ at[s] = "stopped")

\* A step that opens no row, lets no session read and forgets nothing open.
LEMMA SharingStays ==
  ASSUME SupportTyped, ShareInv, overlap \subseteq overlap',
         \A x \in Ssh : HasRead(x)' => HasRead(x),
         \A t \in Ssh : row'[t] = "open" => row[t] = "open",
         \A x, t \in Ssh : HasRead(x)' /\ row'[t] = "open" /\ Pending(x, t) => Pending(x, t)'
  PROVE  ReadersMeet' /\ SharedOnlyOverlapping'
<1>1. ReadersMeet'
  <2>1. SUFFICES ASSUME NEW x \in Ssh, HasRead(x)', NEW t \in Rivals(x)'
                 PROVE  ~HasRead(t)' /\ (row'[t] = "open" => Pending(x, t)')
    BY DEF ReadersMeet, Pending
  <2>2. t \in Ssh /\ t \in Rivals(x)
    BY DEF Rivals, Beside
  <2>3. ~HasRead(t) /\ (row[t] = "open" => Pending(x, t))
    BY <2>1, <2>2 DEF ShareInv, ReadersMeet, Pending
  <2>4. QED
    BY <2>1, <2>2, <2>3
<1>2. SharedOnlyOverlapping'
  BY DEF ShareInv, SharedOnlyOverlapping, OpenRows
<1>3. QED
  BY <1>1, <1>2

LEMMA OpensKeepShare ==
  ASSUME SupportTyped, RowsInv, ShareInv, NEW s \in Sessions, OpenStep(s)
  PROVE  ShareInv'
<1>1. /\ Ssh \subseteq Sessions /\ Sessions \subseteq Procs /\ op \in [Sessions -> Openings]
      /\ row \in [Sessions -> Statuses] /\ overlap \subseteq Ssh \X Ssh
      /\ at \in [Procs -> {"idle", "read", "stopped", "committed", "ended"}]
      /\ todo \in [Procs -> SUBSET Sessions] /\ closing \in [Procs -> SUBSET Sessions]
  BY Known DEF SupportTyped
<1>2. ReadersMeet /\ DoneClosing /\ SharedOnlyOverlapping
  BY DEF ShareInv
<1>3. /\ UNCHANGED closing
      /\ \A x \in Sessions \ {s} :
           op'[x] = op[x] /\ row'[x] = row[x] /\ at'[x] = at[x] /\ todo'[x] = todo[x]
  BY <1>1 DEF OpenStep, Check, ReadPrevious, Allocate, Granted, OpenFails, Insert, Bind, BindFails,
              Registered, rowVars, closeVars
<1>4. DoneClosing'
  <2>1. op'[s] = "granted" /\ at'[s] = "idle" => Granted(s) /\ todo'[s] = {}
    BY <1>1 DEF OpenStep, Check, ReadPrevious, Allocate, Granted, OpenFails, Insert, Bind, BindFails,
                Registered
  <2>2. QED
    BY <1>1, <1>2, <1>3, <2>1 DEF DoneClosing
<1>5. CASE ReadPrevious(s)
  <2>1. /\ s \in Ssh /\ op[s] = "checked" /\ op' = [op EXCEPT ![s] = "read"] /\ UNCHANGED <<row, at>>
        /\ todo'[s] = Previous(s)
        /\ overlap' = overlap \cup
             {<<s, t>> : t \in {t \in Ssh \ {s} : Inst[t] = Inst[s] /\ Opening(t)}}
    BY <1>1, <1>5 DEF ReadPrevious, rowVars
  <2>2. \A t \in Ssh \ {s} : Inst[t] = Inst[s] /\ Opening(t) => Beside(s, t)' /\ Beside(t, s)'
    BY <2>1 DEF Beside
  <2>3. \A t : HasRead(t) => Opening(t)
    BY DEF HasRead, Opening
  <2>4. ReadersMeet'
    <3>1. SUFFICES ASSUME NEW x \in Ssh, HasRead(x)', NEW t \in Rivals(x)'
                   PROVE  ~HasRead(t)' /\ (row'[t] = "open" => Pending(x, t)')
      BY DEF ReadersMeet, Pending
    <3>2. t \in Ssh \ {x} /\ Inst[t] = Inst[x] /\ ~Beside(x, t)' /\ t \in Rivals(x)
      BY <2>1 DEF Rivals, Beside
    <3>3. CASE x = s
      <4>1. ~Opening(t)
        BY <2>2, <3>2, <3>3
      <4>2. ~HasRead(t)'
        BY <1>1, <1>3, <2>3, <3>2, <3>3, <4>1 DEF HasRead
      <4>3. row[t] = "open" => t \in Previous(s)
        BY <1>1, <3>2, <3>3 DEF Previous, OpenRows
      <4>4. QED
        BY <2>1, <3>3, <4>2, <4>3 DEF Pending
    <3>4. CASE x # s /\ t = s
      <4>1. Opening(x)
        BY <1>1, <1>3, <2>3, <3>1, <3>4 DEF HasRead
      <4>2. Beside(x, s)'
        BY <2>2, <3>2, <3>4, <4>1
      <4>3. QED
        BY <3>2, <3>4, <4>2
    <3>5. CASE x # s /\ t # s
      <4>1. HasRead(x) /\ (HasRead(t)' => HasRead(t)) /\ (Pending(x, t) => Pending(x, t)')
        BY <1>1, <1>3, <3>1, <3>2, <3>5 DEF HasRead, Pending
      <4>2. QED
        BY <1>2, <2>1, <3>2, <4>1 DEF ReadersMeet, Pending
    <3>6. QED
      BY <3>3, <3>4, <3>5
  <2>5. SharedOnlyOverlapping'
    BY <1>2, <2>1 DEF SharedOnlyOverlapping, OpenRows
  <2>6. QED
    BY <1>4, <2>4, <2>5 DEF ShareInv
<1>6. CASE Insert(s)
  <2>1. /\ op[s] = "granted" /\ at[s] = "idle" /\ op' = [op EXCEPT ![s] = "inserted"]
        /\ row' = [row EXCEPT ![s] = "open"] /\ UNCHANGED <<at, todo, closing, overlap>>
    BY <1>6 DEF Insert, closeVars, history
  <2>2. HasRead(s) /\ ~HasRead(s)' /\ \A x \in Ssh : HasRead(x)' => HasRead(x)
    BY <1>1, <2>1 DEF HasRead
  <2>3. ReadersMeet'
    <3>1. SUFFICES ASSUME NEW x \in Ssh, HasRead(x)', NEW t \in Rivals(x)'
                   PROVE  ~HasRead(t)' /\ (row'[t] = "open" => Pending(x, t)')
      BY DEF ReadersMeet, Pending
    <3>2. t \in Ssh /\ t \in Rivals(x) /\ HasRead(x)
      BY <2>1, <2>2, <3>1 DEF Rivals, Beside
    <3>3. ~HasRead(t) /\ (row[t] = "open" => Pending(x, t))
      BY <1>2, <3>2 DEF ReadersMeet, Pending
    <3>4. t # s
      BY <2>2, <3>3
    <3>5. QED
      BY <1>1, <2>1, <2>2, <3>2, <3>3, <3>4 DEF Pending
  <2>4. ASSUME NEW t \in Ssh \ {s}, s \in Ssh, row[t] = "open", Inst[s] = Inst[t]
        PROVE  Beside(s, t)
    <3>1. SUFFICES ASSUME ~Beside(s, t) PROVE FALSE
      OBVIOUS
    <3>2. t \in Rivals(s)
      BY <2>4, <3>1 DEF Rivals
    <3>3. t \in todo[s] \/ at[s] = "stopped"
      BY <1>2, <2>2, <2>4, <3>2 DEF ReadersMeet
    <3>4. QED
      BY <1>2, <2>1, <2>4, <3>3 DEF DoneClosing
  <2>5. SharedOnlyOverlapping'
    <3>1. SUFFICES ASSUME NEW a \in Ssh, NEW b \in Ssh, a # b, Inst[a] = Inst[b],
                          row'[a] = "open", row'[b] = "open"
                   PROVE  Beside(a, b)
      BY <2>1 DEF SharedOnlyOverlapping, OpenRows, Beside
    <3>2. CASE a = s \/ b = s
      BY <1>1, <2>1, <2>4, <3>1, <3>2 DEF Beside
    <3>3. CASE a # s /\ b # s
      BY <1>1, <1>2, <2>1, <3>1, <3>3 DEF SharedOnlyOverlapping, OpenRows, Beside
    <3>4. QED
      BY <3>2, <3>3
  <2>6. QED
    BY <1>4, <2>3, <2>5 DEF ShareInv
<1>7. CASE ~ReadPrevious(s) /\ ~Insert(s)
  <2>1. overlap' = overlap /\ row' = row
    BY <1>7 DEF OpenStep, Check, Allocate, Granted, OpenFails, Bind, BindFails, Registered, rowVars,
                history
  <2>2. \A x \in Ssh : HasRead(x)' => HasRead(x)
    <3>1. s \in Ssh /\ HasRead(s)' => HasRead(s)
      BY <1>1, <1>7 DEF OpenStep, Check, Allocate, Granted, OpenFails, Bind, BindFails, Registered,
                        HasRead
    <3>2. QED
      BY <1>1, <1>3, <3>1 DEF HasRead
  <2>3. s \in Ssh /\ HasRead(s)' => todo'[s] = todo[s] /\ at[s] \in {"idle", at'[s]}
    <3>1. HasRead(s)' => Check(s) \/ Allocate(s) \/ Granted(s)
      BY <1>1, <1>7 DEF OpenStep, OpenFails, Bind, BindFails, Registered, HasRead
    <3>2. Granted(s) => at[s] = "idle" /\ UNCHANGED todo
      BY DEF Granted, RowsInv, Failing
    <3>3. Check(s) \/ Allocate(s) => UNCHANGED <<at, todo>>
      BY DEF Check, Allocate, closeVars
    <3>4. QED
      BY <3>1, <3>2, <3>3
  <2>4. \A x, t \in Ssh : HasRead(x)' /\ Pending(x, t) => Pending(x, t)'
    BY <1>1, <1>3, <2>3 DEF Pending
  <2>5. QED
    BY <1>4, <2>1, <2>2, <2>4, SharingStays DEF ShareInv
<1>8. QED
  BY <1>5, <1>6, <1>7

LEMMA ClosesKeepShare ==
  ASSUME SupportTyped, RowsInv, ShareInv, NEW p \in Procs, CloseStep(p)
  PROVE  ShareInv'
<1>1. /\ Ssh \subseteq Sessions /\ Sessions \subseteq Procs /\ op \in [Sessions -> Openings]
      /\ row \in [Sessions -> Statuses]
      /\ at \in [Procs -> {"idle", "read", "stopped", "committed", "ended"}]
      /\ todo \in [Procs -> SUBSET Sessions] /\ closing \in [Procs -> SUBSET Sessions]
      /\ Verdict(p) # "open"
  BY Known DEF SupportTyped, Verdict
<1>2. ReadersMeet /\ DoneClosing /\ SharedOnlyOverlapping
  BY DEF ShareInv
<1>3. CASE Stop(p)
  <2>1. PICK S \in Parts(p) :
          /\ todo' = [todo EXCEPT ![p] = @ \ S] /\ closing' = [closing EXCEPT ![p] = S]
          /\ at[p] = "read" /\ at' = [at EXCEPT ![p] = "stopped"]
          /\ UNCHANGED <<row, op, overlap>>
    BY <1>3 DEF Stop, rowVars
  <2>2. \A x \in Ssh : HasRead(x)' => HasRead(x)
    BY <2>1 DEF HasRead
  <2>3. \A x, t \in Ssh : Pending(x, t) => Pending(x, t)'
    <3>1. \A t : Pending(p, t) => Pending(p, t)'
      BY <1>1, <2>1 DEF Pending
    <3>2. QED
      BY <1>1, <2>1, <3>1 DEF Pending
  <2>4. DoneClosing'
    BY <1>1, <1>2, <2>1 DEF DoneClosing
  <2>5. QED
    BY <2>1, <2>2, <2>3, <2>4, SharingStays DEF ShareInv
<1>4. ASSUME NextClose(p), UNCHANGED todo
      PROVE  /\ \A x \in Procs \ {p} : at'[x] = at[x] /\ closing'[x] = closing[x]
             /\ \A x \in Sessions : op'[x] = op[x] \/ op'[x] = "ended"
             /\ p \in Sessions /\ at'[p] = "idle" => todo[p] = {}
  BY <1>1, <1>4, Known DEF NextClose
<1>5. CASE Commit(p)
  <2>1. /\ at[p] = "stopped" /\ UNCHANGED <<todo, overlap>>
        /\ row' = [x \in Sessions |-> IF x \in closing[p] THEN Verdict(p) ELSE row[x]]
    BY <1>5 DEF Commit, history
  <2>2. /\ \A x \in Procs \ {p} : at'[x] = at[x] /\ closing'[x] = closing[x]
        /\ \A x \in Sessions : op'[x] = op[x] \/ op'[x] = "ended"
        /\ p \in Sessions /\ at'[p] = "idle" => todo[p] = {}
    BY <1>1, <1>4, <1>5, <2>1 DEF Commit
  <2>3. \A x \in Ssh : HasRead(x)' => HasRead(x)
    BY <1>1, <2>2 DEF HasRead
  <2>4. \A t \in Ssh : row'[t] = "open" => row[t] = "open" /\ t \notin closing[p]
    BY <1>1, <2>1
  <2>5. \A x, t \in Ssh : row'[t] = "open" /\ Pending(x, t) => Pending(x, t)'
    BY <1>1, <2>1, <2>2, <2>4 DEF Pending
  <2>6. DoneClosing'
    BY <1>1, <1>2, <2>1, <2>2 DEF DoneClosing
  <2>7. QED
    BY <2>1, <2>3, <2>4, <2>5, <2>6, SharingStays DEF ShareInv
<1>6. CASE Tell(p)
  <2>1. at[p] = "committed" /\ NextClose(p) /\ UNCHANGED <<row, todo, overlap>>
    BY <1>6 DEF Tell, rowVars, history
  <2>2. \A x \in Ssh : HasRead(x)' => HasRead(x)
    BY <1>1, <1>4, <2>1 DEF HasRead
  <2>3. \A x, t \in Ssh : Pending(x, t) => Pending(x, t)'
    BY <1>1, <1>4, <2>1 DEF Pending
  <2>4. DoneClosing'
    BY <1>1, <1>2, <1>4, <2>1 DEF DoneClosing
  <2>5. QED
    BY <2>1, <2>2, <2>3, <2>4, SharingStays DEF ShareInv
<1>7. QED
  BY <1>3, <1>5, <1>6 DEF CloseStep

LEMMA FailsKeepShare ==
  ASSUME SupportTyped, ShareInv, NEW p \in Procs, CloseFails(p)
  PROVE  ShareInv'
<1>1. /\ Ssh \subseteq Sessions /\ Sessions \subseteq Procs /\ op \in [Sessions -> Openings]
      /\ at \in [Procs -> {"idle", "read", "stopped", "committed", "ended"}]
      /\ todo \in [Procs -> SUBSET Sessions] /\ closing \in [Procs -> SUBSET Sessions]
  BY Known DEF SupportTyped
<1>2. /\ UNCHANGED <<row, overlap>>
      /\ \A x \in Sessions : op'[x] = IF x = p THEN "ended" ELSE op[x]
      /\ \A x \in Procs \ {p} : /\ at'[x] = at[x] /\ todo'[x] = todo[x]
                                /\ closing'[x] = closing[x]
  BY <1>1 DEF CloseFails, rowVars, history
<1>3. \A x \in Ssh : HasRead(x)' => HasRead(x) /\ x # p
  BY <1>1, <1>2 DEF HasRead
<1>4. \A x, t \in Ssh : HasRead(x)' /\ Pending(x, t) => Pending(x, t)'
  BY <1>1, <1>2, <1>3 DEF Pending
<1>5. DoneClosing'
  BY <1>1, <1>2 DEF ShareInv, DoneClosing
<1>6. QED
  BY <1>2, <1>3, <1>4, <1>5, SharingStays DEF ShareInv

LEMMA ReadsKeepShare ==
  ASSUME SupportTyped, ShareInv, NEW q \in Tasks \cup {Expiry}, NEW S, NEW k, Reads(q, S, k)
  PROVE  ShareInv'
<1>1. /\ Ssh \subseteq Sessions /\ Sessions \subseteq Procs /\ q \notin Sessions
      /\ at \in [Procs -> {"idle", "read", "stopped", "committed", "ended"}]
      /\ todo \in [Procs -> SUBSET Sessions]
  BY Known DEF SupportTyped
<1>2. /\ UNCHANGED <<row, op, closing, overlap>>
      /\ \A x \in Sessions : at'[x] = at[x] /\ todo'[x] = todo[x]
  BY <1>1 DEF Reads, rowVars
<1>3. \A x, t \in Ssh : Pending(x, t) => Pending(x, t)'
  BY <1>1, <1>2 DEF Pending
<1>4. \A x \in Ssh : HasRead(x)' => HasRead(x)
  BY <1>2 DEF HasRead
<1>5. DoneClosing'
  BY <1>1, <1>2 DEF ShareInv, DoneClosing
<1>6. QED
  BY <1>2, <1>3, <1>4, <1>5, SharingStays DEF ShareInv

LEMMA ShareStays ==
  ASSUME ShareInv, UNCHANGED coreVars
  PROVE  ShareInv'
<1> USE DEF coreVars
<1>1. ReadersMeet'
  BY DEF ShareInv, ReadersMeet, HasRead, Rivals, Beside
<1>2. DoneClosing' /\ SharedOnlyOverlapping'
  BY DEF ShareInv, DoneClosing, SharedOnlyOverlapping, OpenRows
<1>3. QED
  BY <1>1, <1>2 DEF ShareInv

LEMMA ShareKeeps ==
  ASSUME SupportTyped, RowsInv, ShareInv, Next
  PROVE  ShareInv'
<1>1. CASE Restart
  <2>1. /\ \A x \in Sessions : op'[x] \in {"idle", "ended"} /\ (row'[x] = "open" => row[x] = "open")
        /\ UNCHANGED overlap
    BY <1>1 DEF Restart, history
  <2>2. Ssh \subseteq Sessions
    BY Known
  <2>3. ReadersMeet' /\ DoneClosing'
    BY <2>1, <2>2 DEF ReadersMeet, HasRead, DoneClosing
  <2>4. SharedOnlyOverlapping'
    BY <2>1, <2>2 DEF ShareInv, SharedOnlyOverlapping, OpenRows
  <2>5. QED
    BY <2>3, <2>4 DEF ShareInv
<1>2. CASE \/ \E q \in Tasks : OperatorReads(q) \/ EventReads(q) \/ RevokeReads(q)
           \/ ExpiryReads
  BY <1>2, Readers, ReadsKeepShare
<1>3. QED
  BY <1>1, <1>2, Outside, ShareStays, OpensKeepShare, ClosesKeepShare, FailsKeepShare DEF Next
-----------------------------------------------------------------------------
(* The grant of an open session *)

LEMMA Queues ==
  ASSUME NEW w \in Seq(SshCommand), NEW s
  PROVE  /\ w \o <<>> = w /\ <<>> \o w = w
         /\ Lacks(<<>>, s)
         /\ w # <<>> /\ Lacks(w, s) => Lacks(Tail(w), s) /\ Head(w) # GrantOf(s)
         /\ EndsWith(w, s) => IF Head(w) = GrantOf(s) THEN Tail(w) = <<>> ELSE EndsWith(Tail(w), s)
<1>1. w \o <<>> = w /\ <<>> \o w = w
  OBVIOUS
<1>2. Lacks(<<>>, s)
  BY DEF Lacks
<1>3. w # <<>> =>
        /\ Len(w) \in Nat \ {0} /\ Head(w) = w[1] /\ Tail(w) \in Seq(SshCommand)
        /\ Len(Tail(w)) = Len(w) - 1 /\ \A k \in 1..Len(Tail(w)) : Tail(w)[k] = w[k + 1]
        /\ Len(w) = 1 => Tail(w) = <<>>
  OBVIOUS
<1>4. w # <<>> /\ Lacks(w, s) => Lacks(Tail(w), s) /\ Head(w) # GrantOf(s)
  BY <1>3 DEF Lacks
<1>5. ASSUME EndsWith(w, s)
      PROVE  IF Head(w) = GrantOf(s) THEN Tail(w) = <<>> ELSE EndsWith(Tail(w), s)
  <2>1. w # <<>> /\ w[Len(w)] = GrantOf(s) /\ \A k \in 1..Len(w) : k # Len(w) => w[k] # GrantOf(s)
    BY <1>5 DEF EndsWith
  <2>2. CASE Len(w) = 1
    BY <1>3, <2>1, <2>2
  <2>3. CASE Len(w) # 1
    <3> DEFINE n == Len(w)
               t == Tail(w)
    <3>1. /\ n \in Nat /\ n > 1 /\ Len(t) = n - 1 /\ Head(w) = w[1]
          /\ \A k \in 1..(n - 1) : t[k] = w[k + 1]
      <4>1. /\ n \in Nat \ {0} /\ Head(w) = w[1] /\ Len(t) = n - 1
            /\ \A k \in 1..Len(t) : t[k] = w[k + 1]
        BY <1>3, <2>1
      <4>2. n # 1
        BY <2>3
      <4> HIDE DEF n, t
      <4>3. QED
        BY <4>1, <4>2
    <3>2. w[n] = GrantOf(s) /\ \A k \in 1..n : k # n => w[k] # GrantOf(s)
      BY <2>1
    <3>3. Len(<<>>) = 0
      OBVIOUS
    <3> HIDE DEF n, t
    <3>4. Head(w) # GrantOf(s) /\ t # <<>>
      BY <3>1, <3>2, <3>3
    <3>5. t[n - 1] = w[n] /\ \A k \in 1..(n - 1) : k # n - 1 => t[k] # GrantOf(s)
      BY <3>1, <3>2
    <3>6. EndsWith(t, s)
      BY <3>1, <3>2, <3>4, <3>5 DEF EndsWith
    <3>7. QED
      BY <3>4, <3>6 DEF t
  <2>4. QED
    BY <2>2, <2>3
<1>6. QED
  BY <1>1, <1>2, <1>4, <1>5

LEMMA Appends ==
  ASSUME NEW w \in Seq(SshCommand), NEW v \in Seq(SshCommand), NEW c \in SshCommand, NEW s
  PROVE  /\ Lacks(w, s) /\ Lacks(v, s) => Lacks(w \o v, s)
         /\ Lacks(w, s) /\ c # GrantOf(s) => Lacks(Append(w, c), s)
         /\ Lacks(w, s) /\ c = GrantOf(s) => EndsWith(Append(w, c), s)
<1>1. /\ Len(w) \in Nat /\ Len(v) \in Nat /\ Len(w \o v) = Len(w) + Len(v)
      /\ \A k \in 1..Len(w \o v) : (w \o v)[k] = IF k <= Len(w) THEN w[k] ELSE v[k - Len(w)]
  OBVIOUS
<1>2. Lacks(w, s) /\ Lacks(v, s) => Lacks(w \o v, s)
  BY <1>1 DEF Lacks
<1>3. /\ Len(Append(w, c)) = Len(w) + 1 /\ Append(w, c) # <<>>
      /\ Append(w, c)[Len(w) + 1] = c /\ \A k \in 1..Len(w) : Append(w, c)[k] = w[k]
  OBVIOUS
<1>4. QED
  BY <1>1, <1>2, <1>3 DEF Lacks, EndsWith

LEMMA AllocatesKeepGrant ==
  ASSUME SupportTyped, RowsInv, ShareInv, GrantInv, NEW u \in Sessions, Allocate(u)
  PROVE  GrantInv'
<1>1. /\ Ssh \subseteq Sessions /\ Sessions \subseteq Procs /\ op \in [Sessions -> Openings]
      /\ \A s \in Ssh : Inst[s] \in Instances
      /\ wire \in [Instances -> Seq(SshCommand)] /\ held \in [Instances -> Seq(SshCommand)]
      /\ todo \in [Procs -> SUBSET Sessions] /\ closing \in [Procs -> SUBSET Sessions]
  BY Known DEF SupportTyped
<1>2. /\ op[u] \in {"read", "checked"} /\ op' = [op EXCEPT ![u] = "granting"] /\ at[u] = "idle"
      /\ u \in Ssh => op[u] = "read"
      /\ crossed' = crossed \cup todo[u] \cup (IF u \in Ssh /\ Unsettled(Inst[u]) THEN {u} ELSE {})
      /\ UNCHANGED <<row, due, at, kind, todo, closing, answered, grant, overlap>>
  BY <1>1 DEF Allocate, closeVars, RowsInv, Failing
<1>3. /\ u \in Ssh => Post(Inst[u], GrantOf(u))
      /\ u \notin Ssh => UNCHANGED <<wire, held>>
  BY DEF Allocate, GrantOf
<1>4. Tellers /\ Asked /\ StandingMeets
  BY DEF GrantInv
<1>5. Tellers'
  BY <1>1, <1>2, <1>4 DEF Tellers
<1>6. u \in Ssh => GrantOf(u) \in SshCommand
  BY DEF GrantOf, SshCommand
<1>7. \A s \in Ssh : s # u => GrantOf(s) # GrantOf(u)
  BY DEF GrantOf
<1>8. Asked'
  <2>1. ASSUME NEW s \in Ssh, NEW i \in Instances,
               i # Inst[s] \/ op'[s] \in {"idle", "checked", "read"}
        PROVE  Lacks(wire'[i], s) /\ Lacks(held'[i], s)
    <3>1. s # u \/ i # Inst[s]
      BY <1>1, <1>2, <2>1
    <3>2. Lacks(wire[i], s) /\ Lacks(held[i], s)
      BY <1>1, <1>2, <1>4, <2>1 DEF Asked
    <3>3. CASE u \in Ssh /\ Inst[u] = i
      <4>1. Lacks(Append(wire[i], GrantOf(u)), s) /\ Lacks(Append(held[i], GrantOf(u)), s)
        BY <1>1, <1>6, <1>7, <3>1, <3>2, <3>3, Appends
      <4>2. QED
        BY <1>1, <1>3, <3>2, <3>3, <4>1 DEF Post
    <3>4. CASE ~(u \in Ssh /\ Inst[u] = i)
      BY <1>1, <1>3, <3>2, <3>4 DEF Post
    <3>5. QED
      BY <3>3, <3>4
  <2>2. \A s \in Ssh : /\ op'[s] \in {"idle", "checked", "read"} => s \notin answered
                       /\ op'[s] = "granted" \/ row[s] # "none" => s \in answered
    BY <1>1, <1>2, <1>4 DEF Asked, RowsInv, Stages, Opening
  <2>3. QED
    BY <1>2, <2>1, <2>2 DEF Asked
<1>9. ASSUME NEW s \in Ssh, Standing(s)'
      PROVE  Unopposed(s)' /\ Unclosed(s)' /\ Reaches(s)'
  <2>1. /\ \A t \in Ssh : ~Beside(s, t) /\ ~Beside(t, s)
        /\ s \notin crossed /\ s \notin todo[u]
    BY <1>2, <1>9 DEF Standing, Beside
  <2>2. CASE u = s
    <3>1. /\ held[Inst[s]] = <<>>
          /\ \A q \in Tasks : \A t \in (todo[q] \cup closing[q]) \cap Ssh :
               ~(Inst[t] = Inst[s] /\ kind[q] = "operator")
          /\ \A t \in Ssh : Inst[t] = Inst[s] => op[t] \notin {"inserted", "failing"}
      BY <1>2, <1>9, <2>2 DEF Standing, Unsettled
    <3>2. Unopposed(s)'
      <4>1. SUFFICES ASSUME NEW t \in Ssh \ {s}, Inst[t] = Inst[s]
                     PROVE  op[t] \notin {"granting", "granted", "inserted", "failing"}
        BY <1>1, <1>2, <2>2 DEF Unopposed
      <4>2. HasRead(s) /\ t \in Rivals(s)
        BY <1>2, <2>1, <2>2, <4>1 DEF HasRead, Rivals
      <4>3. ~HasRead(t)
        BY <4>2 DEF ShareInv, ReadersMeet
      <4>4. QED
        BY <3>1, <4>1, <4>3 DEF HasRead
    <3>3. Unclosed(s)'
      BY <1>2, <3>1 DEF Unclosed
    <3>4. Reaches(s)'
      <4>1. s \notin answered /\ Lacks(wire[Inst[s]], s) /\ Lacks(held[Inst[s]], s)
        BY <1>1, <1>2, <1>4, <2>2 DEF Asked
      <4>2. /\ EndsWith(Append(wire[Inst[s]], GrantOf(s)), s)
            /\ EndsWith(Append(held[Inst[s]], GrantOf(s)), s)
        BY <1>1, <1>6, <2>2, <4>1, Appends
      <4>3. LastTold(wire'[Inst[s]], held'[Inst[s]], s)
        BY <1>1, <1>3, <2>2, <3>1, <4>2 DEF Post, LastTold
      <4>4. QED
        BY <1>2, <4>1, <4>3 DEF Reaches
    <3>5. QED
      BY <3>2, <3>3, <3>4
  <2>3. CASE u # s
    <3>1. op[s] \in {"granting", "granted"} \/ row[s] = "open"
      BY <1>1, <1>2, <1>9, <2>3 DEF Standing
    <3>2. Unopposed(s) /\ Unclosed(s) /\ Reaches(s)
      BY <1>4, <2>1, <3>1 DEF StandingMeets, Standing
    <3>3. u \in Ssh => Inst[u] # Inst[s]
      <4>1. SUFFICES ASSUME u \in Ssh, Inst[u] = Inst[s] PROVE FALSE
        OBVIOUS
      <4>2. HasRead(u) /\ u \in Rivals(s) /\ s \in Rivals(u)
        BY <1>2, <2>1, <2>3, <4>1 DEF HasRead, Rivals
      <4>3. ~HasRead(s) /\ (row[s] = "open" => s \in todo[u] \/ at[u] = "stopped")
        BY <4>1, <4>2 DEF ShareInv, ReadersMeet
      <4>4. QED
        BY <1>2, <2>1, <3>1, <4>3 DEF HasRead
    <3>4. wire'[Inst[s]] = wire[Inst[s]] /\ held'[Inst[s]] = held[Inst[s]]
      BY <1>1, <1>3, <3>3 DEF Post
    <3>5. Unopposed(s)'
      BY <1>1, <1>2, <3>2, <3>3 DEF Unopposed
    <3>6. Unclosed(s)' /\ Reaches(s)'
      BY <1>2, <3>2, <3>4 DEF Unclosed, Reaches
    <3>7. QED
      BY <3>5, <3>6
  <2>4. QED
    BY <2>2, <2>3
<1>10. QED
  BY <1>5, <1>8, <1>9 DEF GrantInv, StandingMeets

LEMMA OpensKeepGrant ==
  ASSUME SupportTyped, RowsInv, ShareInv, GrantInv, NEW u \in Sessions, OpenStep(u)
  PROVE  GrantInv'
<1>1. /\ Ssh \subseteq Sessions /\ Sessions \subseteq Procs /\ op \in [Sessions -> Openings]
      /\ Tasks \subseteq Procs /\ \A q \in Tasks : q # u
      /\ row \in [Sessions -> Statuses]
      /\ at \in [Procs -> {"idle", "read", "stopped", "committed", "ended"}]
      /\ todo \in [Procs -> SUBSET Sessions] /\ closing \in [Procs -> SUBSET Sessions]
  BY Known DEF SupportTyped
<1>2. Tellers /\ Asked /\ StandingMeets
  BY DEF GrantInv
<1>3. CASE Allocate(u)
  BY <1>3, AllocatesKeepGrant
<1>4. CASE ~Allocate(u)
  <2>1. /\ UNCHANGED <<agentVars, due, kind, closing, crossed>> /\ overlap \subseteq overlap'
        /\ \A x \in Procs \ {u} : at'[x] = at[x] /\ todo'[x] = todo[x]
        /\ \A x \in Sessions \ {u} : op'[x] = op[x] /\ row'[x] = row[x]
    BY <1>1, <1>4 DEF OpenStep, Check, ReadPrevious, Granted, OpenFails, Insert, Bind, BindFails,
                      Registered, rowVars, closeVars, history
  <2>2. /\ op'[u] \in {"idle", "checked", "read"} => op[u] \in {"idle", "checked", "read"}
        /\ op'[u] \in {"granting", "granted", "inserted", "failing"} =>
             op[u] \in {"granting", "granted", "inserted"}
        /\ row'[u] # "none" => row[u] # "none" \/ op[u] = "granted"
        /\ op[u] # "failing"
    BY <1>1, <1>4 DEF OpenStep, Check, ReadPrevious, Granted, OpenFails, Insert, Bind, BindFails,
                      Registered, rowVars
  <2>3. u \in Ssh /\ op'[u] = "granted" => u \in answered
    BY <1>1, <1>4 DEF OpenStep, Check, ReadPrevious, Granted, OpenFails, Insert, Bind, BindFails,
                      Registered
  <2>4. op'[u] \in {"granting", "granted"} \/ row'[u] = "open" =>
          op[u] \in {"granting", "granted"} \/ row[u] = "open"
    BY <1>1, <1>4 DEF OpenStep, Check, ReadPrevious, Granted, OpenFails, Insert, Bind, BindFails,
                      Registered, rowVars
  <2>5. at'[u] # "committed"
    <3>1. at[u] # "committed"
      BY <1>1, <1>2, <2>2 DEF Tellers
    <3>2. QED
      BY <1>1, <1>4, <3>1 DEF OpenStep, Check, ReadPrevious, Granted, OpenFails, Insert, Bind,
                              BindFails, Registered, closeVars
  <2>6. Tellers'
    <3>1. Expiry # u /\ Expiry \in Procs
      BY Known
    <3>2. QED
      BY <1>1, <1>2, <2>1, <2>5, <3>1 DEF Tellers
  <2>7. Asked'
    BY <1>1, <1>2, <2>1, <2>2, <2>3 DEF Asked, agentVars
  <2>8. ASSUME NEW s \in Ssh, Standing(s)'
        PROVE  Unopposed(s)' /\ Unclosed(s)' /\ Reaches(s)'
    <3>1. op[s] \in {"granting", "granted"} \/ row[s] = "open"
      BY <1>1, <2>1, <2>4, <2>8 DEF Standing
    <3>2. Standing(s)
      BY <2>1, <2>8, <3>1 DEF Standing, Beside
    <3>3. Unopposed(s) /\ Unclosed(s) /\ Reaches(s)
      BY <1>2, <3>2 DEF StandingMeets
    <3>4. Unopposed(s)'
      BY <1>1, <2>1, <2>2, <3>3 DEF Unopposed
    <3>5. Unclosed(s)' /\ Reaches(s)'
      BY <1>1, <2>1, <3>3 DEF Unclosed, Reaches, agentVars
    <3>6. QED
      BY <3>4, <3>5
  <2>9. QED
    BY <2>6, <2>7, <2>8 DEF GrantInv, StandingMeets
<1>5. QED
  BY <1>3, <1>4

\* A closer that changes nothing of the agents keeps the part, when only tellers
\* commit and it closes no more than it had read.
LEMMA ClosesFrame ==
  ASSUME SupportTyped, GrantInv, Tellers', NEW p \in Procs,
         UNCHANGED <<agentVars, due, kind, crossed, overlap>>,
         \A x \in Sessions : op'[x] = op[x] \/ op'[x] = "ended",
         \A x \in Sessions : /\ row'[x] = "open" => row[x] = "open"
                             /\ row'[x] # "none" => row[x] # "none",
         \A q \in Procs : todo'[q] \cup closing'[q] \subseteq todo[q] \cup closing[q]
  PROVE  GrantInv'
<1>1. /\ Ssh \subseteq Sessions /\ Sessions \subseteq Procs /\ Tasks \subseteq Procs
  BY Known
<1>2. Asked /\ StandingMeets
  BY DEF GrantInv
<1>3. Asked'
  BY <1>1, <1>2 DEF Asked, agentVars
<1>4. ASSUME NEW s \in Ssh, Standing(s)'
      PROVE  Unopposed(s)' /\ Unclosed(s)' /\ Reaches(s)'
  <2>1. Standing(s)
    BY <1>1, <1>4 DEF Standing, Beside
  <2>2. Unopposed(s) /\ Unclosed(s) /\ Reaches(s)
    BY <1>2, <2>1 DEF StandingMeets
  <2>3. Unopposed(s)'
    BY <1>1, <2>2 DEF Unopposed
  <2>4. Unclosed(s)' /\ Reaches(s)'
    BY <1>1, <2>2 DEF Unclosed, Reaches, agentVars
  <2>5. QED
    BY <2>3, <2>4
<1>5. QED
  BY <1>3, <1>4 DEF GrantInv, StandingMeets

LEMMA StopsKeepGrant ==
  ASSUME SupportTyped, RowsInv, GrantInv, NEW p \in Procs, Stop(p)
  PROVE  GrantInv'
<1>1. /\ at \in [Procs -> {"idle", "read", "stopped", "committed", "ended"}]
      /\ todo \in [Procs -> SUBSET Sessions] /\ closing \in [Procs -> SUBSET Sessions]
      /\ Expiry \in Procs /\ Tasks \subseteq Procs
  BY Known DEF SupportTyped
<1>2. PICK S \in Parts(p) :
        /\ todo' = [todo EXCEPT ![p] = @ \ S] /\ closing' = [closing EXCEPT ![p] = S]
        /\ at[p] = "read" /\ at' = [at EXCEPT ![p] = "stopped"]
        /\ UNCHANGED <<row, due, op, kind, agentVars, crossed, overlap>>
  BY DEF Stop, rowVars
<1>3. S \subseteq todo[p]
  BY <1>2 DEF Parts
<1>4. \A q \in Procs : todo'[q] \cup closing'[q] \subseteq todo[q] \cup closing[q]
  BY <1>1, <1>2, <1>3
<1>5. Tellers'
  BY <1>1, <1>2 DEF GrantInv, Tellers
<1>6. QED
  BY <1>2, <1>4, <1>5, ClosesFrame

LEMMA CommitsKeepGrant ==
  ASSUME SupportTyped, RowsInv, GrantInv, NEW p \in Procs, Commit(p)
  PROVE  GrantInv'
<1>1. /\ at \in [Procs -> {"idle", "read", "stopped", "committed", "ended"}]
      /\ op \in [Sessions -> Openings] /\ kind \in [Procs -> Kinds] /\ row \in [Sessions -> Statuses]
      /\ todo \in [Procs -> SUBSET Sessions] /\ closing \in [Procs -> SUBSET Sessions]
      /\ Expiry \in Procs /\ Tasks \subseteq Procs /\ Sessions \subseteq Procs
      /\ Expiry \notin Tasks \cup Sessions /\ Tasks \cap Sessions = {}
      /\ Procs = Sessions \cup Tasks \cup {Expiry}
  BY Known DEF SupportTyped, Procs
<1>2. /\ at[p] = "stopped" /\ UNCHANGED <<due, kind, todo, agentVars, crossed, overlap>>
      /\ row' = [x \in Sessions |-> IF x \in closing[p] THEN Verdict(p) ELSE row[x]]
      /\ \/ Tells(p) /\ at' = [at EXCEPT ![p] = "committed"] /\ UNCHANGED <<op, closing>>
         \/ NextClose(p)
  BY DEF Commit, history
<1>3. Verdict(p) # "open" /\ \A x \in closing[p] : row[x] # "none"
  BY DEF Verdict, RowsInv, Closers
<1>4. \A x \in Sessions : /\ row'[x] = "open" => row[x] = "open"
                          /\ row'[x] # "none" => row[x] # "none"
  BY <1>2, <1>3
<1>5. /\ \A x \in Sessions : op'[x] = op[x] \/ op'[x] = "ended"
      /\ \A x \in Sessions \ {p} : op'[x] = op[x]
      /\ \A q \in Procs : closing'[q] \subseteq closing[q]
      /\ \A q \in Procs \ {p} : at'[q] = at[q]
      /\ at'[p] = "committed" => Tells(p) /\ op' = op
  BY <1>1, <1>2 DEF NextClose
<1>6. Tells(p) => \/ p \in Tasks /\ kind[p] = "operator"
                  \/ p \in Sessions /\ op[p] = "failing"
  <2>1. kind[Expiry] = "expiry" /\ (p \in Tasks => kind[p] # "none")
    BY <1>2 DEF GrantInv, Tellers
  <2>2. p \notin Sessions => kind[p] \in {"operator", "event", "revoke", "expiry"}
    BY <1>1, <2>1 DEF Kinds
  <2>3. CASE p \in Sessions
    BY <2>3 DEF Tells, Verdict
  <2>4. CASE p \notin Sessions
    BY <1>1, <2>1, <2>2, <2>4 DEF Tells, Verdict
  <2>5. QED
    BY <2>3, <2>4
<1>7. Tellers'
  <2>1. \A q \in Tasks : at'[q] # "idle" => kind[q] # "none"
    BY <1>1, <1>2, <1>5 DEF GrantInv, Tellers
  <2>2. \A q \in Procs : at'[q] = "committed" => \/ q \in Tasks /\ kind[q] = "operator"
                                                 \/ q \in Sessions /\ op'[q] = "failing"
    BY <1>1, <1>5, <1>6 DEF GrantInv, Tellers
  <2>3. QED
    BY <1>2, <2>1, <2>2 DEF GrantInv, Tellers
<1>8. \A q \in Procs : todo'[q] \cup closing'[q] \subseteq todo[q] \cup closing[q]
  BY <1>2, <1>5
<1>9. QED
  BY <1>2, <1>4, <1>5, <1>7, <1>8, ClosesFrame

LEMMA TellsKeepGrant ==
  ASSUME SupportTyped, RowsInv, GrantInv, NEW p \in Procs, Tell(p)
  PROVE  GrantInv'
<1>1. /\ at \in [Procs -> {"idle", "read", "stopped", "committed", "ended"}]
      /\ op \in [Sessions -> Openings]
      /\ closing \in [Procs -> SUBSET Sessions]
      /\ Expiry \in Procs /\ Tasks \subseteq Procs /\ Sessions \subseteq Procs /\ Ssh \subseteq Sessions
      /\ Expiry \notin Tasks \cup Sessions /\ Tasks \cap Sessions = {}
      /\ \A s \in Ssh : Inst[s] \in Instances
      /\ wire \in [Instances -> Seq(SshCommand)] /\ held \in [Instances -> Seq(SshCommand)]
  BY Known DEF SupportTyped
<1>2. Tellers /\ Asked /\ StandingMeets
  BY DEF GrantInv
<1>3. /\ at[p] = "committed" /\ closing[p] \subseteq Ssh
      /\ UNCHANGED <<row, due, kind, todo, answered, grant, overlap, crossed>>
      /\ closing' = [closing EXCEPT ![p] = {}]
  BY DEF Tell, SupportTyped, rowVars, history, NextClose
<1>4. /\ \A x \in Sessions : op'[x] = op[x] \/ op'[x] = "ended"
      /\ \A x \in Sessions \ {p} : op'[x] = op[x]
      /\ \A q \in Procs \ {p} : at'[q] = at[q]
      /\ at'[p] # "committed" /\ (p \notin Tasks \/ at'[p] # "idle")
  BY <1>1 DEF Tell, NextClose
<1>5. PICK x \in closing[p] : Post(Inst[x], [name |-> "revoke", of |-> x])
  BY DEF Tell
<1>6. /\ x \in Ssh /\ x \in Sessions /\ row[x] # "open" /\ row[x] # "none"
      /\ op[x] \notin {"granting", "granted"}
      /\ p \in Sessions => x = p
  <2>1. row[x] # "open" /\ row[x] # "none"
    BY <1>3, <1>5 DEF RowsInv, Closers
  <2>2. op[x] \notin {"granting", "granted"}
    BY <1>1, <1>3, <1>5, <2>1 DEF RowsInv, Stages, Opening
  <2>3. p \in Sessions => op[p] = "failing" /\ closing[p] = {p}
    BY <1>1, <1>2, <1>3 DEF Tellers, RowsInv, Failing
  <2>4. QED
    BY <1>1, <1>3, <1>5, <2>1, <2>2, <2>3
<1>7. Tellers'
  BY <1>1, <1>2, <1>3, <1>4 DEF Tellers
<1>8. Asked'
  <2>1. [name |-> "revoke", of |-> x] \in SshCommand
        /\ \A s : [name |-> "revoke", of |-> x] # GrantOf(s)
    BY <1>6 DEF SshCommand, GrantOf
  <2>2. \A s \in Ssh, i \in Instances : /\ Lacks(wire[i], s) => Lacks(wire'[i], s)
                                        /\ Lacks(held[i], s) => Lacks(held'[i], s)
    <3>1. SUFFICES ASSUME NEW s \in Ssh, NEW i \in Instances
                   PROVE  /\ Lacks(wire[i], s) => Lacks(wire'[i], s)
                          /\ Lacks(held[i], s) => Lacks(held'[i], s)
      OBVIOUS
    <3>2. wire[i] \in Seq(SshCommand) /\ held[i] \in Seq(SshCommand)
      BY <1>1
    <3> DEFINE c == [name |-> "revoke", of |-> x]
    <3>3. /\ Lacks(wire[i], s) => Lacks(Append(wire[i], c), s)
          /\ Lacks(held[i], s) => Lacks(Append(held[i], c), s)
      <4>1. c \in SshCommand /\ c # GrantOf(s)
        BY <2>1
      <4> HIDE DEF c
      <4>2. QED
        BY <3>2, <4>1, Appends
    <3>4. /\ wire'[i] \in {wire[i], Append(wire[i], c)}
          /\ held'[i] \in {held[i], Append(held[i], c)}
      BY <1>1, <1>5, <1>6 DEF Post
    <3> HIDE DEF c
    <3>5. QED
      BY <3>3, <3>4
  <2>3. QED
    BY <1>1, <1>2, <1>3, <1>4, <2>2 DEF Asked
<1>9. ASSUME NEW s \in Ssh, Standing(s)'
      PROVE  Unopposed(s)' /\ Unclosed(s)' /\ Reaches(s)'
  <2>1. Standing(s)
    BY <1>1, <1>3, <1>4, <1>9 DEF Standing, Beside
  <2>2. Unopposed(s) /\ Unclosed(s) /\ Reaches(s)
    BY <1>2, <2>1 DEF StandingMeets
  <2>3. Inst[x] # Inst[s]
    <3>1. SUFFICES ASSUME Inst[x] = Inst[s] PROVE FALSE
      OBVIOUS
    <3>2. x # s
      BY <1>6, <2>1 DEF Standing
    <3>3. CASE p \in Tasks /\ kind[p] = "operator"
      BY <1>5, <1>6, <2>2, <3>1, <3>2, <3>3 DEF Unclosed
    <3>4. CASE p \in Sessions /\ op[p] = "failing"
      BY <1>6, <2>2, <3>1, <3>2, <3>4 DEF Unopposed
    <3>5. QED
      BY <1>2, <1>3, <3>3, <3>4 DEF Tellers
  <2>4. wire'[Inst[s]] = wire[Inst[s]] /\ held'[Inst[s]] = held[Inst[s]]
    BY <1>1, <1>5, <1>6, <2>3 DEF Post
  <2>5. Unopposed(s)'
    BY <1>1, <1>4, <2>2 DEF Unopposed
  <2>6. Unclosed(s)' /\ Reaches(s)'
    BY <1>1, <1>3, <2>2, <2>4 DEF Unclosed, Reaches
  <2>7. QED
    BY <2>5, <2>6
<1>10. QED
  BY <1>7, <1>8, <1>9 DEF GrantInv, StandingMeets

LEMMA FailsKeepGrant ==
  ASSUME SupportTyped, GrantInv, NEW p \in Procs, CloseFails(p)
  PROVE  GrantInv'
<1>1. /\ at \in [Procs -> {"idle", "read", "stopped", "committed", "ended"}]
      /\ todo \in [Procs -> SUBSET Sessions] /\ closing \in [Procs -> SUBSET Sessions]
      /\ Tasks \subseteq Procs
  BY Known DEF SupportTyped
<1>2. /\ UNCHANGED <<row, due, kind, agentVars, crossed, overlap>>
      /\ at[p] # "idle" /\ at'[p] # "committed"
      /\ \A x \in Sessions : op'[x] = IF x = p THEN "ended" ELSE op[x]
      /\ \A x \in Procs \ {p} : at'[x] = at[x]
      /\ \A x \in Procs : todo'[x] \cup closing'[x] \subseteq todo[x] \cup closing[x]
  BY <1>1 DEF CloseFails, rowVars, history
<1>3. Tellers'
  BY <1>1, <1>2 DEF GrantInv, Tellers
<1>4. QED
  BY <1>2, <1>3, ClosesFrame

LEMMA ReadsKeepGrant ==
  ASSUME SupportTyped, RowsInv, ShareInv, GrantInv,
         NEW q \in Tasks \cup {Expiry}, NEW S \in SUBSET OpenRows, NEW k \in Kinds \ {"none"},
         Reads(q, S, k), q = Expiry => k = "expiry", crossed \subseteq crossed',
         k = "operator" => \E t \in OpenRows :
           S = {t} /\ (t \in Ssh => Granting(Inst[t]) \subseteq crossed')
  PROVE  GrantInv'
<1>1. /\ Ssh \subseteq Sessions /\ Sessions \subseteq Procs /\ q \in Procs /\ q \notin Sessions
      /\ Expiry \in Procs /\ Tasks \subseteq Procs /\ OpenRows \subseteq Sessions
      /\ at \in [Procs -> {"idle", "read", "stopped", "committed", "ended"}]
      /\ todo \in [Procs -> SUBSET Sessions] /\ kind \in [Procs -> Kinds]
  BY Known DEF SupportTyped, OpenRows
<1>2. /\ UNCHANGED <<row, due, op, closing, wire, held, answered, grant, overlap>>
      /\ at[q] = "idle" /\ closing[q] = {}
      /\ at'[q] # "committed" /\ todo'[q] = S /\ kind'[q] = k
      /\ \A p \in Procs \ {q} : at'[p] = at[p] /\ todo'[p] = todo[p] /\ kind'[p] = kind[p]
  BY <1>1 DEF Reads, rowVars, RowsInv, Closers
<1>3. Tellers /\ Asked /\ StandingMeets
  BY DEF GrantInv
<1>4. Tellers'
  <2>1. kind'[Expiry] = "expiry"
    BY <1>1, <1>2, <1>3 DEF Tellers
  <2>2. \A x \in Tasks : at'[x] # "idle" => kind'[x] # "none"
    BY <1>1, <1>2, <1>3 DEF Tellers
  <2>3. \A p \in Procs : at'[p] = "committed" => \/ p \in Tasks /\ kind'[p] = "operator"
                                                 \/ p \in Sessions /\ op'[p] = "failing"
    BY <1>1, <1>2, <1>3 DEF Tellers
  <2>4. QED
    BY <2>1, <2>2, <2>3 DEF Tellers
<1>5. Asked'
  BY <1>2, <1>3 DEF Asked
<1>6. ASSUME NEW s \in Ssh, Standing(s)'
      PROVE  Unopposed(s)' /\ Unclosed(s)' /\ Reaches(s)'
  <2>1. Standing(s)
    BY <1>2, <1>6 DEF Standing, Beside
  <2>2. Unopposed(s) /\ Unclosed(s) /\ Reaches(s)
    BY <1>3, <2>1 DEF StandingMeets
  <2>3. Unopposed(s)' /\ Reaches(s)'
    BY <1>2, <2>2 DEF Unopposed, Reaches
  <2>4. k = "operator" => \A t \in S \cap Ssh : Inst[t] = Inst[s] => t = s
    <3>1. SUFFICES ASSUME k = "operator", NEW t \in S \cap Ssh, Inst[t] = Inst[s], t # s
                   PROVE  FALSE
      OBVIOUS
    <3>2. t \in OpenRows /\ Granting(Inst[s]) \subseteq crossed'
      BY <3>1
    <3>3. op[s] \notin {"granting", "granted"}
      BY <1>2, <1>6, <3>2 DEF Standing, Granting
    <3>4. s \in OpenRows
      BY <1>1, <2>1, <3>3 DEF Standing, OpenRows
    <3>5. Beside(s, t)
      BY <3>1, <3>2, <3>4 DEF ShareInv, SharedOnlyOverlapping, Beside
    <3>6. QED
      BY <2>1, <3>1, <3>5 DEF Standing
  <2>5. Unclosed(s)'
    <3>1. SUFFICES ASSUME NEW x \in Tasks, kind'[x] = "operator",
                          NEW t \in (todo'[x] \cup closing[x]) \cap Ssh, Inst[t] = Inst[s]
                   PROVE  t = s
      BY <1>2 DEF Unclosed
    <3>2. CASE x = q
      BY <1>2, <2>4, <3>1, <3>2
    <3>3. CASE x # q
      BY <1>1, <1>2, <2>2, <3>1, <3>3 DEF Unclosed
    <3>4. QED
      BY <3>2, <3>3
  <2>6. QED
    BY <2>3, <2>5
<1>7. QED
  BY <1>4, <1>5, <1>6 DEF GrantInv, StandingMeets

LEMMA ReadersKeepGrant ==
  ASSUME SupportTyped, RowsInv, ShareInv, GrantInv,
         \/ \E q \in Tasks : OperatorReads(q) \/ EventReads(q) \/ RevokeReads(q)
         \/ ExpiryReads
  PROVE  GrantInv'
<1>1. /\ {"operator", "event", "revoke", "expiry"} \subseteq Kinds \ {"none"}
      /\ Overdue \subseteq OpenRows /\ \A i : OpenOf(i) \subseteq OpenRows
      /\ \A q \in Tasks : q # Expiry
  BY Known DEF Kinds, Overdue, OpenOf
<1>2. ASSUME NEW q \in Tasks, OperatorReads(q) PROVE GrantInv'
  <2>1. PICK t \in OpenRows : /\ Reads(q, {t}, "operator")
                              /\ crossed' = crossed \cup IF t \in Ssh THEN Granting(Inst[t]) ELSE {}
    BY <1>2 DEF OperatorReads
  <2>2. t \in Ssh => Granting(Inst[t]) \subseteq crossed'
    BY <2>1
  <2>3. {t} \in SUBSET OpenRows /\ crossed \subseteq crossed'
    BY <2>1
  <2>4. QED
    BY <1>1, <2>1, <2>2, <2>3, ReadsKeepGrant
<1>3. ASSUME NEW q \in Tasks, EventReads(q) PROVE GrantInv'
  <2>1. \E S \in SUBSET OpenRows : Reads(q, S, "event")
    BY <1>1, <1>3 DEF EventReads
  <2>2. crossed \subseteq crossed'
    BY <1>3 DEF EventReads
  <2>3. QED
    BY <1>1, <2>1, <2>2, ReadsKeepGrant
<1>4. ASSUME NEW q \in Tasks, RevokeReads(q) PROVE GrantInv'
  <2>1. \E S \in SUBSET OpenRows : Reads(q, S, "revoke")
    BY <1>1, <1>4 DEF RevokeReads
  <2>2. crossed \subseteq crossed'
    BY <1>4 DEF RevokeReads
  <2>3. QED
    BY <1>1, <2>1, <2>2, ReadsKeepGrant
<1>5. ASSUME ExpiryReads PROVE GrantInv'
  <2>1. Reads(Expiry, Overdue, "expiry") /\ crossed \subseteq crossed'
    BY <1>5 DEF ExpiryReads
  <2>2. QED
    BY <1>1, <2>1, ReadsKeepGrant
<1>6. QED
  BY <1>2, <1>3, <1>4, <1>5

LEMMA AgentsKeepGrant ==
  ASSUME SupportTyped, RowsInv, GrantInv, NEW i \in Instances, AgentStep(i)
  PROVE  GrantInv'
<1>1. /\ Ssh \subseteq Sessions /\ \A s \in Ssh : Inst[s] \in Instances
      /\ wire \in [Instances -> Seq(SshCommand)] /\ held \in [Instances -> Seq(SshCommand)]
      /\ grant \in [Instances -> Ssh \cup {NoSession}]
      /\ wire[i] \in Seq(SshCommand) /\ held[i] \in Seq(SshCommand)
  BY Known DEF SupportTyped
<1>2. Tellers /\ Asked /\ StandingMeets
  BY DEF GrantInv
<1>3. UNCHANGED <<row, due, op, at, kind, todo, closing, overlap, crossed>>
  BY DEF AgentStep, AgentRuns, AgentExpires, LoseLink, Resend, rowVars, closeVars, history
<1>4. /\ \A j \in Instances \ {i} : wire'[j] = wire[j] /\ held'[j] = held[j] /\ grant'[j] = grant[j]
  BY <1>1 DEF AgentStep, AgentRuns, AgentExpires, LoseLink, Resend
<1>5. Tellers'
  BY <1>2, <1>3 DEF Tellers
<1>6. \A s \in Ssh : Lacks(wire[i], s) /\ Lacks(held[i], s) =>
        Lacks(wire'[i], s) /\ Lacks(held'[i], s)
  <2>1. SUFFICES ASSUME NEW s \in Ssh, Lacks(wire[i], s), Lacks(held[i], s)
                 PROVE  Lacks(wire'[i], s) /\ Lacks(held'[i], s)
    OBVIOUS
  <2>2. /\ Lacks(<<>>, s) /\ Lacks(held[i] \o wire[i], s) /\ Lacks(wire[i] \o held[i], s)
    <3>1. \A c \in SshCommand, w, v \in Seq(SshCommand) :
            Lacks(w, s) /\ Lacks(v, s) => Lacks(w \o v, s)
      BY Appends
    <3>2. GrantOf(s) \in SshCommand
      BY DEF GrantOf, SshCommand
    <3>3. QED
      BY <1>1, <2>1, <3>1, <3>2, Queues
  <2>3. wire[i] # <<>> => Lacks(Tail(wire[i]), s)
    BY <1>1, <2>1, Queues
  <2>4. QED
    BY <1>1, <2>1, <2>2, <2>3 DEF AgentStep, AgentRuns, AgentExpires, LoseLink, Resend
<1>7. ASSUME NEW s \in Ssh, s \in answered', s \notin answered
      PROVE  wire[i] # <<>> /\ Head(wire[i]) = GrantOf(s) /\ ~Lacks(wire[i], s)
  <2>1. wire[i] # <<>> /\ Head(wire[i]).name = "grant" /\ Head(wire[i]).of = s
    BY <1>1, <1>7 DEF AgentStep, AgentRuns, AgentExpires, LoseLink, Resend
  <2>2. Head(wire[i]) \in SshCommand
    BY <1>1, <2>1, Sequences
  <2>3. Head(wire[i]) = GrantOf(s)
    BY <2>1, <2>2 DEF SshCommand, GrantOf
  <2>4. Lacks(wire[i], s) => Head(wire[i]) # GrantOf(s)
    BY <1>1, <2>1, Queues
  <2>5. QED
    BY <2>1, <2>3, <2>4
<1>8. Asked'
  <2>1. ASSUME NEW s \in Ssh, NEW j \in Instances, Lacks(wire[j], s), Lacks(held[j], s)
        PROVE  Lacks(wire'[j], s) /\ Lacks(held'[j], s)
    BY <1>4, <1>6, <2>1
  <2>2. ASSUME NEW s \in Ssh, op[s] \in {"idle", "checked", "read"} PROVE s \notin answered'
    BY <1>2, <1>7, <2>2 DEF Asked
  <2>3. answered \subseteq answered'
    BY DEF AgentStep, AgentRuns, AgentExpires, LoseLink, Resend
  <2>4. QED
    BY <1>2, <1>3, <2>1, <2>2, <2>3 DEF Asked
<1>9. ASSUME NEW s \in Ssh, Standing(s)'
      PROVE  Unopposed(s)' /\ Unclosed(s)' /\ Reaches(s)'
  <2>1. Standing(s)
    BY <1>3, <1>9 DEF Standing, Beside
  <2>2. Unopposed(s) /\ Unclosed(s) /\ Reaches(s)
    BY <1>2, <2>1 DEF StandingMeets
  <2>3. Unopposed(s)' /\ Unclosed(s)'
    BY <1>3, <2>2 DEF Unopposed, Unclosed
  <2>4. CASE Inst[s] # i
    <3>1. s \in answered' <=> s \in answered
      <4>1. Lacks(wire[i], s)
        BY <1>2, <2>4 DEF Asked
      <4>2. answered \subseteq answered'
        BY DEF AgentStep, AgentRuns, AgentExpires, LoseLink, Resend
      <4>3. QED
        BY <1>7, <4>1, <4>2
    <3>2. QED
      BY <1>1, <1>3, <1>4, <2>2, <2>3, <2>4, <3>1 DEF Reaches
  <2>5. CASE Inst[s] = i /\ s \in answered
    <3>1. wire[i] = <<>> /\ held[i] = <<>> /\ (grant[i] = s \/ s \in due)
      BY <2>2, <2>5 DEF Reaches
    <3>2. AgentExpires(i)
      BY <3>1 DEF AgentStep, AgentRuns, LoseLink, Resend
    <3>3. /\ UNCHANGED <<wire, held, answered>> /\ grant[i] \in due
      BY <3>2 DEF AgentExpires
    <3>4. QED
      BY <1>3, <2>3, <2>5, <3>1, <3>3 DEF Reaches
  <2>6. CASE Inst[s] = i /\ s \notin answered
    <3>1. LastTold(wire[i], held[i], s)
      BY <2>2, <2>6 DEF Reaches
    <3>2. CASE AgentRuns(i)
      <4>1. wire[i] # <<>> /\ held[i] = <<>> /\ EndsWith(wire[i], s)
        BY <3>1, <3>2 DEF AgentRuns, LastTold
      <4>2. /\ wire'[i] = Tail(wire[i]) /\ held'[i] = <<>>
            /\ Head(wire[i]) = GrantOf(s) => s \in answered' /\ grant'[i] = s
        <5>1. wire'[i] = Tail(wire[i]) /\ held'[i] = <<>>
          BY <1>1, <3>2, <4>1 DEF AgentRuns
        <5>2. Head(wire[i]) = GrantOf(s) => Head(wire[i]).name = "grant" /\ Head(wire[i]).of = s
          BY DEF GrantOf
        <5>3. Head(wire[i]) = GrantOf(s) => s \in answered' /\ grant'[i] = s
          BY <1>1, <3>2, <5>2 DEF AgentRuns
        <5>4. QED
          BY <5>1, <5>3
      <4>3. CASE Head(wire[i]) = GrantOf(s)
        <5>1. Tail(wire[i]) = <<>>
          BY <1>1, <4>1, <4>3, Queues
        <5>2. QED
          BY <2>3, <2>6, <4>2, <4>3, <5>1 DEF Reaches
      <4>4. CASE Head(wire[i]) # GrantOf(s)
        <5>1. EndsWith(Tail(wire[i]), s)
          BY <1>1, <4>1, <4>4, Queues
        <5>2. s \notin answered'
          BY <1>7, <2>6, <4>4
        <5>3. QED
          BY <2>3, <2>6, <4>2, <5>1, <5>2 DEF Reaches, LastTold
      <4>5. QED
        BY <4>3, <4>4
    <3>3. CASE AgentExpires(i) \/ LoseLink(i) \/ Resend(i)
      <4>1. s \notin answered'
        BY <2>6, <3>3 DEF AgentExpires, LoseLink, Resend
      <4>2. LastTold(wire'[i], held'[i], s)
        <5>1. /\ wire[i] \o <<>> = wire[i] /\ <<>> \o wire[i] = wire[i]
              /\ held[i] \o <<>> = held[i] /\ <<>> \o held[i] = held[i]
          BY <1>1, Queues
        <5>2. QED
          BY <1>1, <3>1, <3>3, <5>1 DEF AgentExpires, LoseLink, Resend, LastTold
      <4>3. QED
        BY <2>3, <2>6, <4>1, <4>2 DEF Reaches
    <3>4. QED
      BY <3>2, <3>3 DEF AgentStep
  <2>7. QED
    BY <2>4, <2>5, <2>6
<1>10. QED
  BY <1>5, <1>8, <1>9 DEF GrantInv, StandingMeets

LEMMA RestartKeepsGrant ==
  ASSUME SupportTyped, RowsInv, GrantInv, Restart
  PROVE  GrantInv'
<1>1. /\ Ssh \subseteq Sessions /\ Sessions \subseteq Procs /\ Tasks \subseteq Procs
      /\ \A s \in Ssh : Inst[s] \in Instances
      /\ wire \in [Instances -> Seq(SshCommand)] /\ held \in [Instances -> Seq(SshCommand)]
  BY Known DEF SupportTyped
<1>2. Tellers /\ Asked /\ StandingMeets
  BY DEF GrantInv
<1>3. /\ \A s \in Sessions : op'[s] \in {"idle", "ended"} /\ (op'[s] = "idle" => op[s] = "idle")
      /\ \A p \in Procs : at'[p] = (IF p \in Tasks /\ at[p] # "idle" THEN "ended" ELSE "idle")
      /\ \A p \in Procs : todo'[p] = {} /\ closing'[p] = {}
      /\ \A s \in Sessions : /\ row'[s] = "open" => row[s] = "open"
                             /\ row'[s] # "none" => row[s] # "none"
      /\ \A i \in Instances : held'[i] = held[i] \o wire[i] /\ wire'[i] = <<>>
      /\ UNCHANGED <<due, kind, answered, grant, overlap, crossed>>
  BY DEF Restart, Overdue, OpenRows, history
<1>4. Tellers'
  BY <1>1, <1>2, <1>3 DEF Tellers
<1>5. Asked'
  <2>1. ASSUME NEW s \in Ssh, NEW i \in Instances, Lacks(wire[i], s), Lacks(held[i], s)
        PROVE  Lacks(held[i] \o wire[i], s) /\ Lacks(<<>>, s)
    <3>1. GrantOf(s) \in SshCommand
      BY DEF GrantOf, SshCommand
    <3>2. QED
      BY <1>1, <2>1, <3>1, Appends, Queues
  <2>2. ASSUME NEW s \in Ssh
        PROVE  /\ op'[s] \in {"idle", "checked", "read"} => op[s] \in {"idle", "checked", "read"}
               /\ op'[s] # "granted" /\ (row'[s] # "none" => row[s] # "none")
    BY <1>1, <1>3
  <2>3. ASSUME NEW s \in Ssh, NEW i \in Instances,
               i # Inst[s] \/ op[s] \in {"idle", "checked", "read"}
        PROVE  Lacks(wire'[i], s) /\ Lacks(held'[i], s)
    <3>1. Lacks(wire[i], s) /\ Lacks(held[i], s)
      BY <1>2, <2>3 DEF Asked
    <3>2. QED
      BY <1>3, <2>1, <3>1
  <2>4. QED
    BY <1>2, <1>3, <2>2, <2>3 DEF Asked
<1>6. ASSUME NEW s \in Ssh, Standing(s)'
      PROVE  Unopposed(s)' /\ Unclosed(s)' /\ Reaches(s)'
  <2>1. Standing(s) /\ row[s] = "open"
    BY <1>1, <1>3, <1>6 DEF Standing, Beside
  <2>2. s \in answered /\ Reaches(s)
    BY <1>2, <2>1 DEF Asked, StandingMeets
  <2>3. wire[Inst[s]] = <<>> /\ held[Inst[s]] = <<>> /\ (grant[Inst[s]] = s \/ s \in due)
    BY <2>2 DEF Reaches
  <2>4. <<>> \o <<>> = <<>>
    OBVIOUS
  <2>5. Reaches(s)'
    BY <1>1, <1>3, <2>2, <2>3, <2>4 DEF Reaches
  <2>6. Unopposed(s)' /\ Unclosed(s)'
    BY <1>1, <1>3 DEF Unopposed, Unclosed
  <2>7. QED
    BY <2>5, <2>6
<1>7. QED
  BY <1>4, <1>5, <1>6 DEF GrantInv, StandingMeets

LEMMA GrantKeeps ==
  ASSUME SupportTyped, RowsInv, ShareInv, GrantInv, Next
  PROVE  GrantInv'
<1>1. CASE \E s \in Sessions : Elapse(s)
  <2>1. /\ UNCHANGED <<row, op, at, kind, todo, closing, agentVars, overlap, crossed>>
        /\ due \subseteq due'
    BY <1>1 DEF Elapse, closeVars, history
  <2>2. Tellers' /\ Asked'
    BY <2>1 DEF GrantInv, Tellers, Asked, agentVars
  <2>3. StandingMeets'
    BY <2>1 DEF GrantInv, StandingMeets, Standing, Beside, Unopposed, Unclosed, Reaches, agentVars
  <2>4. QED
    BY <2>2, <2>3 DEF GrantInv
<1>2. CASE \E p \in Procs : CloseStep(p) \/ CloseFails(p)
  BY <1>2, StopsKeepGrant, CommitsKeepGrant, TellsKeepGrant, FailsKeepGrant DEF CloseStep
<1>3. CASE \/ \E q \in Tasks : OperatorReads(q) \/ EventReads(q) \/ RevokeReads(q)
           \/ ExpiryReads
  BY <1>3, ReadersKeepGrant
<1>4. QED
  BY <1>1, <1>2, <1>3, OpensKeepGrant, AgentsKeepGrant, RestartKeepsGrant DEF Next
-----------------------------------------------------------------------------
(* The invariant *)

LEMMA InitEstablishes ==
  Init => IndInv
<1> SUFFICES ASSUME Init PROVE IndInv
  OBVIOUS
<1>1. <<>> \in Seq(SshCommand) /\ 0 \in 0..MaxRestarts /\ 0 \in 0..MaxDbErrors
  BY SupportAssumption
<1>2. /\ row \in [Sessions -> Statuses] /\ port \in [Sessions -> Ports \cup {NoPort}]
      /\ op \in [Sessions -> Openings] /\ kind \in [Procs -> Kinds]
      /\ \A s \in Sessions : kind[s] = "none" /\ todo[s] = {}
  BY Known DEF Init, Statuses, Openings, Kinds
<1>3. SupportTyped
  BY <1>1, <1>2 DEF Init, SupportTyped
<1>4. RowsInv
  BY Known DEF Init, RowsInv, Stages, Listening, Closers, Failing, ClosedUnbound, Starting,
               StrayOnlyOvertaken, OpenIsServed, OpenRows
<1>5. RevokeInv
  BY DEF Init, RevokeInv, RevokersMeet, OpenersMet, Opening, RevokedOnlyLate, OpenRows
<1>6. ShareInv
  BY Known DEF Init, ShareInv, ReadersMeet, HasRead, DoneClosing, SharedOnlyOverlapping, OpenRows
<1>7. GrantInv
  <2>1. Tellers
    BY Known DEF Init, Tellers
  <2>2. Asked /\ StandingMeets
    BY Known DEF Init, Asked, StandingMeets, Standing, Lacks
  <2>3. QED
    BY <2>1, <2>2 DEF GrantInv
<1>8. QED
  BY <1>3, <1>4, <1>5, <1>6, <1>7 DEF IndInv

LEMMA Inductive ==
  IndInv /\ [Next]_vars => IndInv'
<1> SUFFICES ASSUME IndInv, [Next]_vars PROVE IndInv'
  OBVIOUS
<1>1. SupportTyped /\ RowsInv /\ RevokeInv /\ ShareInv /\ GrantInv
  BY DEF IndInv
<1>2. CASE Next
  BY <1>1, <1>2, TypesKeep, RowsKeep, RevokeKeeps, ShareKeeps, GrantKeeps DEF IndInv, Core
<1>3. CASE UNCHANGED vars
  <2>1. UNCHANGED coreVars
    BY <1>3 DEF vars, coreVars, rowVars, closeVars, portVars, history
  <2>2. SupportTyped'
    BY <1>1, <1>3 DEF vars, SupportTyped, Opening, rowVars, closeVars, portVars, agentVars, history
  <2>3. RevokeInv'
    BY <1>1, <2>1 DEF coreVars, RevokeInv, RevokersMeet, OpenersMet, RevokedOnlyLate, OpenRows,
                      Opening
  <2>4. Tellers' /\ Asked'
    BY <1>1, <1>3 DEF GrantInv, Tellers, Asked, vars, rowVars, closeVars, agentVars
  <2>5. StandingMeets'
    BY <1>1, <1>3 DEF GrantInv, StandingMeets, Standing, Beside, Unopposed, Unclosed, Reaches, vars,
                      rowVars, closeVars, agentVars, history
  <2>6. QED
    BY <1>1, <2>1, <2>2, <2>3, <2>4, <2>5, RowsStay, ShareStays DEF IndInv, GrantInv
<1>4. QED
  BY <1>2, <1>3

THEOREM Invariant == Spec => []IndInv
<1>1. QED
  BY InitEstablishes, Inductive, PTL DEF Spec
-----------------------------------------------------------------------------
(* What it gives *)

\* Every row, port, coroutine, listener, command and grant keeps its type:
\* nothing is registered as a listener whose port is not bound, and the agents
\* are only told of SSH sessions (service.py and tunnels.py of hub/support).
THEOREM SupportTypes == Spec => []TypeOK
<1>1. SshCommand \subseteq Command
  BY Known DEF SshCommand, Command
<1>2. Seq(SshCommand) \subseteq Seq(Command)
  BY <1>1
<1>3. IndInv => TypeOK
  BY <1>2 DEF IndInv, SupportTyped, TypeOK
<1>4. QED
  BY <1>3, Invariant, PTL

\* A port stays open past its session only if the session was closed between its
\* insert and the end of start_server, where stop_listener does not find the
\* listener (open_ui, open_ssh and close of hub/support/service.py).
THEOREM StraysOvertaken == Spec => []StrayOnlyOvertaken
<1>1. IndInv => StrayOnlyOvertaken
  BY DEF IndInv, RowsInv
<1>2. QED
  BY <1>1, Invariant, PTL

\* An open session has its listener once its opener is gone, but while a closer
\* has it, when a restart could not bind its port, or when a close of it failed
\* between stop_listener and its commit: a failed bind leaves no other open row
\* (start_listener's callers, restore_listeners; close of hub/support/service.py
\* and revoke_instance of hub/instances/service.py, which stop listeners first).
THEOREM OpenServed == Spec => []OpenIsServed
<1>1. IndInv => OpenIsServed
  BY DEF IndInv, RowsInv
<1>2. QED
  BY <1>1, Invariant, PTL

\* A revoked instance has no open session but one that was being opened while
\* it was revoked (revoke_instance, whose active check open_ui and open_ssh
\* make once, before their awaits).
THEOREM RevokedLate == Spec => []RevokedOnlyLate
<1>1. IndInv => RevokedOnlyLate
  BY DEF IndInv, RevokeInv
<1>2. QED
  BY <1>1, Invariant, PTL

\* Two open SSH sessions share an instance's grant only if their open_ssh
\* overlapped: an open_ssh closes every session it read before it inserts.
THEOREM SharedOverlap == Spec => []SharedOnlyOverlapping
<1>1. IndInv => SharedOnlyOverlapping
  BY DEF IndInv, ShareInv
<1>2. QED
  BY <1>1, Invariant, PTL

\* An open SSH session keeps the grant written for it until it is due, whatever
\* the link does, when no other open or close crossed its opening: the session
\* it replaced is closed without support.ssh.revoke (open_ssh and close of
\* hub/support/service.py).
THEOREM GrantKept == Spec => []GrantStands
<1>1. IndInv => GrantStands
  <2>1. SUFFICES ASSUME IndInv, NEW s \in OpenRows \cap Ssh, s \notin due \cup crossed,
                        \A t \in Ssh : ~Beside(s, t)
                 PROVE  grant[Inst[s]] = s
    BY DEF GrantStands, Beside
  <2>2. Standing(s) /\ row[s] = "open"
    BY <2>1 DEF Standing, OpenRows
  <2>3. s \in answered /\ Reaches(s)
    BY <2>1, <2>2 DEF IndInv, GrantInv, Asked, StandingMeets
  <2>4. QED
    BY <2>1, <2>3 DEF Reaches
<1>2. QED
  BY <1>1, Invariant, PTL
-----------------------------------------------------------------------------
(* The tunnels of a session *)

\* Who waits has set the link's future; who is served is a writer, of which there
\* are no more than the limit.
TunnelsInv ==
  /\ TunnelsTypeOK
  /\ \A e \in Endpoints : endpoint[e].pc # "new" => endpoint[e].link \in Links
  /\ \A e \in Endpoints : endpoint[e].pc = "waiting" => attached[endpoint[e].link] = e
  /\ \A l \in Links : link[l] \in {"result", "attach", "pump"} => l \in writers
  /\ IsFiniteSet(writers) /\ Cardinality(writers) <= MaxWriters

LEMMA LinksKeep ==
  ASSUME TunnelsInv, NEW l \in Links,
         Refuse(l) \/ Serve(l) \/ Offline(l) \/ LinkRuns(l) \/ PumpEnds(l)
  PROVE  TunnelsInv'
<1>1. /\ TunnelsTypeOK /\ MaxWriters \in Nat /\ "pending" \notin Endpoints
      /\ IsFiniteSet(writers) /\ Cardinality(writers) <= MaxWriters
  BY TunnelsAssumption DEF TunnelsInv
<1>2. /\ UNCHANGED <<listening, endpoint>>
      /\ \A k \in Links : k # l => link'[k] = link[k] /\ attached'[k] = attached[k]
      /\ attached'[l] = attached[l] \/ attached[l] = "pending"
  BY <1>1 DEF Refuse, Serve, Offline, LinkRuns, GotResult, NoTunnel, GotSocket, NoAttach,
              ClosedPumpEnds, PumpEnds, Ends, TunnelsTypeOK
<1>3. TunnelsTypeOK'
  BY <1>1 DEF Refuse, Serve, Offline, LinkRuns, GotResult, NoTunnel, GotSocket, NoAttach,
              ClosedPumpEnds, PumpEnds, Ends, TunnelsTypeOK
<1>4. \A e \in Endpoints : endpoint[e].pc = "waiting" => attached'[endpoint[e].link] = e
  BY <1>1, <1>2 DEF TunnelsInv
<1>5. link'[l] \in {"result", "attach", "pump"} => l \in writers'
  BY <1>1 DEF Refuse, Serve, Offline, LinkRuns, GotResult, NoTunnel, GotSocket, NoAttach,
              ClosedPumpEnds, PumpEnds, Ends, TunnelsTypeOK, TunnelsInv
<1>6. /\ \A k \in writers : k # l => k \in writers'
      /\ writers' \subseteq writers \/ (writers' = writers \cup {l} /\ Cardinality(writers) < MaxWriters)
  BY DEF Refuse, Serve, Offline, LinkRuns, GotResult, NoTunnel, GotSocket, NoAttach,
         ClosedPumpEnds, PumpEnds, Ends, Admits
<1>7. IsFiniteSet(writers') /\ Cardinality(writers') <= MaxWriters
  <2>1. Cardinality(writers) \in Nat
    BY <1>1, FS_CardinalityType
  <2>2. CASE writers' \subseteq writers
    <3>1. IsFiniteSet(writers') /\ Cardinality(writers') <= Cardinality(writers)
      BY <1>1, <2>2, FS_Subset
    <3>2. Cardinality(writers') \in Nat
      BY <3>1, FS_CardinalityType
    <3>3. QED
      BY <1>1, <2>1, <3>1, <3>2
  <2>3. CASE writers' = writers \cup {l} /\ Cardinality(writers) < MaxWriters
    <3>1. /\ IsFiniteSet(writers')
          /\ Cardinality(writers') \in {Cardinality(writers), Cardinality(writers) + 1}
      BY <1>1, <2>3, FS_AddElement
    <3>2. QED
      BY <1>1, <2>1, <2>3, <3>1
  <2>4. QED
    BY <1>6, <2>2, <2>3
<1>8. QED
  BY <1>2, <1>3, <1>4, <1>5, <1>6, <1>7 DEF TunnelsInv

LEMMA EndpointsKeep ==
  ASSUME TunnelsInv, NEW e \in Endpoints, EndpointRuns(e) \/ \E l \in Links : Attach(e, l)
  PROVE  TunnelsInv'
<1>1. TunnelsTypeOK /\ "pending" \notin Endpoints
  BY TunnelsAssumption DEF TunnelsInv
<1>2. UNCHANGED <<listening, writers, link, pendingId, finished, shut, answer>>
  BY DEF EndpointRuns, Accepted, Released, Attach
<1>3. /\ endpoint' \in [Endpoints -> [pc : {"new", "accepting", "waiting", "gone"},
                                      link : Links \cup {NoLink}]]
      /\ \A f \in Endpoints \ {e} : endpoint'[f] = endpoint[f]
      /\ endpoint'[e].link \in Links
      /\ endpoint'[e].pc = "waiting" => /\ Accepted(e) /\ endpoint'[e].link = endpoint[e].link
                                        /\ Settable(endpoint[e].link)
  <2>1. CASE Accepted(e)
    <3>1. endpoint[e].link \in Links
      BY <2>1 DEF Accepted, TunnelsInv
    <3>2. endpoint' = [endpoint EXCEPT ![e].pc = IF Settable(endpoint[e].link) THEN "waiting" ELSE "gone"]
      BY <2>1 DEF Accepted
    <3>3. QED
      BY <1>1, <2>1, <3>1, <3>2 DEF TunnelsTypeOK
  <2>2. CASE Released(e)
    <3>1. endpoint[e].link \in Links /\ endpoint' = [endpoint EXCEPT ![e].pc = "gone"]
      BY <2>2 DEF Released, TunnelsInv
    <3>2. QED
      BY <1>1, <3>1 DEF TunnelsTypeOK
  <2>3. CASE \E l \in Links : Attach(e, l)
    <3>1. PICK l \in Links, c \in {"accepting", "gone"} :
            endpoint' = [endpoint EXCEPT ![e] = [pc |-> c, link |-> l]]
      BY <2>3 DEF Attach
    <3>2. QED
      BY <1>1, <3>1 DEF TunnelsTypeOK
  <2>4. QED
    BY <2>1, <2>2, <2>3 DEF EndpointRuns
<1>4. /\ attached' = attached
      \/ /\ Accepted(e) /\ Settable(endpoint[e].link)
         /\ attached' = [attached EXCEPT ![endpoint[e].link] = e]
  BY DEF EndpointRuns, Accepted, Released, Attach
<1>5. attached' \in [Links -> Endpoints \cup {"pending", "cancelled"}]
  BY <1>1, <1>4 DEF TunnelsTypeOK
<1>6. Accepted(e) /\ Settable(endpoint[e].link) => attached'[endpoint[e].link] = e
  <2>1. SUFFICES ASSUME Accepted(e), Settable(endpoint[e].link) PROVE attached'[endpoint[e].link] = e
    OBVIOUS
  <2>2. endpoint[e].link \in Links
    BY <2>1 DEF Accepted, TunnelsInv
  <2>3. QED
    BY <1>1, <2>1, <2>2 DEF Accepted, TunnelsTypeOK
<1>7. ASSUME NEW f \in Endpoints, endpoint'[f].pc = "waiting" PROVE attached'[endpoint'[f].link] = f
  <2>1. CASE f = e
    BY <1>3, <1>6, <1>7, <2>1
  <2>2. CASE f # e
    <3>1. endpoint'[f] = endpoint[f] /\ attached[endpoint[f].link] = f /\ endpoint[f].link \in Links
      BY <1>3, <1>7, <2>2 DEF TunnelsInv
    <3>2. QED
      BY <1>1, <1>4, <3>1 DEF Settable, TunnelsTypeOK
  <2>3. QED
    BY <2>1, <2>2
<1>8. TunnelsTypeOK'
  BY <1>1, <1>2, <1>3, <1>5 DEF TunnelsTypeOK
<1>9. QED
  BY <1>2, <1>3, <1>7, <1>8 DEF TunnelsInv

LEMMA TunnelsInductive ==
  /\ TunnelsInit => TunnelsInv
  /\ TunnelsInv /\ [TunnelsNext]_tunnelVars => TunnelsInv'
<1>1. ASSUME TunnelsInit PROVE TunnelsInv
  <2>1. IsFiniteSet({}) /\ Cardinality({}) = 0
    BY FS_EmptySet
  <2>2. TunnelsTypeOK
    BY <1>1 DEF TunnelsInit, TunnelsTypeOK
  <2>3. IsFiniteSet(writers) /\ Cardinality(writers) <= MaxWriters
    BY <1>1, <2>1, TunnelsAssumption DEF TunnelsInit
  <2>4. QED
    BY <1>1, <2>2, <2>3 DEF TunnelsInit, TunnelsInv
<1>2. ASSUME TunnelsInv, [TunnelsNext]_tunnelVars PROVE TunnelsInv'
  <2>1. CASE \/ \E l \in Links : AgentAnswers(l)
             \/ StopListener
    <3>1. UNCHANGED <<writers, link, attached, endpoint>> /\ TunnelsTypeOK'
      BY <1>2, <2>1, ZenonT(40) DEF AgentAnswers, StopListener, TunnelsInv, TunnelsTypeOK
    <3>2. QED
      BY <1>2, <3>1 DEF TunnelsInv
  <2>2. CASE UNCHANGED tunnelVars
    BY <1>2, <2>2 DEF TunnelsInv, TunnelsTypeOK, tunnelVars
  <2>3. QED
    BY <1>2, <2>1, <2>2, LinksKeep, EndpointsKeep DEF TunnelsNext
<1>3. QED
  BY <1>1, <1>2

THEOREM TunnelsInvariant == TunnelsSpec => []TunnelsInv
<1>1. QED
  BY TunnelsInductive, PTL DEF TunnelsSpec

\* Every future, socket and endpoint of the tunnels keeps its type.
THEOREM TunnelTypes == TunnelsSpec => []TunnelsTypeOK
<1>1. TunnelsInv => TunnelsTypeOK
  BY DEF TunnelsInv
<1>2. QED
  BY <1>1, TunnelsInvariant, PTL

\* However many WebSockets the agent opens for a connection, one at most is given
\* to it, and no more connections are served than the limit allows (attach_agent
\* and _serve_connection of hub/support/tunnels.py).
THEOREM EndpointsMatched == TunnelsSpec => []OneEndpointPerLink
<1>1. ASSUME TunnelsInv PROVE OneEndpointPerLink
  <2> DEFINE served == {l \in Links : link[l] \in {"result", "attach", "pump"}}
  <2>1. served \subseteq writers /\ IsFiniteSet(writers) /\ Cardinality(writers) <= MaxWriters
        /\ MaxWriters \in Nat
    BY <1>1, TunnelsAssumption DEF TunnelsInv
  <2>2. IsFiniteSet(served) /\ Cardinality(served) <= Cardinality(writers)
    BY <2>1, FS_Subset
  <2>3. Cardinality(served) \in Nat /\ Cardinality(writers) \in Nat
    BY <2>1, <2>2, FS_CardinalityType
  <2>4. Cardinality(served) <= MaxWriters
    BY <2>1, <2>2, <2>3
  <2>5. QED
    BY <1>1, <2>4 DEF TunnelsInv, OneEndpointPerLink
<1>2. QED
  BY <1>1, TunnelsInvariant, PTL
=============================================================================
