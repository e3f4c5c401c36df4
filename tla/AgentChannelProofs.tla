------------------------- MODULE AgentChannelProofs -------------------------
(***************************************************************************)
(* Proofs about module AgentChannel, for every number of instances,         *)
(* connections, certificates, jobs and restarts.                            *)
(*                                                                         *)
(* ServedIsRegistered and RegisteredIsServed are inductive together with    *)
(* what they leave unsaid: a connection past authenticate uses a            *)
(* certificate somebody owns (AliveIsOwned), no registered or greeted       *)
(* connection is closed (NotClosed), a job that began has an instance and   *)
(* takes only certificates of that instance (JobsKnowTheirInstance).        *)
(* OnlyHandshakesEscape speaks of the registered connection alone; it       *)
(* becomes inductive when said of every connection past authenticate,       *)
(* registered or not (StaleEscaped).                                        *)
(***************************************************************************)
EXTENDS AgentChannel, TLAPS

Past == {"accepted", "greeted", "serving"}

AliveIsOwned ==
  \A k \in Conns : phase[k] \in Past =>
    uses[k] \in Certs /\ InstOf(k) \in Instances

NotClosed ==
  \A k \in Conns :
    \/ phase[k] \in {"accepted", "greeted"}
    \/ \E i \in Instances : online[i] = k
    => sock[k] # "closed"

JobsKnowTheirInstance ==
  \A p \in Jobs :
    /\ IF job[p].at = "idle" THEN job[p].taken = {}
                              ELSE job[p].inst \in Instances
    /\ \A x \in job[p].taken : owner[x] = job[p].inst

\* A connection past authenticate whose identity was taken away, and that no
\* running removal is about to throw out.
StaleEscaped ==
  \A k \in Conns :
    /\ phase[k] \in Past
    /\ sock[k] # "closed"
    /\ status[InstOf(k)] # "active" \/ uses[k] \in revoked
    /\ ~RemovalPending(InstOf(k))
    => k \in escaped

\* The jobs that write a status never began on a revoked instance.
SeenNotRevoked ==
  \A p \in Jobs :
    job[p].kind \in Removals \cup {"enroll"} => job[p].seen # "revoked"

Structure ==
  /\ AliveIsOwned
  /\ NotClosed
  /\ RegisteredIsServed
  /\ ServedIsRegistered

IndInv ==
  /\ TypeOK
  /\ Structure
  /\ JobsKnowTheirInstance
  /\ StaleEscaped
  /\ SeenNotRevoked

-----------------------------------------------------------------------------
LEMMA OneMoreRestart ==
  ASSUME restarts \in 0..MaxRestarts, restarts < MaxRestarts
  PROVE  restarts + 1 \in 0..MaxRestarts
BY ChannelAssumption DEF ChannelAssumption

\* What is left of a job once it moved on.
LEMMA JobMoves ==
  ASSUME NEW r \in Job, NEW stage \in Stages, NEW T \in SUBSET Certs
  PROVE  LET s == [r EXCEPT !.at = stage, !.taken = T]
         IN  /\ s \in Job
             /\ s.at = stage /\ s.taken = T
             /\ s.kind = r.kind /\ s.inst = r.inst /\ s.seen = r.seen
BY DEF Job

LEMMA JobAdvances ==
  ASSUME NEW r \in Job, NEW stage \in Stages
  PROVE  [r EXCEPT !.at = stage] \in Job
BY DEF Job

\* The jobs keep their type: what a step does to one of them is one of these.
LEMMA JobsTyped ==
  ASSUME job \in [Jobs -> Job], NEW p \in Jobs,
         \/ \E r \in Job : job' = [job EXCEPT ![p] = r]
         \/ \E stage \in Stages : job' = [job EXCEPT ![p].at = stage]
         \/ \E stage \in Stages, T \in SUBSET Certs :
              job' = [job EXCEPT ![p].at = stage, ![p].taken = T]
  PROVE  job' \in [Jobs -> Job]
<1>1. CASE \E r \in Job : job' = [job EXCEPT ![p] = r]
  BY <1>1
<1>2. CASE \E stage \in Stages : job' = [job EXCEPT ![p].at = stage]
  <2>1. PICK stage \in Stages : job' = [job EXCEPT ![p].at = stage]
    BY <1>2
  <2>2. job' = [job EXCEPT ![p] = [job[p] EXCEPT !.at = stage]]
    BY <2>1
  <2>3. QED
    BY <2>2, JobAdvances
<1>3. CASE \E stage \in Stages, T \in SUBSET Certs :
             job' = [job EXCEPT ![p].at = stage, ![p].taken = T]
  <2>1. PICK stage \in Stages, T \in SUBSET Certs :
          job' = [job EXCEPT ![p].at = stage, ![p].taken = T]
    BY <1>3
  <2>2. job' = [job EXCEPT ![p] = [job[p] EXCEPT !.at = stage, !.taken = T]]
    BY <2>1
  <2>3. [job[p] EXCEPT !.at = stage, !.taken = T] \in Job
    BY JobMoves
  <2>4. QED
    BY <2>2, <2>3
<1>4. QED
  BY <1>1, <1>2, <1>3

\* The variables keep their types: those of the channels...
LEMMA ConnTypeStep ==
  ASSUME TypeOK, NEW k \in Conns, ConnStep(k)
  PROVE  TypeOK'
<1> USE DEF TypeOK, RegistryType, Register, Unregister, dbVars
<1>1. CASE Open(k)
  BY <1>1 DEF Open
<1>2. CASE Hello(k)
  BY <1>2 DEF Hello
<1>3. CASE HelloFails(k)
  BY <1>3 DEF HelloFails
<1>4. CASE Attach(k)
  BY <1>4 DEF Attach
<1>5. CASE LoseLink(k)
  BY <1>5 DEF LoseLink
<1>6. CASE End(k)
  BY <1>6 DEF End
<1>7. QED
  BY <1>1, <1>2, <1>3, <1>4, <1>5, <1>6 DEF ConnStep

\* ...and those of the jobs, which leave the rest of the channels alone.
LEMMA JobTypeStep ==
  ASSUME TypeOK, NEW p \in Jobs, JobStep(p)
  PROVE  TypeOK'
<1>1. job' \in [Jobs -> Job]
  <2> SUFFICES \/ \E r \in Job : job' = [job EXCEPT ![p] = r]
               \/ \E stage \in Stages : job' = [job EXCEPT ![p].at = stage]
               \/ \E stage \in Stages, T \in SUBSET Certs :
                    job' = [job EXCEPT ![p].at = stage, ![p].taken = T]
    BY JobsTyped DEF TypeOK
  <2> USE DEF Stages
  <2>1. ASSUME NEW i \in Instances, NEW kind \in Kinds, Begin(p, kind, i)
        PROVE  \E r \in Job : job' = [job EXCEPT ![p] = r]
    <3>1. [kind |-> kind, inst |-> i, at |-> "read", seen |-> status[i],
           taken |-> {}] \in Job
      BY DEF Job, TypeOK
    <3>2. QED
      BY <2>1, <3>1 DEF Begin
  <2>2. CASE \E i \in Instances : \/ BeginRemoval(p, i) \/ BeginEnroll(p, i)
                                  \/ BeginRenew(p, i)   \/ BeginDelete(p, i)
    BY <2>1, <2>2 DEF BeginRemoval, BeginEnroll, BeginRenew, BeginDelete, Kinds
  <2>3. CASE RevokeCerts(p)
    <3>1. ValidCerts(job[p].inst) \in SUBSET Certs
      BY DEF ValidCerts
    <3>2. QED
      BY <2>3, <3>1 DEF RevokeCerts
  <2>4. CASE JobFails(p)
    BY <2>4 DEF JobFails
  <2>5. CASE \/ CommitRemoval(p) \/ Kick(p) \/ KickFirst(p)
             \/ CommitEnroll(p) \/ CommitRenew(p) \/ CommitDelete(p)
    BY <2>5 DEF CommitRemoval, Kick, KickFirst, CommitEnroll, CommitRenew,
                CommitDelete
  <2>6. QED
    BY <2>2, <2>3, <2>4, <2>5 DEF JobStep
<1>2. job[p] \in Job
  BY DEF TypeOK
<1>3. /\ job[p].kind \in Kinds \cup {"none"}
      /\ job[p].inst \in Instances \cup {NoInst}
      /\ job[p].taken \subseteq Certs
  BY <1>2 DEF Job
<1> DEFINE i == job[p].inst
<1>4. \A j : Authenticated(j) \subseteq Conns /\ Survivors(j) \subseteq Conns
  BY DEF Authenticated, Survivors
<1>5. CASE UNCHANGED <<dbVars, connVars, online, escaped, restarts>>
  BY <1>1, <1>5 DEF TypeOK, RegistryType, dbVars, connVars
<1>6. CASE CommitRemoval(p)
  <2>1. job[p].kind \in Stati
    BY <1>6 DEF CommitRemoval, At, Stati
  <2>2. status' \in [Instances -> Stati] /\ revoked' \subseteq Certs
    BY <1>3, <1>6, <2>1 DEF CommitRemoval, TypeOK
  <2>3. QED
    BY <1>1, <1>6, <2>2 DEF CommitRemoval, TypeOK, RegistryType, connVars
<1>7. CASE Kick(p) \/ KickFirst(p)
  <2>1. KickOnly(i) /\ UNCHANGED <<dbVars, phase, uses, restarts>>
    BY <1>7 DEF Kick, KickFirst
  <2>2. escaped' \subseteq Conns
    BY <1>4, <1>7 DEF Kick, KickFirst, TypeOK
  <2>3. online' \in [Instances -> Conns \cup {NoConn}]
    BY <2>1 DEF KickOnly, Disconnect, TypeOK, RegistryType
  <2>4. sock' \in [Conns -> {"none", "open", "lost", "closed"}]
    BY <2>1 DEF KickOnly, TypeOK
  <2>5. QED
    BY <1>1, <2>1, <2>2, <2>3, <2>4 DEF TypeOK, RegistryType, dbVars
<1>8. CASE CommitEnroll(p)
  <2>1. escaped' \subseteq Conns /\ revoked' \subseteq Certs
    BY <1>3, <1>4, <1>8 DEF CommitEnroll, TypeOK
  <2>2. owner' \in [Certs -> Instances \cup {NoInst}]
    BY <1>3, <1>8 DEF CommitEnroll, TypeOK
  <2>3. status' \in [Instances -> Stati]
    BY <1>8 DEF CommitEnroll, TypeOK, Stati
  <2>4. QED
    BY <1>1, <1>8, <2>1, <2>2, <2>3
    DEF CommitEnroll, TypeOK, RegistryType, connVars
<1>9. CASE CommitRenew(p)
  <2>1. owner' \in [Certs -> Instances \cup {NoInst}]
    BY <1>3, <1>9 DEF CommitRenew, TypeOK
  <2>2. QED
    BY <1>1, <1>9, <2>1 DEF CommitRenew, TypeOK, RegistryType, connVars
<1>10. CASE CommitDelete(p)
  <2>1. status' \in [Instances -> Stati]
    BY <1>10 DEF CommitDelete, TypeOK, Stati
  <2>2. escaped' \subseteq Conns /\ revoked' \subseteq Certs
    BY <1>4, <1>10 DEF CommitDelete, TypeOK
  <2>3. QED
    BY <1>1, <1>10, <2>1, <2>2 DEF CommitDelete, TypeOK, RegistryType, connVars
<1>11. QED
  BY <1>5, <1>6, <1>7, <1>8, <1>9, <1>10
  DEF JobStep, BeginRemoval, BeginEnroll, BeginRenew, BeginDelete, Begin,
      RevokeCerts, JobFails

LEMMA RestartTypeStep == TypeOK /\ Restart => TypeOK'
<1> SUFFICES ASSUME TypeOK, Restart PROVE TypeOK'
  OBVIOUS
<1>1. job' \in [Jobs -> Job]
  <2>1. \A p \in Jobs : [job[p] EXCEPT !.at = "done", !.taken = {}] \in Job
    BY JobMoves DEF TypeOK, Stages
  <2>2. QED
    BY <2>1 DEF Restart, TypeOK
<1>2. phase' \in [Conns -> {"unused", "accepted", "greeted", "serving", "ended"}]
  BY DEF Restart
<1>3. sock' \in [Conns -> {"none", "open", "lost", "closed"}]
  BY DEF Restart
<1>4. restarts' \in 0..MaxRestarts
  BY OneMoreRestart DEF Restart, TypeOK
<1>5. RegistryType'
  BY DEF Restart, RegistryType, EmptyRegistry
<1>6. QED
  BY <1>1, <1>2, <1>3, <1>4, <1>5 DEF Restart, TypeOK, dbVars

LEMMA TypeStep == TypeOK /\ [Next]_vars => TypeOK'
<1> SUFFICES ASSUME TypeOK, [Next]_vars PROVE TypeOK'
  OBVIOUS
<1>1. CASE UNCHANGED vars
  BY <1>1 DEF vars, dbVars, connVars, TypeOK, RegistryType
<1>2. QED
  BY <1>1, ConnTypeStep, JobTypeStep, RestartTypeStep DEF Next

-----------------------------------------------------------------------------
\* The registry and the connections agree.
LEMMA StructureKept ==
  Structure /\ UNCHANGED <<connVars, online, owner>> => Structure'
BY DEF Structure, AliveIsOwned, NotClosed, RegisteredIsServed,
       ServedIsRegistered, InstOf, IsOnline, connVars

\* Certificates keep their owners, and one that nobody owned may get one.
OwnersKept ==
  \A x \in Certs : owner[x] \in Instances => owner'[x] = owner[x]

\* An instance is thrown out: its registered connection is closed, no other.
LEMMA KickKeepsStructure ==
  ASSUME TypeOK, Structure, NEW i \in Instances, KickOnly(i),
         UNCHANGED <<phase, uses, owner>>
  PROVE  Structure'
<1> USE DEF InstOf, IsOnline, KickOnly, Disconnect
<1>1. AliveIsOwned'
  BY DEF Structure, AliveIsOwned
<1>2. online' \in [Instances -> Conns \cup {NoConn}]
  BY DEF TypeOK, RegistryType
<1>3. RegisteredIsServed'
  BY <1>2, NoConnAssumption
  DEF Structure, RegisteredIsServed, TypeOK, RegistryType, NoConnAssumption
<1>4. ServedIsRegistered'
  BY NoConnAssumption
  DEF Structure, ServedIsRegistered, AliveIsOwned, Past, TypeOK, RegistryType
<1>5. NotClosed'
  <2> SUFFICES ASSUME NEW k \in Conns,
                      \/ phase[k] \in {"accepted", "greeted"}
                      \/ \E j \in Instances : online'[j] = k
               PROVE  sock'[k] # "closed"
    BY DEF NotClosed
  <2>1. sock[k] # "closed"
    BY NoConnAssumption
    DEF Structure, NotClosed, TypeOK, RegistryType, NoConnAssumption
  <2>2. k # online[i]
    BY NoConnAssumption
    DEF Structure, RegisteredIsServed, TypeOK, RegistryType, NoConnAssumption
  <2>3. QED
    BY <2>1, <2>2 DEF TypeOK
<1>6. QED
  BY <1>1, <1>3, <1>4, <1>5 DEF Structure

LEMMA StructureStep ==
  TypeOK /\ Structure /\ JobsKnowTheirInstance /\ [Next]_vars => Structure'
<1> SUFFICES ASSUME TypeOK, Structure, JobsKnowTheirInstance, [Next]_vars
             PROVE  Structure'
  OBVIOUS
<1> USE ChannelAssumption, NoConnAssumption
        DEF ChannelAssumption, NoConnAssumption
<1>1. ASSUME NEW k \in Conns, Open(k) PROVE Structure'
  <2> USE <1>1 DEF Open, InstOf, Past, dbVars
  <2>1. AliveIsOwned'
    BY DEF TypeOK, Structure, AliveIsOwned, Authentic
  <2>2. \A i \in Instances : online[i] # k
    BY DEF Structure, RegisteredIsServed, IsOnline
  <2>3. NotClosed' /\ RegisteredIsServed'
    BY <2>2 DEF TypeOK, Structure, NotClosed, RegisteredIsServed, IsOnline,
                RegistryType
  <2>4. ServedIsRegistered'
    BY DEF TypeOK, Structure, ServedIsRegistered
  <2>5. QED
    BY <2>1, <2>3, <2>4 DEF Structure
<1>2. ASSUME NEW k \in Conns, Hello(k) PROVE Structure'
  <2> USE <1>2 DEF Hello, InstOf, Past, TypeOK, Structure, dbVars
  <2>1. AliveIsOwned'
    BY DEF AliveIsOwned
  <2>2. NotClosed'
    BY DEF NotClosed
  <2>3. RegisteredIsServed'
    BY DEF RegisteredIsServed, IsOnline, RegistryType
  <2>4. ServedIsRegistered'
    BY DEF ServedIsRegistered
  <2>5. QED
    BY <2>1, <2>2, <2>3, <2>4
<1>3. ASSUME NEW k \in Conns, HelloFails(k) PROVE Structure'
  <2> USE <1>3 DEF HelloFails, InstOf, Past, TypeOK, Structure, dbVars
  <2>1. AliveIsOwned'
    BY DEF AliveIsOwned
  <2>2. \A i \in Instances : online[i] # k
    BY DEF RegisteredIsServed, IsOnline
  <2>3. NotClosed'
    BY <2>2 DEF NotClosed
  <2>4. RegisteredIsServed'
    BY <2>2 DEF RegisteredIsServed, IsOnline, RegistryType
  <2>5. ServedIsRegistered'
    BY DEF ServedIsRegistered
  <2>6. QED
    BY <2>1, <2>3, <2>4, <2>5
<1>4. ASSUME NEW k \in Conns, Attach(k) PROVE Structure'
  <2> DEFINE i == InstOf(k)
  <2>1. i \in Instances /\ uses[k] \in Certs /\ sock[k] # "closed"
    BY <1>4 DEF Attach, Structure, AliveIsOwned, NotClosed, Past
  <2>2. /\ online' = [online EXCEPT ![i] = k]
        /\ phase' = [phase EXCEPT ![k] = "serving"]
        /\ sock' = [j \in Conns |-> IF j = online[i] THEN "closed" ELSE sock[j]]
        /\ UNCHANGED <<owner, uses>>
    BY <1>4 DEF Attach, Register, dbVars
  <2>3. AliveIsOwned'
    BY <1>4, <2>2 DEF Attach, TypeOK, Structure, AliveIsOwned, InstOf, Past
  <2>4. k # online[i]
    BY <1>4, <2>1 DEF Attach, Structure, RegisteredIsServed, IsOnline
  <2>5. online' \in [Instances -> Conns \cup {NoConn}]
    BY <2>1, <2>2 DEF TypeOK, RegistryType
  <2>6. NotClosed'
    <3> SUFFICES ASSUME NEW j \in Conns,
                        \/ phase'[j] \in {"accepted", "greeted"}
                        \/ \E n \in Instances : online'[n] = j
                 PROVE  sock'[j] # "closed"
      BY DEF NotClosed
    <3>1. CASE j = k
      BY <2>1, <2>2, <2>4, <3>1
    <3>2. CASE j # k /\ phase'[j] \in {"accepted", "greeted"}
      BY <2>1, <2>2, <3>2
      DEF TypeOK, Structure, NotClosed, RegisteredIsServed, IsOnline,
          RegistryType
    <3>3. CASE j # k /\ \E n \in Instances : online'[n] = j
      BY <2>1, <2>2, <3>3
      DEF TypeOK, Structure, NotClosed, RegisteredIsServed, IsOnline,
          RegistryType
    <3>4. QED
      BY <3>1, <3>2, <3>3
  <2>7. RegisteredIsServed'
    BY <2>1, <2>2, <2>5
    DEF TypeOK, Structure, RegisteredIsServed, IsOnline, InstOf, RegistryType
  <2>8. ServedIsRegistered'
    BY <2>1, <2>2, <2>5
    DEF TypeOK, Structure, ServedIsRegistered, InstOf, RegistryType
  <2>9. QED
    BY <2>3, <2>6, <2>7, <2>8 DEF Structure
<1>5. ASSUME NEW k \in Conns, LoseLink(k) PROVE Structure'
  <2> USE <1>5 DEF LoseLink, InstOf, Past, TypeOK, Structure, dbVars
  <2>1. AliveIsOwned' /\ RegisteredIsServed'
    BY DEF AliveIsOwned, RegisteredIsServed, IsOnline
  <2>2. NotClosed' /\ ServedIsRegistered'
    BY DEF NotClosed, ServedIsRegistered
  <2>3. QED
    BY <2>1, <2>2
<1>6. ASSUME NEW k \in Conns, End(k) PROVE Structure'
  <2> USE <1>6 DEF End, Unregister, InstOf, Past, dbVars
  <2>1. InstOf(k) \in Instances
    BY DEF Structure, AliveIsOwned
  <2>2. online' \in [Instances -> Conns \cup {NoConn}]
    BY <2>1 DEF TypeOK, RegistryType
  <2>3. \A n \in Instances : online'[n] # k
    BY <2>1 DEF TypeOK, Structure, RegisteredIsServed, IsOnline, RegistryType
  <2>4. AliveIsOwned'
    BY DEF TypeOK, Structure, AliveIsOwned
  <2>5. NotClosed'
    BY <2>1, <2>3 DEF TypeOK, Structure, NotClosed, RegistryType
  <2>6. RegisteredIsServed'
    BY <2>1, <2>2, <2>3
    DEF TypeOK, Structure, RegisteredIsServed, IsOnline, RegistryType
  <2>7. ServedIsRegistered'
    BY <2>1 DEF TypeOK, Structure, ServedIsRegistered, RegistryType
  <2>8. QED
    BY <2>4, <2>5, <2>6, <2>7 DEF Structure
<1>7. ASSUME NEW p \in Jobs, Kick(p) \/ KickFirst(p) PROVE Structure'
  <2>1. job[p].inst \in Instances
    BY <1>7 DEF Kick, KickFirst, At, JobsKnowTheirInstance, Removals
  <2>2. KickOnly(job[p].inst) /\ UNCHANGED <<phase, uses, owner>>
    BY <1>7 DEF Kick, KickFirst, dbVars
  <2>3. QED
    BY <2>1, <2>2, KickKeepsStructure
<1>8. ASSUME NEW p \in Jobs, CommitEnroll(p) \/ CommitRenew(p)
      PROVE  Structure'
  <2>1. OwnersKept /\ UNCHANGED <<connVars, online>>
    BY <1>8 DEF CommitEnroll, CommitRenew, OwnersKept, TypeOK
  <2>2. QED
    BY <2>1
    DEF OwnersKept, Structure, AliveIsOwned, NotClosed, RegisteredIsServed,
        ServedIsRegistered, InstOf, IsOnline, connVars, Past, RegistryType,
        TypeOK
<1>9. ASSUME NEW p \in Jobs,
             \/ \E i \in Instances : \/ BeginRemoval(p, i) \/ BeginEnroll(p, i)
                                     \/ BeginRenew(p, i)   \/ BeginDelete(p, i)
             \/ RevokeCerts(p) \/ CommitRemoval(p) \/ CommitDelete(p)
             \/ JobFails(p)
      PROVE  Structure'
  <2>1. UNCHANGED <<connVars, online, owner>>
    BY <1>9 DEF BeginRemoval, BeginEnroll, BeginRenew, BeginDelete, Begin,
                RevokeCerts, CommitRemoval, CommitDelete, JobFails, dbVars
  <2>2. QED
    BY <2>1, StructureKept
<1>10. CASE Restart
  BY <1>10 DEF Restart, Structure, AliveIsOwned, NotClosed, RegisteredIsServed,
               ServedIsRegistered, IsOnline, EmptyRegistry, Past, TypeOK
<1>11. CASE UNCHANGED vars
  BY <1>11, StructureKept DEF vars, dbVars
<1>12. QED
  BY <1>1, <1>2, <1>3, <1>4, <1>5, <1>6, <1>7, <1>8, <1>9, <1>10, <1>11
  DEF Next, ConnStep, JobStep

-----------------------------------------------------------------------------
\* What the jobs know.
LEMMA JobsStep ==
  /\ TypeOK /\ JobsKnowTheirInstance /\ SeenNotRevoked /\ [Next]_vars
  => JobsKnowTheirInstance' /\ SeenNotRevoked'
<1> SUFFICES ASSUME TypeOK, JobsKnowTheirInstance, SeenNotRevoked, [Next]_vars
             PROVE  JobsKnowTheirInstance' /\ SeenNotRevoked'
  OBVIOUS
<1> USE DEF JobsKnowTheirInstance, SeenNotRevoked
<1> DEFINE Goal == JobsKnowTheirInstance' /\ SeenNotRevoked'
<1>1. ASSUME NEW k \in Conns, ConnStep(k) PROVE Goal
  <2>1. UNCHANGED <<owner, job>>
    BY <1>1 DEF ConnStep, Open, Hello, HelloFails, Attach, LoseLink, End, dbVars
  <2>2. QED
    BY <2>1
<1>2. ASSUME NEW p \in Jobs, NEW kind \in Kinds, NEW i \in Instances,
             Begin(p, kind, i), kind # "delete" => status[i] # "revoked"
      PROVE  Goal
  BY <1>2 DEF Begin, TypeOK, Removals, Kinds, dbVars
<1>3. ASSUME NEW p \in Jobs, NEW i \in Instances,
             \/ BeginRemoval(p, i) \/ BeginEnroll(p, i)
             \/ BeginRenew(p, i)   \/ BeginDelete(p, i)
      PROVE  Goal
  BY <1>2, <1>3 DEF BeginRemoval, BeginEnroll, BeginRenew, BeginDelete, Kinds,
                    Removals, Authentic, Reenrollable, ValidCerts
<1>4. ASSUME NEW p \in Jobs, RevokeCerts(p) PROVE Goal
  <2>1. \A x \in ValidCerts(job[p].inst) : owner[x] = job[p].inst
    BY DEF ValidCerts
  <2>2. /\ job[p].at # "idle"
        /\ job' = [job EXCEPT ![p] = [job[p] EXCEPT !.at = "updated",
                                      !.taken = ValidCerts(job[p].inst)]]
        /\ UNCHANGED owner
    BY <1>4 DEF RevokeCerts, At, dbVars
  <2>3. QED
    BY <2>1, <2>2 DEF TypeOK, Job
<1>5. ASSUME NEW p \in Jobs,
             \/ CommitRemoval(p) \/ Kick(p) \/ KickFirst(p) \/ CommitDelete(p)
      PROVE  Goal
  <2>1. job[p].at # "idle" /\ UNCHANGED owner
    BY <1>5 DEF CommitRemoval, Kick, KickFirst, CommitDelete, At, dbVars
  <2>2. \E stage \in Stages \ {"idle"} : job' = [job EXCEPT ![p].at = stage]
    BY <1>5 DEF CommitRemoval, Kick, KickFirst, CommitDelete, Stages
  <2>3. QED
    BY <2>1, <2>2 DEF TypeOK, Job
<1>6. ASSUME NEW p \in Jobs, CommitEnroll(p) \/ CommitRenew(p) PROVE Goal
  <2>1. job[p].at # "idle" /\ job' = [job EXCEPT ![p].at = "done"]
    BY <1>6 DEF CommitEnroll, CommitRenew, At
  <2>2. \A x \in Certs : owner[x] \in Instances => owner'[x] = owner[x]
    BY <1>6, ChannelAssumption
    DEF CommitEnroll, CommitRenew, TypeOK, ChannelAssumption
  <2>3. \A q \in Jobs : job[q].inst \notin Instances => job[q].taken = {}
    OBVIOUS
  <2>4. QED
    BY <2>1, <2>2, <2>3 DEF TypeOK, Job
<1>7. ASSUME NEW p \in Jobs, JobFails(p) PROVE Goal
  <2>1. /\ job[p].at # "idle"
        /\ job' = [job EXCEPT ![p] = [job[p] EXCEPT !.at = "done", !.taken = {}]]
        /\ UNCHANGED owner
    BY <1>7 DEF JobFails, dbVars
  <2>2. QED
    BY <2>1 DEF TypeOK, Job
<1>8. CASE Restart
  <2>1. /\ UNCHANGED owner
        /\ job' = [p \in Jobs |-> IF job[p].at = "idle" THEN job[p]
                                  ELSE [job[p] EXCEPT !.at = "done", !.taken = {}]]
    BY <1>8 DEF Restart, dbVars
  <2>2. ASSUME NEW p \in Jobs
        PROVE  /\ job'[p].inst = job[p].inst /\ job'[p].kind = job[p].kind
               /\ job'[p].seen = job[p].seen
               /\ job'[p].at = "idle" => job[p].at = "idle"
               /\ job[p].at = "idle" => job'[p] = job[p]
               /\ job'[p].taken \subseteq job[p].taken
    BY ZenonT(40), <2>1 DEF TypeOK, Job
  <2>3. QED
    BY <2>1, <2>2
<1>9. CASE UNCHANGED vars
  BY <1>9 DEF vars, dbVars
<1>10. QED
  BY <1>1, <1>3, <1>4, <1>5, <1>6, <1>7, <1>8, <1>9 DEF Next, JobStep

-----------------------------------------------------------------------------
\* Who escapes.
Alive(k) == phase[k] \in Past /\ sock[k] # "closed"

\* A step of job p that is not its Kick hides no pending removal.
LEMMA RemovalsKept ==
  ASSUME TypeOK, NEW p \in Jobs, ~At(p, Removals, "committed"),
         \A q \in Jobs \ {p} : job'[q] = job[q], NEW i
  PROVE  RemovalPending(i) => RemovalPending(i)'
BY DEF RemovalPending, At

\* Steps that leave identities alone and bring no connection to life.
LEMMA StaleKept ==
  ASSUME StaleEscaped, escaped \subseteq escaped',
         UNCHANGED <<status, owner, revoked, uses>>,
         \A k \in Conns : Alive(k)' => Alive(k),
         \A i : RemovalPending(i) => RemovalPending(i)'
  PROVE  StaleEscaped'
BY DEF StaleEscaped, Alive, InstOf

LEMMA StaleStep ==
  /\ TypeOK /\ Structure /\ JobsKnowTheirInstance /\ StaleEscaped
  /\ [Next]_vars
  => StaleEscaped'
<1> SUFFICES ASSUME TypeOK, Structure, JobsKnowTheirInstance, StaleEscaped,
                    [Next]_vars
             PROVE  StaleEscaped'
  OBVIOUS
<1>1. ASSUME NEW k \in Conns, Open(k) PROVE StaleEscaped'
  <2>1. PICK x \in Certs : Authentic(x) /\ uses' = [uses EXCEPT ![k] = x]
    BY <1>1 DEF Open
  <2>2. \A i : RemovalPending(i)' <=> RemovalPending(i)
    BY <1>1 DEF Open, RemovalPending, At
  <2>3. UNCHANGED <<status, owner, revoked, escaped>>
    BY <1>1 DEF Open, dbVars
  <2>4. \A j \in Conns \ {k} : phase'[j] = phase[j] /\ sock'[j] = sock[j]
                               /\ uses'[j] = uses[j]
    BY <1>1 DEF Open, TypeOK
  <2>5. uses'[k] = x
    BY <2>1 DEF TypeOK
  <2>6. QED
    BY <2>1, <2>2, <2>3, <2>4, <2>5 DEF StaleEscaped, InstOf, Authentic
<1>2. ASSUME NEW k \in Conns,
             \/ Hello(k) \/ HelloFails(k) \/ Attach(k) \/ LoseLink(k) \/ End(k)
      PROVE  StaleEscaped'
  <2>1. UNCHANGED <<status, owner, revoked, uses, escaped, job>>
    BY <1>2 DEF Hello, HelloFails, Attach, LoseLink, End, dbVars
  <2>2. \A j \in Conns : Alive(j)' => Alive(j)
    <3>1. CASE Hello(k)
      BY <3>1 DEF Hello, Alive, Past, TypeOK
    <3>2. CASE HelloFails(k)
      BY <3>2 DEF HelloFails, Alive, Past, TypeOK
    <3>3. CASE Attach(k)
      <4>1. sock[k] # "closed"
        BY <3>3 DEF Attach, Structure, NotClosed
      <4>2. QED
        BY <3>3, <4>1 DEF Attach, Alive, Past, TypeOK
    <3>4. CASE LoseLink(k)
      BY <3>4 DEF LoseLink, Alive, Past, TypeOK
    <3>5. CASE End(k)
      BY <3>5 DEF End, Alive, Past, TypeOK
    <3>6. QED
      BY <1>2, <3>1, <3>2, <3>3, <3>4, <3>5
  <2>3. \A i : RemovalPending(i) => RemovalPending(i)'
    BY <2>1 DEF RemovalPending, At
  <2>4. QED
    BY <2>1, <2>2, <2>3, StaleKept
<1>3. ASSUME NEW p \in Jobs,
             \/ \E i \in Instances : \/ BeginRemoval(p, i) \/ BeginEnroll(p, i)
                                     \/ BeginRenew(p, i)   \/ BeginDelete(p, i)
             \/ RevokeCerts(p) \/ KickFirst(p) \/ JobFails(p)
      PROVE  StaleEscaped'
  <2>1. UNCHANGED <<status, owner, revoked, uses, escaped, phase>>
    BY <1>3 DEF BeginRemoval, BeginEnroll, BeginRenew, BeginDelete, Begin,
                RevokeCerts, KickFirst, JobFails, dbVars, connVars
  <2>2. ~At(p, Removals, "committed")
    BY <1>3 DEF BeginRemoval, BeginEnroll, BeginRenew, BeginDelete, Begin,
                RevokeCerts, KickFirst, JobFails, At
  <2>3. \A q \in Jobs \ {p} : job'[q] = job[q]
    BY <1>3 DEF BeginRemoval, BeginEnroll, BeginRenew, BeginDelete, Begin,
                RevokeCerts, KickFirst, JobFails, TypeOK
  <2>4. \A k \in Conns : sock'[k] # "closed" => sock[k] # "closed"
    BY <1>3 DEF BeginRemoval, BeginEnroll, BeginRenew, BeginDelete, Begin,
                RevokeCerts, KickFirst, KickOnly, JobFails, connVars
  <2>5. QED
    BY <2>1, <2>2, <2>3, <2>4, RemovalsKept, StaleKept DEF Alive
<1>4. ASSUME NEW p \in Jobs, CommitRemoval(p) PROVE StaleEscaped'
  <2> DEFINE i == job[p].inst
  <2>1. /\ status' = [status EXCEPT ![i] = job[p].kind]
        /\ revoked' = revoked \cup job[p].taken
        /\ UNCHANGED <<owner, uses, phase, sock, escaped>>
        /\ job' = [job EXCEPT ![p].at = "committed"]
        /\ At(p, Removals, "updated")
    BY <1>4 DEF CommitRemoval, connVars
  <2>2. RemovalPending(i)'
    BY <2>1 DEF RemovalPending, At, TypeOK, Job
  <2>3. \A j : RemovalPending(j) => RemovalPending(j)'
    <3>1. ~At(p, Removals, "committed")
      BY <2>1 DEF At
    <3>2. \A q \in Jobs \ {p} : job'[q] = job[q]
      BY <2>1 DEF TypeOK
    <3>3. QED
      BY <3>1, <3>2, RemovalsKept
  <2>4. \A j \in Instances \ {i} : status'[j] = status[j]
    BY <2>1 DEF TypeOK
  <2>5. \A x \in job[p].taken : owner[x] = i
    BY DEF JobsKnowTheirInstance
  <2>6. \A k \in Conns : phase[k] \in Past => InstOf(k) \in Instances
    BY DEF Structure, AliveIsOwned
  <2>7. QED
    BY <2>1, <2>2, <2>3, <2>4, <2>5, <2>6 DEF StaleEscaped, InstOf
<1>5. ASSUME NEW p \in Jobs, Kick(p) PROVE StaleEscaped'
  <2> DEFINE i == job[p].inst
  <2>1. /\ UNCHANGED <<status, owner, revoked, uses, phase>>
        /\ escaped' = escaped \cup Survivors(i)
        /\ job' = [job EXCEPT ![p].at = "done"]
        /\ sock' = [k \in Conns |-> IF k = online[i] THEN "closed" ELSE sock[k]]
    BY <1>5 DEF Kick, KickOnly, dbVars
  <2>2. \A j : j # i /\ RemovalPending(j) => RemovalPending(j)'
    BY <2>1 DEF RemovalPending, At, TypeOK
  <2>3. ASSUME NEW k \in Conns, phase[k] \in Past, sock'[k] # "closed",
               InstOf(k) = i
        PROVE  k \in escaped'
    BY <2>1, <2>3 DEF Survivors, Authenticated, Past
  <2>4. QED
    BY <2>1, <2>2, <2>3 DEF StaleEscaped, InstOf
<1>6. ASSUME NEW p \in Jobs, CommitEnroll(p) \/ CommitDelete(p)
      PROVE  StaleEscaped'
  <2> DEFINE i == job[p].inst
  <2>1. /\ escaped' = escaped \cup Authenticated(i)
        /\ UNCHANGED <<uses, phase, sock>>
        /\ ~At(p, Removals, "committed")
    BY <1>6 DEF CommitEnroll, CommitDelete, connVars, At
  <2>2. \A q \in Jobs \ {p} : job'[q] = job[q]
    BY <1>6 DEF CommitEnroll, CommitDelete, TypeOK
  <2>3. \A j : RemovalPending(j) => RemovalPending(j)'
    BY <2>1, <2>2, RemovalsKept
  <2>4. \A j \in Instances \ {i} : status'[j] = status[j]
    BY <1>6 DEF CommitEnroll, CommitDelete, TypeOK
  <2>5. \A x \in Certs : owner[x] \in Instances => owner'[x] = owner[x]
    BY <1>6, ChannelAssumption
    DEF CommitEnroll, CommitDelete, TypeOK, ChannelAssumption
  <2>6. \A x \in revoked' \ revoked : owner[x] = i
    BY <1>6 DEF CommitEnroll, CommitDelete, JobsKnowTheirInstance
  <2>7. \A k \in Conns : phase[k] \in Past =>
          uses[k] \in Certs /\ owner[uses[k]] \in Instances
    BY DEF Structure, AliveIsOwned, InstOf
  <2>8. ASSUME NEW k \in Conns, Alive(k), InstOf(k) = i
        PROVE  k \in escaped'
    BY <2>1, <2>8 DEF Authenticated, Alive, Past
  <2>9. QED
    BY <2>1, <2>3, <2>4, <2>5, <2>6, <2>7, <2>8
    DEF StaleEscaped, InstOf, Alive
<1>7. ASSUME NEW p \in Jobs, CommitRenew(p) PROVE StaleEscaped'
  <2>1. /\ UNCHANGED <<status, revoked, uses, phase, sock, escaped>>
        /\ ~At(p, Removals, "committed")
    BY <1>7 DEF CommitRenew, connVars, At, Removals
  <2>2. \A q \in Jobs \ {p} : job'[q] = job[q]
    BY <1>7 DEF CommitRenew, TypeOK
  <2>3. \A j : RemovalPending(j) => RemovalPending(j)'
    BY <2>1, <2>2, RemovalsKept
  <2>4. \A x \in Certs : owner[x] \in Instances => owner'[x] = owner[x]
    BY <1>7, ChannelAssumption DEF CommitRenew, TypeOK, ChannelAssumption
  <2>5. \A k \in Conns : phase[k] \in Past =>
          uses[k] \in Certs /\ owner[uses[k]] \in Instances
    BY DEF Structure, AliveIsOwned, InstOf
  <2>6. QED
    BY <2>1, <2>3, <2>4, <2>5 DEF StaleEscaped, InstOf
<1>8. CASE Restart
  BY <1>8 DEF Restart, StaleEscaped, Past, TypeOK
<1>9. CASE UNCHANGED vars
  <2>1. UNCHANGED <<status, owner, revoked, uses, phase, sock, escaped, job>>
    BY <1>9 DEF vars, dbVars, connVars
  <2>2. QED
    BY <2>1, StaleKept DEF Alive, RemovalPending, At
<1>10. QED
  BY <1>1, <1>2, <1>3, <1>4, <1>5, <1>6, <1>7, <1>8, <1>9
  DEF Next, ConnStep, JobStep

-----------------------------------------------------------------------------
(* The theorems *)

LEMMA IndInvInit == Init => IndInv
<1> SUFFICES ASSUME Init PROVE IndInv
  OBVIOUS
<1> USE DEF Init, EmptyRegistry
<1>1. TypeOK
  BY ChannelAssumption, NoConnAssumption
  DEF TypeOK, RegistryType, Job, Kinds, Stages, Stati, Idle, ChannelAssumption
<1>2. Structure
  BY NoConnAssumption
  DEF Structure, AliveIsOwned, NotClosed, RegisteredIsServed,
      ServedIsRegistered, IsOnline, Past, NoConnAssumption
<1>3. JobsKnowTheirInstance /\ SeenNotRevoked /\ StaleEscaped
  BY DEF JobsKnowTheirInstance, SeenNotRevoked, StaleEscaped, Idle, Past
<1>4. QED
  BY <1>1, <1>2, <1>3 DEF IndInv

LEMMA IndInvStep == IndInv /\ [Next]_vars => IndInv'
BY TypeStep, StructureStep, JobsStep, StaleStep DEF IndInv

LEMMA Inductive == Spec => []IndInv
BY IndInvInit, IndInvStep, PTL DEF Spec

\* Type correctness.
THEOREM TypeCorrect == Spec => []TypeOK
<1>1. IndInv => TypeOK
  BY DEF IndInv
<1>2. QED
  BY <1>1, Inductive, PTL

\* No connection is served behind the registry's back, and the registry names
\* no connection that is not served: registry.py's unregister removes only
\* the connection that ends, whatever reconnects, kicks and restarts
\* interleave.
THEOREM RegistryCorrect == Spec => [](ServedIsRegistered /\ RegisteredIsServed)
<1>1. IndInv => ServedIsRegistered /\ RegisteredIsServed
  BY DEF IndInv, Structure
<1>2. QED
  BY <1>1, Inductive, PTL

\* "Online" is never left over from a dead handler: the connection the
\* registry names is being served, under the instance of its certificate.
THEOREM RegisteredServed == Spec => []RegisteredIsServed
BY RegistryCorrect, PTL

\* An instance is connected on an identity that was taken away only when that
\* connection was past authenticate before the revocation was over.
THEOREM OnlyHandshakes == Spec => []OnlyHandshakesEscape
<1>1. IndInv => OnlyHandshakesEscape
  <2> SUFFICES ASSUME IndInv, NEW i \in Instances, Stale(i),
                      ~RemovalPending(i)
               PROVE  online[i] \in escaped
    BY DEF OnlyHandshakesEscape
  <2>1. online[i] \in Conns
    BY DEF IndInv, TypeOK, RegistryType, Stale, IsOnline
  <2>2. phase[online[i]] = "serving" /\ InstOf(online[i]) = i
    BY DEF IndInv, Structure, RegisteredIsServed, Stale
  <2>3. sock[online[i]] # "closed"
    BY <2>1 DEF IndInv, Structure, NotClosed
  <2>4. QED
    BY <2>1, <2>2, <2>3 DEF IndInv, StaleEscaped, Stale, Past
<1>2. QED
  BY <1>1, Inductive, PTL

\* The status "revoked" gives way only to a deletion, or to a job that read
\* the instance before it was revoked.
THEOREM RevokedStays == Spec => RevokedOnlyOvertaken
<1> DEFINE Overtaken ==
      \A i \in Instances :
        status[i] = "revoked" /\ status'[i] \notin {"revoked", "deleted"} =>
          \E p \in Jobs : /\ job'[p] # job[p]
                          /\ job[p].inst = i
                          /\ job[p].seen # "revoked"
<1>1. IndInv /\ [Next]_vars => [Overtaken]_vars
  <2> SUFFICES ASSUME IndInv, Next, NEW i \in Instances,
                      status[i] = "revoked",
                      status'[i] \notin {"revoked", "deleted"}
               PROVE  \E p \in Jobs : /\ job'[p] # job[p]
                                      /\ job[p].inst = i
                                      /\ job[p].seen # "revoked"
    OBVIOUS
  <2>1. status' # status
    OBVIOUS
  <2>2. PICK p \in Jobs : CommitRemoval(p) \/ CommitEnroll(p) \/ CommitDelete(p)
    BY <2>1 DEF Next, ConnStep, JobStep, Open, Hello, HelloFails, Attach,
                LoseLink, End, BeginRemoval, BeginEnroll, BeginRenew,
                BeginDelete, Begin, RevokeCerts, Kick, KickFirst, CommitRenew,
                JobFails, Restart, dbVars
  <2>3. job[p].inst = i
    BY <2>2 DEF CommitRemoval, CommitEnroll, CommitDelete, IndInv, TypeOK
  <2>4. job[p].kind \in Removals \cup {"enroll"}
    BY <2>2, <2>3 DEF CommitRemoval, CommitEnroll, CommitDelete, At, IndInv,
                      TypeOK
  <2>5. job'[p] # job[p]
    BY <2>2 DEF CommitRemoval, CommitEnroll, CommitDelete, At, IndInv, TypeOK,
                Job
  <2>6. QED
    BY <2>3, <2>4, <2>5 DEF IndInv, SeenNotRevoked
<1>2. QED
  BY <1>1, Inductive, PTL DEF Spec, RevokedOnlyOvertaken
=============================================================================
