---------------------------- MODULE AgentChannel ----------------------------
(***************************************************************************)
(* Who may be connected: the handshake of the control channel               *)
(* (hub/agents/router.py, auth.py) against everything that takes an         *)
(* identity away or replaces it (hub/instances, hub/enrollment).             *)
(*                                                                         *)
(* A connection authenticates against the database once, then waits for     *)
(* the hello, then registers.  Meanwhile other coroutines - here: jobs -     *)
(* revoke, decommission, re-enroll, renew or delete.  A job reads its        *)
(* instance, issues UPDATEs inside a transaction that others do not see      *)
(* before its commit, and throws the registered connection out either after  *)
(* the commit (revoke_instance) or before it (target_instance).              *)
(*                                                                         *)
(* Frames, and what they carry, are in module Commands.                      *)
(***************************************************************************)
EXTENDS Registry, Naturals, FiniteSets

CONSTANTS
  Certs,        \* client certificates the hub may issue
  NoCert,       \* "presents no certificate yet"
  NoInst,       \* "issued to nobody yet"
  Jobs,         \* coroutines that change identities, each run once
  MaxRestarts   \* bound: hub restarts

ASSUME ChannelAssumption ==
  /\ NoCert \notin Certs
  /\ NoInst \notin Instances
  /\ MaxRestarts \in Nat

VARIABLES
  \* The database
  status,   \* status[i]: Instance.status, "deleted" once the row is gone
  owner,    \* owner[x]: AgentCertificate.instance_id of certificate x
  revoked,  \* the certificates marked revoked (or deleted)
  \* The control channels
  phase,    \* phase[k]: where the handler of connection k stands
  sock,     \* sock[k]: "open", "lost" (the hub has not noticed), "closed"
  uses,     \* uses[k]: the certificate k authenticated with
  \* The jobs
  job,      \* job[p]: a Job record
  \* History, and the bound
  escaped,  \* the connections alive when a job that should end them was over
  restarts

dbVars   == <<status, owner, revoked>>
connVars == <<phase, sock, uses>>
vars == <<dbVars, connVars, job, online, escaped, restarts>>

Removals == {"revoked", "decommissioned"}  \* revoke_instance, by its status
Kinds    == Removals \cup {"enroll", "renew", "delete"}
Stages   == {"idle", "read", "updated", "kicked", "committed", "done"}
Stati    == {"active", "deleted"} \cup Removals

\* A job: what it does, to which instance, how far it got, the status it read
\* and the certificates its UPDATE revokes when it commits.
Job == [kind : Kinds \cup {"none"}, inst : Instances \cup {NoInst},
        at : Stages, seen : Stati \cup {"none"}, taken : SUBSET Certs]
Idle == [kind |-> "none", inst |-> NoInst, at |-> "idle", seen |-> "none",
         taken |-> {}]

TypeOK ==
  /\ RegistryType
  /\ status \in [Instances -> Stati]
  /\ owner \in [Certs -> Instances \cup {NoInst}]
  /\ revoked \subseteq Certs
  /\ phase \in [Conns -> {"unused", "accepted", "greeted", "serving", "ended"}]
  /\ sock \in [Conns -> {"none", "open", "lost", "closed"}]
  /\ uses \in [Conns -> Certs \cup {NoCert}]
  /\ job \in [Jobs -> Job]
  /\ escaped \subseteq Conns
  /\ restarts \in 0..MaxRestarts

\* Every instance is enrolled, with one certificate.
Init ==
  /\ status = [i \in Instances |-> "active"]
  /\ owner \in [Certs -> Instances \cup {NoInst}]
  /\ \A i \in Instances : Cardinality({x \in Certs : owner[x] = i}) = 1
  /\ revoked = {}
  /\ online = EmptyRegistry
  /\ phase = [k \in Conns |-> "unused"]
  /\ sock = [k \in Conns |-> "none"]
  /\ uses = [k \in Conns |-> NoCert]
  /\ job = [p \in Jobs |-> Idle]
  /\ escaped = {}
  /\ restarts = 0

-----------------------------------------------------------------------------
(* Reading the database.  A definition named ..._Mutant is a plausible       *)
(* mistake in the one that follows it; only the mutation runs use it.        *)

Authentic_Mutant(x) == owner[x] # NoInst /\ x \notin revoked

\* authenticate: a certificate we issued, not revoked, of an active instance.
Authentic(x) ==
  /\ owner[x] # NoInst
  /\ x \notin revoked
  /\ status[owner[x]] = "active"

\* What revoke_certificates's UPDATE selects.
ValidCerts(i) == {x \in Certs : owner[x] = i /\ x \notin revoked}

Reenrollable_Mutant(i) == status[i] # "deleted"

\* target_instance takes any instance that exists and is not revoked.
Reenrollable(i) == status[i] \notin {"revoked", "deleted"}

\* The instance of connection k: its certificate's.
InstOf(k) == owner[uses[k]]

\* The connections past authenticate and not over.
Authenticated(i) ==
  {k \in Conns : phase[k] \in {"accepted", "greeted", "serving"}
                 /\ sock[k] # "closed" /\ InstOf(k) = i}

-----------------------------------------------------------------------------
(* The control channel of connection k *)

\* The agent opens a websocket with one of its certificates.  One that does
\* not authenticate is closed with 4401 at once and leaves nothing behind.
Open(k) ==
  /\ phase[k] = "unused"
  /\ \E x \in Certs :
       /\ Authentic(x)
       /\ uses' = [uses EXCEPT ![k] = x]
  /\ phase' = [phase EXCEPT ![k] = "accepted"]
  /\ sock' = [sock EXCEPT ![k] = "open"]
  /\ UNCHANGED <<dbVars, job, online, escaped, restarts>>

\* The hello arrives: the instance's facts are committed (no column modelled
\* here) and the hello_ack is sent.  An instance deleted meanwhile fails.
Hello(k) ==
  /\ phase[k] = "accepted"
  /\ sock[k] # "closed"
  /\ status[InstOf(k)] # "deleted"
  /\ phase' = [phase EXCEPT ![k] = "greeted"]
  /\ UNCHANGED <<dbVars, sock, uses, job, online, escaped, restarts>>

\* No hello within the timeout, a bad one, a broken socket: the handler
\* returns without having registered.
HelloFails(k) ==
  /\ phase[k] \in {"accepted", "greeted"}
  /\ phase' = [phase EXCEPT ![k] = "ended"]
  /\ sock' = [sock EXCEPT ![k] = "closed"]
  /\ UNCHANGED <<dbVars, uses, job, online, escaped, restarts>>

\* The connection registers; the one it displaces is closed.  Nothing is read
\* from the database again.
Attach(k) ==
  LET old == online[InstOf(k)] IN
  /\ phase[k] = "greeted"
  /\ Register(InstOf(k), k)
  /\ sock' = [j \in Conns |-> IF j = old THEN "closed" ELSE sock[j]]
  /\ phase' = [phase EXCEPT ![k] = "serving"]
  /\ UNCHANGED <<dbVars, uses, job, escaped, restarts>>

\* The link breaks; the hub notices later, or never before a new connection.
LoseLink(k) ==
  /\ sock[k] = "open"
  /\ sock' = [sock EXCEPT ![k] = "lost"]
  /\ UNCHANGED <<dbVars, phase, uses, job, online, escaped, restarts>>

End_Mutant(k) ==
  /\ phase[k] = "serving"
  /\ sock[k] \in {"lost", "closed"}
  /\ phase' = [phase EXCEPT ![k] = "ended"]
  /\ sock' = [sock EXCEPT ![k] = "closed"]
  /\ UNCHANGED <<dbVars, uses, job, online, escaped, restarts>>

\* receive_text raises, and the `finally` unregisters.
End(k) ==
  /\ phase[k] = "serving"
  /\ sock[k] \in {"lost", "closed"}
  /\ phase' = [phase EXCEPT ![k] = "ended"]
  /\ sock' = [sock EXCEPT ![k] = "closed"]
  /\ Unregister(InstOf(k), k)
  /\ UNCHANGED <<dbVars, uses, job, escaped, restarts>>

-----------------------------------------------------------------------------
(* The jobs *)

Begin(p, kind, i) ==
  /\ job[p].at = "idle"
  /\ job' = [job EXCEPT ![p] = [kind |-> kind, inst |-> i, at |-> "read",
                                seen |-> status[i], taken |-> {}]]
  /\ UNCHANGED <<dbVars, connVars, online, escaped, restarts>>

At(p, kinds, stage) ==
  job[p].kind \in kinds /\ job[p].at = stage

\* An operator revokes, the provisioning API decommissions, or the instance
\* unenrolls: the row is read and must be active.
BeginRemoval(p, i) ==
  /\ status[i] = "active"
  /\ \E kind \in Removals : Begin(p, kind, i)

\* A token or an approved request re-enrolls the instance.
BeginEnroll(p, i) == Reenrollable(i) /\ Begin(p, "enroll", i)

\* The agent asks for a new certificate, authenticating with one it has.
BeginRenew(p, i) ==
  /\ \E x \in ValidCerts(i) : Authentic(x)
  /\ Begin(p, "renew", i)

\* An operator deletes an instance that is not active.
BeginDelete(p, i) == status[i] \in Removals /\ Begin(p, "delete", i)

\* revoke_certificates: an UPDATE other sessions see after the commit.
RevokeCerts(p) ==
  /\ At(p, Removals \cup {"enroll"}, "read")
  /\ job' = [job EXCEPT ![p].at = "updated",
                        ![p].taken = ValidCerts(job[p].inst)]
  /\ UNCHANGED <<dbVars, connVars, online, escaped, restarts>>

\* The registered connection is popped and closed.
KickOnly(i) ==
  /\ Disconnect(i)
  /\ sock' = [k \in Conns |-> IF k = online[i] THEN "closed" ELSE sock[k]]

\* The connections of i, the one about to be kicked excepted.
Survivors(i) == Authenticated(i) \ {online[i]}

\* revoke_instance commits status and certificates...
CommitRemoval(p) ==
  LET i == job[p].inst IN
  /\ At(p, Removals, "updated")
  /\ status[i] # "deleted"
  /\ status' = [status EXCEPT ![i] = job[p].kind]
  /\ revoked' = revoked \cup job[p].taken
  /\ job' = [job EXCEPT ![p].at = "committed"]
  /\ UNCHANGED <<owner, connVars, online, escaped, restarts>>

\* ...and then throws the instance out.
Kick(p) ==
  LET i == job[p].inst IN
  /\ At(p, Removals, "committed")
  /\ KickOnly(i)
  /\ escaped' = escaped \cup Survivors(i)
  /\ job' = [job EXCEPT ![p].at = "done"]
  /\ UNCHANGED <<dbVars, phase, uses, restarts>>

\* target_instance throws the instance out before anything is committed...
KickFirst(p) ==
  /\ At(p, {"enroll"}, "updated")
  /\ KickOnly(job[p].inst)
  /\ job' = [job EXCEPT ![p].at = "kicked"]
  /\ UNCHANGED <<dbVars, phase, uses, escaped, restarts>>

\* ...and the caller commits after issue_identity.  status is written only
\* when the instance was read with another one.
CommitEnroll(p) ==
  LET i == job[p].inst IN
  /\ At(p, {"enroll"}, "kicked")
  /\ status[i] # "deleted"
  /\ \E x \in Certs :
       /\ owner[x] = NoInst
       /\ owner' = [owner EXCEPT ![x] = i]
  /\ status' = [status EXCEPT ![i] =
                  IF job[p].seen = "active" THEN status[i] ELSE "active"]
  /\ revoked' = revoked \cup job[p].taken
  /\ escaped' = escaped \cup Authenticated(i)
  /\ job' = [job EXCEPT ![p].at = "done"]
  /\ UNCHANGED <<connVars, online, restarts>>

\* renew adds the new certificate; the status is not looked at again.
CommitRenew(p) ==
  LET i == job[p].inst IN
  /\ At(p, {"renew"}, "read")
  /\ status[i] # "deleted"
  /\ \E x \in Certs :
       /\ owner[x] = NoInst
       /\ owner' = [owner EXCEPT ![x] = i]
  /\ job' = [job EXCEPT ![p].at = "done"]
  /\ UNCHANGED <<status, revoked, connVars, online, escaped, restarts>>

\* delete_instance removes the row with its certificates, whatever the status
\* has become since it was read.
CommitDelete(p) ==
  LET i == job[p].inst IN
  /\ At(p, {"delete"}, "read")
  /\ status' = [status EXCEPT ![i] = "deleted"]
  /\ revoked' = revoked \cup {x \in Certs : owner[x] = i}
  /\ escaped' = escaped \cup Authenticated(i)
  /\ job' = [job EXCEPT ![p].at = "done"]
  /\ UNCHANGED <<owner, connVars, online, restarts>>

\* A job fails before its commit (a bad CSR, a row that is gone, a database
\* error): its session is rolled back.
JobFails(p) ==
  /\ job[p].at \in {"read", "updated", "kicked"}
  /\ job' = [job EXCEPT ![p].at = "done", ![p].taken = {}]
  /\ UNCHANGED <<dbVars, connVars, online, escaped, restarts>>

\* The hub restarts: connections and running jobs are gone, the database is
\* what was committed.
Restart ==
  /\ restarts < MaxRestarts
  /\ restarts' = restarts + 1
  /\ online' = EmptyRegistry
  /\ phase' = [k \in Conns |-> IF phase[k] = "unused" THEN "unused" ELSE "ended"]
  /\ sock' = [k \in Conns |-> IF sock[k] = "none" THEN "none" ELSE "closed"]
  /\ job' = [p \in Jobs |-> IF job[p].at = "idle" THEN job[p]
                            ELSE [job[p] EXCEPT !.at = "done", !.taken = {}]]
  /\ UNCHANGED <<dbVars, uses, escaped>>

-----------------------------------------------------------------------------
ConnStep(k) ==
  \/ Open(k) \/ Hello(k) \/ HelloFails(k) \/ Attach(k)
  \/ LoseLink(k) \/ End(k)

JobStep(p) ==
  \/ \E i \in Instances : \/ BeginRemoval(p, i) \/ BeginEnroll(p, i)
                          \/ BeginRenew(p, i)   \/ BeginDelete(p, i)
  \/ RevokeCerts(p)  \/ CommitRemoval(p) \/ Kick(p)
  \/ KickFirst(p)    \/ CommitEnroll(p)
  \/ CommitRenew(p)  \/ CommitDelete(p)
  \/ JobFails(p)

Next ==
  \/ \E k \in Conns : ConnStep(k)
  \/ \E p \in Jobs : JobStep(p)
  \/ Restart

Spec == Init /\ [][Next]_vars

-----------------------------------------------------------------------------
(* Properties *)

\* No connection is served behind the registry's back: one the hub has not
\* closed is the registered one of its instance, so what the hub sends to the
\* instance, and the next revocation, reach it.  An ending connection
\* that removed its successor would break this for good.
ServedIsRegistered ==
  \A k \in Conns :
    phase[k] = "serving" /\ sock[k] # "closed" => online[InstOf(k)] = k

\* The registry names only connections being served, each under the instance
\* of its own certificate: "online" is never left over from a dead handler.
RegisteredIsServed ==
  \A i \in Instances :
    IsOnline(i) => /\ phase[online[i]] = "serving"
                   /\ InstOf(online[i]) = i

\* A removal of instance i that has committed and not yet thrown it out.
RemovalPending(i) ==
  \E p \in Jobs : At(p, Removals, "committed") /\ job[p].inst = i

\* The identity of the registered connection was taken away.
Stale(i) ==
  /\ IsOnline(i)
  /\ status[i] # "active" \/ uses[online[i]] \in revoked

\* The one way an instance stays connected on an identity that was taken away:
\* its connection had authenticated before the revocation was over.  No
\* connection that authenticates afterwards is ever registered.
OnlyHandshakesEscape ==
  \A i \in Instances :
    Stale(i) /\ ~RemovalPending(i) => online[i] \in escaped

\* Revocation as hub/agents/auth.py:10-11 states it ("immediate"): once the
\* removal is over, an instance that is not active is not connected.
RevocationIsImmediate ==
  \A i \in Instances :
    IsOnline(i) /\ ~RemovalPending(i) => status[i] = "active"

\* A revoked instance keeps that status unless it is deleted, or a job that
\* read it before the revocation overwrites the status: re-enrolling it is
\* refused.
RevokedOnlyOvertaken ==
  [][\A i \in Instances :
       status[i] = "revoked" /\ status'[i] \notin {"revoked", "deleted"} =>
         \E p \in Jobs :
           /\ job'[p] # job[p]
           /\ job[p].inst = i
           /\ job[p].seen # "revoked"]_vars
=============================================================================
