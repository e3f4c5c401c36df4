---------------------------- MODULE Enrollment -----------------------------
(***************************************************************************)
(* How an instance gets its identity: hub/enrollment (tokens, registration   *)
(* requests), POST /agent/enroll and /agent/register, the external reference *)
(* of hub/registration.py with the edits of hub/instances/router.py, and the *)
(* tokens of the provisioning API.                                           *)
(*                                                                         *)
(* A call is one run of a handler that reads, awaits and then commits: an    *)
(* enrollment, a renewal, an approval, a rejection, an expiry found by a     *)
(* reader, a new request, an edit of the reference, a revocation, a          *)
(* deletion.  Handlers that commit what they read in the same stretch are    *)
(* single actions.  What poll_request hands out (cert_pem) is not modelled.  *)
(* One external reference stands for all: two do not meet.                   *)
(***************************************************************************)
EXTENDS Naturals, FiniteSets

CONSTANTS
  Instances,   \* identities: Instance.id
  Tokens,
  Requests,
  Calls,       \* runs of handlers, each used once
  NoInst, NoCall,
  MaxUses,     \* MaxUses[t]: EnrollmentToken.max_uses
  Key,         \* Key[r]: the key fingerprint of the request
  MaxPending   \* registration_max_pending

ASSUME EnrollmentAssumption ==
  /\ NoInst \notin Instances
  /\ NoCall \notin Calls
  /\ Calls \cap Instances = {}
  /\ MaxUses \in [Tokens -> Nat \ {0}]
  /\ MaxPending \in Nat
  /\ IsFiniteSet(Requests)

VARIABLES
  \* The tables
  inst,      \* inst[i]: Instance.status, "none" without a row
  bearing,   \* the instances with the external reference
  cert,      \* cert[x]: the certificate x, issued by call x or before (x = i)
  token,     \* token[t]: [live, revoked, late, uses, ref, again]; late: expired
  locked,    \* locked[t]: the call that holds the row lock
  request,   \* request[r]: EnrollmentRequest.status, "none" without a row
  settled,   \* settled[r]: its instance_id
  lapsed,    \* the requests with expires_at <= now
  \* The calls
  job,       \* job[c]: what call c does and what it has read
  \* History
  givers,    \* givers[i]: the calls that gave i the reference, or life while it
             \* bore it
  overlap    \* the pairs of calls that ran at the same time

enrollVars == <<inst, bearing, cert, token, locked, request, settled, lapsed,
                job, givers, overlap>>
tableVars  == <<inst, bearing, cert, token, request, settled, givers>>

Certs   == Calls \cup Instances
NoJob   == [pc |-> "idle", kind |-> "none", of |-> NoInst, ref |-> FALSE,
            tgt |-> NoInst, was |-> "none", fresh |-> FALSE, taken |-> {}, line |-> {},
            uses |-> 0]
InstanceStatus == {"none", "active", "revoked", "decommissioned"}
RequestStatus  == {"none", "pending", "approved", "rejected", "expired"}
Deciding       == {"approve", "reject", "expire"}
Removing       == {"revoke", "decommission"}

Owner(x) == IF x \in Calls THEN job[x].tgt ELSE x
Valid(i) == {x \in Certs : cert[x] = "valid" /\ Owner(x) = i}
\* The certificate x and those it renews, from one to the next.
Line(x)  == {x} \cup (IF x \in Calls THEN job[x].line ELSE {})
Pending  == {r \in Requests : request[r] = "pending"}
Running  == {c \in Calls : job[c].pc \notin {"idle", "done", "failed"}}

\* What an ended call leaves for the properties.
Ended(c) == [NoJob EXCEPT !.pc = "done", !.kind = job[c].kind, !.of = job[c].of,
                          !.tgt = job[c].tgt, !.line = job[c].line]

\* instance_by_ref: the live instances with the reference.
ByRef == {i \in bearing : inst[i] \notin {"none", "revoked"}}

\* The row lock of SELECT ... FOR UPDATE.
Free_Mutant(t) == TRUE
Free(t) == locked[t] = NoCall

\* What enroll checks of the token it locked.
Usable(t) == /\ token[t].live /\ ~token[t].revoked /\ ~token[t].late
             /\ token[t].uses < MaxUses[t]

\* A call starts: it overlaps with those that run.
Starts(c, j) ==
  /\ job[c].pc = "idle"
  /\ job' = [job EXCEPT ![c] = j]
  /\ overlap' = overlap \cup {{c, d} : d \in Running}

EnrollTypeOK ==
  /\ inst \in [Instances -> InstanceStatus]
  /\ bearing \subseteq Instances
  /\ cert \in [Certs -> {"none", "valid", "revoked"}]
  /\ token \in [Tokens -> [live : BOOLEAN, revoked : BOOLEAN, late : BOOLEAN, uses : Nat,
                           ref : BOOLEAN, again : Instances \cup {NoInst}]]
  /\ \A t \in Tokens : token[t].uses <= MaxUses[t]
  /\ locked \in [Tokens -> Calls \cup {NoCall}]
  /\ request \in [Requests -> RequestStatus]
  /\ settled \in [Requests -> Instances \cup {NoInst}]
  /\ lapsed \subseteq Requests
  /\ job \in [Calls -> [pc : {"idle", "target", "issue", "commit", "counted", "replaced",
                              "read", "revoking", "done", "failed"},
                        kind : Deciding \cup Removing \cup
                                 {"none", "enroll", "renew", "create", "assign", "delete"},
                        of : Tokens \cup Requests \cup Instances \cup {NoInst},
                        ref : BOOLEAN, tgt : Instances \cup {NoInst}, was : InstanceStatus,
                        fresh : BOOLEAN, taken : SUBSET (Certs \cup Requests),
                        line : SUBSET Certs, uses : Nat]]
  /\ givers \in [Instances -> SUBSET Calls]
  /\ overlap \subseteq SUBSET Calls

\* An old instance may exist, with or without the reference, and old requests
\* and tokens.
EnrollInit ==
  /\ inst \in {f \in [Instances -> {"none", "active", "decommissioned"}] :
                 \A i, k \in Instances : f[i] # "none" /\ f[k] # "none" => i = k}
  /\ bearing \in SUBSET {i \in Instances : inst[i] # "none"}
  /\ cert = [x \in Certs |-> IF x \in Instances /\ inst[x] = "active" THEN "valid" ELSE "none"]
  /\ \E dead \in SUBSET Tokens :
       token = [t \in Tokens |-> [live |-> FALSE, revoked |-> t \in dead, late |-> FALSE, uses |-> 0,
                                  ref |-> FALSE, again |-> NoInst]]
  /\ locked = [t \in Tokens |-> NoCall]
  /\ request \in {f \in [Requests -> {"none", "pending", "rejected"}] :
                    Cardinality({r \in Requests : f[r] = "pending"}) <= MaxPending}
  /\ settled = [r \in Requests |-> NoInst]
  /\ lapsed = {}
  /\ job = [c \in Calls |-> NoJob]
  /\ givers = [i \in Instances |-> {}]
  /\ overlap = {}

----------------------------------------------------------------------------
(* Tokens. *)

\* create_token.
Mint(t, ref, again) ==
  /\ ~token[t].live /\ token[t].uses = 0 /\ ~token[t].revoked
  /\ token' = [token EXCEPT ![t].live = TRUE, ![t].ref = ref, ![t].again = again]
  /\ UNCHANGED <<inst, bearing, cert, locked, request, settled, lapsed,
                 job, givers, overlap>>

NewToken(t) == \E ref \in BOOLEAN : Mint(t, ref, NoInst)

ReenrollToken(t) == \E i \in Instances : inst[i] \notin {"none", "revoked"} /\ Mint(t, FALSE, i)

\* With the reference, for the instance that bears it now.
ProvisioningToken(t) ==
  \E i \in Instances \cup {NoInst} :
    /\ IF ByRef = {} THEN i = NoInst ELSE i \in ByRef
    /\ Mint(t, TRUE, i)

\* revoke_token; its UPDATE waits for an enrollment that holds the row.
RevokeToken(t) ==
  /\ token[t].live /\ ~token[t].revoked
  /\ Free(t)
  /\ token' = [token EXCEPT ![t].revoked = TRUE]
  /\ UNCHANGED <<inst, bearing, cert, locked, request, settled, lapsed,
                 job, givers, overlap>>

\* expires_at passes.
TokenExpires(t) ==
  /\ token[t].live /\ ~token[t].late
  /\ token' = [token EXCEPT ![t].late = TRUE]
  /\ UNCHANGED <<inst, bearing, cert, locked, request, settled, lapsed,
                 job, givers, overlap>>

\* enroll, up to the checks of the locked row.  What is refused here changes
\* nothing but the rate limiter.
EnrollLocks(c, t) ==
  /\ Free(t) /\ Usable(t)
  /\ Starts(c, [NoJob EXCEPT !.pc = "target", !.kind = "enroll", !.of = t, !.ref = token[t].ref,
                             !.tgt = token[t].again, !.uses = token[t].uses])
  /\ locked' = [locked EXCEPT ![t] = c]
  /\ UNCHANGED <<tableVars, lapsed>>

----------------------------------------------------------------------------
(* Registration requests. *)

\* create_request, up to the count.
Room_Mutant == Cardinality(Pending) <= MaxPending
Room == Cardinality(Pending) < MaxPending

CountPending(c, r) ==
  /\ request[r] = "none"
  /\ \A d \in Running : job[d].of # r
  /\ Room
  /\ Starts(c, [NoJob EXCEPT !.pc = "counted", !.kind = "create", !.of = r])
  /\ UNCHANGED <<tableVars, locked, lapsed>>

\* The rows an UPDATE holds until its transaction ends.
Held(r) == \E c \in Calls : job[c].pc = "replaced" /\ r \in job[c].taken

\* create_request, the UPDATE of the pending requests with the same key.
ReplacePending(c) ==
  /\ job[c].pc = "counted"
  /\ LET same == {r \in Pending : Key[r] = Key[job[c].of]}
     IN /\ \A r \in same : ~Held(r)
        /\ job' = [job EXCEPT ![c].pc = "replaced", ![c].taken = same]
  /\ UNCHANGED <<tableVars, locked, lapsed, overlap>>

CommitRequest(c) ==
  /\ job[c].pc = "replaced"
  /\ request' = [r \in Requests |-> IF r = job[c].of THEN "pending"
                                    ELSE IF r \in job[c].taken THEN "expired" ELSE request[r]]
  /\ job' = [job EXCEPT ![c] = Ended(c)]
  /\ UNCHANGED <<inst, bearing, cert, token, locked, settled, lapsed, givers, overlap>>

\* _pending: what may still be decided.
Decidable_Mutant(r) == request[r] # "none" /\ r \notin lapsed
Decidable(r) == request[r] = "pending" /\ r \notin lapsed

\* _pending of approve, with the fields and the instance the operator chose.
ApproveReads(c, r) ==
  /\ Decidable(r)
  /\ \E ref \in BOOLEAN, again \in Instances \cup {NoInst} :
       Starts(c, [NoJob EXCEPT !.pc = "target", !.kind = "approve", !.of = r, !.ref = ref,
                               !.tgt = again])
  /\ UNCHANGED <<tableVars, locked, lapsed>>

\* _pending of reject.
RejectReads(c, r) ==
  /\ Decidable(r)
  /\ Starts(c, [NoJob EXCEPT !.pc = "read", !.kind = "reject", !.of = r])
  /\ UNCHANGED <<tableVars, locked, lapsed>>

\* _pending and poll_request, which write "expired" to a request past its time.
ExpiryReads(c, r) ==
  /\ request[r] = "pending" /\ r \in lapsed
  /\ Starts(c, [NoJob EXCEPT !.pc = "read", !.kind = "expire", !.of = r])
  /\ UNCHANGED <<tableVars, locked, lapsed>>

\* The commits of reject and of an expiry: the row is not looked at again.
CommitDecision(c) ==
  /\ job[c].pc = "read" /\ job[c].kind \in {"reject", "expire"}
  /\ ~Held(job[c].of)
  /\ request' = [request EXCEPT ![job[c].of] =
                   IF job[c].kind = "reject" THEN "rejected" ELSE "expired"]
  /\ job' = [job EXCEPT ![c] = Ended(c)]
  /\ UNCHANGED <<inst, bearing, cert, token, locked, settled, lapsed, givers, overlap>>

\* expire_old: the statement names the status it replaces.
ExpireOld ==
  /\ Pending \cap lapsed # {}
  /\ \A r \in Pending \cap lapsed : ~Held(r)
  /\ request' = [r \in Requests |-> IF r \in Pending \cap lapsed THEN "expired" ELSE request[r]]
  /\ UNCHANGED <<inst, bearing, cert, token, locked, settled, lapsed, job, givers, overlap>>

Elapse(r) ==
  /\ request[r] = "pending" /\ r \notin lapsed
  /\ lapsed' = lapsed \cup {r}
  /\ UNCHANGED <<tableVars, locked, job, overlap>>

----------------------------------------------------------------------------
(* The identity: target_instance, issue_identity, the commit.               *)

\* revoke_certificates: an UPDATE of what it finds, committed with the rest.
Superseded_Mutant(i) == {}
Superseded(i) == Valid(i)

\* target_instance: a named instance, the bearer of the reference, or a new
\* row.  apply has nothing to check or to write when the copy that was read
\* has the reference already.
Target(c) ==
  /\ job[c].pc = "target"
  /\ \E i \in Instances :
       \/ /\ i = job[c].tgt \/ (job[c].tgt = NoInst /\ job[c].ref /\ i \in ByRef)
          /\ inst[i] \notin {"none", "revoked"}
          /\ job' = [job EXCEPT ![c].pc = "issue", ![c].tgt = i, ![c].was = inst[i],
                                ![c].taken = Superseded(i),
                                ![c].ref = job[c].ref /\ i \notin bearing]
       \/ /\ job[c].tgt = NoInst /\ ~(job[c].ref /\ ByRef # {})
          /\ inst[i] = "none"
          /\ \A d \in Calls : i \notin {job[d].tgt, job[d].of}
          /\ job' = [job EXCEPT ![c].pc = "issue", ![c].tgt = i, ![c].fresh = TRUE]
  /\ UNCHANGED <<tableVars, locked, lapsed, overlap>>

\* apply: the reference must not be another instance's.
RefTaken_Mutant(c) == FALSE
RefTaken(c) == job[c].ref /\ ByRef \ {job[c].tgt} # {}

Issue(c) ==
  /\ job[c].pc = "issue"
  /\ ~RefTaken(c)
  /\ job' = [job EXCEPT ![c].pc = "commit"]
  /\ UNCHANGED <<tableVars, locked, lapsed, overlap>>

\* What enroll and approve commit of the instance.  The status column is
\* written when it differs from what was read.
Identity(c) ==
  LET j == job[c]
      i == j.tgt
  IN
  /\ j.pc = "commit"
  /\ j.fresh \/ inst[i] # "none"
  /\ inst' = [inst EXCEPT ![i] = IF j.fresh \/ j.was # "active" THEN "active" ELSE @]
  /\ bearing' = IF j.ref THEN bearing \cup {i} ELSE bearing
  /\ givers' = [givers EXCEPT ![i] = IF i \notin ByRef /\ (j.ref \/ i \in ByRef')
                                    THEN @ \cup {c} ELSE @]
  /\ cert' = [x \in Certs |-> IF x = c THEN "valid"
                              ELSE IF x \in j.taken THEN "revoked" ELSE cert[x]]
  /\ job' = [job EXCEPT ![c] = Ended(c)]
  /\ UNCHANGED <<lapsed, overlap>>

CommitEnroll(c) ==
  LET t == job[c].of IN
  /\ job[c].kind = "enroll" /\ Identity(c)
  /\ token' = [token EXCEPT ![t].uses = job[c].uses + 1]
  /\ locked' = [locked EXCEPT ![t] = NoCall]
  /\ UNCHANGED <<request, settled>>

CommitApproval(c) ==
  LET r == job[c].of IN
  /\ job[c].kind = "approve" /\ ~Held(r) /\ Identity(c)
  /\ request' = [request EXCEPT ![r] = "approved"]
  /\ settled' = [settled EXCEPT ![r] = job[c].tgt]
  /\ UNCHANGED <<token, locked>>

\* A call that ends with an error (a refused reference or instance, a bad CSR,
\* the database) or with the hub: nothing of it is committed.
CallFails(c) ==
  /\ c \in Running
  /\ job' = [job EXCEPT ![c] = [NoJob EXCEPT !.pc = "failed"]]
  /\ locked' = [t \in Tokens |-> IF locked[t] = c THEN NoCall ELSE locked[t]]
  /\ overlap' = {p \in overlap : c \notin p}
  /\ UNCHANGED <<tableVars, lapsed>>

----------------------------------------------------------------------------
(* Edits of an instance. *)

\* update_instance, up to the check of a new reference.
AssignReads(c, i) ==
  /\ inst[i] # "none" /\ i \notin bearing
  /\ ByRef \ {i} = {}
  /\ Starts(c, [NoJob EXCEPT !.pc = "read", !.kind = "assign", !.of = i])
  /\ UNCHANGED <<tableVars, locked, lapsed>>

CommitAssign(c) ==
  /\ job[c].pc = "read" /\ job[c].kind = "assign"
  /\ inst[job[c].of] # "none"
  /\ bearing' = bearing \cup {job[c].of}
  /\ givers' = [givers EXCEPT ![job[c].of] = IF job[c].of \in ByRef THEN @ ELSE @ \cup {c}]
  /\ job' = [job EXCEPT ![c] = Ended(c)]
  /\ UNCHANGED <<inst, cert, token, locked, request, settled, lapsed, overlap>>

\* update_instance with an empty reference.
ClearRef(i) ==
  /\ i \in bearing
  /\ bearing' = bearing \ {i}
  /\ UNCHANGED <<inst, cert, token, locked, request, settled, lapsed, job, givers, overlap>>

\* revoke, decommission and unenroll, up to the check of the status.  unenroll
\* comes with a certificate, decommission with the reference.
RemoveReads(c, i) ==
  /\ inst[i] = "active"
  /\ \E k \in Removing :
       /\ k = "decommission" => Valid(i) # {} \/ i \in bearing
       /\ Starts(c, [NoJob EXCEPT !.pc = "read", !.kind = k, !.of = i])
  /\ UNCHANGED <<tableVars, locked, lapsed>>

\* revoke_instance, its UPDATE of the certificates.
RevokeCertificates(c) ==
  /\ job[c].pc = "read" /\ job[c].kind \in Removing
  /\ job' = [job EXCEPT ![c].pc = "revoking", ![c].taken = Superseded(job[c].of)]
  /\ UNCHANGED <<tableVars, locked, lapsed, overlap>>

\* The status is written over whatever the row says by now.
CommitRevoked(c) ==
  LET i == job[c].of IN
  /\ job[c].pc = "revoking"
  /\ inst[i] # "none"
  /\ inst' = [inst EXCEPT ![i] = IF job[c].kind = "revoke" THEN "revoked" ELSE "decommissioned"]
  /\ cert' = [x \in Certs |-> IF x \in job[c].taken THEN "revoked" ELSE cert[x]]
  /\ UNCHANGED <<bearing, token, locked, request, settled, lapsed, overlap>>
  /\ givers' = [givers EXCEPT ![i] = IF i \notin ByRef /\ i \in ByRef' THEN @ \cup {c} ELSE @]
  /\ job' = [job EXCEPT ![c] = Ended(c)]

\* renew, for the instance its certificate x identifies; x stays valid.
RenewCertReads(c, i) ==
  /\ inst[i] = "active"
  /\ \E x \in Valid(i) :
       Starts(c, [NoJob EXCEPT !.pc = "read", !.kind = "renew", !.of = i, !.tgt = i,
                               !.line = Line(x)])
  /\ UNCHANGED <<tableVars, locked, lapsed>>

CommitRenewCert(c) ==
  /\ job[c].pc = "read" /\ job[c].kind = "renew"
  /\ inst[job[c].tgt] # "none"
  /\ cert' = [cert EXCEPT ![c] = "valid"]
  /\ job' = [job EXCEPT ![c] = Ended(c)]
  /\ UNCHANGED <<inst, bearing, token, locked, request, settled, lapsed, givers, overlap>>

\* delete_instance checks the status it read.  The row of a request that names
\* the instance is a foreign key that is not removed, and a re-enroll token in
\* use is waited for.
Deletable_Mutant(i) == inst[i] # "none"
Deletable(i) == inst[i] \in {"revoked", "decommissioned"}

DeleteReads(c, i) ==
  /\ Deletable(i)
  /\ Starts(c, [NoJob EXCEPT !.pc = "read", !.kind = "delete", !.of = i])
  /\ UNCHANGED <<tableVars, locked, lapsed>>

CommitDelete(c) ==
  LET i     == job[c].of
      named == {t \in Tokens : token[t].again = i}
  IN
  /\ job[c].pc = "read" /\ job[c].kind = "delete"
  /\ inst[i] # "none"
  /\ \A r \in Requests : settled[r] # i
  /\ \A t \in named : Free(t)
  /\ inst' = [inst EXCEPT ![i] = "none"]
  /\ bearing' = bearing \ {i}
  /\ cert' = [x \in Certs |-> IF Owner(x) = i THEN "none" ELSE cert[x]]
  /\ token' = [t \in Tokens |-> IF t \in named THEN [token[t] EXCEPT !.live = FALSE]
                                               ELSE token[t]]
  /\ job' = [job EXCEPT ![c] = Ended(c)]
  /\ UNCHANGED <<locked, request, settled, lapsed, givers, overlap>>

----------------------------------------------------------------------------
CallStep(c) ==
  \/ \E t \in Tokens : EnrollLocks(c, t)
  \/ \E r \in Requests : \/ CountPending(c, r) \/ ApproveReads(c, r)
                         \/ RejectReads(c, r) \/ ExpiryReads(c, r)
  \/ ReplacePending(c) \/ CommitRequest(c) \/ CommitDecision(c)
  \/ Target(c) \/ Issue(c) \/ CommitEnroll(c) \/ CommitApproval(c)
  \/ \E i \in Instances : \/ AssignReads(c, i) \/ RemoveReads(c, i) \/ DeleteReads(c, i)
                          \/ RenewCertReads(c, i)
  \/ CommitAssign(c) \/ RevokeCertificates(c) \/ CommitRevoked(c) \/ CommitDelete(c)
  \/ CommitRenewCert(c)
  \/ CallFails(c)

EnrollNext ==
  \/ \E c \in Calls : CallStep(c)
  \/ \E t \in Tokens : \/ NewToken(t) \/ ReenrollToken(t) \/ ProvisioningToken(t)
                       \/ RevokeToken(t) \/ TokenExpires(t)
  \/ \E r \in Requests : Elapse(r)
  \/ ExpireOld
  \/ \E i \in Instances : ClearRef(i)

EnrollSpec == EnrollInit /\ [][EnrollNext]_enrollVars

----------------------------------------------------------------------------
(* Properties. *)

Committed(kind) == {c \in Calls : job[c].pc = "done" /\ job[c].kind \in kind}

\* A token counts the enrollments it gave, and gives no more than max_uses: the
\* row lock of enroll holds from the check to the commit (agents/router.py:81).
TokenCounts ==
  \A t \in Tokens :
    /\ token[t].uses <= MaxUses[t]
    /\ token[t].uses = Cardinality({c \in Committed({"enroll"}) : job[c].of = t})

\* Nobody enrolls with a token that was revoked, or that is gone with its
\* instance: a revocation that was answered is final.
RevokedTokenUnused ==
  [][\A t \in Tokens : token[t].revoked \/ ~token[t].live => token'[t].uses = token[t].uses]_enrollVars

\* Two live instances share an external reference only when calls overlapped
\* that gave it to them, or gave one of them life while it bore it: the check
\* of apply and of update_instance leaves no other way (registration.py:91,
\* instances/router.py:285).  A decommission is such a call when it writes over
\* a revocation (instances/service.py:117).
SharedRefOnlyOverlapping ==
  \A i, k \in ByRef : i # k =>
    \E c \in givers[i], d \in givers[k] : {c, d} \in overlap

\* Two certificates of an instance are valid when one renews the other, or both
\* renew a third (agents/router.py:166), and otherwise only when calls that
\* issued them or those they renew overlapped: an enrollment revokes only what
\* it found (enrollment/service.py:86).
TwinsOnlyOverlapping ==
  \A i \in Instances : \A x, y \in Valid(i) : x # y =>
    \/ Line(x) \cap Line(y) # {}
    \/ \E u \in Line(x), v \in Line(y) : {u, v} \in overlap

\* An instance that enrolled again is not deleted, unless the two overlapped:
\* delete_instance checks the status it read before it awaited
\* (instances/router.py:360).
StandingNotDeleted ==
  [][\A i \in Instances : inst[i] = "active" /\ inst'[i] = "none" =>
       \E c \in Committed({"enroll", "approve"}), d \in Running :
         job[c].tgt = i /\ job[d].of = i /\ job[d].kind = "delete" /\ {c, d} \in overlap]_enrollVars

\* What create_request, approve, reject and an expiry check of the requests
\* holds unless two of them overlapped: a request is decided once, each reads
\* "pending" before it writes (requests.py:127), and the pending ones stay
\* within the cap (requests.py:64).
RequestsHold ==
  /\ \A c, d \in Committed(Deciding) :
       c # d /\ job[c].of = job[d].of => {c, d} \in overlap
  /\ Cardinality(Pending) > MaxPending =>
       \E c, d \in Committed({"create"}) :
         c # d /\ {job[c].of, job[d].of} \subseteq Pending /\ {c, d} \in overlap
=============================================================================
