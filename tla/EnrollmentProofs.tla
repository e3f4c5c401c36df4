-------------------------- MODULE EnrollmentProofs --------------------------
(***************************************************************************)
(* Proofs about module Enrollment, for any instances, tokens, calls and      *)
(* limits, and any finite set of requests.                                   *)
(*                                                                         *)
(* Every exclusion here is "unless the calls overlapped", so the invariant   *)
(* says of a call under way what it has met: whatever was committed against  *)
(* the copy it holds was committed by a call that overlaps with it           *)
(* (Together).  What is left is one such fact for each thing a call reads:   *)
(* its token (EnrollHolds), its request (DecidersMet), the number of pending *)
(* ones (RoomKept), the bearers of the reference (AssignMet, TargetMet,      *)
(* RemoveMet), the valid certificates (IssuerMet, RenewMet), the status      *)
(* (DeleteMet).                                                              *)
(***************************************************************************)
EXTENDS Enrollment, FiniteSetTheorems, TLAPS

JobRec ==
  [pc : {"idle", "target", "issue", "commit", "counted", "replaced", "read", "revoking",
         "done", "failed"},
   kind : Deciding \cup Removing \cup {"none", "enroll", "renew", "create", "assign", "delete"},
   of : Tokens \cup Requests \cup Instances \cup {NoInst},
   ref : BOOLEAN, tgt : Instances \cup {NoInst}, was : InstanceStatus,
   fresh : BOOLEAN, taken : SUBSET (Certs \cup Requests), line : SUBSET Certs, uses : Nat]

\* Where a call of each kind can be, and what it is about.
JobFits(j) ==
  /\ j.pc \in {"idle", "failed"} => j.kind = "none"
  /\ j.pc \in {"target", "issue", "commit"} => j.kind \in {"enroll", "approve"}
  /\ j.pc \in {"counted", "replaced"} => j.kind = "create"
  /\ j.pc = "read" => j.kind \in Removing \cup {"reject", "expire", "assign", "delete", "renew"}
  /\ j.pc = "revoking" => j.kind \in Removing
  /\ j.kind = "enroll" => j.of \in Tokens
  /\ j.kind \in Deciding \cup {"create"} => j.of \in Requests
  /\ j.kind \in Removing \cup {"assign", "delete", "renew"} => j.of \in Instances
  /\ j.kind = "renew" => j.tgt \in Instances
  /\ j.pc \in {"issue", "commit"} => j.tgt \in Instances

JobsFit == \A c \in Calls : JobFits(job[c])

Together == \A c, d \in Running : c # d => {c, d} \in overlap

Base == EnrollTypeOK /\ JobsFit /\ Together
-----------------------------------------------------------------------------
(* Tokens *)

\* An enrollment under way holds its token, as it found it.
EnrollHolds ==
  \A c \in Running : job[c].kind = "enroll" =>
    LET t == job[c].of IN
    /\ locked[t] = c
    /\ token[t].live /\ ~token[t].revoked
    /\ token[t].uses = job[c].uses /\ token[t].uses < MaxUses[t]

EnrolledWith(t) == {c \in Committed({"enroll"}) : job[c].of = t}

Counted ==
  \A t \in Tokens : /\ IsFiniteSet(EnrolledWith(t))
                    /\ token[t].uses = Cardinality(EnrolledWith(t))

TokensInv == EnrollHolds /\ Counted
-----------------------------------------------------------------------------
(* Requests *)

\* A request is new while it is being created, and not yet decided while it
\* is pending.
RequestsKnown ==
  /\ \A c \in Running : job[c].kind = "create" => request[job[c].of] = "none"
  /\ \A c \in Running : job[c].pc = "replaced" =>
       \A r \in job[c].taken : r \in Requests /\ request[r] # "none"
  /\ \A c, d \in Running :
       job[c].kind = "create" /\ job[d].kind = "create" /\ job[c].of = job[d].of => c = d
  /\ \A c \in Running : job[c].kind \in Deciding => request[job[c].of] # "none"
  /\ \A c \in Committed(Deciding) : request[job[c].of] \notin {"none", "pending"}

DecidersMet ==
  /\ \A c \in Running, d \in Committed(Deciding) :
       job[c].kind \in Deciding /\ job[c].of = job[d].of => {c, d} \in overlap
  /\ \A c, d \in Committed(Deciding) :
       c # d /\ job[c].of = job[d].of => {c, d} \in overlap

\* The pending requests that were not created while c was under way.
Unmet(c) ==
  {r \in Pending : \A d \in Committed({"create"}) : job[d].of = r => {c, d} \notin overlap}

RoomKept ==
  /\ \A c \in Running : job[c].kind = "create" => Cardinality(Unmet(c)) < MaxPending
  /\ \A S \in SUBSET Pending : Cardinality(S) > MaxPending =>
       \E c, d \in Committed({"create"}) :
         c # d /\ {job[c].of, job[d].of} \subseteq S /\ {c, d} \in overlap

RequestsInv == RequestsKnown /\ DecidersMet /\ RoomKept
-----------------------------------------------------------------------------
(* References *)

Covered(i, k) == \E c \in givers[i], d \in givers[k] : {c, d} \in overlap
Met(c, k)     == \E d \in givers[k] : {c, d} \in overlap

BearersLive == bearing \subseteq {i \in Instances : inst[i] # "none"}
GiversDone  == \A i \in Instances : \A c \in givers[i] : job[c].pc = "done"

AssignMet ==
  \A c \in Running : job[c].kind = "assign" => \A k \in ByRef \ {job[c].of} : Met(c, k)

TargetMet ==
  \A c \in Running :
    /\ job[c].pc \in {"issue", "commit"}
    /\ job[c].tgt \in bearing \/ (job[c].ref /\ job[c].pc = "commit")
    => \A k \in ByRef \ {job[c].tgt} : Covered(job[c].tgt, k) \/ Met(c, k)

RemoveMet ==
  \A c \in Running : job[c].kind \in Removing /\ job[c].of \in bearing =>
    \A k \in ByRef \ {job[c].of} : Covered(job[c].of, k) \/ Met(c, k)

RefsInv == /\ BearersLive /\ GiversDone /\ AssignMet /\ TargetMet /\ RemoveMet
           /\ SharedRefOnlyOverlapping
-----------------------------------------------------------------------------
(* Certificates and deletions *)

CertsKnown ==
  /\ \A c \in Calls : cert[c] = "valid" => job[c].pc = "done"
  /\ \A i \in Instances : cert[i] = "valid" => inst[i] # "none"

IssuerMet ==
  \A c \in Running : job[c].pc \in {"issue", "commit"} =>
    \A x \in Valid(job[c].tgt) \ job[c].taken : {c, x} \in overlap

\* What a call renews was issued before it.
LinesDone == \A c \in Calls : \A x \in job[c].line : x \in Calls => job[x].pc = "done"

\* Two lines that share a certificate, or have two whose issuers are in O.
Kin(X, Y, O) == X \cap Y # {} \/ \E u \in X, v \in Y : {u, v} \in O

RenewMet ==
  \A r \in Running : job[r].kind = "renew" =>
    \A y \in Valid(job[r].tgt) : Kin(Line(r), Line(y), overlap)

CertsInv == CertsKnown /\ LinesDone /\ IssuerMet /\ RenewMet /\ TwinsOnlyOverlapping

DeleteMet ==
  \A d \in Running : job[d].kind = "delete" /\ inst[job[d].of] = "active" =>
    \E c \in Committed({"enroll", "approve"}) :
      job[c].tgt = job[d].of /\ {c, d} \in overlap

IndInv == Base /\ TokensInv /\ RequestsInv /\ RefsInv /\ CertsInv /\ DeleteMet
-----------------------------------------------------------------------------
(* What the steps do to the calls *)

\* A call under way when d starts, d = c aside, overlaps with it from then on.
StartStep(c) ==
  \E j \in JobRec :
    /\ Starts(c, j) /\ JobFits(j)
    /\ j.pc \in {"target", "counted", "read"}
    /\ UNCHANGED <<tableVars, lapsed>>
    /\ IF j.kind = "enroll"
       THEN /\ Free(j.of) /\ Usable(j.of) /\ j.uses = token[j.of].uses
            /\ locked' = [locked EXCEPT ![j.of] = c]
       ELSE UNCHANGED locked
    /\ j.kind \in Deciding => request[j.of] = "pending"
    /\ j.kind = "create" => /\ request[j.of] = "none" /\ Room
                            /\ \A d \in Running : job[d].of # j.of
    /\ j.kind = "assign" => ByRef \ {j.of} = {}
    /\ j.kind = "delete" => Deletable(j.of)
    /\ j.kind \in Removing => inst[j.of] = "active"
    /\ IF j.kind = "renew"
       THEN \E x \in Certs : cert[x] = "valid" /\ j.tgt = Owner(x) /\ j.line = Line(x)
       ELSE j.line = {}

LEMMA BlankJob ==
  /\ NoJob \in JobRec
  /\ NoJob = [pc |-> "idle", kind |-> "none", of |-> NoInst, ref |-> FALSE,
              tgt |-> NoInst, was |-> "none", fresh |-> FALSE, taken |-> {}, line |-> {},
              uses |-> 0]
BY DEF NoJob, JobRec, InstanceStatus

LEMMA Typed ==
  ASSUME EnrollTypeOK
  PROVE  /\ job \in [Calls -> JobRec]
         /\ \A t \in Tokens : /\ token[t].again \in Instances \cup {NoInst}
                              /\ token[t].uses \in Nat /\ token[t].ref \in BOOLEAN
BY DEF EnrollTypeOK, JobRec

LEMMA CallStarts ==
  ASSUME EnrollTypeOK, NEW c \in Calls,
         \/ \E t \in Tokens : EnrollLocks(c, t)
         \/ \E r \in Requests : \/ CountPending(c, r) \/ ApproveReads(c, r)
                                \/ RejectReads(c, r) \/ ExpiryReads(c, r)
         \/ \E i \in Instances : \/ AssignReads(c, i) \/ RemoveReads(c, i) \/ DeleteReads(c, i)
                                 \/ RenewCertReads(c, i)
  PROVE  StartStep(c)
<1>1. ASSUME NEW t \in Tokens, EnrollLocks(c, t) PROVE StartStep(c)
  <2> DEFINE j == [NoJob EXCEPT !.pc = "target", !.kind = "enroll", !.of = t,
                                !.ref = token[t].ref, !.tgt = token[t].again,
                                !.uses = token[t].uses]
  <2>1. /\ j \in JobRec /\ j.pc = "target" /\ j.kind = "enroll" /\ j.of = t
        /\ j.uses = token[t].uses /\ j.line = {}
    BY BlankJob, Typed DEF JobRec
  <2>2. Starts(c, j) /\ Free(t) /\ Usable(t) /\ locked' = [locked EXCEPT ![t] = c]
        /\ UNCHANGED <<tableVars, lapsed>>
    BY <1>1 DEF EnrollLocks
  <2> HIDE DEF j
  <2>3. JobFits(j)
    BY <2>1 DEF JobFits, Deciding, Removing
  <2>4. QED
    BY <2>1, <2>2, <2>3 DEF StartStep, Deciding, Removing
<1>2. ASSUME NEW r \in Requests, CountPending(c, r) PROVE StartStep(c)
  <2> DEFINE j == [NoJob EXCEPT !.pc = "counted", !.kind = "create", !.of = r]
  <2>1. j \in JobRec /\ j.pc = "counted" /\ j.kind = "create" /\ j.of = r /\ j.line = {}
    BY BlankJob DEF JobRec
  <2>2. /\ Starts(c, j) /\ request[r] = "none" /\ Room
        /\ \A d \in Running : job[d].of # r
        /\ UNCHANGED <<tableVars, locked, lapsed>>
    BY <1>2 DEF CountPending
  <2> HIDE DEF j
  <2>3. JobFits(j)
    BY <2>1 DEF JobFits, Deciding, Removing
  <2>4. QED
    BY <2>1, <2>2, <2>3 DEF StartStep, Deciding, Removing
<1>3. ASSUME NEW r \in Requests, ApproveReads(c, r) PROVE StartStep(c)
  <2>1. PICK ref \in BOOLEAN, again \in Instances \cup {NoInst} :
          Starts(c, [NoJob EXCEPT !.pc = "target", !.kind = "approve", !.of = r,
                                  !.ref = ref, !.tgt = again])
    BY <1>3 DEF ApproveReads
  <2> DEFINE j == [NoJob EXCEPT !.pc = "target", !.kind = "approve", !.of = r,
                                !.ref = ref, !.tgt = again]
  <2>2. j \in JobRec /\ j.pc = "target" /\ j.kind = "approve" /\ j.of = r /\ j.line = {}
    BY BlankJob DEF JobRec, Deciding
  <2>3. Starts(c, j) /\ request[r] = "pending" /\ UNCHANGED <<tableVars, locked, lapsed>>
    BY <1>3, <2>1 DEF ApproveReads, Decidable
  <2> HIDE DEF j
  <2>4. JobFits(j)
    BY <2>2 DEF JobFits, Deciding, Removing
  <2>5. QED
    BY <2>2, <2>3, <2>4 DEF StartStep, Deciding, Removing
<1>4. ASSUME NEW r \in Requests, NEW k \in {"reject", "expire"}, request[r] = "pending",
             Starts(c, [NoJob EXCEPT !.pc = "read", !.kind = k, !.of = r]),
             UNCHANGED <<tableVars, locked, lapsed>>
      PROVE  StartStep(c)
  <2> DEFINE j == [NoJob EXCEPT !.pc = "read", !.kind = k, !.of = r]
  <2>1. j \in JobRec /\ j.pc = "read" /\ j.kind = k /\ j.of = r /\ j.line = {} /\ Starts(c, j)
    BY <1>4, BlankJob DEF JobRec, Deciding
  <2> HIDE DEF j
  <2>2. JobFits(j)
    BY <2>1 DEF JobFits, Deciding, Removing
  <2>3. QED
    BY <1>4, <2>1, <2>2 DEF StartStep, Deciding, Removing
<1>5. ASSUME NEW i \in Instances, NEW k \in Removing \cup {"assign", "delete"},
             Starts(c, [NoJob EXCEPT !.pc = "read", !.kind = k, !.of = i]),
             k = "assign" => ByRef \ {i} = {}, k = "delete" => Deletable(i),
             k \in Removing => inst[i] = "active",
             UNCHANGED <<tableVars, locked, lapsed>>
      PROVE  StartStep(c)
  <2> DEFINE j == [NoJob EXCEPT !.pc = "read", !.kind = k, !.of = i]
  <2>1. j \in JobRec /\ j.pc = "read" /\ j.kind = k /\ j.of = i /\ j.line = {} /\ Starts(c, j)
    BY <1>5, BlankJob DEF JobRec, Removing
  <2> HIDE DEF j
  <2>2. JobFits(j)
    BY <2>1 DEF JobFits, Deciding, Removing
  <2>3. QED
    BY <1>5, <2>1, <2>2 DEF StartStep, Deciding, Removing
<1>6. ASSUME NEW i \in Instances, RenewCertReads(c, i) PROVE StartStep(c)
  <2>1. PICK x \in Valid(i) :
          Starts(c, [NoJob EXCEPT !.pc = "read", !.kind = "renew", !.of = i, !.tgt = i,
                                  !.line = Line(x)])
    BY <1>6 DEF RenewCertReads
  <2> DEFINE line == Line(x)
             j == [NoJob EXCEPT !.pc = "read", !.kind = "renew", !.of = i, !.tgt = i,
                                !.line = line]
  <2>2. /\ Starts(c, j) /\ UNCHANGED <<tableVars, locked, lapsed>>
        /\ x \in Certs /\ cert[x] = "valid" /\ i = Owner(x)
    BY <1>6, <2>1 DEF RenewCertReads, Valid
  <2>3. line \in SUBSET Certs
    BY <2>2, Typed DEF Line, JobRec, Certs
  <2> HIDE DEF line
  <2>4. /\ j \in JobRec /\ j.pc = "read" /\ j.kind = "renew" /\ j.of = i /\ j.tgt = i
        /\ j.line = line
    BY <2>3, BlankJob DEF JobRec
  <2> HIDE DEF j
  <2>5. JobFits(j)
    BY <2>4 DEF JobFits, Deciding, Removing
  <2>6. QED
    BY <2>2, <2>4, <2>5 DEF StartStep, Deciding, Removing, line
<1>7. ASSUME NEW i \in Instances, AssignReads(c, i) \/ RemoveReads(c, i) \/ DeleteReads(c, i)
      PROVE  StartStep(c)
  <2>1. CASE AssignReads(c, i)
    <3>1. /\ Starts(c, [NoJob EXCEPT !.pc = "read", !.kind = "assign", !.of = i])
          /\ ByRef \ {i} = {} /\ UNCHANGED <<tableVars, locked, lapsed>>
      BY <2>1 DEF AssignReads
    <3>2. "assign" \in Removing \cup {"assign", "delete"} /\ "assign" \notin Removing
      BY DEF Removing
    <3>3. QED
      BY <1>5, <3>1, <3>2
  <2>2. CASE RemoveReads(c, i)
    BY <1>5, <2>2 DEF RemoveReads, Removing
  <2>3. CASE DeleteReads(c, i)
    BY <1>5, <2>3 DEF DeleteReads, Removing
  <2>4. QED
    BY <1>7, <2>1, <2>2, <2>3
<1>8. QED
  BY <1>1, <1>2, <1>3, <1>4, <1>6, <1>7 DEF RejectReads, ExpiryReads, Decidable

\* A call that starts, and one that goes on or ends.
LEMMA JobStarts ==
  ASSUME EnrollTypeOK, NEW c \in Calls, NEW j \in JobRec, Starts(c, j),
         j.pc \in {"target", "counted", "read"}
  PROVE  /\ job' \in [Calls -> JobRec] /\ job[c].pc = "idle"
         /\ job'[c] = j /\ \A d \in Calls \ {c} : job'[d] = job[d]
         /\ Running' = Running \cup {c} /\ c \notin Running
         /\ overlap' \subseteq SUBSET Calls /\ overlap \subseteq overlap'
         /\ \A d \in Running : {c, d} \in overlap' /\ {d, c} \in overlap'
         /\ \A k : Committed(k)' = Committed(k)
<1>1. job \in [Calls -> JobRec] /\ job' = [job EXCEPT ![c] = j] /\ job[c].pc = "idle"
  BY Typed DEF Starts
<1>2. overlap' = overlap \cup {{c, d} : d \in Running}
  BY DEF Starts
<1>3. job'[c] = j /\ \A d \in Calls \ {c} : job'[d] = job[d]
  BY <1>1
<1>4. Running' = Running \cup {c} /\ c \notin Running
  BY <1>1, <1>3 DEF Running
<1>5. \A d \in Running : {c, d} = {d, c} /\ {c, d} \in SUBSET Calls
  BY DEF Running
<1>6. overlap' \subseteq SUBSET Calls
  BY <1>2, <1>5 DEF EnrollTypeOK
<1>7. \A k : Committed(k)' = Committed(k)
  BY <1>1, <1>3 DEF Committed
<1>8. QED
  BY <1>1, <1>2, <1>3, <1>4, <1>5, <1>6, <1>7

LEMMA JobMoves ==
  ASSUME EnrollTypeOK, NEW c \in Running, NEW j \in JobRec, job' = [job EXCEPT ![c] = j],
         j.pc \notin {"idle", "done", "failed"}
  PROVE  /\ job' \in [Calls -> JobRec] /\ c \in Calls
         /\ job'[c] = j /\ \A d \in Calls \ {c} : job'[d] = job[d]
         /\ Running' = Running
         /\ \A k : Committed(k)' = Committed(k)
<1>1. job \in [Calls -> JobRec] /\ c \in Calls /\ job[c].pc \notin {"idle", "done", "failed"}
  BY Typed DEF Running
<1>2. job'[c] = j /\ \A d \in Calls \ {c} : job'[d] = job[d]
  BY <1>1
<1>3. QED
  BY <1>1, <1>2 DEF Running, Committed

LEMMA JobEnds ==
  ASSUME EnrollTypeOK, JobsFit, NEW c \in Running, job' = [job EXCEPT ![c] = Ended(c)]
  PROVE  /\ job' \in [Calls -> JobRec] /\ c \in Calls
         /\ job'[c] = Ended(c) /\ \A d \in Calls \ {c} : job'[d] = job[d]
         /\ Ended(c).pc = "done" /\ Ended(c).kind = job[c].kind
         /\ Ended(c).of = job[c].of /\ Ended(c).tgt = job[c].tgt
         /\ Ended(c).line = job[c].line
         /\ JobFits(Ended(c))
         /\ Running' = Running \ {c}
         /\ \A k : Committed(k)' = Committed(k) \cup {d \in {c} : job[c].kind \in k}
         /\ \A k : c \notin Committed(k)
<1>1. job \in [Calls -> JobRec] /\ c \in Calls /\ job[c].pc \notin {"idle", "done", "failed"}
  BY Typed DEF Running
<1>2. job[c] \in JobRec
  BY <1>1
<1>3. /\ Ended(c) \in JobRec /\ Ended(c).pc = "done" /\ Ended(c).kind = job[c].kind
      /\ Ended(c).of = job[c].of /\ Ended(c).tgt = job[c].tgt
      /\ Ended(c).line = job[c].line
  BY <1>2, BlankJob, ZenonT(40) DEF Ended, JobRec
<1>4. job'[c] = Ended(c) /\ \A d \in Calls \ {c} : job'[d] = job[d]
  BY <1>1
<1>5. job' \in [Calls -> JobRec]
  BY <1>1, <1>3
<1>6. JobFits(Ended(c))
  BY <1>3 DEF JobsFit, JobFits, Deciding, Removing, Running
<1>7. Running' = Running \ {c}
  BY <1>1, <1>3, <1>4 DEF Running
<1>8. \A k : Committed(k)' = Committed(k) \cup {d \in {c} : job[c].kind \in k}
  BY <1>1, <1>3, <1>4 DEF Committed
<1>9. \A k : c \notin Committed(k)
  BY <1>1 DEF Committed
<1>10. QED
  BY <1>1, <1>3, <1>4, <1>5, <1>6, <1>7, <1>8, <1>9

LEMMA JobFails ==
  ASSUME EnrollTypeOK, NEW c \in Calls, CallFails(c)
  PROVE  /\ job' \in [Calls -> JobRec] /\ c \in Running
         /\ JobFits(job'[c]) /\ job'[c].pc = "failed" /\ job'[c].line = {}
         /\ \A d \in Calls \ {c} : job'[d] = job[d]
         /\ Running' = Running \ {c}
         /\ \A k : Committed(k)' = Committed(k) /\ c \notin Committed(k)
         /\ overlap' \subseteq overlap
         /\ \A p \in overlap : c \notin p => p \in overlap'
         /\ UNCHANGED <<tableVars, lapsed>>
         /\ \A t \in Tokens : locked'[t] = IF locked[t] = c THEN NoCall ELSE locked[t]
<1> DEFINE j == [NoJob EXCEPT !.pc = "failed"]
<1>1. /\ job \in [Calls -> JobRec] /\ c \in Running /\ job[c].pc \notin {"idle", "done", "failed"}
      /\ job' = [job EXCEPT ![c] = j]
  BY Typed DEF CallFails, Running
<1>2. j \in JobRec /\ j.pc = "failed" /\ j.kind = "none" /\ j.line = {}
  BY BlankJob DEF JobRec
<1> HIDE DEF j
<1>3. job'[c] = j /\ \A d \in Calls \ {c} : job'[d] = job[d]
  BY <1>1
<1>4. JobFits(j)
  BY <1>2 DEF JobFits, Deciding, Removing
<1>5. Running' = Running \ {c}
  BY <1>1, <1>2, <1>3 DEF Running
<1>6. \A k : Committed(k)' = Committed(k) /\ c \notin Committed(k)
  BY <1>1, <1>2, <1>3 DEF Committed
<1>7. job' \in [Calls -> JobRec]
  BY <1>1, <1>2
<1>8. QED
  BY <1>1, <1>2, <1>3, <1>4, <1>5, <1>6, <1>7 DEF CallFails
\* A call that goes on: what it took, or may issue.
MoveStep(c) ==
  \E j \in JobRec :
    /\ job' = [job EXCEPT ![c] = j] /\ JobFits(j) /\ c \in Running
    /\ j.kind = job[c].kind /\ j.of = job[c].of /\ j.uses = job[c].uses
    /\ j.line = job[c].line
    /\ j.pc \in {"replaced", "issue", "revoking", "commit"}
    /\ j.pc = "replaced" => j.taken \subseteq Pending
    /\ j.pc = "issue" =>
         \/ /\ inst[j.tgt] \notin {"none", "revoked"} /\ j.taken = Valid(j.tgt)
         \/ /\ inst[j.tgt] = "none" /\ \A d \in Calls : job[d].tgt # j.tgt
    /\ j.pc = "commit" => /\ job[c].pc = "issue" /\ ~RefTaken(c)
                          /\ j.tgt = job[c].tgt /\ j.ref = job[c].ref
                          /\ j.taken = job[c].taken
    /\ UNCHANGED <<tableVars, locked, lapsed, overlap>>

LEMMA CallMoves ==
  ASSUME EnrollTypeOK, JobsFit, NEW c \in Calls, ReplacePending(c) \/ Target(c) \/ Issue(c) \/ RevokeCertificates(c)
  PROVE  MoveStep(c)
<1>1. job \in [Calls -> JobRec] /\ job[c] \in JobRec /\ JobFits(job[c])
  BY Typed DEF JobsFit
<1>2. CASE ReplacePending(c)
  <2> DEFINE same == {r \in Pending : Key[r] = Key[job[c].of]}
             j == [job[c] EXCEPT !.pc = "replaced", !.taken = same]
  <2>1. job' = [job EXCEPT ![c] = j] /\ job[c].pc = "counted"
        /\ UNCHANGED <<tableVars, locked, lapsed, overlap>>
    BY <1>1, <1>2 DEF ReplacePending
  <2>2. same \subseteq Pending /\ same \in SUBSET (Certs \cup Requests)
    BY DEF Pending
  <2> HIDE DEF same
  <2>3. j \in JobRec /\ j.pc = "replaced" /\ j.kind = job[c].kind /\ j.of = job[c].of
        /\ j.uses = job[c].uses /\ j.line = job[c].line /\ j.taken = same
    BY <1>1, <2>2 DEF JobRec
  <2> HIDE DEF j
  <2>4. JobFits(j) /\ c \in Running
    BY <1>1, <2>1, <2>3 DEF JobFits, Deciding, Removing, Running
  <2>5. QED
    BY <2>1, <2>2, <2>3, <2>4 DEF MoveStep
<1>3. CASE Target(c)
  <2>1. /\ job[c].pc = "target" /\ c \in Running
        /\ UNCHANGED <<tableVars, locked, lapsed, overlap>>
    BY <1>3 DEF Target, Running
  <2>2. PICK i \in Instances :
       \/ /\ i = job[c].tgt \/ (job[c].tgt = NoInst /\ job[c].ref /\ i \in ByRef)
          /\ inst[i] \notin {"none", "revoked"}
          /\ job' = [job EXCEPT ![c].pc = "issue", ![c].tgt = i, ![c].was = inst[i],
                                ![c].taken = Superseded(i),
                                ![c].ref = job[c].ref /\ i \notin bearing]
       \/ /\ job[c].tgt = NoInst /\ ~(job[c].ref /\ ByRef # {})
          /\ inst[i] = "none"
          /\ \A d \in Calls : i \notin {job[d].tgt, job[d].of}
          /\ job' = [job EXCEPT ![c].pc = "issue", ![c].tgt = i, ![c].fresh = TRUE]
    BY <1>3 DEF Target
  <2>3. CASE /\ inst[i] \notin {"none", "revoked"}
             /\ job' = [job EXCEPT ![c].pc = "issue", ![c].tgt = i, ![c].was = inst[i],
                                   ![c].taken = Superseded(i),
                                   ![c].ref = job[c].ref /\ i \notin bearing]
    <3> DEFINE was == inst[i]
               ref == job[c].ref /\ i \notin bearing
               taken == Superseded(i)
               j == [job[c] EXCEPT !.pc = "issue", !.tgt = i, !.was = was, !.taken = taken,
                                   !.ref = ref]
    <3>1. was \in InstanceStatus /\ ref \in BOOLEAN /\ taken \in SUBSET (Certs \cup Requests)
          /\ taken = Valid(i) /\ inst[i] \notin {"none", "revoked"}
      BY <2>3 DEF EnrollTypeOK, Superseded, Valid
    <3>2. job' = [job EXCEPT ![c] = j]
      BY <1>1, <2>3
    <3> HIDE DEF was, ref, taken
    <3>3. j \in JobRec /\ j.pc = "issue" /\ j.kind = job[c].kind /\ j.of = job[c].of
          /\ j.uses = job[c].uses /\ j.line = job[c].line /\ j.taken = taken /\ j.tgt = i
      BY <1>1, <3>1 DEF JobRec
    <3> HIDE DEF j
    <3>4. JobFits(j)
      BY <1>1, <2>1, <3>3 DEF JobFits, Deciding, Removing
    <3>5. QED
      BY <2>1, <3>1, <3>2, <3>3, <3>4 DEF MoveStep
  <2>4. CASE /\ inst[i] = "none" /\ \A d \in Calls : i \notin {job[d].tgt, job[d].of}
             /\ job' = [job EXCEPT ![c].pc = "issue", ![c].tgt = i, ![c].fresh = TRUE]
    <3> DEFINE j == [job[c] EXCEPT !.pc = "issue", !.tgt = i, !.fresh = TRUE]
    <3>1. job' = [job EXCEPT ![c] = j]
      BY <1>1, <2>4
    <3>2. j \in JobRec /\ j.pc = "issue" /\ j.kind = job[c].kind /\ j.of = job[c].of
          /\ j.uses = job[c].uses /\ j.line = job[c].line /\ j.tgt = i
      BY <1>1 DEF JobRec
    <3> HIDE DEF j
    <3>3. JobFits(j)
      BY <1>1, <2>1, <3>2 DEF JobFits, Deciding, Removing
    <3>4. QED
      BY <2>1, <2>4, <3>1, <3>2, <3>3 DEF MoveStep
  <2>5. QED
    BY <2>2, <2>3, <2>4
<1>4. CASE Issue(c)
  <2> DEFINE j == [job[c] EXCEPT !.pc = "commit"]
  <2>1. job' = [job EXCEPT ![c] = j] /\ job[c].pc = "issue" /\ ~RefTaken(c)
        /\ UNCHANGED <<tableVars, locked, lapsed, overlap>>
    BY <1>1, <1>4 DEF Issue
  <2>2. j \in JobRec /\ j.pc = "commit" /\ j.kind = job[c].kind /\ j.of = job[c].of
        /\ j.uses = job[c].uses /\ j.line = job[c].line
        /\ j.taken = job[c].taken /\ j.tgt = job[c].tgt
        /\ j.ref = job[c].ref
    BY <1>1 DEF JobRec
  <2> HIDE DEF j
  <2>3. JobFits(j) /\ c \in Running
    BY <1>1, <2>1, <2>2 DEF JobFits, Deciding, Removing, Running
  <2>4. QED
    BY <2>1, <2>2, <2>3 DEF MoveStep
<1>5. CASE RevokeCertificates(c)
  <2> DEFINE taken == Superseded(job[c].of)
             j == [job[c] EXCEPT !.pc = "revoking", !.taken = taken]
  <2>1. /\ job' = [job EXCEPT ![c] = j] /\ job[c].pc = "read" /\ job[c].kind \in Removing
        /\ UNCHANGED <<tableVars, locked, lapsed, overlap>>
    BY <1>1, <1>5 DEF RevokeCertificates
  <2>2. taken \in SUBSET (Certs \cup Requests)
    BY DEF Superseded, Valid
  <2> HIDE DEF taken
  <2>3. j \in JobRec /\ j.pc = "revoking" /\ j.kind = job[c].kind /\ j.of = job[c].of
        /\ j.uses = job[c].uses /\ j.line = job[c].line
    BY <1>1, <2>2 DEF JobRec
  <2> HIDE DEF j
  <2>4. JobFits(j) /\ c \in Running
    BY <1>1, <2>1, <2>3 DEF JobFits, Deciding, Removing, Running
  <2>5. QED
    BY <2>1, <2>3, <2>4 DEF MoveStep
<1>6. QED
  BY <1>2, <1>3, <1>4, <1>5

\* A call that commits: what its kind says of it.
Commits(c) == \/ CommitRequest(c) \/ CommitDecision(c) \/ CommitEnroll(c) \/ CommitApproval(c)
              \/ CommitAssign(c) \/ CommitRevoked(c) \/ CommitDelete(c) \/ CommitRenewCert(c)

LEMMA CallCommits ==
  ASSUME EnrollTypeOK, JobsFit, NEW c \in Calls, Commits(c)
  PROVE  /\ c \in Running /\ job' = [job EXCEPT ![c] = Ended(c)]
         /\ UNCHANGED <<lapsed, overlap>>
         /\ CommitRequest(c) => job[c].kind = "create"
         /\ CommitDecision(c) => job[c].kind \in {"reject", "expire"}
         /\ CommitEnroll(c) => job[c].kind = "enroll"
         /\ CommitApproval(c) => job[c].kind = "approve"
         /\ CommitAssign(c) => job[c].kind = "assign"
         /\ CommitRevoked(c) => job[c].kind \in Removing
         /\ CommitDelete(c) => job[c].kind = "delete"
         /\ CommitRenewCert(c) => job[c].kind = "renew"
BY DEF Commits, CommitRequest, CommitDecision, CommitEnroll, CommitApproval, CommitAssign,
   CommitRevoked, CommitDelete, CommitRenewCert, Identity, Running, JobsFit, JobFits

\* What happens beside the calls.
Beside == \/ \E t \in Tokens : \/ NewToken(t) \/ ReenrollToken(t) \/ ProvisioningToken(t)
                               \/ RevokeToken(t) \/ TokenExpires(t)
          \/ \E r \in Requests : Elapse(r)
          \/ ExpireOld
          \/ \E i \in Instances : ClearRef(i)

LEMMA CallsBeside ==
  ASSUME Beside
  PROVE  /\ UNCHANGED <<job, locked, overlap, givers>> /\ Running' = Running
         /\ \A k : Committed(k)' = Committed(k)
<1>1. UNCHANGED <<job, locked, overlap, givers>>
  BY DEF Beside, NewToken, ReenrollToken, ProvisioningToken, Mint, RevokeToken, TokenExpires,
     Elapse, ExpireOld, ClearRef, tableVars
<1>2. QED
  BY <1>1 DEF Running, Committed

LEMMA StepKinds ==
  ASSUME EnrollTypeOK, JobsFit, EnrollNext
  PROVE  \/ Beside
         \/ \E c \in Calls : StartStep(c) \/ MoveStep(c) \/ Commits(c) \/ CallFails(c)
<1>1. ASSUME NEW c \in Calls, CallStep(c)
      PROVE  StartStep(c) \/ MoveStep(c) \/ Commits(c) \/ CallFails(c)
  BY <1>1, CallStarts, CallMoves DEF CallStep, Commits
<1>2. QED
  BY <1>1 DEF EnrollNext, Beside
-----------------------------------------------------------------------------
(* Types, kinds, and who overlaps *)

LEMMA CallsKeep ==
  ASSUME Base, EnrollNext
  PROVE  job' \in [Calls -> JobRec] /\ JobsFit' /\ Together' /\ overlap' \subseteq SUBSET Calls
<1> USE DEF Base
<1>1. job \in [Calls -> JobRec] /\ overlap \subseteq SUBSET Calls
  BY Typed DEF EnrollTypeOK
<1>2. CASE Beside
  BY <1>1, <1>2, CallsBeside DEF JobsFit, Together
<1>3. ASSUME NEW c \in Calls, StartStep(c)
      PROVE  job' \in [Calls -> JobRec] /\ JobsFit' /\ Together' /\ overlap' \subseteq SUBSET Calls
  <2>1. PICK j \in JobRec : Starts(c, j) /\ JobFits(j) /\ j.pc \in {"target", "counted", "read"}
    BY <1>3 DEF StartStep
  <2>2. /\ job' \in [Calls -> JobRec] /\ job'[c] = j
        /\ \A d \in Calls \ {c} : job'[d] = job[d]
        /\ Running' = Running \cup {c} /\ overlap' \subseteq SUBSET Calls
        /\ overlap \subseteq overlap'
        /\ \A d \in Running : {c, d} \in overlap' /\ {d, c} \in overlap'
    BY <2>1, JobStarts
  <2>3. JobsFit'
    BY <2>1, <2>2 DEF JobsFit
  <2>4. Together'
    BY <2>2 DEF Together
  <2>5. QED
    BY <2>2, <2>3, <2>4
<1>4. ASSUME NEW c \in Calls, MoveStep(c)
      PROVE  job' \in [Calls -> JobRec] /\ JobsFit' /\ Together' /\ overlap' \subseteq SUBSET Calls
  <2>1. PICK j \in JobRec : /\ job' = [job EXCEPT ![c] = j] /\ JobFits(j) /\ c \in Running
                            /\ j.pc \in {"replaced", "issue", "revoking", "commit"} /\ overlap' = overlap
    BY <1>4 DEF MoveStep
  <2>2. /\ job' \in [Calls -> JobRec] /\ job'[c] = j
        /\ \A d \in Calls \ {c} : job'[d] = job[d] /\ Running' = Running
    BY <2>1, JobMoves
  <2>3. JobsFit'
    BY <2>1, <2>2 DEF JobsFit
  <2>4. Running' = Running
    BY <2>1, JobMoves
  <2>5. QED
    BY <1>1, <2>1, <2>2, <2>3, <2>4 DEF Together
<1>5. ASSUME NEW c \in Calls, Commits(c)
      PROVE  job' \in [Calls -> JobRec] /\ JobsFit' /\ Together' /\ overlap' \subseteq SUBSET Calls
  <2>1. c \in Running /\ job' = [job EXCEPT ![c] = Ended(c)] /\ overlap' = overlap
    BY <1>5, CallCommits
  <2>2. /\ job' \in [Calls -> JobRec] /\ job'[c] = Ended(c) /\ JobFits(Ended(c))
        /\ \A d \in Calls \ {c} : job'[d] = job[d]
        /\ Running' = Running \ {c}
    BY <2>1, JobEnds
  <2>3. JobsFit'
    BY <2>2 DEF JobsFit
  <2>4. QED
    BY <1>1, <2>1, <2>2, <2>3 DEF Together
<1>6. ASSUME NEW c \in Calls, CallFails(c)
      PROVE  job' \in [Calls -> JobRec] /\ JobsFit' /\ Together' /\ overlap' \subseteq SUBSET Calls
  <2>1. /\ job' \in [Calls -> JobRec] /\ JobFits(job'[c])
        /\ \A d \in Calls \ {c} : job'[d] = job[d]
        /\ Running' = Running \ {c} /\ overlap' \subseteq overlap
        /\ \A p \in overlap : c \notin p => p \in overlap'
    BY <1>6, JobFails
  <2>2. JobsFit'
    BY <2>1 DEF JobsFit
  <2>3. QED
    BY <1>1, <2>1, <2>2 DEF Together
<1>7. QED
  BY <1>2, <1>3, <1>4, <1>5, <1>6, StepKinds

\* The rest of the types, but for the bound of the uses.
TablesTyped ==
  /\ inst \in [Instances -> InstanceStatus]
  /\ bearing \subseteq Instances
  /\ cert \in [Certs -> {"none", "valid", "revoked"}]
  /\ token \in [Tokens -> [live : BOOLEAN, revoked : BOOLEAN, late : BOOLEAN, uses : Nat,
                           ref : BOOLEAN, again : Instances \cup {NoInst}]]
  /\ request \in [Requests -> RequestStatus]
  /\ settled \in [Requests -> Instances \cup {NoInst}]
  /\ givers \in [Instances -> SUBSET Calls]

TokenRec == [live : BOOLEAN, revoked : BOOLEAN, late : BOOLEAN, uses : Nat,
             ref : BOOLEAN, again : Instances \cup {NoInst}]

LEMMA TokenWrites ==
  ASSUME EnrollTypeOK, NEW t \in Tokens
  PROVE  /\ \A ref \in BOOLEAN, again \in Instances \cup {NoInst} : Mint(t, ref, again) =>
              /\ token' \in [Tokens -> TokenRec]
              /\ token'[t].uses = token[t].uses /\ token'[t].revoked = token[t].revoked
              /\ token'[t].live
              /\ \A u \in Tokens \ {t} : token'[u] = token[u]
         /\ RevokeToken(t) \/ TokenExpires(t) =>
              /\ token' \in [Tokens -> TokenRec]
              /\ token'[t].uses = token[t].uses /\ token'[t].live = token[t].live
              /\ \A u \in Tokens \ {t} : token'[u] = token[u]
         /\ RevokeToken(t) => token'[t].revoked
         /\ TokenExpires(t) => token'[t].revoked = token[t].revoked
<1>1. token \in [Tokens -> TokenRec] /\ token[t] \in TokenRec
  BY DEF EnrollTypeOK, TokenRec
<1>2. ASSUME NEW ref \in BOOLEAN, NEW again \in Instances \cup {NoInst}, Mint(t, ref, again)
      PROVE  /\ token' \in [Tokens -> TokenRec]
             /\ token'[t].uses = token[t].uses /\ token'[t].revoked = token[t].revoked
             /\ token'[t].live
             /\ \A u \in Tokens \ {t} : token'[u] = token[u]
  <2> DEFINE new == [token[t] EXCEPT !.live = TRUE, !.ref = ref, !.again = again]
  <2>1. token' = [token EXCEPT ![t] = new]
    BY <1>1, <1>2 DEF Mint
  <2>2. new \in TokenRec /\ new.uses = token[t].uses /\ new.revoked = token[t].revoked /\ new.live
    BY <1>1 DEF TokenRec
  <2> HIDE DEF new
  <2>3. QED
    BY <1>1, <2>1, <2>2
<1>3. ASSUME RevokeToken(t)
      PROVE  /\ token' \in [Tokens -> TokenRec]
             /\ token'[t].uses = token[t].uses /\ token'[t].live = token[t].live
             /\ token'[t].revoked
             /\ \A u \in Tokens \ {t} : token'[u] = token[u]
  <2> DEFINE new == [token[t] EXCEPT !.revoked = TRUE]
  <2>1. token' = [token EXCEPT ![t] = new]
    BY <1>1, <1>3 DEF RevokeToken
  <2>2. new \in TokenRec /\ new.uses = token[t].uses /\ new.live = token[t].live /\ new.revoked
    BY <1>1 DEF TokenRec
  <2> HIDE DEF new
  <2>3. QED
    BY <1>1, <2>1, <2>2
<1>4. ASSUME TokenExpires(t)
      PROVE  /\ token' \in [Tokens -> TokenRec]
             /\ token'[t].uses = token[t].uses /\ token'[t].live = token[t].live
             /\ token'[t].revoked = token[t].revoked
             /\ \A u \in Tokens \ {t} : token'[u] = token[u]
  <2> DEFINE new == [token[t] EXCEPT !.late = TRUE]
  <2>1. token' = [token EXCEPT ![t] = new]
    BY <1>1, <1>4 DEF TokenExpires
  <2>2. new \in TokenRec /\ new.uses = token[t].uses /\ new.live = token[t].live
        /\ new.revoked = token[t].revoked
    BY <1>1 DEF TokenRec
  <2> HIDE DEF new
  <2>3. QED
    BY <1>1, <2>1, <2>2
<1>5. QED
  BY <1>2, <1>3, <1>4

LEMMA IdentityTyped ==
  ASSUME EnrollTypeOK, JobsFit, NEW c \in Calls, Identity(c)
  PROVE  /\ inst' \in [Instances -> InstanceStatus] /\ bearing' \subseteq Instances
         /\ cert' \in [Certs -> {"none", "valid", "revoked"}]
         /\ givers' \in [Instances -> SUBSET Calls]
<1>1. job[c].tgt \in Instances
  BY DEF Identity, JobsFit, JobFits
<1>2. QED
  BY <1>1 DEF Identity, EnrollTypeOK, InstanceStatus

LEMMA TablesKeep ==
  ASSUME EnrollTypeOK, JobsFit, EnrollNext
  PROVE  TablesTyped' /\ lapsed' \subseteq Requests
<1>1. TablesTyped /\ lapsed \subseteq Requests
  BY DEF EnrollTypeOK, TablesTyped
<1>2. ASSUME NEW t \in Tokens, NEW ref \in BOOLEAN, NEW again \in Instances \cup {NoInst},
             Mint(t, ref, again)
      PROVE  TablesTyped' /\ lapsed' \subseteq Requests
  BY <1>1, <1>2, TokenWrites DEF Mint, TablesTyped, TokenRec
<1>3. CASE Beside
  <2>1. ASSUME NEW t \in Tokens, NewToken(t) \/ ReenrollToken(t) \/ ProvisioningToken(t)
        PROVE  TablesTyped' /\ lapsed' \subseteq Requests
    BY <1>2, <2>1 DEF NewToken, ReenrollToken, ProvisioningToken
  <2>2. ASSUME NEW t \in Tokens, RevokeToken(t) \/ TokenExpires(t)
        PROVE  TablesTyped' /\ lapsed' \subseteq Requests
    BY <1>1, <2>2, TokenWrites DEF RevokeToken, TokenExpires, TablesTyped, TokenRec
  <2>3. ASSUME NEW r \in Requests, Elapse(r) PROVE TablesTyped' /\ lapsed' \subseteq Requests
    BY <1>1, <2>3 DEF Elapse, tableVars, TablesTyped
  <2>4. CASE ExpireOld
    BY <1>1, <2>4 DEF ExpireOld, TablesTyped, RequestStatus
  <2>5. ASSUME NEW i \in Instances, ClearRef(i)
        PROVE  TablesTyped' /\ lapsed' \subseteq Requests
    BY <1>1, <2>5 DEF ClearRef, TablesTyped
  <2>6. QED
    BY <1>3, <2>1, <2>2, <2>3, <2>4, <2>5 DEF Beside
<1>4. ASSUME NEW c \in Calls, StartStep(c) \/ MoveStep(c) \/ CallFails(c)
      PROVE  TablesTyped' /\ lapsed' \subseteq Requests
  BY <1>1, <1>4 DEF StartStep, MoveStep, CallFails, tableVars, TablesTyped
<1>5. ASSUME NEW c \in Calls, Commits(c) PROVE TablesTyped' /\ lapsed' \subseteq Requests
  <2>1. JobFits(job[c]) /\ job[c] \in JobRec
    BY Typed DEF JobsFit
  <2>2. CASE CommitRequest(c)
    BY <1>1, <2>2 DEF CommitRequest, TablesTyped, RequestStatus
  <2>3. CASE CommitDecision(c)
    BY <1>1, <2>1, <2>3 DEF CommitDecision, TablesTyped, RequestStatus
  <2>4. CASE CommitEnroll(c)
    <3>1. job[c].of \in Tokens /\ job[c].uses + 1 \in Nat
      BY <2>1, <2>4 DEF CommitEnroll, JobFits, JobRec
    <3>2. Identity(c)
      BY <2>4 DEF CommitEnroll
    <3>3. token' \in [Tokens -> [live : BOOLEAN, revoked : BOOLEAN, late : BOOLEAN, uses : Nat,
                                 ref : BOOLEAN, again : Instances \cup {NoInst}]]
      BY SMTT(30), <1>1, <2>4, <3>1 DEF CommitEnroll, TablesTyped
    <3>4. UNCHANGED <<request, settled, lapsed>>
      BY <2>4, <3>2 DEF CommitEnroll, Identity
    <3>5. QED
      BY <1>1, <3>2, <3>3, <3>4, IdentityTyped DEF TablesTyped
  <2>5. CASE CommitApproval(c)
    <3>1. job[c].of \in Requests /\ job[c].tgt \in Instances
      BY <2>1, <2>5 DEF CommitApproval, Identity, JobFits, Deciding
    <3>2. Identity(c)
      BY <2>5 DEF CommitApproval
    <3>3. request' \in [Requests -> RequestStatus] /\ settled' \in [Requests -> Instances \cup {NoInst}]
      BY <1>1, <2>5, <3>1 DEF CommitApproval, TablesTyped, RequestStatus
    <3>4. UNCHANGED <<token, lapsed>>
      BY <2>5, <3>2 DEF CommitApproval, Identity
    <3>5. QED
      BY <1>1, <3>2, <3>3, <3>4, IdentityTyped DEF TablesTyped
  <2>6. CASE CommitAssign(c)
    BY <1>1, <2>1, <2>6 DEF CommitAssign, TablesTyped, JobFits
  <2>7. CASE CommitDelete(c)
    <3>1. token' \in [Tokens -> [live : BOOLEAN, revoked : BOOLEAN, late : BOOLEAN, uses : Nat,
                                 ref : BOOLEAN, again : Instances \cup {NoInst}]]
      BY ZenonT(40), <1>1, <2>7 DEF CommitDelete, TablesTyped
    <3>2. inst' \in [Instances -> InstanceStatus]
      BY <1>1, <2>7 DEF CommitDelete, TablesTyped, InstanceStatus
    <3>3. QED
      BY <1>1, <2>7, <3>1, <3>2 DEF CommitDelete, TablesTyped
  <2>8. CASE CommitRevoked(c)
    BY <1>1, <2>1, <2>8 DEF CommitRevoked, TablesTyped, InstanceStatus
  <2>9. CASE CommitRenewCert(c)
    BY <1>1, <2>1, <2>9 DEF CommitRenewCert, TablesTyped
  <2>10. QED
    BY <1>5, <2>2, <2>3, <2>4, <2>5, <2>6, <2>7, <2>8, <2>9 DEF Commits
<1>6. QED
  BY <1>3, <1>4, <1>5, StepKinds
-----------------------------------------------------------------------------
(* Tokens *)

\* Whatever happens beside the calls, a token in use stays as it was.
LEMMA BesideKeepsTokens ==
  ASSUME EnrollTypeOK, Beside
  PROVE  \A t \in Tokens : /\ token'[t].uses = token[t].uses
                           /\ token[t].revoked => token'[t].revoked
                           /\ ~Free(t) /\ token[t].live /\ ~token[t].revoked =>
                                token'[t].live /\ ~token'[t].revoked
<1>1. ASSUME NEW t \in Tokens, RevokeToken(t) \/ TokenExpires(t)
      PROVE  \A u \in Tokens : /\ token'[u].uses = token[u].uses
                               /\ token[u].revoked => token'[u].revoked
                               /\ ~Free(u) /\ token[u].live /\ ~token[u].revoked =>
                                    token'[u].live /\ ~token'[u].revoked
  <2>1. RevokeToken(t) => Free(t)
    BY DEF RevokeToken
  <2>2. QED
    BY <1>1, <2>1, TokenWrites
<1>2. ASSUME NEW t \in Tokens, NEW ref \in BOOLEAN, NEW again \in Instances \cup {NoInst},
             Mint(t, ref, again)
      PROVE  \A u \in Tokens : /\ token'[u].uses = token[u].uses
                               /\ token[u].revoked => token'[u].revoked
                               /\ token[u].live /\ ~token[u].revoked =>
                                    token'[u].live /\ ~token'[u].revoked
  BY <1>2, TokenWrites
<1>3. QED
  BY <1>1, <1>2 DEF Beside, NewToken, ReenrollToken, ProvisioningToken, Elapse, ExpireOld,
     ClearRef, tableVars

\* A commit that is no enrollment's.
LEMMA OtherCommitKeepsTokens ==
  ASSUME EnrollTypeOK, JobsFit, NEW c \in Calls, Commits(c), ~CommitEnroll(c)
  PROVE  /\ \A t \in Tokens : /\ token'[t].uses = token[t].uses
                              /\ token'[t].revoked = token[t].revoked
                              /\ ~Free(t) => token'[t] = token[t]
         /\ UNCHANGED locked /\ job[c].kind # "enroll"
<1>1. CASE CommitDelete(c)
  BY <1>1, CallCommits DEF CommitDelete, EnrollTypeOK
<1>2. CASE ~CommitDelete(c)
  <2>1. UNCHANGED <<token, locked>> /\ job[c].kind # "enroll"
    BY <1>2, CallCommits DEF Commits, CommitRequest, CommitDecision, CommitApproval, CommitAssign,
       CommitRevoked, CommitRenewCert, Removing
  <2>2. QED
    BY <2>1
<1>3. QED
  BY <1>1, <1>2

LEMMA EnrollCommits ==
  ASSUME EnrollTypeOK, JobsFit, EnrollHolds, NEW c \in Calls, CommitEnroll(c)
  PROVE  LET t == job[c].of IN
         /\ c \in Running /\ t \in Tokens /\ locked[t] = c
         /\ token[t].live /\ ~token[t].revoked
         /\ token[t].uses < MaxUses[t]
         /\ token'[t].uses = token[t].uses + 1
         /\ \A u \in Tokens \ {t} : token'[u] = token[u] /\ locked'[u] = locked[u]
<1>1. c \in Running /\ job[c].kind = "enroll"
  BY CallCommits DEF Commits
<1>2. job[c].of \in Tokens /\ JobFits(job[c])
  BY <1>1 DEF JobsFit, JobFits
<1>3. QED
  BY <1>1, <1>2 DEF EnrollHolds, CommitEnroll, EnrollTypeOK

LEMMA EnrollHoldsKeeps ==
  ASSUME Base, EnrollHolds, EnrollNext
  PROVE  EnrollHolds'
<1>1. EnrollTypeOK /\ JobsFit /\ NoCall \notin Calls
  BY EnrollmentAssumption DEF Base
<1>2. \A d \in Running : job[d].kind = "enroll" => job[d].of \in Tokens /\ ~Free(job[d].of)
  BY <1>1 DEF EnrollHolds, JobsFit, JobFits, Running, Free
<1>3. CASE Beside
  BY <1>1, <1>2, <1>3, BesideKeepsTokens, CallsBeside DEF EnrollHolds
<1>4. ASSUME NEW c \in Calls, StartStep(c) PROVE EnrollHolds'
  <2>1. PICK j \in JobRec : /\ Starts(c, j) /\ JobFits(j)
                            /\ j.pc \in {"target", "counted", "read"} /\ token' = token
                            /\ IF j.kind = "enroll"
                               THEN /\ Free(j.of) /\ Usable(j.of) /\ j.uses = token[j.of].uses
                                    /\ locked' = [locked EXCEPT ![j.of] = c]
                               ELSE UNCHANGED locked
    BY <1>4 DEF StartStep, tableVars
  <2>2. /\ job'[c] = j /\ Running' = Running \cup {c}
        /\ \A d \in Running : job'[d] = job[d]
    BY <1>1, <2>1, JobStarts DEF Running
  <2>3. CASE j.kind = "enroll"
    <3>1. j.of \in Tokens /\ locked'[j.of] = c
          /\ \A t \in Tokens \ {j.of} : locked'[t] = locked[t]
      BY <1>1, <2>1, <2>3 DEF JobFits, EnrollTypeOK
    <3>2. \A d \in Running : job[d].kind = "enroll" => job[d].of # j.of
      BY <1>2, <2>1, <2>3
    <3>3. QED
      BY <1>2, <2>1, <2>2, <2>3, <3>1, <3>2 DEF EnrollHolds, Usable
  <2>4. CASE j.kind # "enroll"
    BY <2>1, <2>2, <2>4 DEF EnrollHolds
  <2>5. QED
    BY <2>3, <2>4
<1>5. ASSUME NEW c \in Calls, MoveStep(c) PROVE EnrollHolds'
  <2>1. PICK j \in JobRec : /\ job' = [job EXCEPT ![c] = j] /\ c \in Running
                            /\ j.kind = job[c].kind /\ j.of = job[c].of /\ j.uses = job[c].uses
                            /\ j.pc \in {"replaced", "issue", "revoking", "commit"}
                            /\ UNCHANGED <<token, locked>>
    BY <1>5 DEF MoveStep, tableVars
  <2>2. /\ job'[c] = j /\ Running' = Running
        /\ \A d \in Running \ {c} : job'[d] = job[d]
    BY <1>1, <2>1, JobMoves, ZenonT(40) DEF Running
  <2>3. QED
    BY <2>1, <2>2 DEF EnrollHolds
<1>6. ASSUME NEW c \in Calls, Commits(c) PROVE EnrollHolds'
  <2>1. c \in Running /\ job' = [job EXCEPT ![c] = Ended(c)]
    BY <1>1, <1>6, CallCommits
  <2>2. Running' = Running \ {c} /\ \A d \in Running \ {c} : job'[d] = job[d]
    BY <1>1, <2>1, JobEnds DEF Running
  <2>3. CASE CommitEnroll(c)
    <3>1. \A d \in Running \ {c} : job[d].kind = "enroll" => job[d].of # job[c].of
      BY <1>1, <2>3, EnrollCommits DEF EnrollHolds
    <3>2. QED
      BY <1>1, <1>2, <2>2, <2>3, <3>1, EnrollCommits DEF EnrollHolds
  <2>4. CASE ~CommitEnroll(c)
    BY <1>1, <1>2, <1>6, <2>2, <2>4, OtherCommitKeepsTokens DEF EnrollHolds
  <2>5. QED
    BY <2>3, <2>4
<1>7. ASSUME NEW c \in Calls, CallFails(c) PROVE EnrollHolds'
  <2>1. /\ Running' = Running \ {c} /\ \A d \in Running \ {c} : job'[d] = job[d]
        /\ token' = token
        /\ \A t \in Tokens : locked'[t] = IF locked[t] = c THEN NoCall ELSE locked[t]
    BY <1>1, <1>7, JobFails DEF Running, tableVars
  <2>2. QED
    BY <1>2, <2>1 DEF EnrollHolds
<1>8. QED
  BY <1>1, <1>3, <1>4, <1>5, <1>6, <1>7, StepKinds

LEMMA CountedKeeps ==
  ASSUME Base, EnrollHolds, Counted, EnrollNext
  PROVE  Counted'
<1>1. EnrollTypeOK /\ JobsFit /\ job \in [Calls -> JobRec]
  BY Typed DEF Base
<1>2. \A k : \A c \in Committed(k) : c \in Calls /\ job[c].pc = "done" /\ c \notin Running
  BY DEF Committed, Running
<1>3. ASSUME \A t \in Tokens : token'[t].uses = token[t].uses,
             Committed({"enroll"})' = Committed({"enroll"}),
             \A c \in Committed({"enroll"}) : job'[c] = job[c]
      PROVE  Counted'
  <2>1. \A t \in Tokens : EnrolledWith(t)' = EnrolledWith(t)
    BY <1>3 DEF EnrolledWith
  <2>2. QED
    BY <1>3, <2>1 DEF Counted
<1>4. CASE Beside
  BY <1>1, <1>3, <1>4, BesideKeepsTokens, CallsBeside
<1>5. ASSUME NEW c \in Calls, StartStep(c) PROVE Counted'
  <2>1. PICK j \in JobRec : /\ Starts(c, j) /\ j.pc \in {"target", "counted", "read"}
                            /\ token' = token
    BY <1>5 DEF StartStep, tableVars
  <2>2. /\ job[c].pc = "idle" /\ \A d \in Calls \ {c} : job'[d] = job[d]
        /\ \A k : Committed(k)' = Committed(k)
    BY <1>1, <2>1, JobStarts
  <2>3. QED
    BY <1>2, <1>3, <2>1, <2>2
<1>6. ASSUME NEW c \in Calls, MoveStep(c) PROVE Counted'
  <2>1. PICK j \in JobRec : /\ job' = [job EXCEPT ![c] = j] /\ c \in Running
                            /\ j.pc \in {"replaced", "issue", "revoking", "commit"} /\ token' = token
    BY <1>6 DEF MoveStep, tableVars
  <2>2. (\A d \in Calls \ {c} : job'[d] = job[d]) /\ \A k : Committed(k)' = Committed(k)
    BY <1>1, <2>1, JobMoves
  <2>3. QED
    BY <1>2, <1>3, <2>1, <2>2
<1>7. ASSUME NEW c \in Calls, CallFails(c) PROVE Counted'
  <2>1. /\ \A d \in Calls \ {c} : job'[d] = job[d]
        /\ \A k : Committed(k)' = Committed(k) /\ c \notin Committed(k)
        /\ token' = token
    BY <1>1, <1>7, JobFails DEF tableVars
  <2>2. QED
    BY <1>2, <1>3, <2>1
<1>8. ASSUME NEW c \in Calls, Commits(c) PROVE Counted'
  <2>1. c \in Running /\ job' = [job EXCEPT ![c] = Ended(c)]
    BY <1>1, <1>8, CallCommits
  <2>2. /\ job'[c].of = job[c].of /\ \A d \in Calls \ {c} : job'[d] = job[d]
        /\ \A k : Committed(k)' = Committed(k) \cup {d \in {c} : job[c].kind \in k}
        /\ \A k : c \notin Committed(k)
    BY <1>1, <2>1, JobEnds
  <2>3. CASE ~CommitEnroll(c)
    <3>1. /\ job[c].kind # "enroll" /\ \A t \in Tokens : token'[t].uses = token[t].uses
      BY <1>1, <1>8, <2>3, OtherCommitKeepsTokens
    <3>2. Committed({"enroll"})' = Committed({"enroll"})
      BY <2>2, <3>1
    <3>3. QED
      BY <1>2, <1>3, <2>2, <3>1, <3>2
  <2>4. CASE CommitEnroll(c)
    <3>0. PICK t \in Tokens : t = job[c].of
      BY <1>1, <2>4, EnrollCommits
    <3>1. /\ t \in Tokens /\ token'[t].uses = token[t].uses + 1
          /\ \A u \in Tokens \ {t} : token'[u] = token[u]
          /\ job[c].kind = "enroll"
      BY <1>1, <2>4, <3>0, EnrollCommits, CallCommits DEF Commits
    <3>2. Committed({"enroll"})' = Committed({"enroll"}) \cup {c}
      BY <2>2, <3>1
    <3>3. c \notin EnrolledWith(t) /\ EnrolledWith(t)' = EnrolledWith(t) \cup {c}
      BY <1>2, <2>2, <3>0, <3>2 DEF EnrolledWith
    <3>4. \A u \in Tokens \ {t} : EnrolledWith(u)' = EnrolledWith(u)
      BY <1>2, <2>2, <3>0, <3>2 DEF EnrolledWith
    <3>5. IsFiniteSet(EnrolledWith(t)) /\ token[t].uses = Cardinality(EnrolledWith(t))
      BY <3>1 DEF Counted
    <3>6. /\ IsFiniteSet(EnrolledWith(t) \cup {c})
          /\ Cardinality(EnrolledWith(t) \cup {c}) = Cardinality(EnrolledWith(t)) + 1
      BY <3>3, <3>5, FS_AddElement
    <3>7. /\ IsFiniteSet(EnrolledWith(t)') /\ token'[t].uses = Cardinality(EnrolledWith(t)')
      BY <3>1, <3>3, <3>5, <3>6
    <3>8. \A u \in Tokens \ {t} : /\ IsFiniteSet(EnrolledWith(u)')
                                  /\ token'[u].uses = Cardinality(EnrolledWith(u)')
      BY <3>1, <3>4 DEF Counted
    <3>9. QED
      BY <3>7, <3>8 DEF Counted
  <2>5. QED
    BY <2>3, <2>4
<1>9. QED
  BY <1>1, <1>4, <1>5, <1>6, <1>7, <1>8, StepKinds

LEMMA LocksTyped ==
  ASSUME Base, EnrollNext
  PROVE  locked' \in [Tokens -> Calls \cup {NoCall}]
<1>1. EnrollTypeOK /\ JobsFit /\ locked \in [Tokens -> Calls \cup {NoCall}]
  BY DEF Base, EnrollTypeOK
<1>2. ASSUME NEW c \in Calls, Commits(c) PROVE locked' \in [Tokens -> Calls \cup {NoCall}]
  <2>1. CASE CommitEnroll(c)
    BY <1>1, <2>1 DEF CommitEnroll
  <2>2. CASE ~CommitEnroll(c)
    BY <1>1, <1>2, <2>2, OtherCommitKeepsTokens
  <2>3. QED
    BY <2>1, <2>2
<1>3. ASSUME NEW c \in Calls, StartStep(c) PROVE locked' \in [Tokens -> Calls \cup {NoCall}]
  BY <1>1, <1>3 DEF StartStep
<1>4. ASSUME NEW c \in Calls, MoveStep(c) \/ CallFails(c)
      PROVE  locked' \in [Tokens -> Calls \cup {NoCall}]
  BY <1>1, <1>4 DEF MoveStep, CallFails
<1>5. QED
  BY <1>1, <1>2, <1>3, <1>4, CallsBeside, StepKinds

LEMMA UsesBounded ==
  ASSUME Base, EnrollHolds, EnrollNext
  PROVE  \A t \in Tokens : token'[t].uses <= MaxUses[t]
<1>1. /\ EnrollTypeOK /\ JobsFit
      /\ \A t \in Tokens : token[t].uses \in Nat /\ MaxUses[t] \in Nat /\ token[t].uses <= MaxUses[t]
  BY EnrollmentAssumption DEF Base, EnrollTypeOK
<1>2. ASSUME NEW c \in Calls, CommitEnroll(c)
      PROVE  \A t \in Tokens : token'[t].uses <= MaxUses[t]
  BY <1>1, <1>2, EnrollCommits
<1>3. ASSUME \A c \in Calls : ~CommitEnroll(c)
      PROVE  \A t \in Tokens : token'[t].uses = token[t].uses
  <2>1. CASE Beside
    BY <1>1, <2>1, BesideKeepsTokens
  <2>2. ASSUME NEW c \in Calls, StartStep(c) \/ MoveStep(c) \/ CallFails(c)
        PROVE  token' = token
    BY <2>2 DEF StartStep, MoveStep, CallFails, tableVars
  <2>3. ASSUME NEW c \in Calls, Commits(c)
        PROVE  \A t \in Tokens : token'[t].uses = token[t].uses
    BY <1>1, <1>3, <2>3, OtherCommitKeepsTokens
  <2>4. QED
    BY <1>1, <2>1, <2>2, <2>3, StepKinds
<1>4. QED
  BY <1>1, <1>2, <1>3

LEMMA BaseKeeps ==
  ASSUME Base, TokensInv, EnrollNext
  PROVE  Base' /\ TokensInv'
<1>1. EnrollTypeOK'
  BY CallsKeep, TablesKeep, LocksTyped, UsesBounded DEF Base, TokensInv, EnrollTypeOK,
     TablesTyped, JobRec
<1>2. QED
  BY <1>1, CallsKeep, EnrollHoldsKeeps, CountedKeeps DEF Base, TokensInv
-----------------------------------------------------------------------------
(* Requests *)

\* What each step writes to the requests.
LEMMA RequestWrites ==
  ASSUME Base, RequestsKnown, EnrollNext
  PROVE  \/ \E c \in Running :
              /\ CommitRequest(c) /\ job[c].kind = "create" /\ request[job[c].of] = "none"
              /\ \A r \in Requests :
                   \/ r = job[c].of /\ request'[r] = "pending"
                   \/ r # job[c].of /\ request[r] # "none" /\ request'[r] = "expired"
                   \/ r # job[c].of /\ request'[r] = request[r]
         \/ \E c \in Running :
              /\ CommitDecision(c) \/ CommitApproval(c)
              /\ job[c].kind \in Deciding /\ request[job[c].of] # "none"
              /\ \A r \in Requests :
                   \/ r = job[c].of /\ request'[r] \in {"rejected", "expired", "approved"}
                   \/ r # job[c].of /\ request'[r] = request[r]
         \/ /\ \A c \in Calls : Commits(c) => job[c].kind \notin Deciding \cup {"create"}
            /\ \A r \in Requests : \/ request[r] = "pending" /\ request'[r] = "expired"
                                   \/ request'[r] = request[r]
<1>1. EnrollTypeOK /\ JobsFit /\ \A c \in Calls : JobFits(job[c])
  BY DEF Base, JobsFit
<1> DEFINE Rest == \A r \in Requests : \/ request[r] = "pending" /\ request'[r] = "expired"
                                       \/ request'[r] = request[r]
<1>2. ASSUME NEW c \in Calls, CommitRequest(c)
      PROVE  /\ c \in Running /\ job[c].kind = "create" /\ request[job[c].of] = "none"
             /\ \A r \in Requests :
                   \/ r = job[c].of /\ request'[r] = "pending"
                   \/ r # job[c].of /\ request[r] # "none" /\ request'[r] = "expired"
                   \/ r # job[c].of /\ request'[r] = request[r]
  <2>1. c \in Running /\ job[c].kind = "create" /\ job[c].pc = "replaced"
    BY <1>1, <1>2, CallCommits DEF Commits, CommitRequest
  <2>2. QED
    BY <1>2, <2>1 DEF RequestsKnown, CommitRequest
<1>3. ASSUME NEW c \in Calls, CommitDecision(c) \/ CommitApproval(c)
      PROVE  /\ c \in Running /\ job[c].kind \in Deciding /\ request[job[c].of] # "none"
             /\ \A r \in Requests :
                   \/ r = job[c].of /\ request'[r] \in {"rejected", "expired", "approved"}
                   \/ r # job[c].of /\ request'[r] = request[r]
  <2>1. c \in Running /\ job[c].kind \in Deciding /\ request[job[c].of] # "none"
    BY <1>1, <1>3, CallCommits DEF Commits, Deciding, RequestsKnown
  <2>2. QED
    BY <1>1, <1>3, <2>1 DEF CommitDecision, CommitApproval, EnrollTypeOK
<1>4. ASSUME Beside PROVE Rest
  BY <1>4 DEF Beside, NewToken, ReenrollToken, ProvisioningToken, Mint, RevokeToken,
     TokenExpires, Elapse, ExpireOld, ClearRef, tableVars, Pending
<1>5. ASSUME NEW c \in Calls, StartStep(c) \/ MoveStep(c) \/ CallFails(c) PROVE Rest
  BY <1>5 DEF StartStep, MoveStep, CallFails, tableVars
<1>6. ASSUME NEW c \in Calls, \/ CommitEnroll(c) \/ CommitAssign(c) \/ CommitRevoked(c)
                              \/ CommitDelete(c) \/ CommitRenewCert(c)
      PROVE  Rest
  BY <1>6 DEF CommitEnroll, CommitAssign, CommitRevoked, CommitDelete, CommitRenewCert
<1>7. CASE \E c \in Calls : CommitRequest(c) \/ CommitDecision(c) \/ CommitApproval(c)
  BY <1>2, <1>3, <1>7
<1>8. CASE ~\E c \in Calls : CommitRequest(c) \/ CommitDecision(c) \/ CommitApproval(c)
  <2>1. \A c \in Calls : Commits(c) => job[c].kind \notin Deciding \cup {"create"}
    BY <1>1, <1>8, CallCommits DEF Commits, Deciding, Removing
  <2>2. Rest
    BY <1>1, <1>4, <1>5, <1>6, <1>8, StepKinds DEF Commits
  <2>3. QED
    BY <2>1, <2>2
<1>9. QED
  BY <1>7, <1>8

LEMMA RequestsGoOn ==
  ASSUME Base, RequestsKnown, EnrollNext
  PROVE  /\ \A r \in Requests : request[r] # "none" => request'[r] # "none"
         /\ \A r \in Requests :
              request[r] \notin {"none", "pending"} => request'[r] \notin {"none", "pending"}
         /\ \A r \in Requests : request[r] = "none" /\ request'[r] # "none" =>
              \E c \in Running : /\ job[c].kind = "create" /\ job[c].of = r
                                 /\ CommitRequest(c)
BY RequestWrites

LEMMA DecisionWrites ==
  ASSUME EnrollTypeOK, JobsFit, NEW c \in Calls, Commits(c), job[c].kind \in Deciding
  PROVE  request'[job[c].of] \notin {"none", "pending"}
<1>1. job[c].of \in Requests
  BY DEF JobsFit, JobFits
<1>2. CommitDecision(c) \/ CommitApproval(c)
  BY CallCommits DEF Commits, Deciding, Removing
<1>3. QED
  BY <1>1, <1>2 DEF CommitDecision, CommitApproval, EnrollTypeOK

LEMMA RequestsKnownKeeps ==
  ASSUME Base, RequestsKnown, EnrollNext
  PROVE  RequestsKnown'
<1>1. /\ EnrollTypeOK /\ JobsFit /\ \A c \in Calls : JobFits(job[c])
      /\ Running \subseteq Calls /\ \A k : Committed(k) \subseteq Calls
  BY DEF Base, JobsFit, Running, Committed
<1>2. \A k : \A c \in Committed(k) : c \notin Running /\ job[c].pc = "done" /\ job[c].kind \in k
  BY DEF Committed, Running
<1> DEFINE OfRequest(c) == job[c].kind \in Deciding \cup {"create"} => job[c].of \in Requests
<1>3. \A c \in Calls : OfRequest(c)
  BY <1>1 DEF JobFits
<1>4. CASE Beside
  <2>1. /\ job' = job /\ Running' = Running /\ \A k : Committed(k)' = Committed(k)
    BY <1>4, CallsBeside
  <2>2. \A c \in Calls : ~CommitRequest(c)
    <3>1. ASSUME NEW c \in Calls, CommitRequest(c) PROVE FALSE
      <4>1. c \in Running /\ Running' = Running \ {c}
        BY <1>1, <3>1, CallCommits, JobEnds DEF Commits
      <4>2. QED
        BY <2>1, <4>1
    <3>2. QED
      BY <3>1
  <2>3. \A r \in Requests : request[r] = "none" => request'[r] = "none"
    BY <1>1, <2>2, RequestsGoOn
  <2>4. QED
    BY <1>1, <1>2, <1>3, <2>1, <2>3, RequestsGoOn DEF RequestsKnown
<1>5. ASSUME NEW c \in Calls, StartStep(c) PROVE RequestsKnown'
  <2>1. PICK j \in JobRec : /\ Starts(c, j) /\ JobFits(j)
                            /\ j.pc \in {"target", "counted", "read"} /\ request' = request
                            /\ j.kind \in Deciding => request[j.of] = "pending"
                            /\ j.kind = "create" => /\ request[j.of] = "none"
                                                    /\ \A d \in Running : job[d].of # j.of
    BY <1>5 DEF StartStep, tableVars
  <2>2. /\ job'[c] = j /\ job[c].pc = "idle" /\ Running' = Running \cup {c}
        /\ \A d \in Calls \ {c} : job'[d] = job[d]
        /\ \A k : Committed(k)' = Committed(k)
    BY <1>1, <2>1, JobStarts
  <2>3. \A k : \A d \in Committed(k) : job'[d] = job[d]
    BY <1>1, <1>2, <2>2
  <2>4. \A d \in Running : job'[d] = job[d]
    BY <1>1, <2>2 DEF Running
  <2>5. QED
    BY <1>1, <2>1, <2>2, <2>3, <2>4 DEF RequestsKnown
<1>6. ASSUME NEW c \in Calls, MoveStep(c) PROVE RequestsKnown'
  <2>1. PICK j \in JobRec : /\ job' = [job EXCEPT ![c] = j] /\ c \in Running
                            /\ j.kind = job[c].kind /\ j.of = job[c].of
                            /\ j.pc \in {"replaced", "issue", "revoking", "commit"}
                            /\ j.pc = "replaced" => j.taken \subseteq Pending
                            /\ request' = request
    BY <1>6 DEF MoveStep, tableVars
  <2>2. /\ job'[c] = j /\ Running' = Running
        /\ \A d \in Calls \ {c} : job'[d] = job[d]
        /\ \A k : Committed(k)' = Committed(k)
    BY <1>1, <2>1, JobMoves
  <2>3. /\ \A d \in Calls : job'[d].kind = job[d].kind /\ job'[d].of = job[d].of
        /\ \A d \in Calls \ {c} : job'[d] = job[d]
    BY <2>1, <2>2
  <2>4. \A d \in Running : job'[d].pc = "replaced" =>
          \A r \in job'[d].taken : r \in Requests /\ request'[r] # "none"
    BY <1>1, <2>1, <2>2 DEF RequestsKnown, Pending
  <2>5. QED
    BY <1>1, <2>1, <2>2, <2>3, <2>4 DEF RequestsKnown
<1>7. ASSUME NEW c \in Running, Running' = Running \ {c},
             \A d \in Calls \ {c} : job'[d] = job[d],
             \A r \in Requests : request[r] = "none" /\ request'[r] # "none" =>
               job[c].kind = "create" /\ job[c].of = r,
             \A d \in Committed(Deciding)' : request'[job'[d].of] \notin {"none", "pending"}
      PROVE  RequestsKnown'
  <2>1. \A d \in Running' : d \in Running /\ d # c /\ job'[d] = job[d] /\ d \in Calls
    BY <1>1, <1>7
  <2>2. \A d \in Running' : job'[d].kind = "create" => request'[job'[d].of] = "none"
    BY <1>3, <1>7, <2>1 DEF RequestsKnown
  <2>3. \A d \in Running' : job'[d].pc = "replaced" =>
          \A r \in job'[d].taken : r \in Requests /\ request'[r] # "none"
    BY <2>1, RequestsGoOn DEF RequestsKnown
  <2>4. \A d \in Running' : job'[d].kind \in Deciding => request'[job'[d].of] # "none"
    BY <1>3, <2>1, RequestsGoOn DEF RequestsKnown
  <2>5. QED
    BY <1>7, <2>1, <2>2, <2>3, <2>4 DEF RequestsKnown
<1>8. ASSUME NEW c \in Calls, Commits(c) PROVE RequestsKnown'
  <2>1. c \in Running /\ job' = [job EXCEPT ![c] = Ended(c)]
    BY <1>1, <1>8, CallCommits
  <2>2. /\ Running' = Running \ {c} /\ \A d \in Calls \ {c} : job'[d] = job[d]
        /\ job'[c].of = job[c].of
        /\ \A k : Committed(k)' = Committed(k) \cup {d \in {c} : job[c].kind \in k}
    BY <1>1, <2>1, JobEnds
  <2>3. ASSUME NEW r \in Requests, request[r] = "none", request'[r] # "none"
        PROVE  job[c].kind = "create" /\ job[c].of = r
    <3>1. PICK d \in Running : job[d].kind = "create" /\ job[d].of = r /\ CommitRequest(d)
      BY <2>3, RequestsGoOn
    <3>2. Running' = Running \ {d}
      BY <1>1, <3>1, CallCommits, JobEnds DEF Commits
    <3>3. QED
      BY <2>1, <2>2, <3>1, <3>2
  <2>4. \A d \in Committed(Deciding)' : request'[job'[d].of] \notin {"none", "pending"}
    <3>1. \A d \in Committed(Deciding) : request'[job'[d].of] \notin {"none", "pending"}
      BY <1>1, <1>2, <1>3, <2>1, <2>2, RequestsGoOn DEF RequestsKnown
    <3>2. job[c].kind \in Deciding => request'[job'[c].of] \notin {"none", "pending"}
      BY <1>1, <1>8, <2>2, DecisionWrites
    <3>3. QED
      BY <2>2, <3>1, <3>2
  <2>5. QED
    BY <1>7, <2>1, <2>2, <2>3, <2>4
<1>9. ASSUME NEW c \in Calls, CallFails(c) PROVE RequestsKnown'
  <2>1. /\ c \in Running /\ Running' = Running \ {c}
        /\ \A d \in Calls \ {c} : job'[d] = job[d]
        /\ \A k : Committed(k)' = Committed(k) /\ c \notin Committed(k)
        /\ request' = request
    BY <1>1, <1>9, JobFails DEF tableVars
  <2>2. \A d \in Committed(Deciding)' : request'[job'[d].of] \notin {"none", "pending"}
    BY <1>1, <2>1 DEF RequestsKnown
  <2>3. QED
    BY <1>7, <2>1, <2>2
<1>10. QED
  BY <1>1, <1>4, <1>5, <1>6, <1>8, <1>9, StepKinds

LEMMA DecidersMetKeeps ==
  ASSUME Base, RequestsKnown, DecidersMet, EnrollNext
  PROVE  DecidersMet'
<1>1. /\ EnrollTypeOK /\ JobsFit /\ Together /\ Running \subseteq Calls
      /\ Committed(Deciding) \subseteq Calls
      /\ \A d \in Committed(Deciding) : d \notin Running /\ job[d].pc = "done"
  BY DEF Base, Running, Committed
<1>2. CASE Beside
  BY <1>2, CallsBeside DEF DecidersMet
<1>3. ASSUME NEW c \in Calls, StartStep(c) PROVE DecidersMet'
  <2>1. PICK j \in JobRec : /\ Starts(c, j) /\ JobFits(j)
                            /\ j.pc \in {"target", "counted", "read"}
                            /\ j.kind \in Deciding => request[j.of] = "pending"
    BY <1>3 DEF StartStep
  <2>2. /\ job'[c] = j /\ job[c].pc = "idle" /\ Running' = Running \cup {c}
        /\ \A d \in Calls \ {c} : job'[d] = job[d]
        /\ Committed(Deciding)' = Committed(Deciding) /\ overlap \subseteq overlap'
    BY <1>1, <2>1, JobStarts
  <2>3. /\ \A d \in Committed(Deciding) : job'[d] = job[d]
        /\ \A d \in Running : job'[d] = job[d]
    BY <1>1, <2>2 DEF Running
  <2>4. \A d \in Committed(Deciding) : j.kind \in Deciding => job[d].of # j.of
    BY <2>1 DEF RequestsKnown
  <2>5. QED
    BY <2>2, <2>3, <2>4 DEF DecidersMet
<1>4. ASSUME NEW c \in Calls, MoveStep(c) PROVE DecidersMet'
  <2>1. PICK j \in JobRec : /\ job' = [job EXCEPT ![c] = j] /\ c \in Running
                            /\ j.kind = job[c].kind /\ j.of = job[c].of
                            /\ j.pc \in {"replaced", "issue", "revoking", "commit"} /\ overlap' = overlap
    BY <1>4 DEF MoveStep
  <2>2. /\ job'[c] = j /\ Running' = Running
        /\ \A d \in Calls \ {c} : job'[d] = job[d]
        /\ Committed(Deciding)' = Committed(Deciding)
    BY <1>1, <2>1, JobMoves
  <2>3. \A d \in Calls : job'[d].kind = job[d].kind /\ job'[d].of = job[d].of
    BY <2>1, <2>2
  <2>4. QED
    BY <1>1, <2>1, <2>2, <2>3 DEF DecidersMet
<1>5. ASSUME NEW c \in Calls, Commits(c) PROVE DecidersMet'
  <2>1. c \in Running /\ job' = [job EXCEPT ![c] = Ended(c)] /\ overlap' = overlap
    BY <1>1, <1>5, CallCommits
  <2>2. /\ Running' = Running \ {c} /\ \A d \in Calls \ {c} : job'[d] = job[d]
        /\ job'[c].of = job[c].of /\ job'[c].kind = job[c].kind
        /\ Committed(Deciding)' = Committed(Deciding) \cup {d \in {c} : job[c].kind \in Deciding}
    BY <1>1, <2>1, JobEnds
  <2>3. \A d \in Calls : job'[d].kind = job[d].kind /\ job'[d].of = job[d].of
    BY <2>2
  <2>4. \A d \in Running \ {c} : {d, c} \in overlap
    BY <1>1, <2>1 DEF Together
  <2>5. \A d \in Committed(Deciding) : job[c].kind \in Deciding /\ job[c].of = job[d].of =>
          {c, d} \in overlap /\ {d, c} \in overlap
    <3>1. \A d : {c, d} = {d, c}
      OBVIOUS
    <3>2. QED
      BY <2>1, <3>1 DEF DecidersMet
  <2>6. QED
    BY <1>1, <2>1, <2>2, <2>3, <2>4, <2>5 DEF DecidersMet
<1>6. ASSUME NEW c \in Calls, CallFails(c) PROVE DecidersMet'
  <2>1. /\ c \in Running /\ Running' = Running \ {c}
        /\ \A d \in Calls \ {c} : job'[d] = job[d]
        /\ Committed(Deciding)' = Committed(Deciding)
        /\ \A p \in overlap : c \notin p => p \in overlap'
    BY <1>1, <1>6, JobFails
  <2>2. QED
    BY <1>1, <2>1 DEF DecidersMet
<1>7. QED
  BY <1>1, <1>2, <1>3, <1>4, <1>5, <1>6, StepKinds

\* What was committed stays; a call that runs on keeps its kind and subject,
\* and whom it overlapped with.
LEMMA Carry ==
  ASSUME Base, EnrollNext
  PROVE  /\ \A c \in Calls : job[c].pc = "done" => job'[c] = job[c]
         /\ \A k : Committed(k) \subseteq Committed(k)'
         /\ \A c, d \in Calls :
              /\ {c, d} \in overlap
              /\ job[c].pc = "done" \/ c \in Running'
              /\ job[d].pc = "done" \/ d \in Running'
              => {c, d} \in overlap'
         /\ \A c \in Running' :
              \/ c \in Running /\ job'[c].kind = job[c].kind /\ job'[c].of = job[c].of
              \/ c \notin Running /\ StartStep(c)
         /\ \A k : \A c \in Committed(k)' \ Committed(k) :
              /\ c \in Running /\ Commits(c) /\ job[c].kind \in k
              /\ job'[c].of = job[c].of /\ job'[c].tgt = job[c].tgt
              /\ Running' = Running \ {c} /\ overlap' = overlap
<1>1. /\ EnrollTypeOK /\ JobsFit /\ Running \subseteq Calls
      /\ \A c \in Calls : job[c].pc = "done" => c \notin Running
  BY DEF Base, Running
<1>2. CASE Beside
  BY <1>2, CallsBeside
<1>3. ASSUME NEW c \in Calls, StartStep(c)
      PROVE  /\ job[c].pc = "idle" /\ Running' = Running \cup {c} /\ c \notin Running
             /\ \A d \in Calls \ {c} : job'[d] = job[d]
             /\ (\A k : Committed(k)' = Committed(k)) /\ overlap \subseteq overlap'
  <2>1. PICK j \in JobRec : Starts(c, j) /\ j.pc \in {"target", "counted", "read"}
    BY <1>3 DEF StartStep
  <2>2. QED
    BY <1>1, <2>1, JobStarts
<1>4. ASSUME NEW c \in Calls, MoveStep(c)
      PROVE  /\ c \in Running /\ Running' = Running /\ \A d \in Calls \ {c} : job'[d] = job[d]
             /\ job'[c].kind = job[c].kind /\ job'[c].of = job[c].of
             /\ (\A k : Committed(k)' = Committed(k)) /\ overlap' = overlap
  <2>1. PICK j \in JobRec : /\ job' = [job EXCEPT ![c] = j] /\ c \in Running
                            /\ j.kind = job[c].kind /\ j.of = job[c].of
                            /\ j.pc \in {"replaced", "issue", "revoking", "commit"} /\ overlap' = overlap
    BY <1>4 DEF MoveStep
  <2>2. QED
    BY <1>1, <2>1, JobMoves
<1>5. ASSUME NEW c \in Calls, Commits(c)
      PROVE  /\ c \in Running /\ Running' = Running \ {c}
             /\ \A d \in Calls \ {c} : job'[d] = job[d]
             /\ job'[c].of = job[c].of /\ job'[c].tgt = job[c].tgt /\ overlap' = overlap
             /\ \A k : Committed(k)' = Committed(k) \cup {d \in {c} : job[c].kind \in k}
  <2>1. c \in Running /\ job' = [job EXCEPT ![c] = Ended(c)] /\ overlap' = overlap
    BY <1>1, <1>5, CallCommits
  <2>2. QED
    BY <1>1, <2>1, JobEnds
<1>6. ASSUME NEW c \in Calls, CallFails(c)
      PROVE  /\ c \in Running /\ Running' = Running \ {c}
             /\ \A d \in Calls \ {c} : job'[d] = job[d]
             /\ \A k : Committed(k)' = Committed(k)
             /\ \A p \in overlap : c \notin p => p \in overlap'
  BY <1>1, <1>6, JobFails
<1>7. CASE \E c \in Calls : StartStep(c)
  BY <1>1, <1>3, <1>7
<1>8. CASE \E c \in Calls : MoveStep(c)
  BY <1>1, <1>4, <1>8
<1>9. CASE \E c \in Calls : Commits(c)
  BY <1>1, <1>5, <1>9
<1>10. CASE \E c \in Calls : CallFails(c)
  BY <1>1, <1>6, <1>10
<1>11. QED
  BY <1>1, <1>2, <1>7, <1>8, <1>9, <1>10, StepKinds

LEMMA PendingGrows ==
  ASSUME Base, RequestsKnown, EnrollNext
  PROVE  \A r \in Pending' \ Pending : \E e \in Running :
           /\ CommitRequest(e) /\ job[e].kind = "create" /\ job[e].of = r
           /\ e \in Committed({"create"})' /\ job'[e].of = r
<1>1. \A r \in Pending' \ Pending : request[r] = "none"
  BY RequestsGoOn DEF Pending
<1>2. \A r \in Pending' \ Pending : \E e \in Running :
        CommitRequest(e) /\ job[e].kind = "create" /\ job[e].of = r
  BY <1>1, RequestsGoOn DEF Pending
<1>3. ASSUME NEW e \in Running, CommitRequest(e), job[e].kind = "create"
      PROVE  e \in Committed({"create"})' /\ job'[e].of = job[e].of
  BY <1>3, CallCommits, JobEnds DEF Commits, Base, Running
<1>4. QED
  BY <1>2, <1>3

\* Counting: a set of pending requests larger than the cap has one that some
\* call created, and one more created beside it.
LEMMA RoomKeptKeeps ==
  ASSUME Base, RequestsKnown, RoomKept, EnrollNext
  PROVE  RoomKept'
<1>1. /\ Running \subseteq Calls /\ Together /\ Together'
      /\ \A c \in Committed({"create"}) : c \in Calls /\ job[c].pc = "done" /\ job'[c] = job[c]
      /\ Committed({"create"}) \subseteq Committed({"create"})'
  BY CallsKeep, Carry DEF Base, Running, Committed
<1>2. IsFiniteSet(Pending) /\ IsFiniteSet(Pending') /\ MaxPending \in Nat
  BY EnrollmentAssumption, FS_Subset DEF Pending
<1>3. \A S \in SUBSET Pending' : IsFiniteSet(S) /\ Cardinality(S) \in Nat
  BY <1>2, FS_Subset, FS_CardinalityType
<1>4. \A S \in SUBSET Pending : IsFiniteSet(S) /\ Cardinality(S) \in Nat
                                /\ \A T \in SUBSET S : Cardinality(T) <= Cardinality(S)
  BY <1>2, FS_Subset, FS_CardinalityType
<1>5. ASSUME NEW c \in Running', job'[c].kind = "create"
      PROVE  Cardinality(Unmet(c)') < MaxPending
  <2>1. CASE c \in Running /\ job'[c].kind = job[c].kind /\ job'[c].of = job[c].of
    <3>1. ASSUME NEW r \in Unmet(c)' PROVE r \in Unmet(c)
      <4>1. r \in Pending'
        BY DEF Unmet
      <4>2. r \in Pending
        <5>1. ASSUME r \notin Pending PROVE FALSE
          <6>1. PICK e \in Running : /\ CommitRequest(e) /\ job[e].of = r
                                     /\ e \in Committed({"create"})' /\ job'[e].of = r
            BY <4>1, <5>1, PendingGrows
          <6>2. e # c /\ e \in Calls
            BY <1>1, <6>1 DEF Committed, Running
          <6>3. {c, e} \in overlap
            BY <2>1, <6>2, <6>1 DEF Base, Together
          <6>4. overlap' = overlap
            BY <6>1 DEF CommitRequest
          <6>5. QED
            BY <6>1, <6>3, <6>4 DEF Unmet
        <5>2. QED
          BY <5>1
      <4>3. ASSUME NEW d \in Committed({"create"}), job[d].of = r PROVE {c, d} \notin overlap
        <5>1. {c, d} \notin overlap'
          BY <1>1, <4>3 DEF Unmet
        <5>2. QED
          BY <1>1, <2>1, <5>1, Carry
      <4>4. QED
        BY <4>2, <4>3 DEF Unmet
    <3>2. Unmet(c)' \subseteq Unmet(c) /\ Unmet(c) \subseteq Pending
      BY <3>1 DEF Unmet
    <3>3. Cardinality(Unmet(c)) < MaxPending
      BY <1>5, <2>1 DEF RoomKept
    <3>4. Cardinality(Unmet(c)') <= Cardinality(Unmet(c))
      BY <1>4, <3>2
    <3>5. Cardinality(Unmet(c)') \in Nat /\ Cardinality(Unmet(c)) \in Nat
      BY <1>4, <3>2
    <3>6. QED
      BY <1>2, <3>3, <3>4, <3>5
  <2>2. CASE c \notin Running /\ StartStep(c)
    <3>1. PICK j \in JobRec : /\ Starts(c, j) /\ j.pc \in {"target", "counted", "read"}
                              /\ j.kind = "create" => Room
                              /\ request' = request
      BY <2>2 DEF StartStep, tableVars
    <3>2. job'[c] = j
      BY <1>1, <3>1, JobStarts DEF Base, Starts, Running
    <3>3. Cardinality(Pending) < MaxPending /\ Unmet(c)' \subseteq Pending
      BY <1>5, <3>1, <3>2 DEF Room, Unmet, Pending
    <3>4. Cardinality(Unmet(c)') <= Cardinality(Pending) /\ Cardinality(Pending) \in Nat
          /\ Cardinality(Unmet(c)') \in Nat
      BY <1>4, <3>3
    <3>5. QED
      BY <1>2, <3>3, <3>4
  <2>3. QED
    BY <1>5, <2>1, <2>2, Carry
<1>6. ASSUME NEW S \in SUBSET Pending', Cardinality(S) > MaxPending
      PROVE  \E c, d \in Committed({"create"})' :
               c # d /\ {job'[c].of, job'[d].of} \subseteq S /\ {c, d} \in overlap'
  <2>1. CASE S \subseteq Pending
    <3>1. PICK c \in Committed({"create"}), d \in Committed({"create"}) :
            c # d /\ {job[c].of, job[d].of} \subseteq S /\ {c, d} \in overlap
      BY <1>6, <2>1 DEF RoomKept
    <3>2. {c, d} \in overlap'
      BY <1>1, <3>1, Carry
    <3>3. QED
      BY <1>1, <3>1, <3>2
  <2>2. CASE ~(S \subseteq Pending)
    <3>1. PICK e \in Running, r \in S :
            /\ CommitRequest(e) /\ job[e].kind = "create" /\ job[e].of = r
            /\ e \in Committed({"create"})' /\ job'[e].of = r
      BY <2>2, PendingGrows
    <3>2. overlap' = overlap /\ e \in Calls
          /\ \A q \in Requests \ {r} : request'[q] = "pending" => request[q] = "pending"
      BY <1>1, <3>1 DEF CommitRequest
    <3>3. S \ {r} \subseteq Pending
      BY <3>2 DEF Pending
    <3>4. CASE S \ {r} \subseteq Unmet(e)
      <4>1. Cardinality(S \ {r}) <= Cardinality(Unmet(e)) /\ Cardinality(Unmet(e)) < MaxPending
        <5>1. Unmet(e) \subseteq Pending
          BY DEF Unmet
        <5>2. QED
          BY <1>4, <3>1, <3>4, <5>1 DEF RoomKept
      <4>2. Cardinality(S) = Cardinality(S \ {r}) + 1
        <5>1. IsFiniteSet(S) /\ Cardinality(S) \in Nat
          BY <1>3
        <5>2. Cardinality(S \ {r}) = Cardinality(S) - 1
          BY <5>1, FS_RemoveElement
        <5>3. QED
          BY <5>1, <5>2
      <4>3. Cardinality(S \ {r}) \in Nat /\ Cardinality(Unmet(e)) \in Nat
        BY <1>4, <3>3 DEF Unmet
      <4>4. QED
        BY <1>2, <1>6, <4>1, <4>2, <4>3
    <3>5. CASE ~(S \ {r} \subseteq Unmet(e))
      <4>1. PICK q \in S \ {r} : q \notin Unmet(e)
        BY <3>5
      <4>2. PICK d \in Committed({"create"}) : job[d].of = q /\ {e, d} \in overlap
        BY <3>3, <4>1 DEF Unmet
      <4>3. d \in Committed({"create"})' /\ job'[d].of = q /\ d # e
        BY <1>1, <3>1, <4>1, <4>2
      <4>4. QED
        BY <3>1, <3>2, <4>1, <4>2, <4>3
    <3>6. QED
      BY <3>4, <3>5
  <2>3. QED
    BY <2>1, <2>2
<1>7. QED
  BY <1>5, <1>6 DEF RoomKept
-----------------------------------------------------------------------------
(* References *)

\* Call e ends and gives the reference to i, or life while i bears it: it has
\* met the other bearers, or they and i are covered already.
Gives(e, i) ==
  /\ e \in Running /\ Running' = Running \ {e} /\ overlap' = overlap
  /\ job'[e].pc = "done"
  /\ ByRef' \subseteq ByRef \cup {i} /\ bearing' \subseteq bearing \cup {i}
  /\ givers[i] \subseteq givers'[i] /\ givers'[i] \subseteq givers[i] \cup {e}
  /\ \A k \in Instances \ {i} : givers'[k] = givers[k]
  /\ i \in (ByRef' \ ByRef) \cup (bearing' \ bearing) =>
       /\ e \in givers'[i]
       /\ \A k \in ByRef \ {i} : Covered(i, k) \/ Met(e, k)

LEMMA IdentityGives ==
  ASSUME Base, RefsInv, NEW e \in Calls, CommitEnroll(e) \/ CommitApproval(e)
  PROVE  job[e].tgt \in Instances /\ Gives(e, job[e].tgt) /\ BearersLive'
<1>1. /\ EnrollTypeOK /\ JobsFit /\ Identity(e) /\ Commits(e)
  BY DEF Base, CommitEnroll, CommitApproval, Commits
<1>2. /\ e \in Running /\ Running' = Running \ {e} /\ overlap' = overlap
      /\ job'[e].pc = "done" /\ job[e].pc = "commit" /\ job[e].tgt \in Instances
  BY <1>1, CallCommits, JobEnds DEF Identity, JobsFit, JobFits
<1>3. PICK i \in Instances : i = job[e].tgt
  BY <1>2
<1>4. /\ inst' = [inst EXCEPT ![i] = IF job[e].fresh \/ job[e].was # "active"
                                     THEN "active" ELSE inst[i]]
      /\ bearing' = IF job[e].ref THEN bearing \cup {i} ELSE bearing
      /\ job[e].fresh \/ inst[i] # "none"
      /\ givers' = [givers EXCEPT ![i] = IF i \notin ByRef /\ (job[e].ref \/ i \in ByRef')
                                         THEN @ \cup {e} ELSE @]
  BY <1>1, <1>3 DEF Identity
<1>5. /\ inst'[i] # "none" /\ \A k \in Instances \ {i} : inst'[k] = inst[k]
  BY <1>1, <1>4 DEF EnrollTypeOK
<1>6. BearersLive'
  BY <1>3, <1>4, <1>5 DEF RefsInv, BearersLive
<1>7. bearing \subseteq Instances
  BY <1>1 DEF EnrollTypeOK
<1>8. ByRef' \subseteq ByRef \cup {i}
  BY <1>4, <1>5, <1>7 DEF ByRef
<1>9. /\ givers'[i] = IF i \notin ByRef /\ (job[e].ref \/ i \in ByRef')
                      THEN givers[i] \cup {e} ELSE givers[i]
      /\ \A k \in Instances \ {i} : givers'[k] = givers[k]
  BY <1>1, <1>4 DEF EnrollTypeOK
<1>10. ASSUME i \in (ByRef' \ ByRef) \cup (bearing' \ bearing)
       PROVE  /\ e \in givers'[i]
              /\ \A k \in ByRef \ {i} : Covered(i, k) \/ Met(e, k)
  <2>1. i \notin ByRef /\ (job[e].ref \/ i \in ByRef') /\ (i \in bearing \/ job[e].ref)
    BY <1>4, <1>10 DEF ByRef
  <2>2. \A k \in ByRef \ {i} : Covered(i, k) \/ Met(e, k)
    BY <1>2, <1>3, <2>1 DEF RefsInv, TargetMet
  <2>3. QED
    BY <1>9, <2>1, <2>2
<1>11. Gives(e, i)
  BY <1>2, <1>4, <1>8, <1>9, <1>10 DEF Gives
<1>12. QED
  BY <1>3, <1>6, <1>11

LEMMA AssignGives ==
  ASSUME Base, RefsInv, NEW e \in Calls, CommitAssign(e)
  PROVE  job[e].of \in Instances /\ Gives(e, job[e].of) /\ BearersLive'
<1>1. EnrollTypeOK /\ JobsFit /\ Commits(e)
  BY DEF Base, Commits
<1>2. /\ e \in Running /\ Running' = Running \ {e} /\ overlap' = overlap
      /\ job'[e].pc = "done" /\ job[e].kind = "assign" /\ job[e].of \in Instances
  BY <1>1, CallCommits, JobEnds DEF CommitAssign, JobsFit, JobFits
<1>3. PICK i \in Instances : i = job[e].of
  BY <1>2
<1>4. /\ inst' = inst /\ bearing' = bearing \cup {i} /\ inst[i] # "none"
      /\ givers' = [givers EXCEPT ![i] = IF i \in ByRef THEN @ ELSE @ \cup {e}]
  BY <1>3 DEF CommitAssign
<1>5. BearersLive'
  BY <1>4 DEF RefsInv, BearersLive
<1>6. ByRef' \subseteq ByRef \cup {i}
  BY <1>4 DEF ByRef
<1>7. /\ givers'[i] = IF i \in ByRef THEN givers[i] ELSE givers[i] \cup {e}
      /\ \A k \in Instances \ {i} : givers'[k] = givers[k]
  BY <1>1, <1>4 DEF EnrollTypeOK
<1>8. i \in (ByRef' \ ByRef) \cup (bearing' \ bearing) => i \notin ByRef
  BY DEF ByRef
<1>9. \A k \in ByRef \ {i} : Covered(i, k) \/ Met(e, k)
  BY <1>2, <1>3 DEF RefsInv, AssignMet
<1>10. Gives(e, i)
  BY <1>2, <1>4, <1>6, <1>7, <1>8, <1>9 DEF Gives
<1>11. QED
  BY <1>3, <1>5, <1>10

LEMMA RevokedGives ==
  ASSUME Base, RefsInv, NEW e \in Calls, CommitRevoked(e)
  PROVE  job[e].of \in Instances /\ Gives(e, job[e].of) /\ BearersLive'
<1>1. EnrollTypeOK /\ JobsFit /\ Commits(e)
  BY DEF Base, Commits
<1>2. /\ e \in Running /\ Running' = Running \ {e} /\ overlap' = overlap
      /\ job'[e].pc = "done" /\ job[e].kind \in Removing /\ job[e].of \in Instances
  BY <1>1, CallCommits, JobEnds DEF JobsFit, JobFits
<1>3. PICK i \in Instances : i = job[e].of
  BY <1>2
<1>4. /\ inst[i] # "none" /\ inst'[i] # "none" /\ bearing' = bearing
      /\ \A k \in Instances \ {i} : inst'[k] = inst[k]
      /\ givers' = [givers EXCEPT ![i] = IF i \notin ByRef /\ i \in ByRef'
                                         THEN @ \cup {e} ELSE @]
  BY <1>1, <1>3 DEF CommitRevoked, EnrollTypeOK
<1>5. BearersLive'
  BY <1>4 DEF RefsInv, BearersLive
<1>6. ByRef' \subseteq ByRef \cup {i}
  BY <1>1, <1>4 DEF ByRef, EnrollTypeOK
<1>7. /\ givers'[i] = IF i \notin ByRef /\ i \in ByRef' THEN givers[i] \cup {e} ELSE givers[i]
      /\ \A k \in Instances \ {i} : givers'[k] = givers[k]
  BY <1>1, <1>4 DEF EnrollTypeOK
<1>8. ASSUME i \in ByRef' PROVE \A k \in ByRef \ {i} : Covered(i, k) \/ Met(e, k)
  BY <1>2, <1>3, <1>4, <1>8 DEF RefsInv, RemoveMet, ByRef
<1>9. Gives(e, i)
  BY <1>2, <1>4, <1>6, <1>7, <1>8 DEF Gives
<1>10. QED
  BY <1>3, <1>5, <1>9

\* Nothing else gives the reference to anyone.
Withholds == ByRef' \subseteq ByRef /\ bearing' \subseteq bearing /\ givers' = givers

LEMMA RefWrites ==
  ASSUME Base, RefsInv, EnrollNext
  PROVE  /\ BearersLive'
         /\ Withholds \/ \E e \in Running, i \in Instances : Gives(e, i)
<1>1. EnrollTypeOK /\ JobsFit /\ BearersLive /\ Running \subseteq Calls
  BY DEF Base, RefsInv, Running
<1>2. ASSUME UNCHANGED <<inst, bearing, givers>> PROVE BearersLive' /\ Withholds
  BY <1>1, <1>2 DEF BearersLive, Withholds, ByRef
<1>3. CASE Beside
  <2>1. ASSUME NEW i \in Instances, ClearRef(i) PROVE BearersLive' /\ Withholds
    BY <1>1, <2>1 DEF ClearRef, BearersLive, Withholds, ByRef
  <2>2. CASE ~\E i \in Instances : ClearRef(i)
    BY <1>2, <1>3, <2>2 DEF Beside, NewToken, ReenrollToken, ProvisioningToken, Mint,
       RevokeToken, TokenExpires, Elapse, ExpireOld, tableVars
  <2>3. QED
    BY <2>1, <2>2
<1>4. ASSUME NEW c \in Calls, StartStep(c) \/ MoveStep(c) \/ CallFails(c)
      PROVE  BearersLive' /\ Withholds
  BY <1>2, <1>4 DEF StartStep, MoveStep, CallFails, tableVars
<1>5. ASSUME NEW c \in Calls, Commits(c)
      PROVE  BearersLive' /\ (Withholds \/ \E e \in Running, i \in Instances : Gives(e, i))
  <2>1. CASE CommitRequest(c) \/ CommitDecision(c) \/ CommitRenewCert(c)
    BY <1>2, <2>1 DEF CommitRequest, CommitDecision, CommitRenewCert
  <2>2. CASE CommitEnroll(c) \/ CommitApproval(c)
    BY <2>2, IdentityGives DEF Gives
  <2>3. CASE CommitAssign(c)
    BY <2>3, AssignGives DEF Gives
  <2>4. CASE CommitDelete(c)
    <3>1. PICK i : i = job[c].of /\ inst' = [inst EXCEPT ![i] = "none"]
                   /\ bearing' = bearing \ {i} /\ givers' = givers
      BY <2>4 DEF CommitDelete
    <3>2. \A k \in Instances \ {i} : inst'[k] = inst[k]
      BY <1>1, <3>1 DEF EnrollTypeOK
    <3>3. bearing \subseteq Instances
      BY <1>1 DEF EnrollTypeOK
    <3>4. QED
      BY <1>1, <3>1, <3>2, <3>3 DEF BearersLive, Withholds, ByRef
  <2>5. CASE CommitRevoked(c)
    BY <2>5, RevokedGives DEF Gives
  <2>6. QED
    BY <1>5, <2>1, <2>2, <2>3, <2>4, <2>5 DEF Commits
<1>6. QED
  BY <1>1, <1>3, <1>4, <1>5, StepKinds

LEMMA GiversLast ==
  ASSUME Base, RefsInv, EnrollNext
  PROVE  /\ GiversDone'
         /\ \A i \in Instances : givers[i] \subseteq givers'[i]
         /\ \A i, k \in Instances : Covered(i, k) => Covered(i, k)'
         /\ \A c \in Calls, k \in Instances :
              Met(c, k) /\ (job[c].pc = "done" \/ c \in Running') => Met(c, k)'
         /\ \A i, k \in Instances : Covered(i, k) => Covered(k, i)
<1>1. /\ EnrollTypeOK /\ GiversDone /\ Running \subseteq Calls
      /\ \A i \in Instances : givers[i] \subseteq Calls
  BY DEF Base, RefsInv, Running, EnrollTypeOK
<1>2. \A i \in Instances : \A d \in givers[i] : job[d].pc = "done" /\ job'[d] = job[d] /\ d \in Calls
  BY <1>1, Carry DEF GiversDone
<1>3. \A i \in Instances : givers[i] \subseteq givers'[i]
  BY RefWrites DEF Gives, Withholds
<1>4. GiversDone'
  BY <1>2, RefWrites DEF Gives, Withholds, GiversDone
<1>5. ASSUME NEW i \in Instances, NEW k \in Instances, Covered(i, k)
      PROVE  Covered(i, k)' /\ Covered(k, i)
  <2>1. PICK c \in givers[i], d \in givers[k] : {c, d} \in overlap
    BY <1>5 DEF Covered
  <2>2. {c, d} \in overlap' /\ {c, d} = {d, c}
    BY <1>2, <2>1, Carry
  <2>3. QED
    BY <1>3, <2>1, <2>2 DEF Covered
<1>6. ASSUME NEW c \in Calls, NEW k \in Instances, Met(c, k),
             job[c].pc = "done" \/ c \in Running'
      PROVE  Met(c, k)'
  <2>1. PICK d \in givers[k] : {c, d} \in overlap
    BY <1>6 DEF Met
  <2>2. {c, d} \in overlap'
    BY <1>2, <1>6, <2>1, Carry
  <2>3. QED
    BY <1>3, <2>1, <2>2 DEF Met
<1>7. QED
  BY <1>3, <1>4, <1>5, <1>6

LEMMA SharedKeeps ==
  ASSUME Base, RefsInv, EnrollNext
  PROVE  SharedRefOnlyOverlapping'
<1>1. \A i, k \in ByRef : i # k => Covered(i, k)
  BY DEF RefsInv, SharedRefOnlyOverlapping, Covered
<1>2. ByRef \subseteq Instances /\ ByRef' \subseteq Instances /\ Running \subseteq Calls
  BY TablesKeep DEF ByRef, Base, EnrollTypeOK, TablesTyped, Running
<1>3. SUFFICES \A i, k \in ByRef' : i # k => Covered(i, k)'
  BY DEF SharedRefOnlyOverlapping, Covered
<1>4. CASE Withholds
  BY <1>1, <1>2, <1>4, GiversLast DEF Withholds
<1>5. ASSUME NEW e \in Running, NEW i \in Instances, Gives(e, i)
      PROVE  \A k, l \in ByRef' : k # l => Covered(k, l)'
  <2>1. \A k, l \in ByRef' \ {i} : k # l => Covered(k, l)'
    BY <1>1, <1>2, <1>5, GiversLast DEF Gives
  <2>2. ASSUME NEW k \in ByRef', k # i, i \in ByRef'
        PROVE  Covered(i, k)' /\ Covered(k, i)'
    <3>1. k \in ByRef
      BY <1>5, <2>2 DEF Gives
    <3>2. CASE i \in ByRef
      BY <1>1, <1>2, <2>2, <3>1, <3>2, GiversLast
    <3>3. CASE i \notin ByRef
      <4>1. e \in givers'[i] /\ (Covered(i, k) \/ Met(e, k))
        BY <1>5, <2>2, <3>1, <3>3 DEF Gives
      <4>2. CASE Covered(i, k)
        BY <1>2, <3>1, <4>2, GiversLast
      <4>3. CASE Met(e, k)
        <5>1. PICK d \in givers[k] : {e, d} \in overlap
          BY <4>3 DEF Met
        <5>2. {e, d} \in overlap' /\ {e, d} = {d, e} /\ d \in givers'[k]
          BY <1>2, <1>5, <3>1, <5>1, GiversLast DEF Gives
        <5>3. QED
          BY <4>1, <5>2 DEF Covered
      <4>4. QED
        BY <4>1, <4>2, <4>3
    <3>4. QED
      BY <3>2, <3>3
  <2>3. QED
    BY <2>1, <2>2
<1>6. QED
  BY <1>4, <1>5, RefWrites

\* A call under way meets whoever gives the reference to k.
LEMMA MeetsGiver ==
  ASSUME Base, RefsInv, NEW e \in Running, NEW i \in Instances, Gives(e, i),
         i \in (ByRef' \ ByRef) \cup (bearing' \ bearing), NEW c \in Running'
  PROVE  Met(c, i)'
BY DEF Base, Together, Gives, Met

LEMMA AssignMetKeeps ==
  ASSUME Base, RefsInv, EnrollNext
  PROVE  AssignMet'
<1>1. ByRef \subseteq Instances /\ ByRef' \subseteq Instances /\ Running \subseteq Calls
      /\ Running' \subseteq Calls
  BY TablesKeep DEF ByRef, Base, EnrollTypeOK, TablesTyped, Running
<1>2. SUFFICES ASSUME NEW c \in Running', job'[c].kind = "assign",
                      NEW k \in ByRef' \ {job'[c].of}
               PROVE  Met(c, k)'
  BY DEF AssignMet
<1>3. CASE k \notin ByRef
  BY <1>3, RefWrites, MeetsGiver DEF Withholds, Gives
<1>4. CASE k \in ByRef
  <2>1. CASE c \in Running /\ job'[c].kind = job[c].kind /\ job'[c].of = job[c].of
    <3>1. Met(c, k)
      BY <1>2, <1>4, <2>1 DEF RefsInv, AssignMet
    <3>2. QED
      BY <1>1, <3>1, GiversLast
  <2>2. CASE c \notin Running /\ StartStep(c)
    <3>1. PICK j \in JobRec : /\ Starts(c, j) /\ j.pc \in {"target", "counted", "read"}
                              /\ j.kind = "assign" => ByRef \ {j.of} = {}
      BY <2>2 DEF StartStep
    <3>2. job'[c] = j
      BY <1>1, <3>1, JobStarts DEF Base
    <3>3. QED
      BY <1>2, <1>4, <3>1, <3>2
  <2>3. QED
    BY <2>1, <2>2, Carry
<1>5. QED
  BY <1>3, <1>4

LEMMA JobStep ==
  ASSUME Base, EnrollNext, NEW c \in Running'
  PROVE  \/ c \in Running /\ job'[c] = job[c]
         \/ StartStep(c) /\ job'[c].pc \notin {"issue", "commit"}
         \/ MoveStep(c)
<1>1. EnrollTypeOK /\ JobsFit /\ Running \subseteq Calls /\ Running' \subseteq Calls
  BY DEF Base, Running
<1>2. CASE Beside
  BY <1>2, CallsBeside
<1>3. ASSUME NEW d \in Calls, StartStep(d)
      PROVE  /\ Running' = Running \cup {d} /\ \A e \in Calls \ {d} : job'[e] = job[e]
             /\ job'[d].pc \notin {"issue", "commit"}
  <2>1. PICK j \in JobRec : Starts(d, j) /\ j.pc \in {"target", "counted", "read"}
    BY <1>3 DEF StartStep
  <2>2. QED
    BY <1>1, <2>1, JobStarts
<1>4. ASSUME NEW d \in Calls, MoveStep(d)
      PROVE  Running' = Running /\ \A e \in Calls \ {d} : job'[e] = job[e]
  <2>1. PICK j \in JobRec : /\ job' = [job EXCEPT ![d] = j] /\ d \in Running
                            /\ j.pc \in {"replaced", "issue", "revoking", "commit"}
    BY <1>4 DEF MoveStep
  <2>2. QED
    BY <1>1, <2>1, JobMoves
<1>5. ASSUME NEW d \in Calls, Commits(d) \/ CallFails(d)
      PROVE  Running' = Running \ {d} /\ \A e \in Calls \ {d} : job'[e] = job[e]
  BY <1>1, <1>5, CallCommits, JobEnds, JobFails
<1>6. CASE \E d \in Calls : StartStep(d)
  BY <1>1, <1>3, <1>6
<1>7. CASE \E d \in Calls : MoveStep(d)
  BY <1>1, <1>4, <1>7
<1>8. CASE \E d \in Calls : Commits(d) \/ CallFails(d)
  BY <1>1, <1>5, <1>8
<1>9. QED
  BY <1>1, <1>2, <1>6, <1>7, <1>8, StepKinds

LEMMA TargetMetKeeps ==
  ASSUME Base, RefsInv, EnrollNext
  PROVE  TargetMet'
<1>1. /\ ByRef \subseteq Instances /\ ByRef' \subseteq Instances
      /\ Running \subseteq Calls /\ Running' \subseteq Calls
  BY TablesKeep DEF ByRef, Base, EnrollTypeOK, TablesTyped, Running
<1>2. SUFFICES ASSUME NEW c \in Running', job'[c].pc \in {"issue", "commit"},
                      job'[c].tgt \in bearing' \/ (job'[c].ref /\ job'[c].pc = "commit"),
                      NEW k \in ByRef' \ {job'[c].tgt}
               PROVE  Covered(job[c].tgt, k)' \/ Met(c, k)'
  BY DEF TargetMet
<1>3. PICK i \in Instances : i = job'[c].tgt
  BY <1>1, <1>2, CallsKeep DEF JobsFit, JobFits
<1>4. SUFFICES Covered(i, k)' \/ Met(c, k)'
  BY <1>3 DEF Covered
<1>5. CASE MoveStep(c)
  <2>1. PICK j \in JobRec :
          /\ job' = [job EXCEPT ![c] = j] /\ c \in Running
          /\ j.pc \in {"replaced", "issue", "revoking", "commit"}
          /\ j.pc = "issue" => inst[j.tgt] \notin {"none", "revoked"} \/ inst[j.tgt] = "none"
          /\ j.pc = "commit" => /\ job[c].pc = "issue" /\ ~RefTaken(c)
                                /\ j.tgt = job[c].tgt /\ j.ref = job[c].ref
          /\ UNCHANGED <<inst, bearing, givers, overlap>>
    BY <1>5 DEF MoveStep, tableVars
  <2>2. job'[c] = j
    BY <1>1, <2>1, JobMoves DEF Base
  <2>3. /\ ByRef' = ByRef /\ (Covered(i, k)' <=> Covered(i, k)) /\ (Met(c, k)' <=> Met(c, k))
    BY <2>1 DEF ByRef, Covered, Met
  <2>4. CASE j.pc = "issue"
    <3>1. i \in ByRef
      BY <1>2, <1>3, <2>1, <2>2, <2>4 DEF ByRef, RefsInv, BearersLive
    <3>2. QED
      BY <1>2, <1>3, <2>3, <3>1 DEF RefsInv, SharedRefOnlyOverlapping, Covered
  <2>5. CASE j.pc = "commit"
    <3>1. i \in bearing \/ job[c].ref
      BY <1>2, <1>3, <2>1, <2>2, <2>5
    <3>2. i = job[c].tgt /\ job[c].pc = "issue" /\ k \in ByRef \ {i}
      BY <1>2, <1>3, <2>1, <2>2, <2>3, <2>5
    <3>3. i \in bearing
      BY <2>1, <2>5, <3>1, <3>2 DEF RefTaken
    <3>4. QED
      BY <2>1, <2>3, <3>2, <3>3 DEF RefsInv, TargetMet
  <2>6. QED
    BY <1>2, <2>1, <2>2, <2>4, <2>5
<1>6. CASE c \in Running /\ job'[c] = job[c]
  <2>1. CASE k \notin ByRef
    BY <2>1, RefWrites, MeetsGiver DEF Withholds, Gives
  <2>2. CASE k \in ByRef /\ (i \in bearing \/ (job[c].ref /\ job[c].pc = "commit"))
    <3>1. Covered(i, k) \/ Met(c, k)
      BY <1>2, <1>3, <1>6, <2>2 DEF RefsInv, TargetMet
    <3>2. QED
      BY <1>1, <1>2, <3>1, GiversLast
  <2>3. CASE k \in ByRef /\ i \in bearing' \ bearing
    <3>1. PICK e \in Running : Gives(e, i)
      BY <2>3, RefWrites DEF Withholds, Gives
    <3>2. e \in givers'[i] /\ (Covered(i, k) \/ Met(e, k)) /\ overlap' = overlap
      BY <1>2, <1>3, <2>3, <3>1 DEF Gives
    <3>3. CASE Covered(i, k)
      BY <1>1, <2>3, <3>3, GiversLast
    <3>4. CASE Met(e, k)
      <4>1. givers[k] \subseteq givers'[k]
        BY <1>1, <2>3, GiversLast
      <4>2. QED
        BY <3>2, <3>4, <4>1 DEF Met, Covered
    <3>5. QED
      BY <3>2, <3>3, <3>4
  <2>4. QED
    BY <1>2, <1>3, <1>6, <2>1, <2>2, <2>3
<1>7. QED
  BY <1>2, <1>5, <1>6, JobStep

LEMMA RemoveMetKeeps ==
  ASSUME Base, RefsInv, EnrollNext
  PROVE  RemoveMet'
<1>1. /\ ByRef \subseteq Instances /\ ByRef' \subseteq Instances
      /\ Running \subseteq Calls /\ Running' \subseteq Calls
  BY TablesKeep DEF ByRef, Base, EnrollTypeOK, TablesTyped, Running
<1>2. SUFFICES ASSUME NEW c \in Running', job'[c].kind \in Removing,
                      NEW i \in Instances, i = job'[c].of, i \in bearing',
                      NEW k \in ByRef' \ {i}
               PROVE  Covered(i, k)' \/ Met(c, k)'
  <2>1. \A c \in Running' : job'[c].kind \in Removing => job'[c].of \in Instances
    BY <1>1, CallsKeep DEF JobsFit, JobFits
  <2>2. QED
    BY <1>2, <2>1 DEF RemoveMet, Covered
<1>3. CASE k \notin ByRef
  BY <1>2, <1>3, RefWrites, MeetsGiver DEF Withholds, Gives
<1>4. CASE k \in ByRef /\ i \in bearing' \ bearing
  <2>1. PICK e \in Running : Gives(e, i)
    BY <1>4, RefWrites DEF Withholds, Gives
  <2>2. e \in givers'[i] /\ (Covered(i, k) \/ Met(e, k)) /\ overlap' = overlap
    BY <1>2, <1>4, <2>1 DEF Gives
  <2>3. CASE Covered(i, k)
    BY <1>1, <1>4, <2>3, GiversLast
  <2>4. CASE Met(e, k)
    <3>1. givers[k] \subseteq givers'[k]
      BY <1>1, <1>4, GiversLast
    <3>2. QED
      BY <2>2, <2>4, <3>1 DEF Met, Covered
  <2>5. QED
    BY <2>2, <2>3, <2>4
<1>5. CASE k \in ByRef /\ i \in bearing
  <2>1. CASE c \in Running /\ job'[c].kind = job[c].kind /\ job'[c].of = job[c].of
    <3>1. Covered(i, k) \/ Met(c, k)
      BY <1>2, <1>5, <2>1 DEF RefsInv, RemoveMet
    <3>2. QED
      BY <1>1, <1>2, <1>5, <3>1, GiversLast
  <2>2. CASE c \notin Running /\ StartStep(c)
    <3>1. PICK j \in JobRec : /\ Starts(c, j) /\ j.pc \in {"target", "counted", "read"}
                              /\ j.kind \in Removing => inst[j.of] = "active"
      BY <2>2 DEF StartStep
    <3>2. job'[c] = j
      BY <1>1, <3>1, JobStarts DEF Base
    <3>3. i \in ByRef
      BY <1>2, <1>5, <3>1, <3>2 DEF ByRef
    <3>4. Covered(i, k)
      BY <1>2, <1>5, <3>3 DEF RefsInv, SharedRefOnlyOverlapping, Covered
    <3>5. QED
      BY <1>1, <1>5, <3>4, GiversLast
  <2>3. QED
    BY <2>1, <2>2, Carry
<1>6. QED
  BY <1>2, <1>3, <1>4, <1>5

LEMMA RefsKeep ==
  ASSUME Base, RefsInv, EnrollNext
  PROVE  RefsInv'
BY RefWrites, GiversLast, AssignMetKeeps, TargetMetKeeps, RemoveMetKeeps, SharedKeeps DEF RefsInv
-----------------------------------------------------------------------------
(* Certificates *)

\* Call x ends and adds its certificate: in the place of those it has found,
\* or beside them.
Adds(x) ==
  /\ x \in Running /\ Running' = Running \ {x} /\ overlap' = overlap
  /\ job'[x].pc = "done" /\ job'[x].tgt = job[x].tgt /\ job'[x].line = job[x].line

Issues(x) ==
  /\ Adds(x) /\ job[x].pc = "commit"
  /\ \A y \in job[x].taken : y \in Certs \ {x} => cert'[y] = "revoked"

Renews(x) == Adds(x) /\ job[x].kind = "renew"

LEMMA IdentityIssues ==
  ASSUME Base, CertsKnown, NEW c \in Calls, CommitEnroll(c) \/ CommitApproval(c)
  PROVE  /\ Issues(c)
         /\ \A x \in Certs \ {c} : cert'[x] = "valid" => cert[x] = "valid"
         /\ \A i \in Instances : cert'[i] = "valid" => inst'[i] # "none"
<1>1. EnrollTypeOK /\ JobsFit /\ Identity(c) /\ Commits(c)
  BY DEF Base, CommitEnroll, CommitApproval, Commits
<1>2. /\ c \in Running /\ Running' = Running \ {c} /\ overlap' = overlap
      /\ job'[c].pc = "done" /\ job[c].pc = "commit" /\ job'[c].tgt = job[c].tgt
      /\ job'[c].line = job[c].line /\ job[c].tgt \in Instances
  BY <1>1, CallCommits, JobEnds DEF Identity, JobsFit, JobFits
<1>3. cert' = [x \in Certs |-> IF x = c THEN "valid"
                               ELSE IF x \in job[c].taken THEN "revoked" ELSE cert[x]]
  BY <1>1 DEF Identity
<1>4. \A i \in Instances : inst[i] # "none" => inst'[i] # "none"
  BY <1>1, <1>2 DEF Identity, EnrollTypeOK
<1>5. Issues(c)
  BY <1>2, <1>3 DEF Issues, Adds
<1>6. \A i \in Instances : i \in Certs \ {c}
  BY EnrollmentAssumption DEF Certs
<1>7. \A x \in Certs \ {c} : cert'[x] = "valid" => cert[x] = "valid"
  BY <1>3
<1>8. QED
  BY <1>4, <1>5, <1>6, <1>7 DEF CertsKnown

LEMMA CertWrites ==
  ASSUME Base, CertsKnown, EnrollNext
  PROVE  /\ \A x \in Certs : cert'[x] = "valid" =>
              \/ cert[x] = "valid" /\ Owner(x)' = Owner(x)
              \/ x \in Calls /\ (Issues(x) \/ Renews(x))
         /\ \A i \in Instances : cert'[i] = "valid" => inst'[i] # "none"
<1>1. EnrollTypeOK /\ JobsFit /\ Certs = Calls \cup Instances
  BY DEF Base, Certs
<1>2. \A x \in Certs : cert[x] = "valid" => Owner(x)' = Owner(x)
  BY <1>1, Carry DEF Owner, CertsKnown
<1> DEFINE Goal == /\ \A x \in Certs : cert'[x] = "valid" => cert[x] = "valid"
                   /\ \A i \in Instances : cert'[i] = "valid" => inst'[i] # "none"
<1>3. ASSUME UNCHANGED <<cert, inst>> PROVE Goal
  BY <1>3 DEF CertsKnown
<1>4. ASSUME Beside PROVE Goal
  BY <1>3, <1>4 DEF Beside, NewToken, ReenrollToken, ProvisioningToken, Mint, RevokeToken,
     TokenExpires, Elapse, ExpireOld, ClearRef, tableVars
<1>5. ASSUME NEW c \in Calls, StartStep(c) \/ MoveStep(c) \/ CallFails(c) PROVE Goal
  BY <1>3, <1>5 DEF StartStep, MoveStep, CallFails, tableVars
<1>6. ASSUME NEW c \in Calls,
             \/ CommitRequest(c) \/ CommitDecision(c) \/ CommitAssign(c)
             \/ CommitRevoked(c) \/ CommitDelete(c)
      PROVE  Goal
  <2>1. CASE CommitDelete(c)
    <3>1. PICK i : i = job[c].of
      OBVIOUS
    <3>2. /\ inst' = [inst EXCEPT ![i] = "none"]
          /\ cert' = [x \in Certs |-> IF Owner(x) = i THEN "none" ELSE cert[x]]
      BY <2>1, <3>1 DEF CommitDelete
    <3>3. \A k \in Instances \ {i} : inst'[k] = inst[k]
      BY <1>1, <3>2 DEF EnrollTypeOK
    <3>4. \A k \in Instances : Owner(k) = k
      BY EnrollmentAssumption DEF Owner
    <3>5. QED
      BY <1>1, <3>2, <3>3, <3>4 DEF CertsKnown
  <2>2. CASE CommitRevoked(c)
    <3>1. \A i \in Instances : inst[i] # "none" => inst'[i] # "none"
      BY <1>1, <2>2 DEF CommitRevoked, EnrollTypeOK
    <3>2. \A x \in Certs : cert'[x] = "valid" => cert[x] = "valid"
      BY <2>2 DEF CommitRevoked
    <3>3. QED
      BY <1>1, <3>1, <3>2 DEF CertsKnown
  <2>3. CASE ~CommitDelete(c) /\ ~CommitRevoked(c)
    BY <1>3, <1>6, <2>3 DEF CommitRequest, CommitDecision, CommitAssign
  <2>4. QED
    BY <2>1, <2>2, <2>3
<1>7. CASE \E c \in Calls : CommitEnroll(c) \/ CommitApproval(c)
  BY <1>2, <1>7, IdentityIssues
<1>8. ASSUME NEW c \in Calls, CommitRenewCert(c)
      PROVE  /\ Renews(c) /\ inst' = inst
             /\ \A x \in Certs \ {c} : cert'[x] = cert[x]
  <2>1. c \in Running /\ job' = [job EXCEPT ![c] = Ended(c)] /\ overlap' = overlap
        /\ job[c].kind = "renew"
    BY <1>1, <1>8, CallCommits DEF Commits
  <2>2. Renews(c)
    BY <1>1, <2>1, JobEnds DEF Renews, Adds
  <2>3. QED
    BY <1>1, <1>8, <2>2 DEF CommitRenewCert, EnrollTypeOK
<1>9. CASE \E c \in Calls : CommitRenewCert(c)
  <2>1. PICK c \in Calls : CommitRenewCert(c)
    BY <1>9
  <2>2. \A i \in Instances : i \in Certs \ {c}
    BY <1>1, EnrollmentAssumption
  <2>3. QED
    BY <1>2, <1>8, <2>1, <2>2 DEF CertsKnown
<1>10. CASE ~\E c \in Calls : CommitEnroll(c) \/ CommitApproval(c) \/ CommitRenewCert(c)
  <2>1. Goal
    BY <1>1, <1>4, <1>5, <1>6, <1>10, StepKinds DEF Commits
  <2>2. QED
    BY <1>2, <2>1
<1>11. QED
  BY <1>7, <1>9, <1>10

\* The valid certificates of i after a step were its own before, or one is new.
LEMMA ValidAfter ==
  ASSUME Base, CertsKnown, EnrollNext, NEW i \in Instances, NEW x \in Valid(i)'
  PROVE  x \in Valid(i) \/ (x \in Calls /\ (Issues(x) \/ Renews(x)) /\ job[x].tgt = i)
<1>1. x \in Certs /\ cert'[x] = "valid" /\ Owner(x)' = i
  BY DEF Valid, Certs
<1>2. CASE x \in Calls /\ (Issues(x) \/ Renews(x))
  BY <1>1, <1>2 DEF Issues, Renews, Adds, Owner
<1>3. CASE cert[x] = "valid" /\ Owner(x)' = Owner(x)
  BY <1>1, <1>3 DEF Valid
<1>4. QED
  BY <1>1, <1>2, <1>3, CertWrites

LEMMA CertsKnownKeeps ==
  ASSUME Base, CertsKnown, EnrollNext
  PROVE  CertsKnown'
<1>1. Calls \subseteq Certs
  BY DEF Certs
<1>2. QED
  BY <1>1, CertWrites, Carry DEF CertsKnown, Issues, Renews, Adds

\* A line stays, whole and of ended calls, while its certificate is valid.
LEMMA LineStays ==
  ASSUME Base, CertsKnown, LinesDone, EnrollNext, NEW x \in Certs, cert[x] = "valid"
  PROVE  /\ Line(x)' = Line(x)
         /\ \A u \in Line(x) : u \in Calls => job[u].pc = "done"
<1>1. CASE x \in Calls
  <2>1. job[x].pc = "done" /\ job'[x] = job[x]
    BY <1>1, Carry DEF CertsKnown
  <2>2. QED
    BY <1>1, <2>1 DEF Line, LinesDone
<1>2. CASE x \notin Calls
  BY <1>2 DEF Line
<1>3. QED
  BY <1>1, <1>2

LEMMA LinesDoneKeeps ==
  ASSUME Base, CertsKnown, LinesDone, EnrollNext
  PROVE  LinesDone'
<1>1. EnrollTypeOK /\ JobsFit
  BY DEF Base
<1>2. ASSUME NEW d \in Calls, NEW x \in Calls, x \in job[d].line
      PROVE  job'[x].pc = "done"
  BY <1>2, Carry DEF LinesDone
<1>3. SUFFICES \A d \in Calls : \/ job'[d].line = job[d].line \/ job'[d].line = {}
                               \/ \E x \in Certs : cert[x] = "valid" /\ job'[d].line = Line(x)
  <2>1. ASSUME NEW d \in Calls, NEW y \in Calls, y \in job'[d].line,
               NEW x \in Certs, cert[x] = "valid", job'[d].line = Line(x)
        PROVE  job'[y].pc = "done"
    BY <2>1, LineStays, Carry
  <2>2. QED
    BY <1>2, <1>3, <2>1 DEF LinesDone
<1>4. CASE Beside
  BY <1>4, CallsBeside
<1>5. ASSUME NEW c \in Calls, StartStep(c)
      PROVE  /\ \A d \in Calls \ {c} : job'[d] = job[d]
             /\ \/ job'[c].line = {}
                \/ \E x \in Certs : cert[x] = "valid" /\ job'[c].line = Line(x)
  <2>1. PICK j \in JobRec :
          /\ Starts(c, j) /\ j.pc \in {"target", "counted", "read"}
          /\ IF j.kind = "renew"
             THEN \E x \in Certs : cert[x] = "valid" /\ j.tgt = Owner(x) /\ j.line = Line(x)
             ELSE j.line = {}
    BY <1>5 DEF StartStep
  <2>2. QED
    BY <1>1, <2>1, JobStarts
<1>6. ASSUME NEW c \in Calls, MoveStep(c)
      PROVE  job'[c].line = job[c].line /\ \A d \in Calls \ {c} : job'[d] = job[d]
  <2>1. PICK j \in JobRec : /\ job' = [job EXCEPT ![c] = j] /\ c \in Running
                            /\ j.pc \in {"replaced", "issue", "revoking", "commit"}
                            /\ j.line = job[c].line
    BY <1>6 DEF MoveStep
  <2>2. QED
    BY <1>1, <2>1, JobMoves
<1>7. ASSUME NEW c \in Calls, Commits(c)
      PROVE  job'[c].line = job[c].line /\ \A d \in Calls \ {c} : job'[d] = job[d]
  BY <1>1, <1>7, CallCommits, JobEnds
<1>8. ASSUME NEW c \in Calls, CallFails(c)
      PROVE  job'[c].line = {} /\ \A d \in Calls \ {c} : job'[d] = job[d]
  BY <1>1, <1>8, JobFails
<1>9. CASE \E c \in Calls : StartStep(c)
  BY <1>5, <1>9
<1>10. CASE \E c \in Calls : MoveStep(c) \/ Commits(c) \/ CallFails(c)
  BY <1>6, <1>7, <1>8, <1>10
<1>11. QED
  BY <1>1, <1>4, <1>9, <1>10, StepKinds

\* Kinship stays, between ended calls and those that run on.
LEMMA KinStays ==
  ASSUME Base, EnrollNext
  PROVE  \A X, Y : /\ Kin(X, Y, overlap)
                   /\ \A u \in X \cup Y : u \in Calls => job[u].pc = "done" \/ u \in Running'
                   => Kin(X, Y, overlap')
<1>1. overlap \subseteq SUBSET Calls
  BY DEF Base, EnrollTypeOK
<1>2. SUFFICES ASSUME NEW X, NEW Y, Kin(X, Y, overlap),
                      \A u \in X \cup Y : u \in Calls => job[u].pc = "done" \/ u \in Running'
               PROVE  Kin(X, Y, overlap')
  OBVIOUS
<1>3. CASE X \cap Y # {}
  BY <1>3 DEF Kin
<1>4. CASE \E u \in X, v \in Y : {u, v} \in overlap
  <2>1. PICK u \in X, v \in Y : {u, v} \in overlap
    BY <1>4
  <2>2. u \in Calls /\ v \in Calls
    BY <1>1, <2>1
  <2>3. {u, v} \in overlap'
    BY <1>2, <2>1, <2>2, Carry
  <2>4. QED
    BY <2>1, <2>3 DEF Kin
<1>5. QED
  BY <1>2, <1>3, <1>4 DEF Kin

LEMMA IssuerMetKeeps ==
  ASSUME Base, CertsInv, BearersLive, EnrollNext
  PROVE  IssuerMet'
<1>1. /\ EnrollTypeOK /\ JobsFit /\ Together /\ overlap \subseteq SUBSET Calls /\ CertsKnown
      /\ Running \subseteq Calls /\ Running' \subseteq Calls
  BY DEF Base, CertsInv, EnrollTypeOK, Running
<1>2. SUFFICES ASSUME NEW c \in Running', job'[c].pc \in {"issue", "commit"},
                      NEW i \in Instances, i = job'[c].tgt,
                      NEW x \in Valid(i)', x \notin job'[c].taken
               PROVE  {c, x} \in overlap'
  <2>1. \A c \in Running' : job'[c].pc \in {"issue", "commit"} => job'[c].tgt \in Instances
    BY <1>1, CallsKeep DEF JobsFit, JobFits
  <2>2. SUFFICES ASSUME NEW c \in Running', job'[c].pc \in {"issue", "commit"},
                        NEW i \in Instances, i = job'[c].tgt
                 PROVE  \A x \in Valid(i)' \ job'[c].taken : {c, x} \in overlap'
    BY <2>1 DEF IssuerMet, Valid, Owner
  <2>3. QED
    BY <1>2, <2>2
<1>3. ASSUME {c, x} \in overlap, x \in Valid(i) PROVE {c, x} \in overlap'
  <2>1. x \in Calls /\ job[x].pc = "done"
    BY <1>1, <1>3 DEF Valid, CertsKnown
  <2>2. QED
    BY <1>1, <1>3, <2>1, Carry
<1>4. CASE c \in Running /\ job'[c] = job[c]
  <2>1. CASE x \in Valid(i)
    BY <1>2, <1>3, <1>4, <2>1 DEF CertsInv, IssuerMet
  <2>2. CASE x \in Calls /\ (Issues(x) \/ Renews(x))
    BY <1>1, <1>4, <2>2 DEF Issues, Renews, Adds, Together
  <2>3. QED
    BY <1>1, <2>1, <2>2, ValidAfter
<1>5. CASE MoveStep(c)
  <2>1. PICK j \in JobRec :
          /\ job' = [job EXCEPT ![c] = j] /\ c \in Running
          /\ j.pc \in {"replaced", "issue", "revoking", "commit"}
          /\ j.pc = "issue" =>
               \/ /\ inst[j.tgt] \notin {"none", "revoked"} /\ j.taken = Valid(j.tgt)
               \/ /\ inst[j.tgt] = "none" /\ \A d \in Calls : job[d].tgt # j.tgt
          /\ j.pc = "commit" => /\ job[c].pc = "issue" /\ j.tgt = job[c].tgt
                                /\ j.taken = job[c].taken
    BY <1>5 DEF MoveStep
  <2>2. job'[c] = j /\ Running' = Running
    BY <1>1, <2>1, JobMoves
  <2>3. x \in Valid(i)
    BY <1>1, <2>2, ValidAfter DEF Issues, Renews, Adds
  <2>4. CASE j.pc = "issue"
    <3>1. inst[i] = "none" /\ \A d \in Calls : job[d].tgt # i
      BY <1>2, <2>1, <2>2, <2>3, <2>4
    <3>2. QED
      BY <1>1, <2>3, <3>1 DEF Valid, Owner, CertsKnown, Certs
  <2>5. CASE j.pc = "commit"
    BY <1>2, <1>3, <2>1, <2>2, <2>3, <2>5 DEF CertsInv, IssuerMet
  <2>6. QED
    BY <1>2, <2>1, <2>2, <2>4, <2>5
<1>6. QED
  BY <1>2, <1>4, <1>5, JobStep

LEMMA RenewMetKeeps ==
  ASSUME Base, CertsInv, EnrollNext
  PROVE  RenewMet'
<1>1. /\ EnrollTypeOK /\ JobsFit /\ Together /\ CertsKnown /\ LinesDone
      /\ Running \subseteq Calls /\ Running' \subseteq Calls
  BY DEF Base, CertsInv, Running
<1>2. SUFFICES ASSUME NEW r \in Running', job'[r].kind = "renew",
                      NEW i \in Instances, i = job'[r].tgt, NEW y \in Valid(i)'
               PROVE  Kin(Line(r)', Line(y)', overlap')
  <2>1. \A r \in Running' : job'[r].kind = "renew" => job'[r].tgt \in Instances
    BY <1>1, CallsKeep DEF JobsFit, JobFits
  <2>2. SUFFICES ASSUME NEW r \in Running', job'[r].kind = "renew",
                        NEW i \in Instances, i = job'[r].tgt
                 PROVE  \A y \in Valid(i)' : Kin(Line(r)', Line(y)', overlap')
    BY <2>1 DEF RenewMet, Valid, Owner
  <2>3. QED
    BY <1>2, <2>2
<1>3. r \in Line(r)' /\ y \in Line(y)' /\ y \in Certs
  BY DEF Line, Valid
<1>4. y \in Valid(i) => /\ cert[y] = "valid" /\ Line(y)' = Line(y)
                        /\ \A u \in Line(y) : u \in Calls => job[u].pc = "done"
  BY <1>1, <1>3, LineStays DEF Valid
<1>5. CASE r \in Running /\ job'[r] = job[r]
  <2>1. Line(r)' = Line(r) /\ \A u \in Line(r) : u \in Calls => job[u].pc = "done" \/ u \in Running'
    BY <1>1, <1>2, <1>5 DEF Line, LinesDone
  <2>2. CASE y \in Valid(i)
    <3>1. Kin(Line(r), Line(y), overlap)
      BY <1>2, <1>5, <2>2 DEF CertsInv, RenewMet
    <3>2. QED
      BY <1>4, <2>1, <2>2, <3>1, KinStays
  <2>3. CASE y \in Calls /\ (Issues(y) \/ Renews(y))
    <3>1. {r, y} \in overlap'
      BY <1>1, <1>5, <2>3 DEF Issues, Renews, Adds, Together
    <3>2. QED
      BY <1>3, <3>1 DEF Kin
  <2>4. QED
    BY <1>1, <2>2, <2>3, ValidAfter
<1>6. CASE StartStep(r)
  <2>1. PICK j \in JobRec :
          /\ Starts(r, j) /\ j.pc \in {"target", "counted", "read"}
          /\ j.kind = "renew" =>
               \E x \in Certs : cert[x] = "valid" /\ j.tgt = Owner(x) /\ j.line = Line(x)
    BY <1>6 DEF StartStep
  <2>2. /\ job'[r] = j /\ Running' = Running \cup {r}
    BY <1>1, <2>1, JobStarts
  <2>3. PICK x \in Certs : cert[x] = "valid" /\ i = Owner(x) /\ j.line = Line(x)
    BY <1>2, <2>1, <2>2
  <2>4. y \in Valid(i) /\ x \in Valid(i) /\ x \in Line(x)
    BY <1>1, <2>2, <2>3, ValidAfter DEF Issues, Renews, Adds, Valid, Line
  <2>5. Line(r)' = {r} \cup Line(x)
    BY <1>1, <2>2, <2>3 DEF Line
  <2>6. CASE x = y
    BY <1>4, <2>4, <2>5, <2>6 DEF Kin
  <2>7. CASE x # y
    <3>1. Kin(Line(x), Line(y), overlap)
      BY <2>4, <2>7 DEF CertsInv, TwinsOnlyOverlapping, Kin
    <3>2. Kin(Line(x), Line(y), overlap')
      BY <1>1, <1>4, <2>3, <2>4, <3>1, LineStays, KinStays
    <3>3. QED
      BY <1>4, <2>4, <2>5, <3>2 DEF Kin
  <2>8. QED
    BY <2>6, <2>7
<1>7. CASE MoveStep(r)
  <2>1. PICK j \in JobRec : /\ job' = [job EXCEPT ![r] = j] /\ JobFits(j) /\ r \in Running
                            /\ j.pc \in {"replaced", "issue", "revoking", "commit"}
    BY <1>7 DEF MoveStep
  <2>2. job'[r] = j
    BY <1>1, <2>1, JobMoves
  <2>3. QED
    BY <1>2, <2>1, <2>2 DEF JobFits, Deciding, Removing
<1>8. QED
  BY <1>5, <1>6, <1>7, JobStep

LEMMA TwinsKeep ==
  ASSUME Base, CertsInv, EnrollNext
  PROVE  TwinsOnlyOverlapping'
<1>1. /\ EnrollTypeOK /\ JobsFit /\ CertsKnown /\ LinesDone /\ Running \subseteq Calls
  BY DEF Base, CertsInv, Running
<1>2. SUFFICES ASSUME NEW i \in Instances, NEW x \in Valid(i)', NEW y \in Valid(i)', x # y
               PROVE  Kin(Line(x)', Line(y)', overlap')
  BY DEF TwinsOnlyOverlapping, Kin
<1>3. \A z \in Valid(i) : /\ z \in Certs /\ cert[z] = "valid" /\ Line(z)' = Line(z)
                          /\ \A u \in Line(z) : u \in Calls => job[u].pc = "done"
  BY <1>1, LineStays DEF Valid
<1>4. ASSUME NEW a \in Valid(i)', NEW b \in Valid(i)', a # b, a \in Calls,
             Issues(a) \/ Renews(a), job[a].tgt = i
      PROVE  Kin(Line(a)', Line(b)', overlap')
  <2>1. Adds(a) /\ a \in Running /\ overlap' = overlap /\ Line(a)' = Line(a)
    BY <1>4 DEF Issues, Renews, Adds, Line
  <2>2. b \in Valid(i)
    BY <1>1, <1>4, <2>1, ValidAfter DEF Issues, Renews, Adds
  <2>3. CASE Issues(a)
    <3>1. b \notin job[a].taken
      BY <1>4, <2>3 DEF Issues, Valid
    <3>2. {a, b} \in overlap
      BY <1>1, <1>4, <2>2, <2>3, <3>1 DEF CertsInv, IssuerMet, Issues, Adds
    <3>3. a \in Line(a) /\ b \in Line(b)
      BY DEF Line
    <3>4. QED
      BY <1>3, <2>1, <2>2, <3>2, <3>3 DEF Kin
  <2>4. CASE Renews(a)
    <3>1. Kin(Line(a), Line(b), overlap)
      BY <1>4, <2>1, <2>2, <2>4 DEF CertsInv, RenewMet, Renews
    <3>2. QED
      BY <1>3, <2>1, <2>2, <3>1
  <2>5. QED
    BY <1>4, <2>3, <2>4
<1>5. CASE x \in Valid(i) /\ y \in Valid(i)
  <2>1. Kin(Line(x), Line(y), overlap)
    BY <1>2, <1>5 DEF CertsInv, TwinsOnlyOverlapping, Kin
  <2>2. QED
    BY <1>3, <1>5, <2>1, KinStays
<1>6. CASE x \in Calls /\ (Issues(x) \/ Renews(x)) /\ job[x].tgt = i
  BY <1>2, <1>4, <1>6
<1>7. CASE y \in Calls /\ (Issues(y) \/ Renews(y)) /\ job[y].tgt = i
  <2>1. \A u, v : {u, v} = {v, u}
    OBVIOUS
  <2>2. Kin(Line(y)', Line(x)', overlap')
    BY <1>2, <1>4, <1>7
  <2>3. QED
    BY <2>1, <2>2 DEF Kin
<1>8. QED
  BY <1>1, <1>2, <1>5, <1>6, <1>7, ValidAfter

LEMMA CertsKeep ==
  ASSUME Base, CertsInv, BearersLive, EnrollNext
  PROVE  CertsInv'
BY CertsKnownKeeps, LinesDoneKeeps, IssuerMetKeeps, RenewMetKeeps, TwinsKeep DEF CertsInv
-----------------------------------------------------------------------------
(* Deletions *)

\* Only an identity makes an instance active, and only a deletion removes one.
LEMMA StatusWrites ==
  ASSUME Base, EnrollNext, NEW i \in Instances
  PROVE  /\ inst'[i] = "active" /\ inst[i] # "active" =>
              \E e \in Running : /\ Commits(e) /\ job[e].kind \in {"enroll", "approve"}
                                 /\ job[e].tgt = i
         /\ inst'[i] = "none" /\ inst[i] # "none" =>
              \E d \in Running : job[d].kind = "delete" /\ job[d].of = i
<1>1. EnrollTypeOK /\ JobsFit
  BY DEF Base
<1>2. CASE Beside
  BY <1>1, <1>2 DEF Beside, NewToken, ReenrollToken, ProvisioningToken, Mint, RevokeToken,
     TokenExpires, Elapse, ExpireOld, ClearRef, tableVars, EnrollTypeOK
<1>3. ASSUME NEW c \in Calls, StartStep(c) \/ MoveStep(c) \/ CallFails(c) PROVE inst' = inst
  BY <1>3 DEF StartStep, MoveStep, CallFails, tableVars
<1>4. ASSUME NEW c \in Calls, \/ CommitRequest(c) \/ CommitDecision(c) \/ CommitAssign(c)
                              \/ CommitRevoked(c) \/ CommitRenewCert(c)
      PROVE  inst'[i] \in {inst[i], "revoked", "decommissioned"}
  BY <1>1, <1>4 DEF CommitRequest, CommitDecision, CommitAssign, CommitRevoked, CommitRenewCert,
     EnrollTypeOK
<1>5. ASSUME NEW c \in Calls, CommitEnroll(c) \/ CommitApproval(c)
      PROVE  /\ c \in Running /\ Commits(c) /\ job[c].kind \in {"enroll", "approve"}
             /\ inst'[i] # inst[i] => job[c].tgt = i /\ inst'[i] # "none"
  <2>1. Identity(c) /\ Commits(c) /\ job[c].tgt \in Instances
    BY <1>1, <1>5 DEF CommitEnroll, CommitApproval, Commits, Identity, JobsFit, JobFits
  <2>2. c \in Running /\ job[c].kind \in {"enroll", "approve"}
    BY <1>1, <1>5, <2>1, CallCommits
  <2>3. QED
    BY <1>1, <2>1, <2>2 DEF Identity, EnrollTypeOK
<1>6. ASSUME NEW c \in Calls, CommitDelete(c)
      PROVE  /\ c \in Running /\ job[c].kind = "delete"
             /\ inst'[i] # inst[i] => job[c].of = i /\ inst'[i] = "none"
  <2>1. c \in Running /\ job[c].kind = "delete" /\ job[c].of \in Instances
    BY <1>1, <1>6, CallCommits DEF Commits, JobsFit, JobFits
  <2>2. QED
    BY <1>1, <1>6, <2>1 DEF CommitDelete, EnrollTypeOK
<1>7. ASSUME NEW c \in Calls, Commits(c)
      PROVE  /\ inst'[i] = "active" /\ inst[i] # "active" =>
                  \E e \in Running : /\ Commits(e) /\ job[e].kind \in {"enroll", "approve"}
                                     /\ job[e].tgt = i
             /\ inst'[i] = "none" /\ inst[i] # "none" =>
                  \E d \in Running : job[d].kind = "delete" /\ job[d].of = i
  BY <1>4, <1>5, <1>6, <1>7 DEF Commits
<1>8. QED
  BY <1>1, <1>2, <1>3, <1>7, StepKinds

LEMMA DeleteMetKeeps ==
  ASSUME Base, DeleteMet, EnrollNext
  PROVE  DeleteMet'
<1>1. /\ EnrollTypeOK /\ JobsFit /\ Together /\ Running \subseteq Calls /\ Running' \subseteq Calls
  BY DEF Base, Running
<1>2. SUFFICES ASSUME NEW d \in Running', job'[d].kind = "delete",
                      NEW i \in Instances, i = job'[d].of, inst'[i] = "active"
               PROVE  \E c \in Committed({"enroll", "approve"})' :
                        job'[c].tgt = i /\ {c, d} \in overlap'
  <2>1. \A d \in Running' : job'[d].kind = "delete" => job'[d].of \in Instances
    BY <1>1, CallsKeep DEF JobsFit, JobFits
  <2>2. QED
    BY <1>2, <2>1 DEF DeleteMet
<1>3. CASE d \in Running /\ job'[d].kind = job[d].kind /\ job'[d].of = job[d].of
  <2>1. CASE inst[i] = "active"
    <3>1. PICK c \in Committed({"enroll", "approve"}) : job[c].tgt = i /\ {c, d} \in overlap
      BY <1>2, <1>3, <2>1 DEF DeleteMet
    <3>2. c \in Calls /\ job[c].pc = "done"
      BY DEF Committed
    <3>3. {c, d} \in overlap' /\ job'[c] = job[c] /\ c \in Committed({"enroll", "approve"})'
      BY <1>1, <3>1, <3>2, Carry
    <3>4. QED
      BY <3>1, <3>3
  <2>2. CASE inst[i] # "active"
    <3>1. PICK e \in Running : /\ Commits(e) /\ job[e].kind \in {"enroll", "approve"}
                               /\ job[e].tgt = i
      BY <1>2, <2>2, StatusWrites
    <3>2. /\ Running' = Running \ {e} /\ overlap' = overlap /\ job'[e].tgt = i
          /\ e \in Committed({"enroll", "approve"})'
      BY <1>1, <3>1, CallCommits, JobEnds
    <3>3. {e, d} \in overlap
      BY <1>1, <3>1, <3>2 DEF Together
    <3>4. QED
      BY <3>2, <3>3
  <2>3. QED
    BY <2>1, <2>2
<1>4. CASE d \notin Running /\ StartStep(d)
  <2>1. PICK j \in JobRec : /\ Starts(d, j) /\ j.pc \in {"target", "counted", "read"}
                            /\ j.kind = "delete" => Deletable(j.of)
                            /\ inst' = inst
    BY <1>4 DEF StartStep, tableVars
  <2>2. job'[d] = j
    BY <1>1, <2>1, JobStarts
  <2>3. QED
    BY <1>2, <2>1, <2>2 DEF Deletable
<1>5. QED
  BY <1>2, <1>3, <1>4, Carry
-----------------------------------------------------------------------------
(* The invariant *)

LEMMA InitEstablishes == EnrollInit => IndInv
<1> SUFFICES ASSUME EnrollInit PROVE IndInv
  OBVIOUS
<1>1. /\ job = [c \in Calls |-> NoJob] /\ NoJob.pc = "idle" /\ NoJob.kind = "none"
      /\ NoJob \in JobRec
  BY BlankJob DEF EnrollInit
<1>2. Running = {} /\ \A k : Committed(k) = {}
  BY <1>1 DEF Running, Committed
<1>3. EnrollTypeOK
  <2>1. inst \in [Instances -> InstanceStatus]
    BY DEF EnrollInit, InstanceStatus
  <2>2. cert \in [Certs -> {"none", "valid", "revoked"}]
    BY DEF EnrollInit
  <2>3. token \in [Tokens -> [live : BOOLEAN, revoked : BOOLEAN, late : BOOLEAN, uses : Nat,
                              ref : BOOLEAN, again : Instances \cup {NoInst}]]
        /\ \A t \in Tokens : token[t].uses = 0
    BY DEF EnrollInit
  <2>4. \A t \in Tokens : token[t].uses <= MaxUses[t]
    BY <2>3, EnrollmentAssumption
  <2>5. job \in [Calls -> JobRec]
    BY <1>1
  <2>6. request \in [Requests -> RequestStatus]
    BY DEF EnrollInit, RequestStatus
  <2>7. bearing \subseteq Instances
    BY DEF EnrollInit
  <2>8. QED
    BY <2>1, <2>2, <2>3, <2>4, <2>5, <2>6, <2>7 DEF EnrollInit, EnrollTypeOK, JobRec
<1>4. Base
  <2>1. JobFits(NoJob)
    BY <1>1 DEF JobFits, Deciding, Removing
  <2>2. JobsFit /\ Together
    BY <1>1, <1>2, <2>1 DEF JobsFit, Together
  <2>3. QED
    BY <1>3, <2>2 DEF Base
<1>5. TokensInv
  <2>1. \A t \in Tokens : EnrolledWith(t) = {}
    BY <1>2 DEF EnrolledWith
  <2>2. \A t \in Tokens : token[t].uses = 0
    BY DEF EnrollInit
  <2>3. QED
    BY <1>2, <2>1, <2>2, FS_EmptySet DEF TokensInv, EnrollHolds, Counted
<1>6. RequestsInv
  <2>1. \A S \in SUBSET Pending : ~(Cardinality(S) > MaxPending)
    <3>1. Pending = {r \in Requests : request[r] = "pending"}
          /\ Cardinality(Pending) <= MaxPending
      BY DEF EnrollInit, Pending
    <3>2. IsFiniteSet(Pending) /\ MaxPending \in Nat
      BY <3>1, EnrollmentAssumption, FS_Subset
    <3>3. QED
      BY <3>1, <3>2, FS_Subset, FS_CardinalityType
  <2>2. RequestsKnown
    BY <1>2 DEF RequestsKnown
  <2>3. DecidersMet /\ RoomKept
    BY <1>2, <2>1 DEF DecidersMet, RoomKept
  <2>4. QED
    BY <2>2, <2>3 DEF RequestsInv
<1>7. \A i, k \in Instances : inst[i] # "none" /\ inst[k] # "none" => i = k
  BY DEF EnrollInit
<1>8. RefsInv
  <2>1. BearersLive /\ GiversDone
    BY DEF EnrollInit, BearersLive, GiversDone
  <2>2. AssignMet /\ TargetMet /\ RemoveMet
    BY <1>2 DEF AssignMet, TargetMet, RemoveMet
  <2>3. SharedRefOnlyOverlapping
    BY <1>7, <2>1 DEF SharedRefOnlyOverlapping, ByRef, BearersLive
  <2>4. QED
    BY <2>1, <2>2, <2>3 DEF RefsInv
<1>9. CertsInv
  <2>1. \A x \in Certs : cert[x] = "valid" => x \in Instances /\ inst[x] = "active"
    BY DEF EnrollInit
  <2>2. \A i \in Instances : \A x \in Valid(i) : x = i
    BY <2>1, EnrollmentAssumption DEF Valid, Owner
  <2>3. CertsKnown
    BY <2>1, EnrollmentAssumption DEF CertsKnown, Certs
  <2>4. IssuerMet /\ RenewMet /\ TwinsOnlyOverlapping
    BY <1>2, <2>2 DEF IssuerMet, RenewMet, TwinsOnlyOverlapping
  <2>6. LinesDone
    BY <1>1, BlankJob DEF LinesDone
  <2>5. QED
    BY <2>3, <2>4, <2>6 DEF CertsInv
<1>10. DeleteMet
  BY <1>2 DEF DeleteMet
<1>11. QED
  BY <1>4, <1>5, <1>6, <1>8, <1>9, <1>10 DEF IndInv

LEMMA Inductive == IndInv /\ [EnrollNext]_enrollVars => IndInv'
<1> SUFFICES ASSUME IndInv, [EnrollNext]_enrollVars PROVE IndInv'
  OBVIOUS
<1>1. CASE EnrollNext
  BY <1>1, BaseKeeps, RequestsKnownKeeps, DecidersMetKeeps, RoomKeptKeeps, RefsKeep, CertsKeep,
     DeleteMetKeeps DEF IndInv, RequestsInv, RefsInv
<1>2. CASE UNCHANGED enrollVars
  <2> USE <1>2 DEF enrollVars
  <2>1. Running' = Running /\ (\A k : Committed(k)' = Committed(k)) /\ ByRef' = ByRef
        /\ Pending' = Pending
    BY DEF Running, Committed, ByRef, Pending
  <2>2. Base' /\ TokensInv'
    <3>1. Base'
      BY <2>1 DEF IndInv, Base, EnrollTypeOK, JobsFit, Together
    <3>2. \A t \in Tokens : EnrolledWith(t)' = EnrolledWith(t)
      BY <2>1 DEF EnrolledWith
    <3>3. Counted'
      BY <3>2 DEF IndInv, TokensInv, Counted
    <3>4. EnrollHolds'
      BY <2>1 DEF IndInv, TokensInv, EnrollHolds
    <3>5. QED
      BY <3>1, <3>3, <3>4 DEF TokensInv
  <2>3. RequestsInv'
    BY <2>1, ZenonT(40) DEF IndInv, RequestsInv, RequestsKnown, DecidersMet, RoomKept, Unmet
  <2>4. RefsInv'
    <3>1. BearersLive' /\ GiversDone'
      BY DEF IndInv, RefsInv, BearersLive, GiversDone
    <3>2. AssignMet'
      BY <2>1 DEF IndInv, RefsInv, AssignMet, Met
    <3>3. TargetMet' /\ RemoveMet'
      BY <2>1 DEF IndInv, RefsInv, TargetMet, RemoveMet, Covered, Met
    <3>4. SharedRefOnlyOverlapping'
      <4>1. \A i, k \in ByRef : i # k => \E c \in givers[i], d \in givers[k] : {c, d} \in overlap
        BY DEF IndInv, RefsInv, SharedRefOnlyOverlapping
      <4>2. SUFFICES ASSUME NEW i \in ByRef', NEW k \in ByRef', i # k
                     PROVE  \E c \in givers'[i], d \in givers'[k] : {c, d} \in overlap'
        BY DEF SharedRefOnlyOverlapping
      <4>3. PICK c \in givers[i], d \in givers[k] : {c, d} \in overlap
        BY <2>1, <4>1, <4>2
      <4>4. QED
        BY <4>3
    <3>5. QED
      BY <3>1, <3>2, <3>3, <3>4 DEF RefsInv
  <2>5. (\A i : Valid(i)' = Valid(i)) /\ (\A x : Line(x)' = Line(x))
    BY DEF Valid, Owner, Line
  <2>6. CertsInv' /\ DeleteMet'
    <3>1. CertsKnown' /\ LinesDone' /\ IssuerMet'
      BY <2>1, <2>5 DEF IndInv, CertsInv, CertsKnown, LinesDone, IssuerMet
    <3>2. RenewMet'
      BY <2>1, <2>5 DEF IndInv, CertsInv, RenewMet, Kin
    <3>3. TwinsOnlyOverlapping'
      <4>1. \A i \in Instances : \A x, y \in Valid(i) : x # y => Kin(Line(x), Line(y), overlap)
        BY DEF IndInv, CertsInv, TwinsOnlyOverlapping, Kin
      <4>2. \A i \in Instances : \A x, y \in Valid(i)' : x # y =>
              Kin(Line(x)', Line(y)', overlap')
        BY <2>5, <4>1
      <4>3. QED
        BY <4>2 DEF TwinsOnlyOverlapping, Kin
    <3>4. DeleteMet'
      BY <2>1 DEF IndInv, DeleteMet
    <3>5. QED
      BY <3>1, <3>2, <3>3, <3>4 DEF CertsInv
  <2>7. QED
    BY <2>2, <2>3, <2>4, <2>6 DEF IndInv
<1>3. QED
  BY <1>1, <1>2

LEMMA Invariant == EnrollSpec => []IndInv
<1>1. EnrollInit => IndInv
  BY InitEstablishes
<1>2. IndInv /\ [EnrollNext]_enrollVars => IndInv'
  BY Inductive
<1>3. QED
  BY <1>1, <1>2, PTL DEF EnrollSpec

\* Every table and every call keeps its type, and no token is used more often
\* than it may be.
THEOREM EnrollmentTypes == EnrollSpec => []EnrollTypeOK
<1>1. IndInv => EnrollTypeOK
  BY DEF IndInv, Base
<1>2. QED
  BY <1>1, Invariant, PTL

\* A token counts the enrollments it gave, and gives no more than max_uses.
THEOREM TokensCounted == EnrollSpec => []TokenCounts
<1>1. IndInv => TokenCounts
  BY DEF IndInv, Base, EnrollTypeOK, TokensInv, Counted, EnrolledWith, TokenCounts
<1>2. QED
  BY <1>1, Invariant, PTL

\* Nobody enrolls with a token that is revoked or gone.
THEOREM RevocationFinal == EnrollSpec => RevokedTokenUnused
<1> DEFINE Unused == \A t \in Tokens :
                       token[t].revoked \/ ~token[t].live => token'[t].uses = token[t].uses
<1>1. ASSUME IndInv, [EnrollNext]_enrollVars PROVE Unused
  <2>1. EnrollTypeOK /\ JobsFit /\ EnrollHolds
    BY <1>1 DEF IndInv, Base, TokensInv
  <2>2. CASE Beside
    BY <2>1, <2>2, BesideKeepsTokens
  <2>3. ASSUME NEW c \in Calls, StartStep(c) \/ MoveStep(c) \/ CallFails(c) PROVE token' = token
    BY <2>3 DEF StartStep, MoveStep, CallFails, tableVars
  <2>4. ASSUME NEW c \in Calls, Commits(c) PROVE Unused
    <3>1. CASE CommitEnroll(c)
      BY <2>1, <3>1, EnrollCommits
    <3>2. CASE ~CommitEnroll(c)
      BY <2>1, <2>4, <3>2, OtherCommitKeepsTokens
    <3>3. QED
      BY <3>1, <3>2
  <2>5. CASE UNCHANGED enrollVars
    BY <2>5 DEF enrollVars
  <2>6. QED
    BY <1>1, <2>1, <2>2, <2>3, <2>4, <2>5, StepKinds
<1>2. IndInv /\ [EnrollNext]_enrollVars => [Unused]_enrollVars
  BY <1>1
<1>3. QED
  BY <1>2, Invariant, PTL DEF EnrollSpec, RevokedTokenUnused

\* Two live instances share a reference only when calls overlapped that gave it
\* to them, or gave one of them life while it bore it.
THEOREM RefsShared == EnrollSpec => []SharedRefOnlyOverlapping
<1>1. IndInv => SharedRefOnlyOverlapping
  BY DEF IndInv, RefsInv
<1>2. QED
  BY <1>1, Invariant, PTL

\* Two valid certificates of an instance are of one line, or calls that issued
\* them or those they renew overlapped.
THEOREM CertsTwinned == EnrollSpec => []TwinsOnlyOverlapping
<1>1. IndInv => TwinsOnlyOverlapping
  BY DEF IndInv, CertsInv
<1>2. QED
  BY <1>1, Invariant, PTL

\* An active instance is deleted only by a call that overlapped with the one
\* that made it active.
THEOREM StandingKept == EnrollSpec => StandingNotDeleted
<1> DEFINE Standing == \A i \in Instances : inst[i] = "active" /\ inst'[i] = "none" =>
             \E c \in Committed({"enroll", "approve"}), d \in Running :
               job[c].tgt = i /\ job[d].of = i /\ job[d].kind = "delete" /\ {c, d} \in overlap
<1>1. IndInv /\ [EnrollNext]_enrollVars => [Standing]_enrollVars
  <2>1. ASSUME IndInv, EnrollNext, NEW i \in Instances, inst[i] = "active", inst'[i] = "none"
        PROVE  \E c \in Committed({"enroll", "approve"}), d \in Running :
                 job[c].tgt = i /\ job[d].of = i /\ job[d].kind = "delete" /\ {c, d} \in overlap
    <3>1. PICK d \in Running : job[d].kind = "delete" /\ job[d].of = i
      BY <2>1, StatusWrites DEF IndInv
    <3>2. QED
      BY <2>1, <3>1 DEF IndInv, DeleteMet
  <2>2. QED
    BY <2>1
<1>2. QED
  BY <1>1, Invariant, PTL DEF EnrollSpec, StandingNotDeleted

\* A request is decided once, and the pending ones stay within the cap, or two
\* calls overlapped.
THEOREM RequestsKept == EnrollSpec => []RequestsHold
<1>1. IndInv => RequestsHold
  BY ZenonT(40) DEF IndInv, RequestsInv, DecidersMet, RoomKept, RequestsHold
<1>2. QED
  BY <1>1, Invariant, PTL
=============================================================================
