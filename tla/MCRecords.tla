----------------------------- MODULE MCRecords ------------------------------
(***************************************************************************)
(* The handlers that keep their state in rows of the database, in one run:   *)
(* Enrollment, Licenses, Backups, Operators.  They share the row of the      *)
(* instance at most, of which each module has what it needs, so a behaviour  *)
(* of this specification is one of one module, chosen at the start, while    *)
(* the others rest.                                                          *)
(***************************************************************************)
EXTENDS Integers, Enrollment, Licenses, Backups, Operators, TLC

VARIABLE which

recordsVars == <<which, enrollVars, licenseVars, backupVars, operatorVars>>

MCMaxUses  == [t \in Tokens |-> 2]
MCKey      == [r \in Requests |-> 1]
MCSymmetry == Permutations(Instances) \cup Permutations(Requests)

\* Enrollments with a token and registration requests meet only in the
\* identities they lead to, and backups and the commands that ask for them only
\* in the instance, so each is looked at in turn: "tokens" starts with requests
\* that were rejected, "requests" with revoked tokens, without an
\* active instance.  Of the licenses, "licenses" has the runs that overlap, and
\* "delivery" what may happen to the commands of runs one after the other.
Worlds == {"tokens", "requests", "licenses", "delivery", "archives", "schedule", "operators"}

MCEnrollInit ==
  /\ EnrollInit
  /\ CASE which = "tokens"   -> \A r \in Requests : request[r] = "rejected"
       [] which = "requests" -> /\ \A i \in Instances : inst[i] # "active"
                                /\ \A t \in Tokens : token[t].revoked
                                /\ \A r \in Requests : request[r] # "rejected"
       [] OTHER -> /\ \A i \in Instances : inst[i] = "none"
                   /\ \A t \in Tokens : ~token[t].revoked
                   /\ \A r \in Requests : request[r] = "none"

\* The old session goes with the account: a full one, or one on its way.
MCOperatorsInit ==
  /\ OperatorsInit
  /\ \A v \in Old : /\ given[v] = "second" => account.totp
                    /\ given[v] = "setup" => ~account.totp
                    /\ account.must => given[v] = "change" /\ account.secret = NoVisit
                    /\ given[v] = "change" => account.must
  /\ which # "operators" => account.secret = NoVisit /\ \A v \in Old : given[v] = "full"

MCInit ==
  /\ which \in Worlds
  /\ MCEnrollInit /\ LicensesInit /\ BackupsInit /\ MCOperatorsInit

\* Runs are numbered in the order they start, and so are connections.
Used(m) == \/ job[m].pc # "idle" \/ grant[m].pc # "idle"
           \/ work[m].pc # "idle" \/ visit[m].pc # "idle"
InOrder == /\ \A m \in Calls \ {1} : Used(m) => Used(m - 1)
           /\ \A k \in Links \ {1} : stage[k] # "unused" => stage[k - 1] # "unused"

\* An operator's visit can be many things: two are under way at a time, as are
\* two runs on the licenses.
AtMostTwo == /\ which = "operators" => Cardinality(Ongoing) <= 2
             /\ which = "licenses" => Cardinality(Working) <= 2

Bounds == InOrder /\ AtMostTwo

\* The clock of the codes steps while there is a secret to make codes from.
ClockMatters == account.secret # NoVisit \/ \E v \in Ongoing : visit[v].copy.secret # NoVisit

EnrollStep ==
  /\ which \in {"tokens", "requests"} /\ EnrollNext
  /\ UNCHANGED <<which, licenseVars, backupVars, operatorVars>>
  /\ Bounds'

\* A connection that lasts, on which a command is sent once it is committed.
Lasting ==
  /\ serving = NoLink \/ UNCHANGED serving
  /\ (\E k \in Links : stage[k] = "resent") \/ UNCHANGED grant
  /\ \A g \in Grants : grant[g].pc = "send" => grant'[g] # grant[g]
  /\ UNCHANGED <<cuts, astray>>

LicensesStep ==
  /\ which = "licenses" /\ LicensesNext /\ Lasting
  /\ UNCHANGED <<which, enrollVars, backupVars, operatorVars>>
  /\ Bounds'

\* Tokens that stay fresh.
DeliveryStep ==
  /\ which = "delivery" /\ LicensesNext
  /\ UNCHANGED <<over, last>> /\ \A l \in Licenses : signed'[l] # "due"
  /\ UNCHANGED <<which, enrollVars, backupVars, operatorVars>>
  /\ Bounds' /\ Cardinality(Working)' <= 1

ArchivesStep ==
  /\ which = "archives" /\ BackupsNext /\ UNCHANGED runVars
  /\ UNCHANGED <<which, enrollVars, licenseVars, operatorVars>>
  /\ Bounds'

ScheduleStep ==
  /\ which = "schedule" /\ BackupsNext /\ UNCHANGED work
  /\ UNCHANGED <<which, enrollVars, licenseVars, operatorVars>>

OperatorsStep ==
  /\ which = "operators" /\ OperatorsNext
  /\ ClockMatters \/ UNCHANGED now
  /\ UNCHANGED <<which, enrollVars, licenseVars, backupVars>>
  /\ Bounds'

MCNext ==
  EnrollStep \/ LicensesStep \/ DeliveryStep \/ ArchivesStep \/ ScheduleStep \/ OperatorsStep

MCSpec == MCInit /\ [][MCNext]_recordsVars
=============================================================================
