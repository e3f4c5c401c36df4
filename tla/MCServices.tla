----------------------------- MODULE MCServices -----------------------------
(***************************************************************************)
(* The services that keep their state in memory, in one run: Tunnels,        *)
(* RateLimiter, AuditWriter.  They have no state in common, so a behaviour   *)
(* of this specification is one of one module, chosen at the start, while    *)
(* the others rest.                                                          *)
(***************************************************************************)
EXTENDS Tunnels, RateLimiter, AuditWriter, TLC

CONSTANTS k1, k2, n1, n2, n3

VARIABLE which

servicesVars == <<which, tunnelVars, limiterVars, auditVars>>

\* Two logins for the same user from one address, and one from another.
MCKeysOf == n1 :> {k1, k2} @@ n2 :> {k1, k2} @@ n3 :> {k2}

\* These two are interchangeable: one comes first.
InOrder == attempt[n2] # "new" => attempt[n1] # "new"

MCInit ==
  /\ which \in {"tunnels", "limiter", "audit"}
  /\ TunnelsInit /\ LimiterInit /\ AuditInit

TunnelsStep == which = "tunnels" /\ TunnelsNext /\ UNCHANGED <<which, limiterVars, auditVars>>
LimiterStep ==
  /\ which = "limiter" /\ LimiterNext /\ UNCHANGED <<which, tunnelVars, auditVars>>
  /\ InOrder'
AuditStep   == which = "audit" /\ AuditNext /\ UNCHANGED <<which, tunnelVars, limiterVars>>

MCNext == TunnelsStep \/ LimiterStep \/ AuditStep

\* The fairness of the three modules, for the one that runs.
MCFair ==
  /\ \A l \in Links : WF_tunnelVars(which = "tunnels" /\ LinkRuns(l))
  /\ \A e \in Endpoints : WF_tunnelVars(which = "tunnels" /\ EndpointRuns(e))
  /\ WF_auditVars(which = "audit" /\ WriterRuns)

MCSpec == MCInit /\ [][MCNext]_servicesVars /\ MCFair
=============================================================================
