------------------------------ MODULE Tunnels -------------------------------
(***************************************************************************)
(* The tunnels of one support session (hub/support/tunnels.py): a link is a  *)
(* browser or SSH connection to the session's port, served by                *)
(* _serve_connection; an endpoint is a WebSocket of the agent at             *)
(* /agent/tunnel/<conn_id>, held by attach_agent.  They meet in a _Pending.  *)
(***************************************************************************)
EXTENDS Naturals, FiniteSets

CONSTANTS
  Links,      \* connections, each with its conn_id
  NoLink,
  Endpoints,  \* WebSockets of the agent
  MaxWriters  \* MAX_CONNECTIONS_PER_SESSION

ASSUME TunnelsAssumption ==
  NoLink \notin Links /\ {"pending", "cancelled"} \cap Endpoints = {} /\ MaxWriters \in Nat

VARIABLES
  listening,  \* the listener is in _listeners
  writers,    \* listener.writers
  link,       \* link[l]: what _serve_connection awaits
  pendingId,  \* the links in _pending
  attached,   \* attached[l]: the future of the agent's WebSocket
  finished,   \* the links whose finished event is set
  shut,       \* the links whose socket is closed
  answer,     \* answer[l]: the result of tunnel.open, where the agent got it
  endpoint    \* endpoint[e]: [pc, link]

tunnelVars == <<listening, writers, link, pendingId, attached, finished, shut, answer, endpoint>>

TunnelsTypeOK ==
  /\ listening \in BOOLEAN /\ writers \subseteq Links
  /\ link \in [Links -> {"new", "result", "attach", "pump", "over"}]
  /\ pendingId \subseteq Links /\ finished \subseteq Links /\ shut \subseteq Links
  /\ attached \in [Links -> Endpoints \cup {"pending", "cancelled"}]
  /\ answer \in [Links -> {"none", "asked", "ok", "refused"}]
  /\ endpoint \in [Endpoints -> [pc : {"new", "accepting", "waiting", "gone"},
                                 link : Links \cup {NoLink}]]

TunnelsInit ==
  /\ listening = TRUE
  /\ writers = {} /\ pendingId = {} /\ finished = {} /\ shut = {}
  /\ link = [l \in Links |-> "new"]
  /\ attached = [l \in Links |-> "pending"]
  /\ answer = [l \in Links |-> "none"]
  /\ endpoint = [e \in Endpoints |-> [pc |-> "new", link |-> NoLink]]

----------------------------------------------------------------------------
(* _serve_connection. *)

\* The session's listener is registered, the source is the allowed one and
\* there is room.
Admits_Mutant == Cardinality(writers) < MaxWriters
Admits == listening /\ Cardinality(writers) < MaxWriters

Refuse(l) ==
  /\ link[l] = "new"
  /\ link' = [link EXCEPT ![l] = "over"]
  /\ shut' = shut \cup {l}
  /\ UNCHANGED <<listening, writers, pendingId, attached, finished, answer, endpoint>>

\* Checked, added and sent to the agent without an await.
Serve(l) ==
  /\ link[l] = "new" /\ Admits
  /\ link' = [link EXCEPT ![l] = "result"]
  /\ writers' = writers \cup {l}
  /\ pendingId' = pendingId \cup {l}
  /\ answer' = [answer EXCEPT ![l] = "asked"]
  /\ UNCHANGED <<listening, attached, finished, shut, endpoint>>

\* The finally of _serve_connection.
Ends(l) ==
  /\ link' = [link EXCEPT ![l] = "over"]
  /\ pendingId' = pendingId \ {l}
  /\ finished' = finished \cup {l}
  /\ writers' = writers \ {l}
  /\ shut' = shut \cup {l}

\* send_ephemeral raises: it returns before it awaits anything.
Offline(l) ==
  /\ link[l] = "new" /\ Admits
  /\ Ends(l)
  /\ UNCHANGED <<listening, attached, answer, endpoint>>

GotResult(l) ==
  /\ link[l] = "result" /\ answer[l] = "ok"
  /\ link' = [link EXCEPT ![l] = "attach"]
  /\ UNCHANGED <<listening, writers, pendingId, attached, finished, shut, answer, endpoint>>

\* Refused by the agent, or no answer within ATTACH_TIMEOUT: it may be lost.
NoTunnel(l) ==
  /\ link[l] = "result"
  /\ Ends(l)
  /\ UNCHANGED <<listening, attached, answer, endpoint>>

GotSocket(l) ==
  /\ link[l] = "attach" /\ attached[l] \in Endpoints
  /\ link' = [link EXCEPT ![l] = "pump"]
  /\ UNCHANGED <<listening, writers, pendingId, attached, finished, shut, answer, endpoint>>

\* wait_for cancels the future it gives up.
NoAttach(l) ==
  /\ link[l] = "attach" /\ attached[l] = "pending"
  /\ Ends(l)
  /\ attached' = [attached EXCEPT ![l] = "cancelled"]
  /\ UNCHANGED <<listening, answer, endpoint>>

\* _pump returns when either side has closed; a side may close at any time.
PumpEnds(l) ==
  /\ link[l] = "pump"
  /\ Ends(l)
  /\ UNCHANGED <<listening, attached, answer, endpoint>>

ClosedPumpEnds(l) == l \in shut /\ PumpEnds(l)

----------------------------------------------------------------------------
(* The agent and attach_agent. *)

AgentAnswers(l) ==
  /\ answer[l] = "asked"
  /\ \E r \in {"ok", "refused"} : answer' = [answer EXCEPT ![l] = r]
  /\ UNCHANGED <<listening, writers, link, pendingId, attached, finished, shut, endpoint>>

\* A known conn_id, of this instance, not used yet.
Unused(l) == l \in pendingId /\ attached[l] = "pending"

\* The agent opens a WebSocket for a tunnel it was asked for, or again.
Attach(e, l) ==
  /\ endpoint[e].pc = "new" /\ answer[l] # "none"
  /\ endpoint' = [endpoint EXCEPT ![e] = [pc |-> IF Unused(l) THEN "accepting" ELSE "gone",
                                          link |-> l]]
  /\ UNCHANGED <<listening, writers, link, pendingId, attached, finished, shut, answer>>

\* set_result, which raises when the future was set or cancelled meanwhile.
Settable_Mutant(l) == attached[l] # "cancelled"
Settable(l) == attached[l] = "pending"

Accepted(e) ==
  LET l == endpoint[e].link IN
  /\ endpoint[e].pc = "accepting"
  /\ IF Settable(l)
     THEN /\ attached' = [attached EXCEPT ![l] = e]
          /\ endpoint' = [endpoint EXCEPT ![e].pc = "waiting"]
     ELSE endpoint' = [endpoint EXCEPT ![e].pc = "gone"] /\ UNCHANGED attached
  /\ UNCHANGED <<listening, writers, link, pendingId, finished, shut, answer>>

\* The endpoint returns once finished is set; or its accept failed.
Released(e) ==
  /\ \/ endpoint[e].pc = "waiting" /\ endpoint[e].link \in finished
     \/ endpoint[e].pc = "accepting"
  /\ endpoint' = [endpoint EXCEPT ![e].pc = "gone"]
  /\ UNCHANGED <<listening, writers, link, pendingId, attached, finished, shut, answer>>

\* stop_listener: the sockets of the connections are closed.
StopListener ==
  /\ listening
  /\ listening' = FALSE
  /\ shut' = shut \cup writers
  /\ UNCHANGED <<writers, link, pendingId, attached, finished, answer, endpoint>>

----------------------------------------------------------------------------
\* What the event loop and its timers do in the end.
LinkRuns(l) == \/ GotResult(l) \/ NoTunnel(l) \/ GotSocket(l) \/ NoAttach(l)
               \/ ClosedPumpEnds(l)
EndpointRuns(e) == Accepted(e) \/ Released(e)

TunnelsNext ==
  \/ \E l \in Links : \/ Refuse(l) \/ Serve(l) \/ Offline(l) \/ LinkRuns(l)
                      \/ PumpEnds(l) \/ AgentAnswers(l)
                      \/ \E e \in Endpoints : Attach(e, l)
  \/ \E e \in Endpoints : EndpointRuns(e)
  \/ StopListener

TunnelsFair ==
  /\ \A l \in Links : WF_tunnelVars(LinkRuns(l))
  /\ \A e \in Endpoints : WF_tunnelVars(EndpointRuns(e))

TunnelsSpec == TunnelsInit /\ [][TunnelsNext]_tunnelVars /\ TunnelsFair

----------------------------------------------------------------------------
(* Properties. *)

\* A link is pumped to one endpoint, the one it waited for, however many the
\* agent opened for its conn_id (support/tunnels.py:161); and the connections
\* that are served stay within the limit (support/tunnels.py:108).
OneEndpointPerLink ==
  /\ \A e, f \in Endpoints :
       endpoint[e].pc = "waiting" /\ endpoint[f].pc = "waiting"
         /\ endpoint[e].link = endpoint[f].link => e = f
  /\ Cardinality({l \in Links : link[l] \in {"result", "attach", "pump"}}) <= MaxWriters

\* When the session is closed, its connections and the agent's endpoints end:
\* neither waits for the other for ever (support/tunnels.py:139, 163).
ClosedSessionEnds ==
  ~listening ~> /\ writers = {} /\ pendingId = {}
                /\ \A e \in Endpoints : endpoint[e].pc \notin {"accepting", "waiting"}
=============================================================================
