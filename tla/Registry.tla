------------------------------ MODULE Registry ------------------------------
(***************************************************************************)
(* The dictionary of live agent connections, hub/agents/registry.py.       *)
(*                                                                         *)
(* The hub runs as one process and keeps, per instance, the connection it  *)
(* believes to be live.  "Online" is only what this dictionary says: it is *)
(* not persisted, and it is empty after a restart.  The modules of the     *)
(* command dispatcher and of the agent channel both EXTEND this one.       *)
(***************************************************************************)

CONSTANTS Instances,  \* the enrolled instances
          Conns,      \* identities of websocket connections, each used once
          NoConn      \* "no connection registered"

ASSUME NoConnAssumption == NoConn \notin Conns

VARIABLE online       \* online[i]: the connection registered for instance i

\* What the dictionary may hold.
RegistryType == online \in [Instances -> Conns \cup {NoConn}]

\* No connection at all: the state of a freshly started hub.
EmptyRegistry == [i \in Instances |-> NoConn]

IsOnline(i) == online[i] # NoConn

\* The newest connection wins: it takes the place of whatever was there.  The
\* caller closes the one it displaced, online[i].
Register(i, k) == online' = [online EXCEPT ![i] = k]

\* The mistake of an `unregister` that does not ask who is registered; only the
\* mutation runs use it.
Unregister_Mutant(i, k) == online' = [online EXCEPT ![i] = NoConn]

\* Called by a connection that ends.  It removes itself only: a connection
\* that has meanwhile been displaced must leave its successor in place.
Unregister(i, k) ==
  online' = [online EXCEPT ![i] = IF online[i] = k THEN NoConn ELSE online[i]]

\* A pop that leaves readers without an entry where they expect "no
\* connection"; only the mutation runs use it.
Disconnect_Mutant(i) == online' = [j \in Instances \ {i} |-> online[j]]

\* Called to throw an instance out: whatever is registered is popped.  The
\* caller closes the popped connection.
Disconnect(i) == online' = [online EXCEPT ![i] = NoConn]
=============================================================================
