--------------------------- MODULE MCAgentChannel ---------------------------
(***************************************************************************)
(* Small instances of AgentChannel for TLC.  Certificates, connections and  *)
(* jobs are interchangeable.                                                 *)
(***************************************************************************)
EXTENDS AgentChannel, TLC

Symmetry == Permutations(Certs) \cup Permutations(Conns) \cup Permutations(Jobs)
=============================================================================
