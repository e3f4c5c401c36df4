----------------------------- MODULE MCSupport -----------------------------
(***************************************************************************)
(* Small instances of Support for TLC, on one instance i1.                  *)
(***************************************************************************)
EXTENDS Support, TLC

CONSTANT i1

OneInstance == {i1}
InstOne     == [s \in Sessions |-> i1]
SshSymmetry == Permutations(Ssh) \cup Permutations(Tasks)

\* What support_safety tells apart: no guard and no property of it looks at
\* overtaken, late and unserved, which are history for the properties of
\* support_live.
SafetyView ==
  <<rowVars, op, closeVars, portVars, agentVars, overlap, crossed, restarts, dbErrors>>

\* The hub restarts in the behaviours in which no other task closes sessions and
\* no commit fails; a commit fails when no task is closing, or is that task's, and
\* none closes after that but Expiry and the openers.  A constraint in a run with
\* fairness cuts no fair step: those of ExpiryReads and CloseStep(Expiry) leave
\* restarts, dbErrors and the kind and place of every q in Tasks as they are.
OneTrouble ==
  /\ restarts = 0 \/ (dbErrors = 0 /\ \A q \in Tasks : kind[q] = "none")
  /\ dbErrors = 0 \/ \A q \in Tasks : at[q] \in {"idle", "ended"}
=============================================================================
