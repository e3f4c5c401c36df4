----------------------------- MODULE MCCommands -----------------------------
(***************************************************************************)
(* Small instances of Commands for TLC: one instance, i1, whose agent opens *)
(* the connections Conns.                                                    *)
(***************************************************************************)
EXTENDS Commands, TLC

CONSTANTS i1,     \* the instance
          Queued  \* the commands issued by queue_command

OneInstance == {i1}
NotQueued   == Cmds \ Queued
TargetOne   == [c \in Cmds |-> i1]
OwnerOne    == [k \in Conns |-> i1]

\* Every agent supports everything, or some support nothing.
FullCaps   == {Cmds}
UnevenCaps == {Cmds, {}}

\* Connections are interchangeable: nothing but their number matters.  So are
\* commands, when all are issued in the same way.
ConnSymmetry == Permutations(Conns)
FullSymmetry == Permutations(Conns) \cup Permutations(Cmds)

\* What commands_safety tells apart: no guard and no property of it looks at
\* early and overlapped, which are history for ExecutedInOrder.
SafetyView == <<dbVars, callVars, connVars, boundVars, online, executed, handed,
                dropped>>

\* No deadline passes while several commands are under way.
InTime == overdue = {}
=============================================================================
