-------------------------- MODULE CommandLifecycle --------------------------
(***************************************************************************)
(* What the Command table promises of each row, read from the docstrings   *)
(* of hub/models.py (Command) and hub/agents/dispatcher.py and from the     *)
(* conditions of the statements that write the column:                      *)
(*                                                                         *)
(*    queued -> sent -> done | failed, or expired when not answered in time *)
(*                                                                         *)
(* A result closes the row from any of the open states, and also after it   *)
(* expired ("a late result still closes the command").  An answer is        *)
(* never taken back.  One step may move many rows, since the hub's UPDATEs   *)
(* do.                                                                      *)
(***************************************************************************)

CONSTANT Cmds
VARIABLE status

Open     == {"queued", "sent"}
Answered == {"done", "failed"}
Statuses == {"none", "expired"} \cup Open \cup Answered

\* The moves a row may make.
Moves ==
  {<<"none", "queued">>, <<"queued", "sent">>}
    \cup (Open \X {"expired"})
    \cup ((Open \cup {"expired"}) \X Answered)

Init == status = [c \in Cmds |-> "none"]

Next ==
  /\ status' \in [Cmds -> Statuses]
  /\ \A c \in Cmds :
       status'[c] # status[c] => <<status[c], status'[c]>> \in Moves

Spec == Init /\ [][Next]_status
=============================================================================
