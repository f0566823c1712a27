------------------------------ MODULE MCReminders ------------------------------
(* Small instances of Reminders. *)
EXTENDS Reminders

\* The two windows of a concert overlap; the first is open from the start.
MCDeadline == [c \in Concerts |-> 2]
MCEvent == [c \in Concerts |-> 3]

================================================================================
