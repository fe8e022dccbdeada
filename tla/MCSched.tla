------------------------------- MODULE MCSched -------------------------------
(* The core on its own: two application tasks, the second of either priority. *)
EXTENDS RhinoCore

CONSTANTS a, b, idle

MCNewTask == {<<b, 0, TRUE>>, <<b, 1, FALSE>>}

\* Either task is set to either priority.
MCNewPri == {a, b} \X {0, 1}
=============================================================================
