-------------------------------- MODULE MCSem --------------------------------
(* Semaphores with two application tasks and interrupt handlers. *)
EXTENDS RhinoSem

CONSTANTS a, b, idle

\* The main task creates one task above itself.
MCNewTask == {<<b, 0, TRUE>>}
=============================================================================
