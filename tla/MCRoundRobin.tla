---------------------------- MODULE MCRoundRobin ----------------------------
(* The core with two application tasks of one priority. *)
EXTENDS RhinoCore

CONSTANTS a, b, idle

MCNewTask == {<<b, 1, TRUE>>}
=============================================================================
