-------------------------------- MODULE MCWork --------------------------------
(* One delayed work, two without delay, two callers. *)
EXTENDS RhinoWorkqueue

CONSTANTS w1, w2, w3
=============================================================================
