-------------------------------- MODULE MCIpc --------------------------------
(* One object of each kind with two application tasks and interrupt handlers. *)
EXTENDS RhinoIpc

CONSTANTS a, b, idle, m1, m2, x, y

\* The main task creates one task above itself.
MCNewTask == {<<b, 0, TRUE>>}

\* One small message and one that fills more than half of the buffer.
MCBytes == [m \in Msg |-> IF m = m1 THEN 2 ELSE 3]

\* Conditions that overlap, with and without clearing.
MCOptions == {<<{x}, "OR_CLEAR">>, <<{x, y}, "AND_CLEAR">>, <<{x, y}, "OR">>}
=============================================================================
