------------------------------ MODULE MCTimer ------------------------------
(* Instances of RhinoTimer for TLC. *)
EXTENDS RhinoTimer

CONSTANTS T1, T2

\* A periodic timer and a one-shot timer.
MCNewTimer == {<<T1, 1, 2>>, <<T2, 2, 0>>}
\* The one-shot timer is changed to more than half the range of the counter.
MCChange   == {<<T2, 5, 0>>}
=============================================================================
