------------------------------- MODULE MCMutex -------------------------------
(* Mutexes with up to three application tasks. *)
EXTENDS RhinoMutex, TLC

CONSTANTS a, b, c, idle

\* The main task creates one task above and one below
\* itself, ...
MCNewTask == {<<b, 0, TRUE>>, <<c, 1, TRUE>>}

\* ... or the one above only.
MCNewTask2 == {<<b, 0, TRUE>>}
\* The task above is lowered and raised, whatever it holds or waits for.
MCNewPri == {<<b, 0>>, <<b, 1>>}

\* Mutexes are interchangeable (safety runs only).
MutexSymmetry == Permutations(Obj)
=============================================================================
