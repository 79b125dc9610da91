---------------------------- MODULE MCThreadPool ----------------------------
(***************************************************************************)
(* Small instances of ThreadPool for TLC.                                  *)
(***************************************************************************)
EXTENDS ThreadPool, TLC

CONSTANTS a, b, c

MCTask2 == {a, b}
MCTask3 == {a, b, c}

\* b is submitted with the higher priority.
MCPriority == [t \in Task |-> IF t = b THEN 2 ELSE 1]

MCThrows == {a}

Symmetry == Permutations(Worker)

=============================================================================
