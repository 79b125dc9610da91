---------------------------- MODULE TaskService -----------------------------
(***************************************************************************)
(* What the thread pool promises to its callers, without threads, locks or *)
(* condition variables: a task that is submitted to an open service waits, *)
(* is started in order of priority, and gets one result; closing the       *)
(* service drops what still waits and refuses what comes later.            *)
(***************************************************************************)
EXTENDS Integers, FiniteSets

CONSTANTS
    Task,
    Priority,
    Room,      \* how many tasks may wait, 0 for no limit
    Slots      \* how many tasks may run at a time

VARIABLES
    open,
    waiting,
    running,
    result     \* what the caller's future says

vars == <<open, waiting, running, result>>

Init ==
    /\ open = TRUE
    /\ waiting = {} /\ running = {}
    /\ result = [t \in Task |-> "none"]

\* A submission waits for room, so there is no step for a full service.
Submit(t) ==
    /\ open /\ result[t] = "none"
    /\ Room > 0 => Cardinality(waiting) < Room
    /\ waiting' = waiting \cup {t}
    /\ result' = [result EXCEPT ![t] = "pending"]
    /\ UNCHANGED <<open, running>>

Refuse(t) ==
    /\ ~open /\ result[t] = "none"
    /\ result' = [result EXCEPT ![t] = "invalid"]
    /\ UNCHANGED <<open, waiting, running>>

Start(t) ==
    /\ t \in waiting /\ \A u \in waiting : Priority[u] <= Priority[t]
    /\ Cardinality(running) < Slots
    /\ waiting' = waiting \ {t}
    /\ running' = running \cup {t}
    /\ UNCHANGED <<open, result>>

Finish(t) ==
    /\ t \in running
    /\ running' = running \ {t}
    /\ \E r \in {"value", "exception"} : result' = [result EXCEPT ![t] = r]
    /\ UNCHANGED <<open, waiting>>

Close ==
    /\ open /\ open' = FALSE
    /\ waiting' = {}
    /\ result' = [t \in Task |-> IF t \in waiting THEN "broken" ELSE result[t]]
    /\ UNCHANGED running

Next ==
    \/ \E t \in Task : Submit(t) \/ Refuse(t) \/ Start(t) \/ Finish(t)
    \/ Close

Spec == Init /\ [][Next]_vars

=============================================================================
