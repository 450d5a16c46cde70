------------------------------- MODULE Lifecycle -------------------------------
(***************************************************************************)
(* What an active object promises its users: threads_number threads work   *)
(* between activate_object and the end of wait_object, and at no other     *)
(* time.                                                                   *)
(***************************************************************************)
EXTENDS Integers, FiniteSets

CONSTANTS ThreadIds, threads_number

VARIABLES
    state,      \* of the object: "not_active", "active" or "deactivating"
    working     \* the threads that execute the job

Init == state = "not_active" /\ working = {}

Activate ==
    /\ state = "not_active"
    /\ working = {}
    /\ state' = "active"
    /\ UNCHANGED working

\* activate_object throws: nothing was started.
ActivateFails ==
    /\ state = "active"
    /\ working = {}
    /\ state' = "not_active"
    /\ UNCHANGED working

\* A thread starts to work, perhaps only after the object was deactivated.
Begin(w) ==
    /\ state # "not_active"
    /\ Cardinality(working \cup {w}) <= threads_number
    /\ working' = working \cup {w}
    /\ UNCHANGED state

Deactivate ==
    /\ state = "active"
    /\ state' = "deactivating"
    /\ UNCHANGED working

\* A thread stops to work: it does not give up before it is told to.
End(w) ==
    /\ state = "deactivating"
    /\ w \in working
    /\ working' = working \ {w}
    /\ UNCHANGED state

Stop ==
    /\ state = "deactivating"
    /\ working = {}
    /\ state' = "not_active"
    /\ UNCHANGED working

Next ==
    \/ Activate \/ ActivateFails \/ Deactivate \/ Stop
    \/ \E w \in ThreadIds : Begin(w) \/ End(w)

Spec == Init /\ [][Next]_<<state, working>>

===============================================================================
