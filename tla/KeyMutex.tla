------------------------------- MODULE KeyMutex -------------------------------
(***************************************************************************)
(* What a TransactionMap promises its users: for every key the set of      *)
(* threads that have a transaction open on it is empty or a single thread, *)
(* a transaction is opened only on a key nobody has open, and only the     *)
(* thread that opened it closes it.                                        *)
(***************************************************************************)
CONSTANTS Threads, Keys

VARIABLE opened   \* opened[k]: the threads with a transaction open on k

Init == opened = [k \in Keys |-> {}]

Open(t, k) ==
    /\ opened[k] = {}
    /\ opened' = [opened EXCEPT ![k] = {t}]

Close(t, k) ==
    /\ opened[k] = {t}
    /\ opened' = [opened EXCEPT ![k] = {}]

Next == \E t \in Threads, k \in Keys : Open(t, k) \/ Close(t, k)

Spec == Init /\ [][Next]_opened

===============================================================================
