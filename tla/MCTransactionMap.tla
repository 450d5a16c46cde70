--------------------------- MODULE MCTransactionMap ---------------------------
(***************************************************************************)
(* TransactionMap for TLC.  Threads, keys and addresses are symmetric, and *)
(* the reachable states are finite without any bound on the calls.         *)
(***************************************************************************)
EXTENDS TransactionMap, TLC

Symmetry ==
    Permutations(Threads) \cup Permutations(Keys) \cup Permutations(Holders)

===============================================================================
