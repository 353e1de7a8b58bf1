----------------------------- MODULE MCHashTable -----------------------------
(* The instance of HashTable that TLC checks. *)
EXTENDS HashTable

CONSTANTS k1, k2, k3, k4, k5, k6

HashOf(a, b, c, d, e, f) ==
    [k \in Key |-> CASE k = k1 -> a [] k = k2 -> b [] k = k3 -> c
                     [] k = k4 -> d [] k = k5 -> e [] k = k6 -> f]

(* Values that collide in every table, that are told apart by one more bit, *)
(* and that all differ.                                                     *)
SomeHashFunctions ==
    {HashOf(0, 0, 0, 1, 1, 1), HashOf(0, 2, 4, 6, 1, 3), HashOf(0, 4, 0, 2, 2, 6)}
=============================================================================
