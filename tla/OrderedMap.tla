----------------------------- MODULE OrderedMap -----------------------------
(***************************************************************************)
(* What the server expects of a hash table: it finds the elements that     *)
(* were added and not deleted, and walks them in the order of addition.    *)
(***************************************************************************)
EXTENDS Sequences, SequencesExt

CONSTANTS Key

VARIABLES items     \* the elements in the order of addition

MapInit == items = <<>>

Insert(k) == k \notin ToSet(items) /\ items' = Append(items, k)

Erase(k) == k \in ToSet(items) /\ items' = RemoveFirst(items, k)

MapNext == \E k \in Key : Insert(k) \/ Erase(k)

MapSpec == MapInit /\ [][MapNext]_items
=============================================================================
