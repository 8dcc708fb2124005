----------------------------- MODULE MCInventory -----------------------------
(* Instances of Inventory for TLC. *)
EXTENDS Inventory, TLC

\* Item keys, slots and request slots are not told apart by any definition.
Symmetry == Permutations(Keys) \cup Permutations(Slots) \cup Permutations(Requests)
=============================================================================
