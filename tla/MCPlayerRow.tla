----------------------------- MODULE MCPlayerRow -----------------------------
(* Instances of PlayerRow for TLC. *)
EXTENDS PlayerRow, TLC

\* Players and request slots are not told apart by any definition.
Symmetry == Permutations(Players) \cup Permutations(Requests)
=============================================================================
