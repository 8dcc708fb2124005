------------------------------ MODULE MCGateway ------------------------------
(* Instances of Gateway for TLC. *)
EXTENDS Gateway, TLC

\* No definition tells players, sockets, tokens or task slots apart.
Symmetry == Permutations(Players) \cup Permutations(Sockets)
              \cup Permutations(Tokens) \cup Permutations(Tasks)
=============================================================================
