------------------------------- MODULE MCLobby -------------------------------
(* Instances of Lobby for TLC. *)
EXTENDS Lobby, TLC

\* Neither players, rooms nor request slots are told apart by any definition.
Symmetry == Permutations(Players) \cup Permutations(Rooms) \cup Permutations(Requests)
=============================================================================
