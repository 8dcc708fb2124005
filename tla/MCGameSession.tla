---------------------------- MODULE MCGameSession ----------------------------
(* Instances of GameSession for TLC. *)
EXTENDS GameSession, TLC

\* Two legal inputs and a refused one; seq 2 may come before seq 1.
OnePlayerInputs == {[seq |-> 1, d |-> 1], [seq |-> 2, d |-> 1], [seq |-> 2, d |-> -2]}
OnePlayerRtts == {-1, 1}

OneSpawn == (0 :> 0)
=============================================================================
