--------------------------- MODULE MCSnapshotStream ---------------------------
(* Instances of SnapshotStream for TLC. *)
EXTENDS SnapshotStream, TLC

OneInput == {[seq |-> 1, d |-> 1]}
NoRtts == {0}
TwoSpawns == (0 :> 0) @@ (1 :> 1)
=============================================================================
