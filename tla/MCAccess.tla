------------------------------ MODULE MCAccess ------------------------------
(* Instances of Access for TLC. *)
EXTENDS Access, TLC

CONSTANTS u1, a1

UserAndAddress == {u1, a1}

\* Two connections in two units of time, one message in one.
ConnectLimit == (a1 :> 2) @@ (u1 :> 1)
ConnectWindow == (a1 :> 2) @@ (u1 :> 1)
=============================================================================
