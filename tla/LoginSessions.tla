---------------------------- MODULE LoginSessions ----------------------------
(***************************************************************************)
(* What AuthService promises of login sessions, that is of the refresh     *)
(* tokens that descend from one register or login: a session is renewed by *)
(* one exchange at a time; a logout ends the session whose token it        *)
(* revokes, a logout of all and the answer to a reuse end every session of *)
(* the account that is open; a session that has ended, by one of these or  *)
(* by an exchange that fails half-way, is never revived.  A renewal in     *)
(* flight escapes all of them.  Auth implements this.                      *)
(***************************************************************************)
CONSTANTS Sessions, Accounts

VARIABLES
  state,       \* what a session is
  sessionsOf,  \* the sessions an account ever had
  dismissed    \* the sessions somebody was told are ended

vars == <<state, sessionsOf, dismissed>>

Init ==
  /\ state = [f \in Sessions |-> "unborn"]
  /\ sessionsOf = [u \in Accounts |-> {}]
  /\ dismissed = {}

Becomes(f, from, to) ==
  /\ state[f] = from
  /\ state' = [state EXCEPT ![f] = to]
  /\ UNCHANGED dismissed

Begin(f, u) ==
  /\ Becomes(f, "unborn", "open")
  /\ sessionsOf' = [sessionsOf EXCEPT ![u] = @ \cup {f}]

\* The session's token is taken in exchange for a new one, and that is issued ...
Renew(f) == Becomes(f, "open", "renewing") /\ UNCHANGED sessionsOf
Complete(f) == Becomes(f, "renewing", "open") /\ UNCHANGED sessionsOf

\* ... or never.
Abandon(f) == Becomes(f, "renewing", "ended") /\ UNCHANGED sessionsOf

End(S) ==
  /\ state' = [f \in Sessions |-> IF f \in S THEN "ended" ELSE state[f]]
  /\ dismissed' = dismissed \cup S
  /\ UNCHANGED sessionsOf

EndOne(f) == state[f] = "open" /\ End({f})

\* A logout of all, or the answer to a reuse.
EndAll(u) == End({f \in sessionsOf[u] : state[f] = "open"})

Next ==
  \/ \E f \in Sessions :
       \/ Renew(f)
       \/ Complete(f)
       \/ Abandon(f)
       \/ EndOne(f)
       \/ \E u \in Accounts : Begin(f, u)
  \/ \E u \in Accounts : EndAll(u)

Spec == Init /\ [][Next]_vars
=============================================================================
