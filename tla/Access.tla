------------------------------- MODULE Access -------------------------------
(***************************************************************************)
(* Who is let in: the tokens of token-service.ts as the auth routes hand   *)
(* them out and take them back, the bearer check of middleware/auth.ts and *)
(* of the gateway's handleConnection, and the rate limiter in front of the *)
(* gateway's connections and messages, while time passes for all of them.  *)
(*                                                                         *)
(* Module Auth has the statements of AuthService and how they interleave;  *)
(* here a request is one action and the tokens have lifetimes.  A token is *)
(* its kind, its user and the time it has left; a refresh token is its row *)
(* too, of which it carries the same expiry.  Tokens and rows whose time   *)
(* is over are dropped: nothing accepts them.                              *)
(***************************************************************************)
EXTENDS RateLimiter

CONSTANTS
  Users,       \* accounts with their player
  Addresses,   \* client addresses, as clientIp tells them apart
  Sockets,     \* WebSocket connections
  AccessTtl,   \* JWT_ACCESS_EXPIRES_IN (15m in the code) in units of time
  RefreshTtl,  \* JWT_REFRESH_EXPIRES_IN (7d)
  OneSecret    \* JWT_ACCESS_SECRET and JWT_REFRESH_SECRET are equal

ASSUME KeysAssumption == Keys = Users \cup Addresses /\ Users \cap Addresses = {}
ASSUME TtlAssumption ==
  AccessTtl \in Nat \ {0} /\ RefreshTtl \in Nat \ {0} /\ OneSecret \in BOOLEAN

VARIABLES
  access,      \* access[u]: the times the access tokens of a user have left
  rows,        \* rows[u]: its refresh tokens' rows, [left, active]
  connection,  \* where a socket's connection has got to
  ended        \* units of time since the user last had a session, up to AccessTtl + 1

accountVars == <<access, rows>>
vars == <<limiterVars, accountVars, connection, ended>>

Row == [left : 1..RefreshTtl, active : BOOLEAN]
Jwt == [kind : {"access", "refresh"}, user : Users, left : 0..(AccessTtl + RefreshTtl)]
Closed == [at |-> "closed"]

\* A session is a refresh token that can still be exchanged.
HasSession(held) == \E row \in held : row.active

\* The tokens there are.
Jwts ==
  UNION {{[kind |-> "access", user |-> u, left |-> left] : left \in access[u]}
           \cup {[kind |-> "refresh", user |-> u, left |-> row.left] : row \in rows[u]} : u \in Users}

\* Slip: the type claim is not looked at.
VerifiesAnyType(jwt) == jwt.left > 0 /\ (jwt.kind = "access" \/ OneSecret)

\* verifyAccessToken: the signature, which a refresh token has too if the secrets
\* are equal, the expiry, and the type claim.
Verifies(jwt) ==
  /\ jwt.kind = "access" \/ OneSecret
  /\ jwt.left > 0
  /\ jwt.kind = "access"

\* authenticate: the user's request carries a good access token.
Authenticated(u) == \E jwt \in Jwts : jwt.user = u /\ Verifies(jwt)

Init ==
  /\ LimiterInit
  /\ access = [u \in Users |-> {}]
  /\ rows = [u \in Users |-> {}]
  /\ connection = [s \in Sockets |-> Closed]
  /\ ended = [u \in Users |-> AccessTtl + 1]

\* The rows of one user are written; ended is counted from here.
RowsBecome(u, held) ==
  /\ rows' = [rows EXCEPT ![u] = held]
  /\ ended' = [ended EXCEPT ![u] = IF HasSession(held) THEN 0 ELSE @]

-----------------------------------------------------------------------------
(* The auth routes *)

\* issueTokens, with what else becomes of the user's rows.
Issue(u, held) ==
  /\ access' = [access EXCEPT ![u] = @ \cup {AccessTtl}]
  /\ RowsBecome(u, held \cup {[left |-> RefreshTtl, active |-> TRUE]})
  /\ UNCHANGED <<limiterVars, connection>>

\* /register and /login with the right password.
Login(u) == Issue(u, rows[u])

Deactivated(row) == [row EXCEPT !.active = FALSE]

\* /refresh: a good row is exchanged; an exchanged or revoked one revokes all.
Refresh(u, row) ==
  IF row.active
  THEN Issue(u, (rows[u] \ {row}) \cup {Deactivated(row)})
  ELSE /\ RowsBecome(u, {Deactivated(other) : other \in rows[u]})
       /\ UNCHANGED <<limiterVars, access, connection>>

\* /logout, authenticated; a row of another user is refused.
Logout(u, row) ==
  /\ Authenticated(u)
  /\ RowsBecome(u, (rows[u] \ {row}) \cup {Deactivated(row)})
  /\ UNCHANGED <<limiterVars, access, connection>>

\* /logout-all, authenticated.
LogoutAll(u) ==
  /\ Authenticated(u)
  /\ RowsBecome(u, {Deactivated(row) : row \in rows[u]})
  /\ UNCHANGED <<limiterVars, access, connection>>

-----------------------------------------------------------------------------
(* The gateway *)

\* handleConnection up to the limiter's answer: a connection over its address's
\* limit is closed, another has its token looked at afterwards.
Connect(s, a, jwt, times) ==
  /\ connection[s] = Closed
  /\ Consume(a, times)
  /\ connection' = [connection EXCEPT ![s] = IF Allowed(a, times) THEN [at |-> "limit", jwt |-> jwt] ELSE @]
  /\ UNCHANGED <<accountVars, ended>>

\* ... and from there: the token is verified, another connection of the same
\* user replaced.  It is never looked at again.
Verify(s) ==
  /\ connection[s].at = "limit"
  /\ LET jwt == connection[s].jwt
         replaced == {x \in Sockets : connection[x] = [at |-> "in", user |-> jwt.user]}
     IN  connection' = [x \in Sockets |->
           IF x = s THEN IF Verifies(jwt) THEN [at |-> "in", user |-> jwt.user] ELSE Closed
           ELSE IF Verifies(jwt) /\ x \in replaced THEN Closed ELSE connection[x]]
  /\ UNCHANGED <<limiterVars, accountVars, ended>>

\* A message counts for the player, whichever of its connections it comes on.
Message(s, times) ==
  /\ connection[s].at = "in"
  /\ Consume(connection[s].user, times)
  /\ UNCHANGED <<accountVars, connection, ended>>

Disconnect(s) ==
  /\ connection[s].at = "in"
  /\ connection' = [connection EXCEPT ![s] = Closed]
  /\ UNCHANGED <<limiterVars, accountVars, ended>>

\* A unit of time passes for counters and tokens.
Elapse ==
  /\ LimiterElapse
  /\ access' = [u \in Users |-> {left - 1 : left \in access[u]} \ {0}]
  /\ rows' = [u \in Users |-> {[row EXCEPT !.left = @ - 1] : row \in {r \in rows[u] : r.left > 1}}]
  /\ connection' = [s \in Sockets |->
       IF connection[s].at = "limit" /\ connection[s].jwt.left > 0
       THEN [connection[s] EXCEPT !.jwt.left = @ - 1] ELSE connection[s]]
  /\ ended' = [u \in Users |-> IF HasSession(rows'[u]) THEN 0 ELSE Capped(ended[u] + 1, AccessTtl + 1)]

Next ==
  \/ Elapse
  \/ \E u \in Users :
       \/ Login(u)
       \/ LogoutAll(u)
       \/ \E row \in rows[u] : Refresh(u, row) \/ Logout(u, row)
  \/ \E s \in Sockets :
       \/ Verify(s)
       \/ Disconnect(s)
       \/ \E times \in 1..(1 + Resends) :
            \/ Message(s, times)
            \/ \E a \in Addresses, jwt \in Jwts : Connect(s, a, jwt, times)

Spec == Init /\ [][Next]_vars

\* Time passes.
FairSpec == Spec /\ WF_vars(Elapse)

-----------------------------------------------------------------------------
(* Properties *)

\* Tokens, rows and connections have their types.
TypeOK ==
  /\ LimiterTypeOK
  /\ access \in [Users -> SUBSET (1..AccessTtl)]
  /\ rows \in [Users -> SUBSET Row]
  /\ connection \in [Sockets -> {Closed} \cup [at : {"limit"}, jwt : Jwt] \cup [at : {"in"}, user : Users]]
  /\ ended \in [Users -> 0..(AccessTtl + 1)]

\* Logging out takes hold: access tokens are not revoked, but once a user has had
\* no session for as long as one lives, nothing the user holds is let through by
\* a route or will open the connection it was presented on, whatever was
\* exchanged and expired when, and whether or not the two secrets differ.
LogoutTakesHold ==
  \A u \in Users : ended[u] >= AccessTtl =>
    /\ ~Authenticated(u)
    /\ \A s \in Sockets :
         (connection[s].at = "limit" /\ connection[s].jwt.user = u) => ~Verifies(connection[s].jwt)
=============================================================================
