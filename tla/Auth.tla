-------------------------------- MODULE Auth --------------------------------
(***************************************************************************)
(* Accounts and refresh tokens: AuthService                                *)
(* (src/application/services/auth-service.ts) over the Prisma repositories *)
(* of users, players and refresh tokens.                                   *)
(*                                                                         *)
(* Every request is a sequence of awaited statements, each committed on    *)
(* its own: the service opens no transaction.  The statements of concurrent*)
(* requests interleave, and a request may end with an error at any await.  *)
(*                                                                         *)
(* Data abstraction.  An email and the username registered with it are one *)
(* account.  A refresh token is the row that stores its hash; a random jti *)
(* makes hashes distinct.  A token is refused as expired at any time, which*)
(* is one of the ways a request fails.  Access tokens are not stored.      *)
(***************************************************************************)
EXTENDS Integers

CONSTANTS
  Users,     \* the accounts that may be registered
  Tokens,    \* the refresh tokens that may ever be issued
  Requests,  \* the requests that may be in flight at a time
  NoToken

ASSUME NoTokenAssumption == NoToken \notin Tokens

VARIABLES
  users,      \* the accounts with a User row
  players,    \* the accounts with a Player row
  tokens,     \* the RefreshToken rows: token -> [user, family, active]
  exchanged,  \* for how many new tokens a token was accepted by refresh
  reused,     \* the tokens whose reuse was answered by a revocation
  dismissed,  \* history: the families that a logout, a logout of all or the answer to a
              \* reuse found with an active token
  request     \* what each request in flight has done and read so far

vars == <<users, players, tokens, exchanged, reused, dismissed, request>>

Idle == [at |-> "idle"]
Goto(q, next) == request' = [request EXCEPT ![q] = next]
Finish(q) == Goto(q, Idle)

Put(f, k, v) == [x \in DOMAIN f \cup {k} |-> IF x = k THEN v ELSE f[x]]

\* updateMany over the rows S: those that are active get a revokedAt.
Revoked(S) == [k \in DOMAIN tokens |-> IF k \in S THEN [tokens[k] EXCEPT !.active = FALSE]
                                       ELSE tokens[k]]

RowsOf(u) == {k \in DOMAIN tokens : tokens[k].user = u}

\* The families with an active token among the rows S.
OpenAmong(S) == {tokens[k].family : k \in {j \in S : tokens[j].active}}

\* The rows S are revoked, and whoever asked is told so.
Dismiss(S) ==
  /\ tokens' = Revoked(S)
  /\ dismissed' = dismissed \cup OpenAmong(S)

Init ==
  /\ users = {}
  /\ players = {}
  /\ tokens = << >>
  /\ exchanged = [k \in Tokens |-> 0]
  /\ reused = {}
  /\ dismissed = {}
  /\ request = [q \in Requests |-> Idle]

-----------------------------------------------------------------------------
(* register and login *)

\* Neither the email nor the username is taken.
RegisterCheck(q, u) ==
  /\ request[q] = Idle
  /\ u \notin users
  /\ Goto(q, [at |-> "register.user", user |-> u])
  /\ UNCHANGED <<users, players, tokens, exchanged, reused, dismissed>>

\* The User row is inserted, or the unique index refuses it.
RegisterUser(q) ==
  /\ request[q].at = "register.user"
  /\ LET u == request[q].user IN
     IF u \in users
     THEN Finish(q) /\ UNCHANGED users
     ELSE /\ users' = users \cup {u}
          /\ Goto(q, [at |-> "register.player", user |-> u])
  /\ UNCHANGED <<players, tokens, exchanged, reused, dismissed>>

RegisterPlayer(q) ==
  /\ request[q].at = "register.player"
  /\ players' = players \cup {request[q].user}
  /\ Goto(q, [at |-> "issue", user |-> request[q].user, from |-> NoToken])
  /\ UNCHANGED <<users, tokens, exchanged, reused, dismissed>>

\* Slip: a user whose registration stopped half-way is let in.
LoginWithoutPlayer(q, u) ==
  /\ request[q] = Idle
  /\ u \in users
  /\ Goto(q, [at |-> "issue", user |-> u, from |-> NoToken])
  /\ UNCHANGED <<users, players, tokens, exchanged, reused, dismissed>>

\* The password is right and the account has its Player row; rows of both kinds
\* are never deleted.
Login(q, u) ==
  /\ request[q] = Idle
  /\ u \in users \cap players
  /\ Goto(q, [at |-> "issue", user |-> u, from |-> NoToken])
  /\ UNCHANGED <<users, players, tokens, exchanged, reused, dismissed>>

\* issueTokens: the row of the new token is inserted.
IssueTokens(q, new) ==
  /\ request[q].at = "issue"
  /\ new \notin DOMAIN tokens
  /\ LET from == request[q].from
         family == IF from = NoToken THEN new ELSE tokens[from].family
     IN  /\ tokens' = Put(tokens, new, [user |-> request[q].user, family |-> family, active |-> TRUE])
         /\ exchanged' = IF from = NoToken THEN exchanged ELSE [exchanged EXCEPT ![from] = @ + 1]
  /\ Finish(q)
  /\ UNCHANGED <<users, players, reused, dismissed>>

-----------------------------------------------------------------------------
(* refresh *)

\* The row is found; whether it is revoked is not looked at yet.
RefreshFind(q, k) ==
  /\ request[q] = Idle
  /\ k \in DOMAIN tokens
  /\ Goto(q, [at |-> "refresh.revoke", token |-> k])
  /\ UNCHANGED <<users, players, tokens, exchanged, reused, dismissed>>

\* Slip: the update is not conditional on the token being active.
RefreshRevokeAnyway(q) ==
  /\ request[q].at = "refresh.revoke"
  /\ tokens' = Revoked({request[q].token})
  /\ Goto(q, [at |-> "refresh.player", token |-> request[q].token])
  /\ UNCHANGED <<users, players, exchanged, reused, dismissed>>

\* Slip: the exchanged token is checked and stays active.
RefreshRevokeForgets(q) ==
  /\ request[q].at = "refresh.revoke"
  /\ Goto(q, [at |-> IF tokens[request[q].token].active THEN "refresh.player" ELSE "refresh.reuse",
              token |-> request[q].token])
  /\ UNCHANGED <<users, players, tokens, exchanged, reused, dismissed>>

\* revokeIfActive is one conditional update.
RefreshRevoke(q) ==
  /\ request[q].at = "refresh.revoke"
  /\ LET k == request[q].token IN
     IF tokens[k].active
     THEN /\ tokens' = Revoked({k})
          /\ Goto(q, [at |-> "refresh.player", token |-> k])
     ELSE /\ Goto(q, [at |-> "refresh.reuse", token |-> k])
          /\ UNCHANGED tokens
  /\ UNCHANGED <<users, players, exchanged, reused, dismissed>>

\* A token that was revoked before: revokeAllForUser, and a refusal.
RefreshReuse(q) ==
  /\ request[q].at = "refresh.reuse"
  /\ LET k == request[q].token IN
     /\ Dismiss(RowsOf(tokens[k].user))
     /\ reused' = reused \cup {k}
  /\ Finish(q)
  /\ UNCHANGED <<users, players, exchanged>>

RefreshPlayer(q) ==
  /\ request[q].at = "refresh.player"
  /\ LET k == request[q].token
         u == tokens[k].user
     IN  IF u \in players
         THEN Goto(q, [at |-> "issue", user |-> u, from |-> k])
         ELSE Finish(q)
  /\ UNCHANGED <<users, players, tokens, exchanged, reused, dismissed>>

-----------------------------------------------------------------------------
(* logout *)

LogoutFind(q, u, k) ==
  /\ request[q] = Idle
  /\ k \in RowsOf(u)
  /\ tokens[k].active
  /\ Goto(q, [at |-> "logout.revoke", token |-> k])
  /\ UNCHANGED <<users, players, tokens, exchanged, reused, dismissed>>

\* If the token was exchanged since it was found, this ends nothing.
LogoutRevoke(q) ==
  /\ request[q].at = "logout.revoke"
  /\ Dismiss({request[q].token})
  /\ Finish(q)
  /\ UNCHANGED <<users, players, exchanged, reused>>

\* Slip: the answer does not wait for the update, which fails.
LogoutAllUnawaited(u) ==
  /\ u \in users
  /\ dismissed' = dismissed \cup OpenAmong(RowsOf(u))
  /\ UNCHANGED <<users, players, tokens, exchanged, reused, request>>

LogoutAll(u) ==
  /\ u \in users
  /\ Dismiss(RowsOf(u))
  /\ UNCHANGED <<users, players, exchanged, reused, request>>

\* A statement fails or the process ends: what was committed remains.
Fail(q) ==
  /\ request[q] # Idle
  /\ Finish(q)
  /\ UNCHANGED <<users, players, tokens, exchanged, reused, dismissed>>

-----------------------------------------------------------------------------
Next ==
  \/ \E q \in Requests :
       \/ RegisterUser(q)
       \/ RegisterPlayer(q)
       \/ RefreshRevoke(q)
       \/ RefreshReuse(q)
       \/ RefreshPlayer(q)
       \/ LogoutRevoke(q)
       \/ Fail(q)
       \/ \E u \in Users : \/ RegisterCheck(q, u)
                           \/ Login(q, u)
                           \/ \E k \in Tokens : LogoutFind(q, u, k)
       \/ \E k \in Tokens : IssueTokens(q, k) \/ RefreshFind(q, k)
  \/ \E u \in Users : LogoutAll(u)

Spec == Init /\ [][Next]_vars

-----------------------------------------------------------------------------
(* Properties *)

Row == [user : Users, family : Tokens, active : BOOLEAN]

Processing ==
  {Idle}
    \cup [at : {"register.user", "register.player"}, user : Users]
    \cup [at : {"issue"}, user : Users, from : Tokens \cup {NoToken}]
    \cup [at : {"refresh.revoke", "refresh.reuse", "refresh.player", "logout.revoke"},
          token : Tokens]

\* The tables and requests have their types; a request holds tokens that exist, a
\* player has its user, a token belongs to an account that can log in.
TypeOK ==
  /\ users \subseteq Users
  /\ players \subseteq users
  /\ DOMAIN tokens \subseteq Tokens
  /\ tokens \in [DOMAIN tokens -> Row]
  /\ \A k \in DOMAIN tokens : tokens[k].user \in players
  /\ exchanged \in [Tokens -> Nat]
  /\ reused \subseteq DOMAIN tokens
  /\ dismissed \subseteq Tokens
  /\ request \in [Requests -> Processing]
  /\ \A q \in Requests :
       /\ request[q].at \in {"refresh.revoke", "refresh.reuse", "refresh.player", "logout.revoke"}
            => request[q].token \in DOMAIN tokens
       /\ request[q].at = "issue" => /\ request[q].user \in players
                                     /\ request[q].from \in DOMAIN tokens \cup {NoToken}
       /\ request[q].at = "register.player" => request[q].user \in users

\* Refresh rotation: however many requests present a token at once, at most one
\* of them gets a new token for it.
RotatedOnce == \A k \in Tokens : exchanged[k] <= 1

\* The tokens that descend from one login form a chain with one active end: a
\* login never has two tokens that both work.
OneActivePerFamily ==
  \A j, k \in DOMAIN tokens :
    tokens[j].active /\ tokens[k].active /\ tokens[j].family = tokens[k].family => j = k

\* The comment at auth-service.ts:146: "Reuse of an already-rotated refresh token
\* -> revoke the whole session family."  The exchange that rotated the token may
\* still be in flight: it issues an active token of the family afterwards.
ReuseRevokesFamily ==
  \A j \in reused : \A k \in DOMAIN tokens :
    tokens[k].family = tokens[j].family => ~tokens[k].active

\* The requests that have revoked a token of family f and not issued the next one.
Renewing(f) ==
  {q \in Requests :
     \/ request[q].at = "refresh.player" /\ tokens[request[q].token].family = f
     \/ /\ request[q].at = "issue"
        /\ request[q].from # NoToken
        /\ tokens[request[q].from].family = f}

SessionState ==
  [f \in Tokens |->
     LET family == {k \in DOMAIN tokens : tokens[k].family = f} IN
     IF family = {} THEN "unborn"
     ELSE IF \E k \in family : tokens[k].active THEN "open"
     ELSE IF Renewing(f) # {} THEN "renewing"
     ELSE "ended"]

SessionsOf == [u \in Users |-> {tokens[k].family : k \in RowsOf(u)}]

Promised == INSTANCE LoginSessions
  WITH Sessions <- Tokens, Accounts <- Users, state <- SessionState, sessionsOf <- SessionsOf

\* Sessions end when they are ended, and for good.  A logout of all and the answer to
\* a reuse end every session of the account that is open at that moment, and a logout
\* the session whose token it revokes.  An ended session never opens again.  What
\* escapes them is a session whose token is being exchanged (auth-service.ts:172).
EndedForGood == Promised!Spec
=============================================================================
