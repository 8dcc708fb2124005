----------------------------- MODULE Auth_proofs -----------------------------
(***************************************************************************)
(* Theorems about Auth for any accounts, tokens and number of requests.    *)
(***************************************************************************)
EXTENDS Auth, TLAPS

-----------------------------------------------------------------------------
(* Type correctness *)

HoldsToken(q) == request[q].at \in {"refresh.revoke", "refresh.reuse", "refresh.player", "logout.revoke"}

LEMMA RevokedTyped ==
  ASSUME TypeOK, NEW S
  PROVE  /\ DOMAIN Revoked(S) = DOMAIN tokens
         /\ Revoked(S) \in [DOMAIN tokens -> Row]
         /\ \A k \in DOMAIN tokens :
              /\ Revoked(S)[k].user = tokens[k].user
              /\ Revoked(S)[k].family = tokens[k].family
              /\ Revoked(S)[k].active = (tokens[k].active /\ k \notin S)
<1>1. ASSUME NEW k \in DOMAIN tokens
      PROVE  /\ Revoked(S)[k] \in Row
             /\ Revoked(S)[k].user = tokens[k].user
             /\ Revoked(S)[k].family = tokens[k].family
             /\ Revoked(S)[k].active = (tokens[k].active /\ k \notin S)
  <2>1. tokens[k] \in Row
    BY DEF TypeOK
  <2>2. CASE k \in S
    <3>1. Revoked(S)[k] = [tokens[k] EXCEPT !.active = FALSE]
      BY <2>2 DEF Revoked
    <3>2. /\ Revoked(S)[k].user = tokens[k].user
          /\ Revoked(S)[k].family = tokens[k].family
          /\ Revoked(S)[k].active = FALSE
      BY <2>1, <3>1 DEF Row
    <3>3. Revoked(S)[k] \in Row
      BY <2>1, <3>1 DEF Row
    <3> QED BY <2>2, <3>2, <3>3
  <2>3. CASE k \notin S
    <3>1. Revoked(S)[k] = tokens[k]
      BY <2>3 DEF Revoked
    <3>2. tokens[k].active \in BOOLEAN
      BY <2>1 DEF Row
    <3> QED BY <2>1, <2>3, <3>1, <3>2
  <2> QED BY <2>2, <2>3
<1>2. DOMAIN Revoked(S) = DOMAIN tokens /\ Revoked(S) = [k \in DOMAIN tokens |-> Revoked(S)[k]]
  BY DEF Revoked
<1> QED BY <1>1, <1>2

LEMMA Kinds ==
  ASSUME TypeOK, NEW q \in Requests
  PROVE  /\ request[q].at \in {"register.user", "register.player", "issue"} => request[q].user \in Users
         /\ request[q].at = "issue" => request[q].from \in Tokens \cup {NoToken}
         /\ HoldsToken(q) => request[q].token \in DOMAIN tokens
<1>1. request[q] \in Processing
  BY DEF TypeOK
<1>2. /\ request[q].at \in {"register.user", "register.player", "issue"} => request[q].user \in Users
      /\ request[q].at = "issue" => request[q].from \in Tokens \cup {NoToken}
  BY <1>1 DEF Processing, Idle
<1> QED BY <1>2 DEF TypeOK, HoldsToken

\* A request goes on to its next statement with a type that fits.
LEMMA NextRequest ==
  ASSUME TypeOK, NEW q \in Requests, NEW next \in Processing, Goto(q, next)
  PROVE  /\ request' \in [Requests -> Processing]
         /\ request'[q] = next
         /\ \A x \in Requests \ {q} : request'[x] = request[x]
BY DEF TypeOK, Goto

\* The part of TypeOK about what requests hold.
Holds ==
  \A q \in Requests :
    /\ HoldsToken(q) => request[q].token \in DOMAIN tokens
    /\ request[q].at = "issue" => /\ request[q].user \in players
                                  /\ request[q].from \in DOMAIN tokens \cup {NoToken}
    /\ request[q].at = "register.player" => request[q].user \in users

Tables ==
  /\ users \subseteq Users
  /\ players \subseteq users
  /\ DOMAIN tokens \subseteq Tokens
  /\ tokens \in [DOMAIN tokens -> Row]
  /\ \A k \in DOMAIN tokens : tokens[k].user \in players
  /\ exchanged \in [Tokens -> Nat]
  /\ reused \subseteq DOMAIN tokens
  /\ dismissed \subseteq Tokens

\* The sessions that a revocation ends.
LEMMA DismissTyped ==
  ASSUME TypeOK, NEW S \in SUBSET DOMAIN tokens
  PROVE  OpenAmong(S) \in SUBSET Tokens
BY DEF OpenAmong, TypeOK, Row

LEMMA Parts ==
  /\ TypeOK <=> Tables /\ Holds /\ request \in [Requests -> Processing]
  /\ TypeOK' <=> Tables' /\ Holds' /\ request' \in [Requests -> Processing]
BY DEF TypeOK, Tables, Holds, HoldsToken

LEMMA RefreshTyped ==
  ASSUME TypeOK, NEW q \in Requests,
         \/ RefreshRevoke(q) \/ RefreshReuse(q) \/ RefreshPlayer(q) \/ LogoutRevoke(q)
  PROVE  TypeOK'
<1> DEFINE k == request[q].token
<1>1. HoldsToken(q) /\ k \in DOMAIN tokens
  BY Kinds DEF HoldsToken, RefreshRevoke, RefreshReuse, RefreshPlayer, LogoutRevoke
<1>2. k \in Tokens
  BY <1>1 DEF TypeOK
<1>3. /\ UNCHANGED <<users, players, exchanged>>
      /\ reused' \subseteq DOMAIN tokens
      /\ tokens' = tokens \/ \E S : tokens' = Revoked(S)
      /\ dismissed' = dismissed \/ \E S \in SUBSET DOMAIN tokens : dismissed' = dismissed \cup OpenAmong(S)
  <2>1. RowsOf(tokens[k].user) \in SUBSET DOMAIN tokens /\ {k} \in SUBSET DOMAIN tokens
    BY <1>1 DEF RowsOf
  <2> QED BY <1>1, <2>1 DEF RefreshRevoke, RefreshReuse, RefreshPlayer, LogoutRevoke, Dismiss, TypeOK
<1>4. /\ DOMAIN tokens' = DOMAIN tokens
      /\ tokens' \in [DOMAIN tokens -> Row]
      /\ \A j \in DOMAIN tokens : tokens'[j].user = tokens[j].user
  <2>1. CASE tokens' = tokens
    BY <2>1 DEF TypeOK
  <2>2. CASE \E S : tokens' = Revoked(S)
    BY <2>2, RevokedTyped
  <2> QED BY <1>3, <2>1, <2>2
<1>5. Tables'
  <2>1. dismissed' \subseteq Tokens
    BY <1>3, DismissTyped DEF TypeOK
  <2> QED BY <1>3, <1>4, <2>1 DEF Tables, TypeOK
<1>6. \E next \in Processing :
        /\ Goto(q, next)
        /\ \/ next = Idle
           \/ next.at \in {"refresh.player", "refresh.reuse"} /\ next.token = k
           \/ next.at = "issue" /\ next.user \in players /\ next.from = k
  <2>1. CASE RefreshRevoke(q)
    <3>1. \/ Goto(q, [at |-> "refresh.player", token |-> k])
          \/ Goto(q, [at |-> "refresh.reuse", token |-> k])
      BY <2>1 DEF RefreshRevoke
    <3>2. /\ [at |-> "refresh.player", token |-> k] \in Processing
          /\ [at |-> "refresh.reuse", token |-> k] \in Processing
      BY <1>2 DEF Processing
    <3> QED BY <3>1, <3>2
  <2>2. CASE RefreshReuse(q) \/ LogoutRevoke(q)
    BY <2>2 DEF RefreshReuse, LogoutRevoke, Finish, Processing
  <2>3. CASE RefreshPlayer(q)
    <3>1. \/ Finish(q)
          \/ /\ tokens[k].user \in players
             /\ Goto(q, [at |-> "issue", user |-> tokens[k].user, from |-> k])
      BY <2>3 DEF RefreshPlayer
    <3>2. tokens[k].user \in Users
      BY <1>1 DEF TypeOK, Row
    <3>3. [at |-> "issue", user |-> tokens[k].user, from |-> k] \in Processing /\ Idle \in Processing
      BY <1>2, <3>2 DEF Processing
    <3> HIDE DEF k
    <3> QED BY <3>1, <3>3 DEF Finish
  <2> QED BY <2>1, <2>2, <2>3
<1> HIDE DEF k
<1>7. PICK next \in Processing :
        /\ Goto(q, next)
        /\ \/ next = Idle
           \/ next.at \in {"refresh.player", "refresh.reuse"} /\ next.token = k
           \/ next.at = "issue" /\ next.user \in players /\ next.from = k
  BY <1>6
<1>8. /\ request' \in [Requests -> Processing]
      /\ request'[q] = next
      /\ \A x \in Requests \ {q} : request'[x] = request[x]
  BY <1>7, NextRequest
<1>9. Holds'
  <2> SUFFICES ASSUME NEW x \in Requests
               PROVE  /\ HoldsToken(x)' => request'[x].token \in DOMAIN tokens
                      /\ request'[x].at = "issue" => /\ request'[x].user \in players
                                                     /\ request'[x].from \in DOMAIN tokens \cup {NoToken}
                      /\ request'[x].at = "register.player" => request'[x].user \in users
    BY <1>3, <1>4 DEF Holds
  <2>1. CASE x = q
    BY <1>1, <1>7, <1>8, <2>1 DEF HoldsToken, Idle
  <2>2. CASE x # q
    BY <1>8, <2>2, Parts DEF Holds, HoldsToken
  <2> QED BY <2>1, <2>2
<1> QED BY <1>5, <1>8, <1>9, Parts

LEMMA IssueTyped ==
  ASSUME TypeOK, NEW q \in Requests, NEW new \in Tokens, IssueTokens(q, new)
  PROVE  /\ TypeOK'
         /\ DOMAIN tokens' = DOMAIN tokens \cup {new}
         /\ \A k \in DOMAIN tokens : tokens'[k] = tokens[k]
<1> DEFINE from == request[q].from
           row == [user |-> request[q].user,
                   family |-> IF from = NoToken THEN new ELSE tokens[from].family,
                   active |-> TRUE]
<1>1. /\ request[q].at = "issue" /\ new \notin DOMAIN tokens
      /\ tokens' = Put(tokens, new, row)
      /\ exchanged' = IF from = NoToken THEN exchanged ELSE [exchanged EXCEPT ![from] = @ + 1]
      /\ Goto(q, Idle)
      /\ UNCHANGED <<users, players, reused, dismissed>>
  BY DEF IssueTokens, Finish
<1>2. /\ request[q].user \in players /\ request[q].user \in Users
      /\ from \in DOMAIN tokens \cup {NoToken}
  BY <1>1 DEF TypeOK
<1>3. from # NoToken => tokens[from].family \in Tokens
  BY <1>2 DEF TypeOK, Row
<1>4. row \in Row /\ row.user \in players
  BY <1>2, <1>3 DEF Row
<1> HIDE DEF row
<1>5. /\ DOMAIN tokens' = DOMAIN tokens \cup {new}
      /\ tokens'[new] = row
      /\ \A k \in DOMAIN tokens : tokens'[k] = tokens[k]
      /\ tokens' = [k \in DOMAIN tokens \cup {new} |-> tokens'[k]]
  BY <1>1 DEF Put
<1>6. exchanged' \in [Tokens -> Nat]
  BY <1>1, <1>2 DEF TypeOK
<1>7. Tables'
  BY <1>1, <1>4, <1>5, <1>6 DEF TypeOK, Tables
<1>8. /\ request' \in [Requests -> Processing]
      /\ request'[q] = Idle
      /\ \A x \in Requests \ {q} : request'[x] = request[x]
  <2>1. Idle \in Processing
    BY DEF Processing
  <2> QED BY <1>1, <2>1, NextRequest
<1>9. Holds'
  <2> SUFFICES ASSUME NEW x \in Requests
               PROVE  /\ HoldsToken(x)' => request'[x].token \in DOMAIN tokens'
                      /\ request'[x].at = "issue" => /\ request'[x].user \in players
                                                     /\ request'[x].from \in DOMAIN tokens' \cup {NoToken}
                      /\ request'[x].at = "register.player" => request'[x].user \in users
    BY <1>1 DEF Holds
  <2>1. CASE x = q
    BY <1>8, <2>1 DEF HoldsToken, Idle
  <2>2. CASE x # q
    BY <1>5, <1>8, <2>2, Parts DEF Holds, HoldsToken
  <2> QED BY <2>1, <2>2
<1> QED BY <1>5, <1>7, <1>8, <1>9, Parts

\* The other actions leave the refresh tokens' rows and counts as they are.
Elsewhere ==
  \/ \E q \in Requests :
       \/ RegisterUser(q)
       \/ RegisterPlayer(q)
       \/ Fail(q)
       \/ \E u \in Users : RegisterCheck(q, u) \/ Login(q, u) \/ \E k \in Tokens : LogoutFind(q, u, k)
       \/ \E k \in Tokens : RefreshFind(q, k)
  \/ UNCHANGED vars

\* Where a request goes that is not an exchange.
Outside(next) ==
  \/ next = Idle
  \/ next.at \in {"register.user"}
  \/ next.at = "register.player" /\ next.user \in users'
  \/ next.at \in {"refresh.revoke", "logout.revoke"} /\ next.token \in DOMAIN tokens
  \/ next.at = "issue" /\ next.user \in players' /\ next.from = NoToken

LEMMA ElsewhereMoves ==
  ASSUME TypeOK, Elsewhere
  PROVE  /\ UNCHANGED <<tokens, exchanged, reused, dismissed>>
         /\ users \subseteq users' /\ users' \subseteq Users
         /\ players \subseteq players' /\ players' \subseteq users'
         /\ \/ UNCHANGED request
            \/ \E q \in Requests, next \in Processing : Goto(q, next) /\ Outside(next)
<1>0. Idle \in Processing /\ Outside(Idle)
  BY DEF Processing, Outside
<1>1. ASSUME NEW q \in Requests, NEW u \in Users, RegisterCheck(q, u)
      PROVE  \E next \in Processing : Goto(q, next) /\ Outside(next)
  <2> DEFINE next == [at |-> "register.user", user |-> u]
  <2>1. next \in Processing
    BY DEF Processing
  <2>2. Goto(q, next) /\ Outside(next)
    BY <1>1 DEF RegisterCheck, Outside
  <2> QED BY <2>1, <2>2
<1>2. ASSUME NEW q \in Requests, RegisterUser(q)
      PROVE  /\ users \subseteq users' /\ users' \subseteq Users
             /\ \E next \in Processing : Goto(q, next) /\ Outside(next)
  <2> DEFINE u == request[q].user
             next == [at |-> "register.player", user |-> u]
  <2>1. u \in Users
    BY <1>2, Kinds DEF RegisterUser
  <2>2. next \in Processing
    BY <2>1 DEF Processing
  <2>3. CASE u \in users
    BY <1>0, <1>2, <2>1, <2>3 DEF RegisterUser, Finish, TypeOK
  <2>4. CASE u \notin users
    <3>1. users' = users \cup {u} /\ Goto(q, next)
      BY <1>2, <2>4 DEF RegisterUser
    <3>2. Outside(next)
      BY <3>1 DEF Outside
    <3> QED BY <2>1, <2>2, <3>1, <3>2 DEF TypeOK
  <2> QED BY <2>3, <2>4
<1>3. ASSUME NEW q \in Requests, RegisterPlayer(q)
      PROVE  /\ players \subseteq players' /\ players' \subseteq users
             /\ \E next \in Processing : Goto(q, next) /\ Outside(next)
  <2> DEFINE u == request[q].user
             next == [at |-> "issue", user |-> u, from |-> NoToken]
  <2>1. u \in users
    BY <1>3 DEF RegisterPlayer, TypeOK
  <2>2. next \in Processing
    BY <2>1 DEF Processing, TypeOK
  <2>3. players' = players \cup {u} /\ Goto(q, next)
    BY <1>3 DEF RegisterPlayer
  <2>4. Outside(next)
    BY <2>3 DEF Outside
  <2> QED BY <2>1, <2>2, <2>3, <2>4 DEF TypeOK
<1>4. ASSUME NEW q \in Requests, NEW u \in Users, Login(q, u)
      PROVE  \E next \in Processing : Goto(q, next) /\ Outside(next)
  <2> DEFINE next == [at |-> "issue", user |-> u, from |-> NoToken]
  <2>1. next \in Processing
    BY DEF Processing
  <2>2. Goto(q, next) /\ Outside(next)
    BY <1>4 DEF Login, Outside
  <2> QED BY <2>1, <2>2
<1>5. ASSUME NEW q \in Requests, NEW k \in Tokens,
             RefreshFind(q, k) \/ \E u \in Users : LogoutFind(q, u, k)
      PROVE  \E next \in Processing : Goto(q, next) /\ Outside(next)
  <2>1. k \in DOMAIN tokens
    BY <1>5 DEF RefreshFind, LogoutFind, RowsOf
  <2>2. /\ [at |-> "refresh.revoke", token |-> k] \in Processing
        /\ [at |-> "logout.revoke", token |-> k] \in Processing
        /\ Outside([at |-> "refresh.revoke", token |-> k])
        /\ Outside([at |-> "logout.revoke", token |-> k])
    BY <2>1 DEF Processing, Outside
  <2> QED BY <1>5, <2>2 DEF RefreshFind, LogoutFind
<1>6. ASSUME NEW q \in Requests, Fail(q)
      PROVE  \E next \in Processing : Goto(q, next) /\ Outside(next)
  BY <1>0, <1>6 DEF Fail, Finish
<1>7. UNCHANGED <<tokens, exchanged, reused, dismissed>>
  BY DEF Elsewhere, RegisterUser, RegisterPlayer, Fail, RegisterCheck, Login, LogoutFind, RefreshFind, vars
<1>8. /\ \/ users' = users
         \/ \E q \in Requests : RegisterUser(q)
      /\ \/ players' = players
         \/ \E q \in Requests : RegisterPlayer(q)
      /\ (\E q \in Requests : RegisterPlayer(q)) => users' = users
  BY DEF Elsewhere, RegisterUser, RegisterPlayer, Fail, RegisterCheck, Login, LogoutFind, RefreshFind, vars
<1>9. /\ users \subseteq users' /\ users' \subseteq Users
      /\ players \subseteq players' /\ players' \subseteq users'
  BY <1>2, <1>3, <1>8 DEF TypeOK
<1>10. \/ UNCHANGED request
       \/ \E q \in Requests, next \in Processing : Goto(q, next) /\ Outside(next)
  BY <1>1, <1>2, <1>3, <1>4, <1>5, <1>6 DEF Elsewhere, vars
<1> QED BY <1>7, <1>9, <1>10

LEMMA ElsewhereTyped ==
  ASSUME TypeOK, Elsewhere
  PROVE  TypeOK'
<1>1. Tables'
  BY ElsewhereMoves DEF Tables, TypeOK
<1>2. CASE UNCHANGED request
  BY <1>1, <1>2, ElsewhereMoves, Parts DEF Holds, HoldsToken
<1>3. ASSUME NEW q \in Requests, NEW next \in Processing, Goto(q, next), Outside(next)
      PROVE  TypeOK'
  <2>1. /\ request' \in [Requests -> Processing]
        /\ request'[q] = next
        /\ \A x \in Requests \ {q} : request'[x] = request[x]
    BY <1>3, NextRequest
  <2>2. Holds'
    <3> SUFFICES ASSUME NEW x \in Requests
                 PROVE  /\ HoldsToken(x)' => request'[x].token \in DOMAIN tokens
                        /\ request'[x].at = "issue" => /\ request'[x].user \in players'
                                                       /\ request'[x].from \in DOMAIN tokens \cup {NoToken}
                        /\ request'[x].at = "register.player" => request'[x].user \in users'
      BY ElsewhereMoves DEF Holds
    <3>1. CASE x = q
      BY <1>3, <2>1, <3>1 DEF HoldsToken, Outside, Idle
    <3>2. CASE x # q
      BY <2>1, <3>2, ElsewhereMoves, Parts DEF Holds, HoldsToken
    <3> QED BY <3>1, <3>2
  <2> QED BY <1>1, <2>1, <2>2, Parts
<1> QED BY <1>2, <1>3, ElsewhereMoves

LEMMA LogoutAllTyped ==
  ASSUME TypeOK, NEW u \in Users, LogoutAll(u)
  PROVE  TypeOK'
<1>1. UNCHANGED <<users, players, exchanged, reused, request>>
  BY DEF LogoutAll
<1>2. /\ DOMAIN tokens' = DOMAIN tokens
      /\ tokens' \in [DOMAIN tokens -> Row]
      /\ \A j \in DOMAIN tokens : tokens'[j].user = tokens[j].user
  BY RevokedTyped DEF LogoutAll, Dismiss
<1>3. dismissed' \subseteq Tokens
  <2>1. RowsOf(u) \in SUBSET DOMAIN tokens
    BY DEF RowsOf
  <2> QED BY <2>1, DismissTyped DEF LogoutAll, Dismiss, TypeOK
<1> QED BY <1>1, <1>2, <1>3, Parts DEF Tables, Holds, HoldsToken

LEMMA NextCases ==
  ASSUME [Next]_vars
  PROVE  \/ Elsewhere
         \/ \E q \in Requests :
              \/ RefreshRevoke(q) \/ RefreshReuse(q) \/ RefreshPlayer(q) \/ LogoutRevoke(q)
              \/ \E new \in Tokens : IssueTokens(q, new)
         \/ \E u \in Users : LogoutAll(u)
BY DEF Next, Elsewhere

LEMMA InitTyped == Init => TypeOK
<1> SUFFICES ASSUME Init PROVE TypeOK
  OBVIOUS
<1>1. DOMAIN tokens = {} /\ \A q \in Requests : request[q] = Idle
  BY DEF Init
<1>2. request \in [Requests -> Processing] /\ exchanged \in [Tokens -> Nat]
  BY DEF Init, Processing
<1> QED BY <1>1, <1>2 DEF Init, TypeOK, Idle

LEMMA NextTyped == TypeOK /\ [Next]_vars => TypeOK'
BY NextCases, RefreshTyped, IssueTyped, ElsewhereTyped, LogoutAllTyped

\* The tables hold what they should; a token's account can log in.
THEOREM TypeCorrect == Spec => []TypeOK
BY InitTyped, NextTyped, PTL DEF Spec

-----------------------------------------------------------------------------
(* Rotation *)

\* The request has revoked k and not yet replaced it.
Exchanging(q, k) ==
  /\ request[q].at \in {"refresh.player", "issue"}
  /\ k = IF request[q].at = "issue" THEN request[q].from ELSE request[q].token

\* The end of a family's chain is either its one active token or the token one
\* request is exchanging; a token that was exchanged is neither.
Chains ==
  /\ \A k \in DOMAIN tokens : tokens[k].family \in DOMAIN tokens
  /\ \A q \in Requests, k \in DOMAIN tokens : Exchanging(q, k) =>
       /\ exchanged[k] = 0
       /\ \A j \in DOMAIN tokens : tokens[j].family = tokens[k].family => ~tokens[j].active
       /\ \A q2 \in Requests, j \in DOMAIN tokens :
            Exchanging(q2, j) /\ tokens[j].family = tokens[k].family => q2 = q
  /\ \A k \in Tokens : exchanged[k] > 0 => k \in DOMAIN tokens /\ ~tokens[k].active

RInv == Chains /\ RotatedOnce /\ OneActivePerFamily

\* Revoking rows, with no exchange begun, disturbs nothing.
LEMMA RevocationKeeps ==
  ASSUME TypeOK, RInv, exchanged' = exchanged,
         DOMAIN tokens' = DOMAIN tokens,
         \A k \in DOMAIN tokens : /\ tokens'[k].family = tokens[k].family
                                  /\ tokens'[k].active => tokens[k].active,
         \A q \in Requests, k \in DOMAIN tokens : Exchanging(q, k)' => Exchanging(q, k)
  PROVE  RInv'
<1>1. Chains'
  BY DEF RInv, Chains
<1>2. RotatedOnce' /\ OneActivePerFamily'
  BY DEF RInv, RotatedOnce, OneActivePerFamily
<1> QED BY <1>1, <1>2 DEF RInv

LEMMA ElsewhereKeeps ==
  ASSUME TypeOK, RInv, Elsewhere
  PROVE  RInv'
<1>1. UNCHANGED <<tokens, exchanged>>
  BY ElsewhereMoves
<1>2. ASSUME NEW x \in Requests, NEW k \in DOMAIN tokens, Exchanging(x, k)'
      PROVE  Exchanging(x, k)
  <2>1. CASE UNCHANGED request
    BY <1>2, <2>1 DEF Exchanging
  <2>2. ASSUME NEW q \in Requests, NEW next \in Processing, Goto(q, next), Outside(next)
        PROVE  Exchanging(x, k)
    <3>1. request'[q] = next /\ \A y \in Requests \ {q} : request'[y] = request[y]
      BY <2>2, NextRequest
    <3>2. x # q
      <4>1. k # NoToken
        BY NoTokenAssumption DEF TypeOK
      <4> QED BY <1>2, <2>2, <3>1, <4>1 DEF Exchanging, Outside, Idle
    <3> QED BY <1>2, <3>1, <3>2 DEF Exchanging
  <2> QED BY <2>1, <2>2, ElsewhereMoves
<1> QED BY <1>1, <1>2, RevocationKeeps

LEMMA LogoutKeeps ==
  ASSUME TypeOK, RInv,
         (\E q \in Requests : RefreshReuse(q) \/ LogoutRevoke(q)) \/ \E u \in Users : LogoutAll(u)
  PROVE  RInv'
<1>1. exchanged' = exchanged /\ \E S : tokens' = Revoked(S)
  BY DEF RefreshReuse, LogoutRevoke, LogoutAll, Dismiss
<1>2. /\ DOMAIN tokens' = DOMAIN tokens
      /\ \A k \in DOMAIN tokens : /\ tokens'[k].family = tokens[k].family
                                  /\ tokens'[k].active => tokens[k].active
  <2>1. PICK S : tokens' = Revoked(S)
    BY <1>1
  <2> QED BY <2>1, RevokedTyped
<1>3. request' = request \/ \E q \in Requests : Goto(q, Idle)
  BY DEF RefreshReuse, LogoutRevoke, LogoutAll, Finish
<1>4. \A x \in Requests, k \in DOMAIN tokens : Exchanging(x, k)' => Exchanging(x, k)
  <2>1. CASE request' = request
    BY <2>1 DEF Exchanging
  <2>2. ASSUME NEW q \in Requests, Goto(q, Idle)
        PROVE  \A x \in Requests, k \in DOMAIN tokens : Exchanging(x, k)' => Exchanging(x, k)
    BY <2>2 DEF Goto, TypeOK, Exchanging, Idle
  <2> QED BY <1>3, <2>1, <2>2
<1> QED BY <1>1, <1>2, <1>4, RevocationKeeps

LEMMA RefreshKeeps ==
  ASSUME TypeOK, RInv, NEW q \in Requests, RefreshRevoke(q) \/ RefreshPlayer(q)
  PROVE  RInv'
<1> DEFINE k == request[q].token
<1>1. HoldsToken(q) /\ k \in DOMAIN tokens /\ exchanged' = exchanged
  BY Kinds DEF HoldsToken, RefreshRevoke, RefreshPlayer
<1>2. CASE RefreshRevoke(q) /\ tokens[k].active
  <2>1. tokens' = Revoked({k}) /\ request' = [request EXCEPT ![q] = [at |-> "refresh.player", token |-> k]]
    BY <1>2 DEF RefreshRevoke, Goto
  <2>2. request[q].at = "refresh.revoke"
    BY <1>2 DEF RefreshRevoke
  <2> HIDE DEF k
  <2>3. /\ DOMAIN tokens' = DOMAIN tokens
        /\ \A j \in DOMAIN tokens : /\ tokens'[j].family = tokens[j].family
                                    /\ tokens'[j].active = (tokens[j].active /\ j # k)
    BY <2>1, RevokedTyped
  <2>4. \A x \in Requests, j \in DOMAIN tokens :
          Exchanging(x, j)' <=> Exchanging(x, j) \/ (x = q /\ j = k)
    BY <2>1, <2>2 DEF Exchanging, TypeOK
  <2>5. \A x \in Requests, j \in DOMAIN tokens :
          Exchanging(x, j) => tokens[j].family # tokens[k].family
    BY <1>1, <1>2 DEF RInv, Chains
  <2>6. \A j \in DOMAIN tokens : tokens[j].family = tokens[k].family => ~tokens'[j].active
    BY <1>1, <1>2, <2>3 DEF RInv, OneActivePerFamily
  <2>7. exchanged[k] = 0
    BY <1>1, <1>2 DEF RInv, Chains, TypeOK
  <2>8. Chains'
    <3>1. \A j \in DOMAIN tokens' : tokens'[j].family \in DOMAIN tokens'
      BY <2>3 DEF RInv, Chains
    <3>2. \A j \in Tokens : exchanged'[j] > 0 => j \in DOMAIN tokens' /\ ~tokens'[j].active
      BY <1>1, <2>3 DEF RInv, Chains
    <3>3. ASSUME NEW x \in Requests, NEW j \in DOMAIN tokens, Exchanging(x, j)'
          PROVE  /\ exchanged'[j] = 0
                 /\ \A i \in DOMAIN tokens' : tokens'[i].family = tokens'[j].family => ~tokens'[i].active
                 /\ \A y \in Requests, i \in DOMAIN tokens' :
                      Exchanging(y, i)' /\ tokens'[i].family = tokens'[j].family => y = x
      <4>1. CASE x = q /\ j = k
        BY <1>1, <2>3, <2>4, <2>5, <2>6, <2>7, <4>1
      <4>2. CASE Exchanging(x, j)
        <5>1. /\ exchanged[j] = 0
              /\ \A i \in DOMAIN tokens : tokens[i].family = tokens[j].family => ~tokens[i].active
              /\ \A y \in Requests, i \in DOMAIN tokens :
                   Exchanging(y, i) /\ tokens[i].family = tokens[j].family => y = x
          BY <4>2 DEF RInv, Chains
        <5>2. tokens[j].family # tokens[k].family
          BY <2>5, <4>2
        <5>3. \A i \in DOMAIN tokens : tokens'[i].family = tokens'[j].family => ~tokens'[i].active
          BY <2>3, <5>1
        <5>4. ASSUME NEW y \in Requests, NEW i \in DOMAIN tokens,
                     Exchanging(y, i)', tokens'[i].family = tokens'[j].family
              PROVE  y = x
          <6>1. tokens[i].family = tokens[j].family
            BY <2>3, <5>4
          <6>2. i # k
            BY <5>2, <6>1
          <6>3. Exchanging(y, i)
            BY <2>4, <5>4, <6>2
          <6> QED BY <5>1, <6>1, <6>3
        <5> QED BY <1>1, <2>3, <5>1, <5>3, <5>4
      <4> QED BY <2>4, <3>3, <4>1, <4>2
    <3> QED BY <2>3, <3>1, <3>2, <3>3 DEF Chains
  <2>9. RotatedOnce' /\ OneActivePerFamily'
    BY <1>1, <2>3 DEF RInv, RotatedOnce, OneActivePerFamily
  <2> QED BY <2>8, <2>9 DEF RInv
<1>3. CASE RefreshPlayer(q) \/ ~tokens[k].active
  <2>1. tokens' = tokens
    BY <1>3 DEF RefreshRevoke, RefreshPlayer
  <2>2. \/ /\ request[q].at = "refresh.revoke"
           /\ Goto(q, [at |-> "refresh.reuse", token |-> k])
        \/ Goto(q, Idle)
        \/ /\ request[q].at = "refresh.player"
           /\ Goto(q, [at |-> "issue", user |-> tokens[k].user, from |-> k])
    BY <1>3 DEF RefreshRevoke, RefreshPlayer, Finish
  <2>3. \A x \in Requests, j \in DOMAIN tokens : Exchanging(x, j)' => Exchanging(x, j)
    BY <2>2 DEF Exchanging, Goto, TypeOK, Idle
  <2> QED BY <1>1, <2>1, <2>3, RevocationKeeps
<1> QED BY <1>2, <1>3

LEMMA IssueKeeps ==
  ASSUME TypeOK, RInv, NEW q \in Requests, NEW new \in Tokens, IssueTokens(q, new)
  PROVE  RInv'
<1> DEFINE from == request[q].from
           family == IF from = NoToken THEN new ELSE tokens[from].family
<1>1. /\ request[q].at = "issue" /\ new \notin DOMAIN tokens
      /\ from \in DOMAIN tokens \cup {NoToken}
      /\ exchanged' = IF from = NoToken THEN exchanged ELSE [exchanged EXCEPT ![from] = @ + 1]
      /\ request' = [request EXCEPT ![q] = Idle]
  BY DEF IssueTokens, Finish, Goto, TypeOK
<1>2. /\ DOMAIN tokens' = DOMAIN tokens \cup {new}
      /\ \A k \in DOMAIN tokens : tokens'[k] = tokens[k]
      /\ tokens'[new].family = family /\ tokens'[new].active
  BY IssueTyped DEF IssueTokens, Put
<1>3. \A x \in Requests, k \in DOMAIN tokens' : Exchanging(x, k)' => x # q /\ Exchanging(x, k)
  BY <1>1 DEF Exchanging, TypeOK, Idle
<1>4. from \in DOMAIN tokens => Exchanging(q, from)
  BY <1>1 DEF Exchanging
<1>5. \A x \in Requests : ~Exchanging(x, new)
  <2>1. ASSUME NEW x \in Requests, Exchanging(x, new)
        PROVE  FALSE
    <3>1. CASE request[x].at = "issue"
      BY <1>1, <2>1, <3>1, NoTokenAssumption DEF Exchanging, TypeOK
    <3>2. CASE request[x].at = "refresh.player"
      BY <1>1, <2>1, <3>2, Kinds DEF Exchanging, HoldsToken
    <3> QED BY <2>1, <3>1, <3>2 DEF Exchanging
  <2> QED BY <2>1
<1> HIDE DEF from, family
<1>6. /\ from = NoToken => family = new
      /\ from # NoToken => from \in DOMAIN tokens /\ family = tokens[from].family
  BY <1>1 DEF family
<1>7. from # NoToken =>
        /\ exchanged[from] = 0
        /\ \A j \in DOMAIN tokens : tokens[j].family = family => ~tokens[j].active
        /\ \A x \in Requests, j \in DOMAIN tokens :
             Exchanging(x, j) /\ tokens[j].family = family => x = q
  BY <1>4, <1>6 DEF RInv, Chains
<1>8. \A j \in DOMAIN tokens : tokens[j].family = family =>
        /\ ~tokens[j].active
        /\ \A x \in Requests : Exchanging(x, j) => x = q
  <2>1. CASE from = NoToken
    BY <1>1, <1>6, <2>1 DEF RInv, Chains
  <2>2. CASE from # NoToken
    BY <1>7, <2>2
  <2> QED BY <2>1, <2>2
<1>9. \A j \in Tokens : exchanged'[j] = IF from # NoToken /\ j = from THEN 1 ELSE exchanged[j]
  BY <1>1, <1>6, <1>7 DEF TypeOK
<1>10. from # NoToken => from \in DOMAIN tokens /\ ~tokens[from].active
  BY <1>6, <1>7
<1>11. Chains'
  <2>1. \A k \in DOMAIN tokens' : tokens'[k].family \in DOMAIN tokens'
    BY <1>2, <1>6 DEF RInv, Chains
  <2>2. \A k \in Tokens : exchanged'[k] > 0 => k \in DOMAIN tokens' /\ ~tokens'[k].active
    BY <1>1, <1>2, <1>9, <1>10 DEF RInv, Chains
  <2>3. ASSUME NEW x \in Requests, NEW k \in DOMAIN tokens', Exchanging(x, k)'
        PROVE  /\ exchanged'[k] = 0
               /\ \A j \in DOMAIN tokens' : tokens'[j].family = tokens'[k].family => ~tokens'[j].active
               /\ \A y \in Requests, j \in DOMAIN tokens' :
                    Exchanging(y, j)' /\ tokens'[j].family = tokens'[k].family => y = x
    <3>1. x # q /\ Exchanging(x, k) /\ k \in DOMAIN tokens
      BY <1>2, <1>3, <1>5, <2>3
    <3>2. tokens[k].family # family
      BY <1>8, <3>1
    <3>3. k # from
      BY <1>6, <3>1, <3>2, NoTokenAssumption DEF TypeOK
    <3>4. exchanged'[k] = 0
      BY <1>9, <3>1, <3>3 DEF RInv, Chains, TypeOK
    <3>5. \A j \in DOMAIN tokens' : tokens'[j].family = tokens'[k].family => ~tokens'[j].active
      BY <1>2, <3>1, <3>2 DEF RInv, Chains
    <3>6. \A y \in Requests, j \in DOMAIN tokens' :
            Exchanging(y, j)' /\ tokens'[j].family = tokens'[k].family => y = x
      BY <1>2, <1>3, <1>5, <3>1 DEF RInv, Chains
    <3> QED BY <3>4, <3>5, <3>6
  <2> QED BY <2>1, <2>2, <2>3 DEF Chains
<1>12. RotatedOnce'
  BY <1>9 DEF RInv, RotatedOnce
<1>13. OneActivePerFamily'
  BY <1>2, <1>8 DEF RInv, OneActivePerFamily
<1> QED BY <1>11, <1>12, <1>13 DEF RInv

LEMMA RotationInvariance == Spec => [](RInv /\ TypeOK)
<1>1. Init => RInv
  <2> SUFFICES ASSUME Init PROVE RInv
    OBVIOUS
  <2>1. DOMAIN tokens = {} /\ (\A k \in Tokens : exchanged[k] = 0)
    BY DEF Init
  <2> QED BY <2>1 DEF RInv, Chains, RotatedOnce, OneActivePerFamily
<1>2. TypeOK /\ RInv /\ [Next]_vars => RInv'
  BY NextCases, ElsewhereKeeps, LogoutKeeps, RefreshKeeps, IssueKeeps
<1> QED BY <1>1, <1>2, TypeCorrect, PTL DEF Spec

\* However many requests present a refresh token at once, at most one of them
\* gets a new token for it.
THEOREM TokensRotateOnce == Spec => []RotatedOnce
<1>1. RInv => RotatedOnce
  BY DEF RInv
<1> QED BY <1>1, RotationInvariance, PTL

\* A login never has two refresh tokens that both work.
THEOREM OneActiveToken == Spec => []OneActivePerFamily
<1>1. RInv => OneActivePerFamily
  BY DEF RInv
<1> QED BY <1>1, RotationInvariance, PTL

-----------------------------------------------------------------------------
(* Whose sessions *)

\* The tokens of a family belong to the account that logged in, and a token is
\* exchanged on behalf of its owner.
Owned ==
  /\ \A k \in DOMAIN tokens : /\ tokens[k].family \in DOMAIN tokens
                              /\ tokens[tokens[k].family].user = tokens[k].user
  /\ \A q \in Requests :
       request[q].at = "issue" /\ request[q].from # NoToken
         => request[q].user = tokens[request[q].from].user

\* The rows keep their users and families; a request that goes on to issue does so
\* for the owner of the token, or of none.
LEMMA OwnersStay ==
  ASSUME TypeOK, Owned, DOMAIN tokens' = DOMAIN tokens,
         \A k \in DOMAIN tokens : /\ tokens'[k].family = tokens[k].family
                                 /\ tokens'[k].user = tokens[k].user,
         \A q \in Requests :
           \/ request'[q] = request[q]
           \/ request'[q].at # "issue"
           \/ request'[q].from = NoToken
           \/ /\ request'[q].from \in DOMAIN tokens
              /\ request'[q].user = tokens[request'[q].from].user
  PROVE  Owned'
<1>1. \A k \in DOMAIN tokens' : /\ tokens'[k].family \in DOMAIN tokens'
                                /\ tokens'[tokens'[k].family].user = tokens'[k].user
  BY DEF Owned
<1>2. ASSUME NEW q \in Requests, request'[q].at = "issue", request'[q].from # NoToken
      PROVE  request'[q].user = tokens'[request'[q].from].user
  <2>1. CASE request'[q] = request[q]
    <3>1. request[q].from \in DOMAIN tokens /\ request[q].user = tokens[request[q].from].user
      BY <1>2, <2>1 DEF Owned, TypeOK
    <3> QED BY <2>1, <3>1
  <2>2. CASE request'[q] # request[q]
    BY <1>2, <2>2
  <2> QED BY <2>1, <2>2
<1> QED BY <1>1, <1>2 DEF Owned

LEMMA OwnedStep ==
  ASSUME TypeOK, Owned, [Next]_vars
  PROVE  Owned'
<1>1. CASE Elsewhere
  <2>1. tokens' = tokens
    BY <1>1, ElsewhereMoves
  <2>2. CASE UNCHANGED request
    BY <2>1, <2>2, OwnersStay
  <2>3. ASSUME NEW q \in Requests, NEW next \in Processing, Goto(q, next), Outside(next)
        PROVE  Owned'
    <3>1. request'[q] = next /\ \A x \in Requests \ {q} : request'[x] = request[x]
      BY <2>3, NextRequest
    <3>2. next.at # "issue" \/ next.from = NoToken
      BY <2>3 DEF Outside, Idle
    <3>3. \A x \in Requests : \/ request'[x] = request[x]
                             \/ request'[x].at # "issue"
                             \/ request'[x].from = NoToken
      BY <3>1, <3>2
    <3> QED BY <2>1, <3>3, OwnersStay
  <2> QED BY <1>1, <2>2, <2>3, ElsewhereMoves
<1>2. ASSUME NEW q \in Requests,
             RefreshRevoke(q) \/ RefreshReuse(q) \/ RefreshPlayer(q) \/ LogoutRevoke(q)
      PROVE  Owned'
  <2> DEFINE k == request[q].token
  <2>1. k \in DOMAIN tokens
    BY <1>2, Kinds DEF HoldsToken, RefreshRevoke, RefreshReuse, RefreshPlayer, LogoutRevoke
  <2>2. tokens' = tokens \/ \E S : tokens' = Revoked(S)
    BY <1>2 DEF RefreshRevoke, RefreshReuse, RefreshPlayer, LogoutRevoke, Dismiss
  <2>3. /\ DOMAIN tokens' = DOMAIN tokens
        /\ \A j \in DOMAIN tokens : /\ tokens'[j].family = tokens[j].family
                                    /\ tokens'[j].user = tokens[j].user
    BY <2>2, RevokedTyped
  <2>4. \/ Goto(q, Idle)
        \/ Goto(q, [at |-> "refresh.player", token |-> k])
        \/ Goto(q, [at |-> "refresh.reuse", token |-> k])
        \/ Goto(q, [at |-> "issue", user |-> tokens[k].user, from |-> k])
    BY <1>2 DEF RefreshRevoke, RefreshReuse, RefreshPlayer, LogoutRevoke, Finish
  <2>5. \A x \in Requests : \/ request'[x] = request[x]
                           \/ request'[x].at # "issue"
                           \/ /\ request'[x].from \in DOMAIN tokens
                              /\ request'[x].user = tokens[request'[x].from].user
    BY <2>1, <2>4 DEF Goto, TypeOK, Idle
  <2> QED BY <2>3, <2>5, OwnersStay
<1>3. ASSUME NEW u \in Users, LogoutAll(u)
      PROVE  Owned'
  <2>1. request' = request /\ \E S : tokens' = Revoked(S)
    BY <1>3 DEF LogoutAll, Dismiss
  <2>2. /\ DOMAIN tokens' = DOMAIN tokens
        /\ \A j \in DOMAIN tokens : /\ tokens'[j].family = tokens[j].family
                                    /\ tokens'[j].user = tokens[j].user
    BY <2>1, RevokedTyped
  <2> QED BY <2>1, <2>2, OwnersStay
<1>4. ASSUME NEW q \in Requests, NEW new \in Tokens, IssueTokens(q, new)
      PROVE  Owned'
  <2>1. /\ request[q].at = "issue" /\ new \notin DOMAIN tokens
        /\ request[q].from \in DOMAIN tokens \cup {NoToken}
        /\ request' = [request EXCEPT ![q] = Idle]
    BY <1>4 DEF IssueTokens, Finish, Goto, TypeOK
  <2>2. PICK from \in DOMAIN tokens \cup {NoToken} : from = request[q].from
    BY <2>1
  <2>3. /\ DOMAIN tokens' = DOMAIN tokens \cup {new}
        /\ \A k \in DOMAIN tokens : tokens'[k] = tokens[k]
        /\ tokens'[new].family = IF from = NoToken THEN new ELSE tokens[from].family
        /\ tokens'[new].user = request[q].user
    BY <1>4, <2>2, IssueTyped DEF IssueTokens, Put
  <2>4. /\ tokens'[new].family \in DOMAIN tokens'
        /\ tokens'[tokens'[new].family].user = tokens'[new].user
    <3>1. CASE from = NoToken
      BY <2>3, <3>1
    <3>2. CASE from # NoToken
      <4>1. /\ tokens[from].family \in DOMAIN tokens
            /\ tokens[tokens[from].family].user = tokens[from].user
            /\ request[q].user = tokens[from].user
        BY <2>1, <2>2, <3>2 DEF Owned
      <4> QED BY <2>3, <3>2, <4>1
    <3> QED BY <3>1, <3>2
  <2>5. \A k \in DOMAIN tokens' : /\ tokens'[k].family \in DOMAIN tokens'
                                  /\ tokens'[tokens'[k].family].user = tokens'[k].user
    BY <2>3, <2>4 DEF Owned
  <2>6. ASSUME NEW x \in Requests, request'[x].at = "issue", request'[x].from # NoToken
        PROVE  request'[x].user = tokens'[request'[x].from].user
    <3>1. request'[x] = request[x]
      BY <2>1, <2>6 DEF TypeOK, Idle
    <3>2. request[x].from \in DOMAIN tokens /\ request[x].user = tokens[request[x].from].user
      BY <2>6, <3>1 DEF Owned, TypeOK
    <3> QED BY <2>3, <3>1, <3>2
  <2> QED BY <2>5, <2>6 DEF Owned
<1> QED BY <1>1, <1>2, <1>3, <1>4, NextCases

LEMMA OwnedInvariance == Spec => []Owned
<1>1. Init => Owned
  BY DEF Init, Owned, Idle
<1>2. TypeOK /\ Owned /\ [Next]_vars => Owned'
  BY OwnedStep
<1> QED BY <1>1, <1>2, TypeCorrect, PTL DEF Spec

-----------------------------------------------------------------------------
(* Login sessions end for good *)

\* What the refinement maps to.
session == <<SessionState, SessionsOf, dismissed>>

\* The rows keep their users and families: so do the accounts their sessions.
LEMMA SessionsStay ==
  ASSUME DOMAIN tokens' = DOMAIN tokens,
         \A k \in DOMAIN tokens : /\ tokens'[k].family = tokens[k].family
                                 /\ tokens'[k].user = tokens[k].user
  PROVE  SessionsOf' = SessionsOf
<1>1. \A u \in Users : {tokens'[k].family : k \in {j \in DOMAIN tokens' : tokens'[j].user = u}}
                       = {tokens[k].family : k \in {j \in DOMAIN tokens : tokens[j].user = u}}
  OBVIOUS
<1> QED BY <1>1 DEF SessionsOf, RowsOf

Born(f) == \E k \in DOMAIN tokens : tokens[k].family = f
Usable(f) == \E k \in DOMAIN tokens : tokens[k].family = f /\ tokens[k].active
BeingRenewed(f) ==
  \E q \in Requests, k \in DOMAIN tokens : Exchanging(q, k) /\ tokens[k].family = f

StateOf(f) ==
  IF ~Born(f) THEN "unborn"
  ELSE IF Usable(f) THEN "open"
  ELSE IF BeingRenewed(f) THEN "renewing"
  ELSE "ended"

\* The refinement mapping in these terms, before and after a step.
LEMMA StateIs ==
  /\ TypeOK => SessionState = [f \in Tokens |-> StateOf(f)]
  /\ TypeOK' => SessionState' = [f \in Tokens |-> StateOf(f)']
<1>1. ASSUME TypeOK PROVE SessionState = [f \in Tokens |-> StateOf(f)]
  <2>1. ASSUME NEW f \in Tokens
        PROVE  /\ {k \in DOMAIN tokens : tokens[k].family = f} = {} <=> ~Born(f)
               /\ (\E k \in {k \in DOMAIN tokens : tokens[k].family = f} : tokens[k].active) <=> Usable(f)
               /\ Renewing(f) # {} <=> BeingRenewed(f)
    <3>1. Renewing(f) # {} <=> BeingRenewed(f)
      BY <1>1, NoTokenAssumption DEF Renewing, BeingRenewed, Exchanging, TypeOK
    <3> QED BY <3>1 DEF Born, Usable
  <2> QED BY <2>1 DEF SessionState, StateOf
<1>2. ASSUME TypeOK' PROVE SessionState' = [f \in Tokens |-> StateOf(f)']
  <2>1. ASSUME NEW f \in Tokens
        PROVE  /\ {k \in DOMAIN tokens' : tokens'[k].family = f} = {} <=> ~Born(f)'
               /\ (\E k \in {k \in DOMAIN tokens' : tokens'[k].family = f} : tokens'[k].active) <=> Usable(f)'
               /\ Renewing(f)' # {} <=> BeingRenewed(f)'
    <3>1. Renewing(f)' # {} <=> BeingRenewed(f)'
      BY <1>2, NoTokenAssumption DEF Renewing, BeingRenewed, Exchanging, TypeOK
    <3> QED BY <3>1 DEF Born, Usable
  <2> QED BY <2>1 DEF SessionState, StateOf
<1> QED BY <1>1, <1>2

\* One session changes.
LEMMA OneBecomes ==
  ASSUME TypeOK, TypeOK', NEW f \in Tokens, NEW from, NEW to,
         StateOf(f) = from, StateOf(f)' = to, dismissed' = dismissed,
         \A g \in Tokens \ {f} : StateOf(g)' = StateOf(g)
  PROVE  Promised!Becomes(f, from, to)
BY StateIs DEF Promised!Becomes

LEMMA NoneBecomes ==
  ASSUME TypeOK, TypeOK', \A g \in Tokens : StateOf(g)' = StateOf(g)
  PROVE  SessionState' = SessionState
BY StateIs

\* What the tables say of a family that a step leaves alone.
LEMMA StateSame ==
  ASSUME NEW f \in Tokens, Born(f)' <=> Born(f), Usable(f)' <=> Usable(f),
         BeingRenewed(f)' <=> BeingRenewed(f)
  PROVE  StateOf(f)' = StateOf(f)
BY DEF StateOf

\* The rows stay, and one request at most stops an exchange.
LEMMA ExchangeStops ==
  ASSUME TypeOK, TypeOK', RInv, NEW q \in Requests, tokens' = tokens,
         dismissed' = dismissed,
         \A x \in Requests \ {q} : request'[x] = request[x],
         \A k \in DOMAIN tokens : Exchanging(q, k)' => Exchanging(q, k)
  PROVE  Promised!Next \/ UNCHANGED session
<1>0. SessionsOf' = SessionsOf
  BY SessionsStay
<1>1. \A f \in Tokens : (Born(f)' <=> Born(f)) /\ (Usable(f)' <=> Usable(f))
  BY DEF Born, Usable
<1>2. CASE \A k \in DOMAIN tokens : Exchanging(q, k) => Exchanging(q, k)'
  <2>1. \A x \in Requests, k \in DOMAIN tokens : Exchanging(x, k)' <=> Exchanging(x, k)
    BY <1>2 DEF Exchanging
  <2>2. \A f \in Tokens : BeingRenewed(f)' <=> BeingRenewed(f)
    BY <2>1 DEF BeingRenewed
  <2> QED BY <1>0, <1>1, <2>2, StateSame, NoneBecomes DEF session
<1>3. ASSUME NEW k \in DOMAIN tokens, Exchanging(q, k), ~Exchanging(q, k)'
      PROVE  Promised!Next
  <2> DEFINE f == tokens[k].family
  <2>1. f \in Tokens /\ Born(f) /\ BeingRenewed(f) /\ ~Usable(f)
    BY <1>3 DEF TypeOK, Row, Born, BeingRenewed, Usable, RInv, Chains
  <2>2. \A x \in Requests, j \in DOMAIN tokens :
          Exchanging(x, j) /\ tokens[j].family = f => x = q
    BY <1>3 DEF RInv, Chains
  <2>3. \A j \in DOMAIN tokens : Exchanging(q, j) => j = k
    BY <1>3 DEF Exchanging
  <2>4. \A x \in Requests \ {q}, j \in DOMAIN tokens : Exchanging(x, j)' <=> Exchanging(x, j)
    BY DEF Exchanging
  <2>5. PICK g \in Tokens : g = f
    BY <2>1
  <2>6. ~BeingRenewed(g)'
    BY <1>3, <2>2, <2>3, <2>4, <2>5 DEF BeingRenewed
  <2>7. \A h \in Tokens \ {g} : BeingRenewed(h)' <=> BeingRenewed(h)
    BY <1>3, <2>3, <2>4, <2>5 DEF BeingRenewed
  <2>8. \A h \in Tokens \ {g} : StateOf(h)' = StateOf(h)
    BY <1>1, <2>7, StateSame
  <2>9. StateOf(g) = "renewing" /\ StateOf(g)' = "ended"
    BY <1>1, <2>1, <2>5, <2>6 DEF StateOf
  <2>10. Promised!Abandon(g)
    BY <1>0, <2>8, <2>9, OneBecomes DEF Promised!Abandon
  <2> QED BY <2>10 DEF Promised!Next
<1> QED BY <1>2, <1>3

LEMMA ElsewhereEnds ==
  ASSUME TypeOK, TypeOK', RInv, Elsewhere
  PROVE  Promised!Next \/ UNCHANGED session
<1>1. tokens' = tokens /\ dismissed' = dismissed
  BY ElsewhereMoves
<1>2. CASE UNCHANGED request
  <2>1. \A f \in Tokens : /\ Born(f)' <=> Born(f)
                          /\ Usable(f)' <=> Usable(f)
                          /\ BeingRenewed(f)' <=> BeingRenewed(f)
    BY <1>1, <1>2 DEF Born, Usable, BeingRenewed, Exchanging
  <2> QED BY <1>1, <2>1, SessionsStay, StateSame, NoneBecomes DEF session
<1>3. ASSUME NEW q \in Requests, NEW next \in Processing, Goto(q, next), Outside(next)
      PROVE  Promised!Next \/ UNCHANGED session
  <2>1. request'[q] = next /\ \A x \in Requests \ {q} : request'[x] = request[x]
    BY <1>3, NextRequest
  <2>2. \A k \in DOMAIN tokens : k # NoToken
    BY NoTokenAssumption DEF TypeOK
  <2>3. \A k \in DOMAIN tokens : ~Exchanging(q, k)'
    BY <1>3, <2>1, <2>2 DEF Exchanging, Outside, Idle
  <2> QED BY <1>1, <2>1, <2>3, ExchangeStops
<1> QED BY <1>2, <1>3, ElsewhereMoves

\* Rows are revoked and no exchange begins or stops: the sessions whose active token
\* is among them were open, and end.
LEMMA RevocationEnds ==
  ASSUME TypeOK, TypeOK', RInv, NEW S \in SUBSET DOMAIN tokens, Dismiss(S),
         \A x \in Requests, k \in DOMAIN tokens : Exchanging(x, k)' <=> Exchanging(x, k)
  PROVE  /\ OpenAmong(S) \in SUBSET Tokens
         /\ \A f \in OpenAmong(S) : SessionState[f] = "open"
         /\ Promised!End(OpenAmong(S))
<1>1. /\ DOMAIN tokens' = DOMAIN tokens
      /\ \A k \in DOMAIN tokens :
           /\ tokens'[k].user = tokens[k].user
           /\ tokens'[k].family = tokens[k].family
           /\ tokens'[k].active = (tokens[k].active /\ k \notin S)
  BY RevokedTyped DEF Dismiss
<1>2. \A f \in Tokens : (Born(f)' <=> Born(f)) /\ (BeingRenewed(f)' <=> BeingRenewed(f))
  BY <1>1 DEF Born, BeingRenewed
<1>3. PICK ended \in SUBSET Tokens : ended = OpenAmong(S)
  BY DismissTyped
<1>4. ASSUME NEW f \in ended
      PROVE  StateOf(f) = "open" /\ StateOf(f)' = "ended"
  <2>1. PICK k \in DOMAIN tokens \cap S : tokens[k].family = f /\ tokens[k].active
    BY <1>3 DEF OpenAmong
  <2>2. Born(f) /\ Usable(f)
    BY <2>1 DEF Born, Usable
  <2>3. ~Usable(f)'
    <3>1. ASSUME NEW j \in DOMAIN tokens, tokens[j].family = f, tokens[j].active
          PROVE  j = k
      BY <2>1, <3>1 DEF RInv, OneActivePerFamily
    <3> QED BY <1>1, <2>1, <3>1 DEF Usable
  <2>4. ~BeingRenewed(f)
    BY <2>1 DEF BeingRenewed, RInv, Chains
  <2> QED BY <1>2, <2>2, <2>3, <2>4 DEF StateOf
<1>5. ASSUME NEW f \in Tokens \ ended
      PROVE  StateOf(f)' = StateOf(f)
  <2>1. \A k \in S : tokens[k].active => tokens[k].family \in ended
    BY <1>3 DEF OpenAmong
  <2>2. Usable(f)' <=> Usable(f)
    BY <1>1, <2>1 DEF Usable
  <2> QED BY <1>2, <2>2, StateSame
<1>6. \A f \in ended : SessionState[f] = "open"
  BY <1>4, StateIs
<1>7. SessionState' = [f \in Tokens |-> IF f \in ended THEN "ended" ELSE SessionState[f]]
  BY <1>4, <1>5, StateIs
<1>8. SessionsOf' = SessionsOf
  BY <1>1, SessionsStay
<1> QED BY <1>3, <1>6, <1>7, <1>8 DEF Promised!End, Dismiss

\* All rows of an account are revoked: its open sessions end, whatever they are.
LEMMA AllEnd ==
  ASSUME TypeOK, TypeOK', RInv, Owned, NEW u \in Users, Dismiss(RowsOf(u)),
         \A x \in Requests, k \in DOMAIN tokens : Exchanging(x, k)' <=> Exchanging(x, k)
  PROVE  Promised!EndAll(u)
<1>1. RowsOf(u) \in SUBSET DOMAIN tokens
  BY DEF RowsOf
<1>2. /\ OpenAmong(RowsOf(u)) \in SUBSET Tokens
      /\ \A f \in OpenAmong(RowsOf(u)) : SessionState[f] = "open"
      /\ Promised!End(OpenAmong(RowsOf(u)))
  BY <1>1, RevocationEnds
<1>3. \A f : f \in SessionsOf[u] <=> \E k \in DOMAIN tokens : tokens[k].user = u /\ tokens[k].family = f
  BY DEF SessionsOf, RowsOf
<1>4. \A f : f \in OpenAmong(RowsOf(u)) <=>
               \E k \in DOMAIN tokens : tokens[k].user = u /\ tokens[k].active /\ tokens[k].family = f
  BY DEF OpenAmong, RowsOf
<1>5. ASSUME NEW f \in SessionsOf[u], SessionState[f] = "open"
      PROVE  f \in OpenAmong(RowsOf(u))
  <2>1. PICK k \in DOMAIN tokens : tokens[k].user = u /\ tokens[k].family = f
    BY <1>3, <1>5
  <2>2. f \in Tokens
    BY <2>1 DEF TypeOK, Row
  <2>3. Usable(f)
    BY <1>5, <2>2, StateIs DEF StateOf
  <2>4. PICK j \in DOMAIN tokens : tokens[j].family = f /\ tokens[j].active
    BY <2>3 DEF Usable
  <2>5. tokens[j].user = u
    BY <2>1, <2>4 DEF Owned
  <2> QED BY <1>4, <2>4, <2>5
<1>6. OpenAmong(RowsOf(u)) = {f \in SessionsOf[u] : SessionState[f] = "open"}
  BY <1>2, <1>3, <1>4, <1>5
<1> QED BY <1>2, <1>6 DEF Promised!EndAll

LEMMA LogoutEnds ==
  ASSUME TypeOK, TypeOK', RInv, Owned,
         (\E q \in Requests : RefreshReuse(q) \/ LogoutRevoke(q)) \/ \E u \in Users : LogoutAll(u)
  PROVE  Promised!Next \/ UNCHANGED session
<1>1. \/ request' = request
      \/ \E q \in Requests : /\ request[q].at \in {"refresh.reuse", "logout.revoke"}
                             /\ Goto(q, Idle)
  BY DEF RefreshReuse, LogoutRevoke, LogoutAll, Finish
<1>2. \A x \in Requests, k \in DOMAIN tokens : Exchanging(x, k)' <=> Exchanging(x, k)
  <2>1. CASE request' = request
    BY <2>1 DEF Exchanging
  <2>2. ASSUME NEW q \in Requests, request[q].at \in {"refresh.reuse", "logout.revoke"},
               Goto(q, Idle)
        PROVE  \A x \in Requests, k \in DOMAIN tokens : Exchanging(x, k)' <=> Exchanging(x, k)
    BY <2>2 DEF Goto, TypeOK, Exchanging, Idle
  <2> QED BY <1>1, <2>1, <2>2
<1>3. ASSUME NEW u \in Users, Dismiss(RowsOf(u))
      PROVE  Promised!Next
  <2>1. Promised!EndAll(u)
    BY <1>2, <1>3, AllEnd
  <2> QED BY <2>1 DEF Promised!Next
<1>4. ASSUME NEW q \in Requests, RefreshReuse(q)
      PROVE  Promised!Next
  <2>1. HoldsToken(q) /\ Dismiss(RowsOf(tokens[request[q].token].user))
    BY <1>4 DEF RefreshReuse, HoldsToken
  <2>2. tokens[request[q].token].user \in Users
    BY <2>1, Kinds DEF TypeOK, Row
  <2> QED BY <1>3, <2>1, <2>2
<1>5. ASSUME NEW q \in Requests, LogoutRevoke(q)
      PROVE  Promised!Next \/ UNCHANGED session
  <2>1. HoldsToken(q) /\ Dismiss({request[q].token})
    BY <1>5 DEF LogoutRevoke, HoldsToken
  <2>2. PICK k \in DOMAIN tokens : k = request[q].token
    BY <2>1, Kinds
  <2>3. {k} \in SUBSET DOMAIN tokens /\ Dismiss({k})
    BY <2>1, <2>2
  <2>4. /\ OpenAmong({k}) \in SUBSET Tokens
        /\ \A f \in OpenAmong({k}) : SessionState[f] = "open"
        /\ Promised!End(OpenAmong({k}))
    BY <1>2, <2>3, RevocationEnds
  <2>5. OpenAmong({k}) = IF tokens[k].active THEN {tokens[k].family} ELSE {}
    BY DEF OpenAmong
  <2>6. CASE tokens[k].active
    <3>1. PICK f \in Tokens : f = tokens[k].family
      BY DEF TypeOK, Row
    <3>2. Promised!EndOne(f)
      BY <2>4, <2>5, <2>6, <3>1 DEF Promised!EndOne
    <3> QED BY <3>2 DEF Promised!Next
  <2>7. CASE ~tokens[k].active
    <3>1. /\ SessionState' = [f \in Tokens |-> SessionState[f]]
          /\ dismissed' = dismissed
          /\ SessionsOf' = SessionsOf
      BY <2>4, <2>5, <2>7 DEF Promised!End
    <3>2. SessionState' = SessionState
      BY <3>1, StateIs
    <3> QED BY <3>1, <3>2 DEF session
  <2> QED BY <2>6, <2>7
<1> QED BY <1>3, <1>4, <1>5 DEF LogoutAll

LEMMA RefreshEnds ==
  ASSUME TypeOK, TypeOK', RInv, NEW q \in Requests, RefreshRevoke(q) \/ RefreshPlayer(q)
  PROVE  Promised!Next \/ UNCHANGED session
<1> DEFINE k == request[q].token
<1>1. HoldsToken(q) /\ k \in DOMAIN tokens /\ dismissed' = dismissed
  BY Kinds DEF HoldsToken, RefreshRevoke, RefreshPlayer
<1>2. CASE RefreshRevoke(q) /\ tokens[k].active
  <2>1. tokens' = Revoked({k}) /\ request' = [request EXCEPT ![q] = [at |-> "refresh.player", token |-> k]]
    BY <1>2 DEF RefreshRevoke, Goto
  <2>2. request[q].at = "refresh.revoke"
    BY <1>2 DEF RefreshRevoke
  <2>3. PICK j \in DOMAIN tokens, f \in Tokens : j = k /\ f = tokens[j].family
    BY <1>1 DEF TypeOK, Row
  <2> HIDE DEF k
  <2>4. /\ DOMAIN tokens' = DOMAIN tokens
        /\ \A i \in DOMAIN tokens : /\ tokens'[i].user = tokens[i].user
                                    /\ tokens'[i].family = tokens[i].family
                                    /\ tokens'[i].active = (tokens[i].active /\ i # j)
    BY <2>1, <2>3, RevokedTyped
  <2>5. \A x \in Requests, i \in DOMAIN tokens :
          Exchanging(x, i)' <=> Exchanging(x, i) \/ (x = q /\ i = j)
    BY <2>1, <2>2, <2>3 DEF Exchanging, TypeOK
  <2>6. \A g \in Tokens : Born(g)' <=> Born(g)
    BY <2>4 DEF Born
  <2>7. Born(f) /\ Usable(f)
    BY <1>2, <2>3 DEF Born, Usable
  <2>8. ~Usable(f)'
    BY <1>2, <2>3, <2>4 DEF Usable, RInv, OneActivePerFamily
  <2>9. BeingRenewed(f)'
    BY <2>3, <2>4, <2>5 DEF BeingRenewed
  <2>10. ASSUME NEW g \in Tokens \ {f} PROVE StateOf(g)' = StateOf(g)
    <3>1. Usable(g)' <=> Usable(g)
      BY <2>3, <2>4 DEF Usable
    <3>2. BeingRenewed(g)' <=> BeingRenewed(g)
      BY <2>3, <2>4, <2>5 DEF BeingRenewed
    <3> QED BY <2>6, <3>1, <3>2, StateSame
  <2>11. StateOf(f) = "open" /\ StateOf(f)' = "renewing"
    BY <2>6, <2>7, <2>8, <2>9 DEF StateOf
  <2>12. Promised!Renew(f)
    BY <1>1, <2>4, <2>10, <2>11, OneBecomes, SessionsStay DEF Promised!Renew
  <2> QED BY <2>12 DEF Promised!Next
<1>3. CASE RefreshPlayer(q) \/ ~tokens[k].active
  <2>1. tokens' = tokens
    BY <1>3 DEF RefreshRevoke, RefreshPlayer
  <2>2. \/ /\ request[q].at = "refresh.revoke"
           /\ Goto(q, [at |-> "refresh.reuse", token |-> k])
        \/ Goto(q, Idle)
        \/ /\ request[q].at = "refresh.player"
           /\ Goto(q, [at |-> "issue", user |-> tokens[k].user, from |-> k])
    BY <1>3 DEF RefreshRevoke, RefreshPlayer, Finish
  <2>3. \A x \in Requests, j \in DOMAIN tokens : Exchanging(x, j)' => Exchanging(x, j)
    BY <2>2 DEF Exchanging, Goto, TypeOK, Idle
  <2>4. \A x \in Requests \ {q} : request'[x] = request[x]
    BY <2>2 DEF Goto, TypeOK
  <2> QED BY <1>1, <2>1, <2>3, <2>4, ExchangeStops
<1> QED BY <1>2, <1>3

LEMMA IssueEnds ==
  ASSUME TypeOK, TypeOK', RInv, Owned, NEW q \in Requests, NEW new \in Tokens, IssueTokens(q, new)
  PROVE  Promised!Next
<1>1. /\ request[q].at = "issue" /\ new \notin DOMAIN tokens
      /\ request[q].from \in DOMAIN tokens \cup {NoToken}
      /\ request' = [request EXCEPT ![q] = Idle]
  BY DEF IssueTokens, Finish, Goto, TypeOK
<1>2. PICK from \in DOMAIN tokens \cup {NoToken} : from = request[q].from
  BY <1>1
<1>3. PICK f \in Tokens : f = IF from = NoToken THEN new ELSE tokens[from].family
  BY <1>2, NoTokenAssumption DEF TypeOK, Row
<1>4. /\ DOMAIN tokens' = DOMAIN tokens \cup {new}
      /\ \A k \in DOMAIN tokens : tokens'[k] = tokens[k]
      /\ tokens'[new].family = f /\ tokens'[new].active
  BY <1>2, <1>3, IssueTyped DEF IssueTokens, Put
<1>5. \A x \in Requests, k \in DOMAIN tokens' :
        Exchanging(x, k)' <=> x # q /\ Exchanging(x, k)
  BY <1>1 DEF Exchanging, TypeOK, Idle
<1>6. \A x \in Requests : ~Exchanging(x, new)
  <2>1. ASSUME NEW x \in Requests, Exchanging(x, new)
        PROVE  FALSE
    <3>1. CASE request[x].at = "issue"
      BY <1>1, <2>1, <3>1, NoTokenAssumption DEF Exchanging, TypeOK
    <3>2. CASE request[x].at = "refresh.player"
      BY <1>1, <2>1, <3>2, Kinds DEF Exchanging, HoldsToken
    <3> QED BY <2>1, <3>1, <3>2 DEF Exchanging
  <2> QED BY <2>1
<1>7. \A k \in DOMAIN tokens : Exchanging(q, k) <=> k = from
  BY <1>1, <1>2 DEF Exchanging
<1>8. StateOf(f) = IF from = NoToken THEN "unborn" ELSE "renewing"
  <2>1. CASE from = NoToken
    <3>1. ~Born(f)
      BY <1>1, <1>3, <2>1 DEF Born, RInv, Chains
    <3> QED BY <2>1, <3>1 DEF StateOf
  <2>2. CASE from # NoToken
    <3>1. from \in DOMAIN tokens /\ Exchanging(q, from) /\ tokens[from].family = f
      BY <1>3, <1>7, <2>2
    <3>2. Born(f) /\ BeingRenewed(f) /\ ~Usable(f)
      BY <3>1 DEF Born, BeingRenewed, Usable, RInv, Chains
    <3> QED BY <2>2, <3>2 DEF StateOf
  <2> QED BY <2>1, <2>2
<1>9. StateOf(f)' = "open"
  <2>1. Born(f)' /\ Usable(f)'
    BY <1>4 DEF Born, Usable
  <2> QED BY <2>1 DEF StateOf
<1>10. ASSUME NEW g \in Tokens \ {f} PROVE StateOf(g)' = StateOf(g)
  <2>1. (Born(g)' <=> Born(g)) /\ (Usable(g)' <=> Usable(g))
    BY <1>4 DEF Born, Usable
  <2>2. BeingRenewed(g)' <=> BeingRenewed(g)
    <3>1. \A k \in DOMAIN tokens : tokens[k].family = g => ~Exchanging(q, k)
      BY <1>3, <1>7, NoTokenAssumption DEF TypeOK
    <3> QED BY <1>4, <1>5, <1>6, <3>1 DEF BeingRenewed
  <2> QED BY <2>1, <2>2, StateSame
<1>11. PICK u \in Users : u = request[q].user
  BY <1>1, Kinds
<1>12. tokens'[new].user = u /\ dismissed' = dismissed
  BY <1>4, <1>11 DEF IssueTokens, Put
<1>13. SessionsOf' = [SessionsOf EXCEPT ![u] = @ \cup {f}]
  <2>1. \A v \in Users : {tokens'[k].family : k \in {j \in DOMAIN tokens' : tokens'[j].user = v}}
                          = {tokens[k].family : k \in {j \in DOMAIN tokens : tokens[j].user = v}}
                              \cup (IF v = u THEN {f} ELSE {})
    BY <1>1, <1>4, <1>12
  <2> QED BY <2>1 DEF SessionsOf, RowsOf
<1>14. CASE from = NoToken
  <2>1. Promised!Begin(f, u)
    BY <1>8, <1>9, <1>10, <1>12, <1>13, <1>14, OneBecomes DEF Promised!Begin
  <2> QED BY <2>1 DEF Promised!Next
<1>15. CASE from # NoToken
  <2>1. from \in DOMAIN tokens /\ tokens[from].user = u /\ tokens[from].family = f
    BY <1>1, <1>2, <1>3, <1>11, <1>15 DEF Owned
  <2>2. f \in SessionsOf[u]
    BY <2>1 DEF SessionsOf, RowsOf
  <2>3. SessionsOf' = SessionsOf
    BY <1>13, <2>2 DEF SessionsOf
  <2>4. Promised!Complete(f)
    BY <1>8, <1>9, <1>10, <1>12, <1>15, <2>3, OneBecomes DEF Promised!Complete
  <2> QED BY <2>4 DEF Promised!Next
<1> QED BY <1>14, <1>15

\* A logout of all and the answer to a reuse end every session of the account that is
\* open at that moment, a logout the session whose token it revokes, and a session that
\* has ended stays so: Auth implements LoginSessions, step by step.
THEOREM SessionsEndForGood == Spec => EndedForGood
<1>1. Init => Promised!Init
  <2> SUFFICES ASSUME Init PROVE Promised!Init
    OBVIOUS
  <2>1. TypeOK /\ DOMAIN tokens = {} /\ dismissed = {}
    BY InitTyped DEF Init
  <2>2. \A f \in Tokens : StateOf(f) = "unborn"
    BY <2>1 DEF StateOf, Born
  <2>3. SessionsOf = [u \in Users |-> {}]
    BY <2>1 DEF SessionsOf, RowsOf
  <2> QED BY <2>1, <2>2, <2>3, StateIs DEF Promised!Init
<1>2. TypeOK /\ RInv /\ Owned /\ [Next]_vars => [Promised!Next]_session
  BY NextTyped, NextCases, ElsewhereEnds, LogoutEnds, RefreshEnds, IssueEnds
<1>3. session = Promised!vars /\ session' = Promised!vars'
  BY DEF session, Promised!vars
<1> QED BY <1>1, <1>2, <1>3, RotationInvariance, OwnedInvariance, PTL
        DEF Spec, EndedForGood, Promised!Spec, Promised!vars, session
=============================================================================
