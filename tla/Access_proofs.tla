----------------------------- MODULE Access_proofs -----------------------------
(***************************************************************************)
(* Theorems about Access and the RateLimiter it extends, for any users,    *)
(* addresses, sockets, limits, windows and lifetimes of tokens.            *)
(***************************************************************************)
EXTENDS Access, TLAPS

-----------------------------------------------------------------------------
(* The limiter *)

LEMMA CappedTyped ==
  ASSUME NEW n \in Nat, NEW most \in Nat
  PROVE  /\ Capped(n, most) \in Nat /\ Capped(n, most) <= n /\ Capped(n, most) <= most
         /\ n > 0 /\ most > 0 => Capped(n, most) > 0
         /\ n <= most => Capped(n, most) = n
BY DEF Capped

LEMMA LimiterInitTyped == LimiterInit => LimiterTypeOK
<1> SUFFICES ASSUME LimiterInit PROVE LimiterTypeOK
  OBVIOUS
<1>1. NoCounter \in [count : Nat, ttl : Nat] /\ NoCounter.count = 0 /\ NoCounter.ttl = 0
  BY DEF NoCounter
<1>2. \A k \in Keys : counter[k] = NoCounter /\ Window[k] \in Nat \ {0}
  BY LimitsAssumption DEF LimiterInit
<1>3. counter \in [Keys -> [count : Nat, ttl : Nat]]
  BY <1>1 DEF LimiterInit
<1>4. ASSUME NEW k \in Keys
      PROVE  counter[k].ttl <= Window[k] /\ (counter[k].count = 0 <=> counter[k].ttl = 0)
  <2>1. counter[k].count = 0 /\ counter[k].ttl = 0
    BY <1>1, <1>2
  <2> QED BY <1>2, <2>1
<1>5. DOMAIN admitted = Keys /\ \A k \in Keys : admitted[k] \in [Units(k) -> Nat]
  BY DEF LimiterInit
<1> QED BY <1>3, <1>4, <1>5 DEF LimiterTypeOK

\* What a call does to the calls admitted of any key.
LEMMA ConsumeAdmits ==
  ASSUME LimiterTypeOK, NEW k \in Keys, NEW times, Consume(k, times)
  PROVE  /\ DOMAIN admitted' = Keys
         /\ \A j \in Keys : \A n \in Units(j) :
              admitted'[j][n] = IF j = k /\ Allowed(k, times) THEN admitted[j][n] + 1 ELSE admitted[j][n]
         /\ \A j \in Keys : admitted'[j] \in [Units(j) -> Nat]
<1>1. DOMAIN admitted = Keys /\ \A j \in Keys : admitted[j] \in [Units(j) -> Nat]
  BY DEF LimiterTypeOK
<1>2. CASE Allowed(k, times)
  <2> DEFINE more == [n \in Units(k) |-> admitted[k][n] + 1]
  <2>1. admitted' = [admitted EXCEPT ![k] = more]
    BY <1>2 DEF Consume
  <2>2. more \in [Units(k) -> Nat] /\ \A n \in Units(k) : more[n] = admitted[k][n] + 1
    BY <1>1
  <2> HIDE DEF more
  <2>3. DOMAIN admitted' = Keys /\ \A j \in Keys : admitted'[j] = IF j = k THEN more ELSE admitted[j]
    BY <1>1, <2>1
  <2> QED BY <1>1, <1>2, <2>2, <2>3
<1>3. CASE ~Allowed(k, times)
  BY <1>1, <1>3 DEF Consume
<1> QED BY <1>2, <1>3

LEMMA ConsumeTyped ==
  ASSUME LimiterTypeOK, NEW k \in Keys, NEW times \in Nat \ {0}, Consume(k, times)
  PROVE  LimiterTypeOK'
<1> DEFINE c == Counted(k, times)
<1>1. Limit[k] \in Nat \ {0} /\ Window[k] \in Nat \ {0}
  BY LimitsAssumption
<1>2. counter[k].count \in Nat /\ counter[k].ttl \in Nat
  BY DEF LimiterTypeOK
<1>3. Capped(counter[k].count + times, Limit[k] + 1) \in Nat \ {0}
  <2>1. counter[k].count + times \in Nat /\ counter[k].count + times > 0
        /\ Limit[k] + 1 \in Nat /\ Limit[k] + 1 > 0
    BY <1>1, <1>2
  <2> QED BY <2>1 DEF Capped
<1>4. /\ c \in [count : Nat, ttl : Nat] /\ c.count # 0 /\ c.ttl # 0 /\ c.ttl <= Window[k]
  BY <1>1, <1>2, <1>3 DEF Counted, LimiterTypeOK
<1>5. counter' = [counter EXCEPT ![k] = c]
  BY DEF Consume
<1> HIDE DEF c
<1>6. counter' \in [Keys -> [count : Nat, ttl : Nat]]
  BY <1>4, <1>5 DEF LimiterTypeOK
<1>7. ASSUME NEW j \in Keys
      PROVE  counter'[j].ttl <= Window[j] /\ (counter'[j].count = 0 <=> counter'[j].ttl = 0)
  BY <1>4, <1>5 DEF LimiterTypeOK
<1> QED BY <1>6, <1>7, ConsumeAdmits DEF LimiterTypeOK

LEMMA LimiterElapseTyped ==
  ASSUME LimiterTypeOK, LimiterElapse
  PROVE  LimiterTypeOK'
<1>1. ASSUME NEW k \in Keys
      PROVE  /\ counter'[k] \in [count : Nat, ttl : Nat]
             /\ counter'[k].ttl <= Window[k]
             /\ (counter'[k].count = 0 <=> counter'[k].ttl = 0)
  <2>1. counter[k] \in [count : Nat, ttl : Nat] /\ Window[k] \in Nat \ {0}
    BY LimitsAssumption DEF LimiterTypeOK
  <2>2. CASE counter[k].ttl <= 1
    <3>1. counter'[k] = NoCounter
      BY <2>2 DEF LimiterElapse
    <3> QED BY <2>1, <3>1 DEF NoCounter
  <2>3. CASE ~(counter[k].ttl <= 1)
    <3>1. counter'[k] = [counter[k] EXCEPT !.ttl = @ - 1]
      BY <2>3 DEF LimiterElapse
    <3>2. counter'[k].count = counter[k].count /\ counter'[k].ttl = counter[k].ttl - 1
      BY <2>1, <3>1
    <3>3. counter[k].ttl - 1 \in Nat \ {0} /\ counter[k].count # 0 /\ counter[k].ttl <= Window[k]
      BY <2>1, <2>3 DEF LimiterTypeOK
    <3> QED BY <2>1, <3>1, <3>2, <3>3
  <2> QED BY <2>2, <2>3
<1>2. counter' \in [Keys -> [count : Nat, ttl : Nat]]
  <2>1. counter' = [k \in Keys |-> counter'[k]]
    BY DEF LimiterElapse
  <2> QED BY <1>1, <2>1
<1>3. DOMAIN admitted' = Keys
  BY DEF LimiterElapse
<1>4. ASSUME NEW k \in Keys
      PROVE  admitted'[k] \in [Units(k) -> Nat]
  <2>1. admitted'[k] = [n \in Units(k) |-> IF n = 0 THEN 0 ELSE admitted[k][n - 1]]
    BY DEF LimiterElapse
  <2>2. ASSUME NEW n \in Units(k), n # 0
        PROVE  admitted[k][n - 1] \in Nat
    <3>1. n - 1 \in Units(k)
      BY <2>2, LimitsAssumption DEF Units
    <3> QED BY <3>1 DEF LimiterTypeOK
  <2> QED BY <2>1, <2>2
<1> QED BY <1>1, <1>2, <1>3, <1>4 DEF LimiterTypeOK

-----------------------------------------------------------------------------
(* The inductive invariant *)

\* A user's session has been over for so long that its youngest access token is
\* at least as old: neither what the user holds nor what a connection is about to
\* have looked at outlives it.
Aged ==
  \A u \in Users :
    /\ \A left \in access[u] : left + ended[u] <= AccessTtl
    /\ \A s \in Sockets :
         /\ connection[s].at = "limit"
         /\ connection[s].jwt.user = u
         /\ connection[s].jwt.kind = "access"
         /\ connection[s].jwt.left > 0
         => connection[s].jwt.left + ended[u] <= AccessTtl

IInv == TypeOK /\ Aged

Connections ==
  {Closed} \cup [at : {"limit"}, jwt : Jwt] \cup [at : {"in"}, user : Users]

\* The part of the types that is not the limiter's.
AccessTyped ==
  /\ access \in [Users -> SUBSET (1..AccessTtl)]
  /\ rows \in [Users -> SUBSET Row]
  /\ connection \in [Sockets -> Connections]
  /\ ended \in [Users -> 0..(AccessTtl + 1)]

LEMMA TypeOKParts == TypeOK <=> LimiterTypeOK /\ AccessTyped
BY DEF TypeOK, AccessTyped, Connections

LEMMA ConnectionKinds ==
  ASSUME AccessTyped, NEW s \in Sockets
  PROVE  /\ connection[s].at = "limit" => connection[s] \in [at : {"limit"}, jwt : Jwt]
         /\ connection[s].at = "in" => connection[s] \in [at : {"in"}, user : Users]
<1>1. connection[s] \in Connections
  BY DEF AccessTyped
<1> QED BY <1>1 DEF Connections, Closed

\* The tokens there are: their type, and the access tokens among them are held.
LEMMA JwtsTyped ==
  ASSUME AccessTyped, NEW jwt \in Jwts
  PROVE  /\ jwt \in Jwt
         /\ jwt.kind = "access" => jwt.left \in access[jwt.user]
<1>1. AccessTtl \in Nat \ {0} /\ RefreshTtl \in Nat \ {0}
  BY TtlAssumption
<1>2. PICK u \in Users :
        jwt \in {[kind |-> "access", user |-> u, left |-> left] : left \in access[u]}
                  \cup {[kind |-> "refresh", user |-> u, left |-> row.left] : row \in rows[u]}
  BY DEF Jwts
<1>3. CASE jwt \in {[kind |-> "access", user |-> u, left |-> left] : left \in access[u]}
  <2>1. PICK left \in access[u] : jwt = [kind |-> "access", user |-> u, left |-> left]
    BY <1>3
  <2>2. left \in 0..(AccessTtl + RefreshTtl)
    <3>1. left \in 1..AccessTtl
      BY <2>1 DEF AccessTyped
    <3> QED BY <1>1, <3>1
  <2> QED BY <2>1, <2>2 DEF Jwt
<1>4. CASE jwt \in {[kind |-> "refresh", user |-> u, left |-> row.left] : row \in rows[u]}
  <2>1. PICK row \in rows[u] : jwt = [kind |-> "refresh", user |-> u, left |-> row.left]
    BY <1>4
  <2>2. row.left \in 0..(AccessTtl + RefreshTtl)
    <3>1. row \in Row
      BY <2>1 DEF AccessTyped
    <3> QED BY <1>1, <3>1 DEF Row
  <2> QED BY <2>1, <2>2 DEF Jwt
<1> QED BY <1>2, <1>3, <1>4

LEMMA IInvImplies == IInv => LogoutTakesHold
<1> SUFFICES ASSUME IInv, NEW u \in Users, ended[u] >= AccessTtl
             PROVE  /\ ~Authenticated(u)
                    /\ \A s \in Sockets :
                         (connection[s].at = "limit" /\ connection[s].jwt.user = u)
                           => ~Verifies(connection[s].jwt)
  BY DEF LogoutTakesHold
<1>1. AccessTyped /\ ended[u] \in Nat /\ AccessTtl \in Nat
  BY TypeOKParts, TtlAssumption DEF IInv, AccessTyped
<1>2. ASSUME NEW jwt \in Jwts, jwt.user = u, Verifies(jwt)
      PROVE  FALSE
  <2>1. jwt.left \in access[u] /\ jwt.left > 0
    BY <1>1, <1>2, JwtsTyped DEF Verifies
  <2>2. jwt.left \in 1..AccessTtl
    BY <1>1, <2>1 DEF AccessTyped
  <2>3. jwt.left + ended[u] <= AccessTtl
    BY <2>1 DEF IInv, Aged
  <2> QED BY <1>1, <2>2, <2>3
<1>3. ASSUME NEW s \in Sockets, connection[s].at = "limit", connection[s].jwt.user = u,
             Verifies(connection[s].jwt)
      PROVE  FALSE
  <2>1. connection[s].jwt.left \in Nat
    BY <1>1, <1>3, ConnectionKinds, TtlAssumption DEF Jwt
  <2>2. connection[s].jwt.left > 0 /\ connection[s].jwt.left + ended[u] <= AccessTtl
    BY <1>3 DEF IInv, Aged, Verifies
  <2> QED BY <1>1, <2>1, <2>2
<1> QED BY <1>2, <1>3 DEF Authenticated

LEMMA InitEstablishes == Init => IInv
<1> SUFFICES ASSUME Init PROVE IInv
  OBVIOUS
<1>1. LimiterTypeOK
  BY LimiterInitTyped DEF Init
<1>2. AccessTyped
  BY TtlAssumption DEF Init, AccessTyped, Connections
<1>3. Aged
  BY DEF Init, Aged, Closed
<1> QED BY <1>1, <1>2, <1>3, TypeOKParts DEF IInv

-----------------------------------------------------------------------------
(* The auth routes *)

LEMMA DeactivatedTyped ==
  ASSUME NEW row \in Row
  PROVE  Deactivated(row) \in Row
BY DEF Deactivated, Row

\* Whatever is written to a user's rows, the time without a session does not grow.
LEMMA RowsBecomeTyped ==
  ASSUME AccessTyped, NEW u \in Users, NEW held \in SUBSET Row, RowsBecome(u, held)
  PROVE  /\ rows' \in [Users -> SUBSET Row]
         /\ ended' \in [Users -> 0..(AccessTtl + 1)]
         /\ \A x \in Users : ended'[x] <= ended[x]
         /\ HasSession(held) => ended'[u] = 0
<1>1. 0 \in 0..(AccessTtl + 1)
  BY TtlAssumption
<1>2. /\ rows' = [rows EXCEPT ![u] = held]
      /\ ended' = [ended EXCEPT ![u] = IF HasSession(held) THEN 0 ELSE @]
  BY DEF RowsBecome
<1>3. rows' \in [Users -> SUBSET Row]
  BY <1>2 DEF AccessTyped
<1>4. \A x \in Users : ended'[x] = IF x = u /\ HasSession(held) THEN 0 ELSE ended[x]
  BY <1>2 DEF AccessTyped
<1>5. ended' \in [Users -> 0..(AccessTtl + 1)]
  BY <1>1, <1>2 DEF AccessTyped
<1>6. \A x \in Users : ended[x] \in 0..(AccessTtl + 1)
  BY DEF AccessTyped
<1> QED BY <1>3, <1>4, <1>5, <1>6, TtlAssumption

\* Nobody's tokens or connections change, and nobody's time without a session grows.
LEMMA AgedStays ==
  ASSUME IInv, AccessTyped', access' = access, connection' = connection,
         \A x \in Users : ended'[x] <= ended[x]
  PROVE  Aged'
<1> SUFFICES ASSUME NEW u \in Users
             PROVE  /\ \A left \in access[u] : left + ended'[u] <= AccessTtl
                    /\ \A s \in Sockets :
                         /\ connection[s].at = "limit"
                         /\ connection[s].jwt.user = u
                         /\ connection[s].jwt.kind = "access"
                         /\ connection[s].jwt.left > 0
                         => connection[s].jwt.left + ended'[u] <= AccessTtl
  BY DEF Aged
<1>1. AccessTyped /\ ended[u] \in Nat /\ ended'[u] \in Nat /\ ended'[u] <= ended[u] /\ AccessTtl \in Nat
  BY TypeOKParts, TtlAssumption DEF IInv, AccessTyped
<1>2. ASSUME NEW left \in access[u]
      PROVE  left + ended'[u] <= AccessTtl
  <2>1. left \in 1..AccessTtl /\ left + ended[u] <= AccessTtl
    BY <1>1 DEF AccessTyped, IInv, Aged
  <2> QED BY <1>1, <2>1
<1>3. ASSUME NEW s \in Sockets, connection[s].at = "limit", connection[s].jwt.user = u,
             connection[s].jwt.kind = "access", connection[s].jwt.left > 0
      PROVE  connection[s].jwt.left + ended'[u] <= AccessTtl
  <2>1. connection[s].jwt.left \in Nat
    BY <1>1, <1>3, ConnectionKinds, TtlAssumption DEF Jwt
  <2>2. connection[s].jwt.left + ended[u] <= AccessTtl
    BY <1>3 DEF IInv, Aged
  <2> QED BY <1>1, <2>1, <2>2
<1> QED BY <1>2, <1>3

LEMMA RevokePreserves ==
  ASSUME IInv, NEW u \in Users, NEW held \in SUBSET Row, RowsBecome(u, held),
         UNCHANGED <<limiterVars, access, connection>>
  PROVE  IInv'
<1>1. AccessTyped /\ LimiterTypeOK'
  BY TypeOKParts DEF IInv, LimiterTypeOK, limiterVars
<1>2. AccessTyped'
  BY <1>1, RowsBecomeTyped DEF AccessTyped
<1>3. Aged'
  BY <1>1, <1>2, RowsBecomeTyped, AgedStays
<1>4. TypeOK'
  BY <1>1, <1>2, TypeOKParts DEF TypeOK, AccessTyped, Connections
<1> QED BY <1>3, <1>4 DEF IInv

LEMMA PrimedParts == LimiterTypeOK' /\ AccessTyped' => TypeOK'
BY DEF TypeOK, AccessTyped, Connections

\* New tokens come with a session, which starts the count again.
LEMMA IssuePreserves ==
  ASSUME IInv, NEW u \in Users, NEW held \in SUBSET Row, Issue(u, held)
  PROVE  IInv'
<1> DEFINE fresh == [left |-> RefreshTtl, active |-> TRUE]
           all == held \cup {fresh}
<1>1. /\ access' = [access EXCEPT ![u] = @ \cup {AccessTtl}]
      /\ RowsBecome(u, all)
      /\ UNCHANGED <<limiterVars, connection>>
  BY DEF Issue
<1>2. fresh \in Row
  BY TtlAssumption DEF Row
<1>3. all \in SUBSET Row /\ HasSession(all)
  <2>1. all \in SUBSET Row
    BY <1>2
  <2>2. fresh \in all /\ fresh.active
    OBVIOUS
  <2> HIDE DEF all, fresh
  <2> QED BY <2>1, <2>2 DEF HasSession
<1> HIDE DEF all, fresh
<1>4. AccessTyped /\ LimiterTypeOK' /\ AccessTtl \in 1..AccessTtl /\ AccessTtl \in Nat
  BY <1>1, TypeOKParts, TtlAssumption DEF IInv, LimiterTypeOK, limiterVars
<1>5. /\ rows' \in [Users -> SUBSET Row] /\ ended' \in [Users -> 0..(AccessTtl + 1)]
      /\ \A x \in Users : ended'[x] <= ended[x]
      /\ ended'[u] = 0
  BY <1>1, <1>3, <1>4, RowsBecomeTyped
<1>6. AccessTyped'
  BY <1>1, <1>4, <1>5 DEF AccessTyped
<1>7. Aged'
  <2> SUFFICES ASSUME NEW x \in Users
               PROVE  /\ \A left \in access'[x] : left + ended'[x] <= AccessTtl
                      /\ \A s \in Sockets :
                           /\ connection[s].at = "limit"
                           /\ connection[s].jwt.user = x
                           /\ connection[s].jwt.kind = "access"
                           /\ connection[s].jwt.left > 0
                           => connection[s].jwt.left + ended'[x] <= AccessTtl
    BY <1>1 DEF Aged
  <2>1. ended[x] \in Nat /\ ended'[x] \in Nat /\ ended'[x] <= ended[x]
    BY <1>4, <1>5 DEF AccessTyped
  <2>2. ASSUME NEW left \in access'[x]
        PROVE  left + ended'[x] <= AccessTtl
    <3>1. left \in 1..AccessTtl
      BY <1>6 DEF AccessTyped
    <3>2. CASE x = u
      BY <1>4, <1>5, <3>1, <3>2
    <3>3. CASE x # u
      <4>1. left \in access[x]
        BY <1>1, <1>4, <3>3 DEF AccessTyped
      <4>2. left + ended[x] <= AccessTtl
        BY <4>1 DEF IInv, Aged
      <4> QED BY <1>4, <2>1, <3>1, <4>2
    <3> QED BY <3>2, <3>3
  <2>3. ASSUME NEW s \in Sockets, connection[s].at = "limit", connection[s].jwt.user = x,
               connection[s].jwt.kind = "access", connection[s].jwt.left > 0
        PROVE  connection[s].jwt.left + ended'[x] <= AccessTtl
    <3>1. connection[s].jwt.left \in Nat
      BY <1>4, <2>3, ConnectionKinds, TtlAssumption DEF Jwt
    <3>2. connection[s].jwt.left + ended[x] <= AccessTtl
      BY <2>3 DEF IInv, Aged
    <3> QED BY <1>4, <2>1, <3>1, <3>2
  <2> QED BY <2>2, <2>3
<1> QED BY <1>4, <1>6, <1>7, PrimedParts DEF IInv

LEMMA RoutesPreserve ==
  ASSUME IInv, NEW u \in Users,
         \/ Login(u)
         \/ LogoutAll(u)
         \/ \E row \in rows[u] : Refresh(u, row) \/ Logout(u, row)
  PROVE  IInv'
<1>1. rows[u] \subseteq Row
  BY TypeOKParts DEF IInv, AccessTyped
<1>2. {Deactivated(other) : other \in rows[u]} \in SUBSET Row
  BY <1>1, DeactivatedTyped
<1>3. ASSUME NEW row \in rows[u]
      PROVE  (rows[u] \ {row}) \cup {Deactivated(row)} \in SUBSET Row
  BY <1>1, DeactivatedTyped
<1>4. CASE Login(u)
  BY <1>1, <1>4, IssuePreserves DEF Login
<1>5. CASE LogoutAll(u)
  BY <1>2, <1>5, RevokePreserves DEF LogoutAll
<1>6. ASSUME NEW row \in rows[u], Logout(u, row)
      PROVE  IInv'
  BY <1>3, <1>6, RevokePreserves DEF Logout
<1>7. ASSUME NEW row \in rows[u], Refresh(u, row)
      PROVE  IInv'
  <2>1. CASE row.active
    BY <1>3, <1>7, <2>1, IssuePreserves DEF Refresh
  <2>2. CASE ~row.active
    BY <1>2, <1>7, <2>2, RevokePreserves DEF Refresh
  <2> QED BY <2>1, <2>2
<1> QED BY <1>4, <1>5, <1>6, <1>7

-----------------------------------------------------------------------------
(* The gateway *)

\* A connection changes: what it is about to have looked at is a token there is.
LEMMA ConnectionChanges ==
  ASSUME IInv, UNCHANGED <<accountVars, ended>>, LimiterTypeOK',
         connection' \in [Sockets -> Connections],
         \A s \in Sockets : connection'[s].at = "limit" =>
           connection'[s] = connection[s] \/ connection'[s].jwt \in Jwts
  PROVE  IInv'
<1>1. AccessTyped /\ AccessTyped'
  BY TypeOKParts DEF IInv, AccessTyped, accountVars
<1>2. Aged'
  <2> SUFFICES ASSUME NEW u \in Users, NEW s \in Sockets, connection'[s].at = "limit",
                      connection'[s].jwt.user = u, connection'[s].jwt.kind = "access",
                      connection'[s].jwt.left > 0
               PROVE  connection'[s].jwt.left + ended[u] <= AccessTtl
    BY DEF Aged, IInv, accountVars
  <2>1. CASE connection'[s] = connection[s]
    BY <2>1 DEF IInv, Aged
  <2>2. CASE connection'[s].jwt \in Jwts
    <3>1. connection'[s].jwt.left \in access[u]
      BY <1>1, <2>2, JwtsTyped
    <3> QED BY <3>1 DEF IInv, Aged
  <2> QED BY <2>1, <2>2
<1> QED BY <1>1, <1>2, PrimedParts DEF IInv

LEMMA GatewayPreserves ==
  ASSUME IInv, NEW s \in Sockets,
         \/ Verify(s)
         \/ Disconnect(s)
         \/ \E times \in 1..(1 + Resends) :
              \/ Message(s, times)
              \/ \E a \in Addresses, jwt \in Jwts : Connect(s, a, jwt, times)
  PROVE  IInv'
<1>1. AccessTyped /\ LimiterTypeOK /\ connection \in [Sockets -> Connections] /\ Closed \in Connections
  BY TypeOKParts DEF IInv, AccessTyped, Connections
<1>2. Closed.at = "closed"
  BY DEF Closed
<1>3. CASE Verify(s)
  <2> DEFINE jwt == connection[s].jwt
             in == [at |-> "in", user |-> jwt.user]
  <2>1. /\ UNCHANGED <<limiterVars, accountVars, ended>>
        /\ connection[s] \in [at : {"limit"}, jwt : Jwt]
    BY <1>1, <1>3, ConnectionKinds DEF Verify
  <2>2. in \in Connections /\ in.at = "in"
    BY <2>1 DEF Connections, Jwt
  <2>3. \A x \in Sockets : connection'[x] \in {in, Closed, connection[x]}
    BY <1>3 DEF Verify
  <2>4. connection' = [x \in Sockets |-> connection'[x]]
    BY <1>3 DEF Verify
  <2> HIDE DEF in
  <2>5. \A x \in Sockets : connection'[x] \in Connections
    BY <1>1, <2>2, <2>3
  <2>6. connection' \in [Sockets -> Connections]
    BY <2>4, <2>5
  <2>7. \A x \in Sockets : connection'[x].at = "limit" => connection'[x] = connection[x]
    BY <1>2, <2>2, <2>3
  <2>8. LimiterTypeOK'
    BY <1>1, <2>1 DEF LimiterTypeOK, limiterVars
  <2> QED BY <2>1, <2>6, <2>7, <2>8, ConnectionChanges
<1>4. CASE Disconnect(s)
  <2>1. connection' = [connection EXCEPT ![s] = Closed] /\ UNCHANGED <<limiterVars, accountVars, ended>>
    BY <1>4 DEF Disconnect
  <2>2. connection' \in [Sockets -> Connections]
    BY <1>1, <2>1
  <2>3. \A x \in Sockets : connection'[x].at = "limit" => connection'[x] = connection[x]
    BY <1>1, <1>2, <2>1
  <2>4. LimiterTypeOK'
    BY <1>1, <2>1 DEF LimiterTypeOK, limiterVars
  <2> QED BY <2>1, <2>2, <2>3, <2>4, ConnectionChanges
<1>5. ASSUME NEW times \in 1..(1 + Resends), Message(s, times)
      PROVE  IInv'
  <2>1. times \in Nat \ {0}
    BY LimitsAssumption
  <2>2. connection[s].user \in Keys
    BY <1>1, <1>5, ConnectionKinds, KeysAssumption DEF Message
  <2>3. LimiterTypeOK' /\ UNCHANGED <<accountVars, connection, ended>>
    BY <1>1, <1>5, <2>1, <2>2, ConsumeTyped DEF Message
  <2> QED BY <1>1, <2>3, ConnectionChanges
<1>6. ASSUME NEW times \in 1..(1 + Resends), NEW a \in Addresses, NEW jwt \in Jwts,
             Connect(s, a, jwt, times)
      PROVE  IInv'
  <2> DEFINE limit == [at |-> "limit", jwt |-> jwt]
  <2>1. times \in Nat \ {0} /\ a \in Keys
    BY LimitsAssumption, KeysAssumption
  <2>2. LimiterTypeOK' /\ UNCHANGED <<accountVars, ended>>
    BY <1>1, <1>6, <2>1, ConsumeTyped DEF Connect
  <2>3. limit \in Connections /\ limit.jwt \in Jwts
    BY <1>1, JwtsTyped DEF Connections
  <2>4. connection' = [connection EXCEPT ![s] = IF Allowed(a, times) THEN limit ELSE @]
    BY <1>6 DEF Connect
  <2> HIDE DEF limit
  <2>5. connection' \in [Sockets -> Connections]
    BY <1>1, <2>3, <2>4
  <2>6. \A x \in Sockets : connection'[x] = connection[x] \/ connection'[x] = limit
    BY <1>1, <2>4
  <2> QED BY <2>2, <2>3, <2>5, <2>6, ConnectionChanges
<1> QED BY <1>3, <1>4, <1>5, <1>6

-----------------------------------------------------------------------------
(* Time *)

LEMMA ElapseTyped ==
  ASSUME AccessTyped, Elapse
  PROVE  AccessTyped'
<1>1. AccessTtl \in Nat \ {0} /\ RefreshTtl \in Nat \ {0}
  BY TtlAssumption
<1>2. access' \in [Users -> SUBSET (1..AccessTtl)]
  <2>1. access' = [u \in Users |-> {left - 1 : left \in access[u]} \ {0}]
    BY DEF Elapse
  <2>2. ASSUME NEW u \in Users, NEW left \in access[u], left - 1 # 0
        PROVE  left - 1 \in 1..AccessTtl
    <3>1. left \in 1..AccessTtl
      BY DEF AccessTyped
    <3> QED BY <1>1, <2>2, <3>1
  <2> QED BY <2>1, <2>2
<1>3. rows' \in [Users -> SUBSET Row]
  <2>1. rows' = [u \in Users |->
                   {[row EXCEPT !.left = @ - 1] : row \in {r \in rows[u] : r.left > 1}}]
    BY DEF Elapse
  <2>2. ASSUME NEW u \in Users, NEW row \in rows[u], row.left > 1
        PROVE  [row EXCEPT !.left = @ - 1] \in Row
    <3>1. row \in Row
      BY DEF AccessTyped
    <3>2. row.left - 1 \in 1..RefreshTtl
      BY <1>1, <2>2, <3>1 DEF Row
    <3> QED BY <3>1, <3>2 DEF Row
  <2> QED BY <2>1, <2>2
<1>4. connection' \in [Sockets -> Connections]
  <2>1. connection' = [s \in Sockets |-> connection'[s]]
    BY DEF Elapse
  <2>2. ASSUME NEW s \in Sockets
        PROVE  connection'[s] \in Connections
    <3>1. CASE connection[s].at = "limit" /\ connection[s].jwt.left > 0
      <4>1. connection'[s] = [connection[s] EXCEPT !.jwt.left = @ - 1]
        BY <3>1 DEF Elapse
      <4>2. connection[s] \in [at : {"limit"}, jwt : Jwt]
        BY <3>1, ConnectionKinds
      <4>3. connection[s].jwt.left - 1 \in 0..(AccessTtl + RefreshTtl)
        BY <1>1, <3>1, <4>2 DEF Jwt
      <4>4. [connection[s].jwt EXCEPT !.left = @ - 1] \in Jwt
        BY <4>2, <4>3 DEF Jwt
      <4>5. connection'[s] = [at |-> "limit", jwt |-> [connection[s].jwt EXCEPT !.left = @ - 1]]
        BY <4>1, <4>2
      <4> QED BY <4>4, <4>5 DEF Connections
    <3>2. CASE ~(connection[s].at = "limit" /\ connection[s].jwt.left > 0)
      BY <3>2 DEF Elapse, AccessTyped
    <3> QED BY <3>1, <3>2
  <2> QED BY <2>1, <2>2
<1>5. ended' \in [Users -> 0..(AccessTtl + 1)]
  <2>1. ended' = [u \in Users |->
                    IF HasSession(rows'[u]) THEN 0 ELSE Capped(ended[u] + 1, AccessTtl + 1)]
    BY DEF Elapse
  <2>2. ASSUME NEW u \in Users
        PROVE  Capped(ended[u] + 1, AccessTtl + 1) \in 0..(AccessTtl + 1)
    <3>1. ended[u] \in 0..(AccessTtl + 1)
      BY DEF AccessTyped
    <3> QED BY <1>1, <3>1 DEF Capped
  <2>3. 0 \in 0..(AccessTtl + 1)
    BY <1>1
  <2> HIDE DEF HasSession
  <2> QED BY <2>1, <2>2, <2>3
<1> QED BY <1>2, <1>3, <1>4, <1>5 DEF AccessTyped

\* A token loses one unit while the time without a session gains one at most.
LEMMA ElapsePreserves ==
  ASSUME IInv, Elapse
  PROVE  IInv'
<1>1. AccessTyped /\ AccessTyped' /\ LimiterTypeOK' /\ AccessTtl \in Nat \ {0}
  BY TypeOKParts, TtlAssumption, ElapseTyped, LimiterElapseTyped DEF IInv, Elapse
<1>2. ASSUME NEW u \in Users
      PROVE  /\ ended[u] \in Nat /\ ended'[u] \in Nat
             /\ ended'[u] <= ended[u] + 1
  <2>1. ended[u] \in 0..(AccessTtl + 1) /\ ended'[u] \in 0..(AccessTtl + 1)
    BY <1>1 DEF AccessTyped
  <2>2. ended'[u] = 0 \/ ended'[u] = Capped(ended[u] + 1, AccessTtl + 1)
    BY DEF Elapse
  <2> QED BY <1>1, <2>1, <2>2 DEF Capped
<1>3. Aged'
  <2>1. ASSUME NEW u \in Users, NEW left \in access'[u]
        PROVE  left + ended'[u] <= AccessTtl
    <3>1. PICK older \in access[u] : left = older - 1
      BY <2>1 DEF Elapse
    <3>2. older \in 1..AccessTtl /\ older + ended[u] <= AccessTtl
      BY <1>1, <3>1 DEF AccessTyped, IInv, Aged
    <3> QED BY <1>1, <1>2, <3>1, <3>2
  <2>2. ASSUME NEW u \in Users, NEW s \in Sockets, connection'[s].at = "limit",
               connection'[s].jwt.user = u, connection'[s].jwt.kind = "access",
               connection'[s].jwt.left > 0
        PROVE  connection'[s].jwt.left + ended'[u] <= AccessTtl
    <3>1. connection[s].at = "limit" /\ connection[s].jwt.left > 0
      BY <2>2, <1>1, ConnectionKinds DEF Elapse
    <3>2. connection[s] \in [at : {"limit"}, jwt : Jwt]
      BY <1>1, <3>1, ConnectionKinds
    <3>3. connection'[s] = [connection[s] EXCEPT !.jwt.left = @ - 1]
      BY <3>1 DEF Elapse
    <3>4. /\ connection'[s].jwt.left = connection[s].jwt.left - 1
          /\ connection'[s].jwt.user = connection[s].jwt.user
          /\ connection'[s].jwt.kind = connection[s].jwt.kind
          /\ connection[s].jwt.left \in Nat
      BY <3>2, <3>3, TtlAssumption DEF Jwt
    <3>5. connection[s].jwt.left + ended[u] <= AccessTtl
      BY <2>2, <3>1, <3>4 DEF IInv, Aged
    <3> QED BY <1>1, <1>2, <3>4, <3>5
  <2> QED BY <2>1, <2>2 DEF Aged
<1> QED BY <1>1, <1>3, PrimedParts DEF IInv

LEMMA NextPreserves == IInv /\ [Next]_vars => IInv'
<1> SUFFICES ASSUME IInv, [Next]_vars PROVE IInv'
  OBVIOUS
<1>1. CASE UNCHANGED vars
  <2>1. LimiterTypeOK'
    BY <1>1, TypeOKParts DEF vars, limiterVars, IInv, LimiterTypeOK
  <2>2. connection' \in [Sockets -> Connections] /\ connection' = connection
    BY <1>1, TypeOKParts DEF vars, IInv, AccessTyped
  <2> QED BY <1>1, <2>1, <2>2, ConnectionChanges DEF vars
<1> QED BY <1>1, ElapsePreserves, RoutesPreserve, GatewayPreserves DEF Next

LEMMA Invariance == Spec => []IInv
BY InitEstablishes, NextPreserves, PTL DEF Spec

-----------------------------------------------------------------------------
(* Theorems *)

\* Tokens, rows and connections have their types; a counter of the limiter that
\* exists has a time to live, so that none stays for ever.
THEOREM TypeCorrect == Spec => []TypeOK
<1>1. IInv => TypeOK
  BY DEF IInv
<1> QED BY <1>1, Invariance, PTL

\* A logout takes hold once an access token's life has passed: nothing the user
\* then holds or has presented is accepted.
THEOREM LoggedOutInTime == Spec => []LogoutTakesHold
BY IInvImplies, Invariance, PTL

-----------------------------------------------------------------------------
(* How many calls a window's length may see admitted *)

\* The calls its counter admitted are counted in it.  Those admitted longer ago,
\* within the window, are all of one earlier counter, for between them two
\* counters live longer than a window.
Bounded(k) ==
  /\ \A m, n \in Units(k) : m <= n => admitted[k][m] <= admitted[k][n]
  /\ counter[k].ttl = 0 =>
       admitted[k][0] = 0 /\ admitted[k][Window[k] - 1] <= Limit[k]
  /\ counter[k].ttl # 0 =>
       LET own == admitted[k][Window[k] - counter[k].ttl]
       IN  own <= counter[k].count /\ own <= Limit[k] /\ admitted[k][Window[k] - 1] <= own + Limit[k]

AllBounded == \A k \in Keys : Bounded(k)

LEMMA LimiterTypes ==
  ASSUME LimiterTypeOK, NEW k \in Keys
  PROVE  /\ Limit[k] \in Nat \ {0} /\ Window[k] \in Nat \ {0}
         /\ counter[k].count \in Nat /\ counter[k].ttl \in 0..Window[k]
         /\ counter[k].count = 0 <=> counter[k].ttl = 0
         /\ 0 \in Units(k) /\ Window[k] - 1 \in Units(k)
         /\ counter[k].ttl # 0 => Window[k] - counter[k].ttl \in Units(k)
         /\ \A n \in Units(k) : n \in 0..(Window[k] - 1) /\ admitted[k][n] \in Nat
<1>1. Limit[k] \in Nat \ {0} /\ Window[k] \in Nat \ {0}
  BY LimitsAssumption
<1>2. /\ counter[k].count \in Nat /\ counter[k].ttl \in Nat /\ counter[k].ttl <= Window[k]
      /\ counter[k].count = 0 <=> counter[k].ttl = 0
      /\ admitted[k] \in [Units(k) -> Nat]
  BY DEF LimiterTypeOK
<1> QED BY <1>1, <1>2 DEF Units

LEMMA BoundedImplies == LimiterTypeOK /\ AllBounded => AdmittedPerWindow
<1> SUFFICES ASSUME LimiterTypeOK, AllBounded, NEW k \in Keys
             PROVE  admitted[k][Window[k] - 1] <= 2 * Limit[k]
  BY DEF AdmittedPerWindow
<1> QED BY LimiterTypes DEF AllBounded, Bounded

LEMMA BoundedInitially == LimiterInit => AllBounded
<1> SUFFICES ASSUME LimiterInit, NEW k \in Keys PROVE Bounded(k)
  BY DEF AllBounded
<1>1. Limit[k] \in Nat \ {0} /\ Window[k] \in Nat \ {0}
  BY LimitsAssumption
<1>2. counter[k].ttl = 0 /\ \A n \in Units(k) : admitted[k][n] = 0
  BY DEF LimiterInit, NoCounter
<1>3. 0 \in Units(k) /\ Window[k] - 1 \in Units(k)
  BY <1>1 DEF Units
<1> QED BY <1>1, <1>2, <1>3 DEF Bounded

LEMMA ConsumeBounded ==
  ASSUME LimiterTypeOK, AllBounded, NEW k \in Keys, NEW times \in Nat \ {0}, Consume(k, times)
  PROVE  AllBounded'
<1> DEFINE c == Counted(k, times)
<1>1. counter' = [counter EXCEPT ![k] = c] /\ LimiterTypeOK'
  BY ConsumeTyped DEF Consume
<1>2. ASSUME NEW j \in Keys, j # k
      PROVE  Bounded(j)'
  <2>1. counter'[j] = counter[j] /\ \A n \in Units(j) : admitted'[j][n] = admitted[j][n]
    BY <1>1, <1>2, ConsumeAdmits
  <2> QED BY <2>1, LimiterTypes DEF Bounded, AllBounded
<1>3. counter'[k] = c
  BY <1>1 DEF LimiterTypeOK
<1>4. /\ c.ttl = IF counter[k].count = 0 THEN Window[k] ELSE counter[k].ttl
      /\ c.count = IF counter[k].count + times > Limit[k] + 1 THEN Limit[k] + 1 ELSE counter[k].count + times
  BY DEF Counted, Capped
<1>5. Allowed(k, times) <=> c.count <= Limit[k]
  BY DEF Allowed
<1> HIDE DEF c
<1> DEFINE own == admitted[k][Window[k] - c.ttl]
<1>6. /\ c.ttl # 0 /\ Window[k] - c.ttl \in Units(k)
      /\ own <= counter[k].count /\ own <= Limit[k] /\ admitted[k][Window[k] - 1] <= own + Limit[k]
  <2>1. CASE counter[k].count = 0
    BY <1>4, <2>1, LimiterTypes DEF AllBounded, Bounded
  <2>2. CASE counter[k].count # 0
    BY <1>4, <2>2, LimiterTypes DEF AllBounded, Bounded
  <2> QED BY <2>1, <2>2
<1>7. \A m, n \in Units(k) : m <= n => admitted[k][m] <= admitted[k][n]
  BY DEF AllBounded, Bounded
<1>8. CASE Allowed(k, times)
  <2>1. \A n \in Units(k) : admitted'[k][n] = admitted[k][n] + 1
    BY <1>8, ConsumeAdmits
  <2>2. c.count <= Limit[k] /\ c.count = counter[k].count + times
    BY <1>4, <1>5, <1>8, LimiterTypes
  <2>3. /\ own + 1 <= c.count /\ own + 1 <= Limit[k]
        /\ admitted[k][Window[k] - 1] + 1 <= own + 1 + Limit[k]
    BY <1>6, <2>2, LimiterTypes
  <2>4. \A m, n \in Units(k) : m <= n => admitted'[k][m] <= admitted'[k][n]
    BY <1>7, <2>1, LimiterTypes
  <2> QED BY <1>2, <1>3, <1>6, <2>1, <2>3, <2>4, LimiterTypes DEF Bounded, AllBounded
<1>9. CASE ~Allowed(k, times)
  <2>1. \A n \in Units(k) : admitted'[k][n] = admitted[k][n]
    BY <1>9, ConsumeAdmits
  <2>2. c.count = Limit[k] + 1
    BY <1>4, <1>5, <1>9, LimiterTypes
  <2>3. own <= c.count
    BY <1>6, <2>2, LimiterTypes
  <2>4. \A m, n \in Units(k) : m <= n => admitted'[k][m] <= admitted'[k][n]
    BY <1>7, <2>1
  <2> QED BY <1>2, <1>3, <1>6, <2>1, <2>3, <2>4, LimiterTypes DEF Bounded, AllBounded
<1> QED BY <1>8, <1>9

LEMMA ElapseBounded ==
  ASSUME LimiterTypeOK, AllBounded, LimiterElapse
  PROVE  AllBounded'
<1> SUFFICES ASSUME NEW k \in Keys PROVE Bounded(k)'
  BY DEF AllBounded
<1> DEFINE t == counter[k].ttl
<1>1. \A n \in Units(k) : admitted'[k][n] = IF n = 0 THEN 0 ELSE admitted[k][n - 1]
  BY DEF LimiterElapse
<1>2. \A m, n \in Units(k) : m <= n => admitted[k][m] <= admitted[k][n]
  BY DEF AllBounded, Bounded
<1>3. \A n \in Units(k) : n # 0 => n - 1 \in Units(k)
  BY LimiterTypes DEF Units
<1>4. \A m, n \in Units(k) : m <= n => admitted'[k][m] <= admitted'[k][n]
  <2> SUFFICES ASSUME NEW m \in Units(k), NEW n \in Units(k), m <= n
               PROVE  admitted'[k][m] <= admitted'[k][n]
    OBVIOUS
  <2>1. CASE m = 0
    BY <1>1, <1>3, <2>1, LimiterTypes
  <2>2. CASE m # 0
    <3>1. n # 0 /\ m - 1 <= n - 1 /\ m - 1 \in Units(k) /\ n - 1 \in Units(k)
      BY <1>3, <2>2, LimiterTypes
    <3> QED BY <1>1, <1>2, <2>2, <3>1
  <2> QED BY <2>1, <2>2
<1>5. admitted'[k][0] = 0 /\ admitted'[k][Window[k] - 1] <= admitted[k][Window[k] - 1]
  <2>1. CASE Window[k] - 1 = 0
    BY <1>1, <2>1, LimiterTypes
  <2>2. CASE Window[k] - 1 # 0
    <3>1. Window[k] - 2 \in Units(k) /\ admitted'[k][Window[k] - 1] = admitted[k][Window[k] - 2]
      BY <1>1, <2>2, LimiterTypes DEF Units
    <3> QED BY <1>1, <1>2, <3>1, LimiterTypes
  <2> QED BY <2>1, <2>2
<1>6. admitted'[k][Window[k] - 1] \in Nat
  BY LimiterElapseTyped, LimiterTypes DEF LimiterTypeOK
<1>7. CASE t <= 1
  <2>1. counter'[k].ttl = 0
    BY <1>7 DEF LimiterElapse, NoCounter
  <2>2. admitted[k][Window[k] - 1] <= Limit[k]
    BY <1>7, LimiterTypes DEF AllBounded, Bounded
  <2>3. admitted'[k][Window[k] - 1] <= Limit[k]
    BY <1>5, <1>6, <2>2, LimiterTypes
  <2> QED BY <1>4, <1>5, <2>1, <2>3 DEF Bounded
<1>8. CASE ~(t <= 1)
  <2>1. counter'[k] = [counter[k] EXCEPT !.ttl = @ - 1] /\ counter[k] \in [count : Nat, ttl : Nat]
    BY <1>8 DEF LimiterElapse, LimiterTypeOK
  <2>2. counter'[k].ttl = t - 1 /\ counter'[k].count = counter[k].count /\ t - 1 # 0
    BY <1>8, <2>1
  <2>3. /\ Window[k] - (t - 1) \in Units(k) /\ Window[k] - (t - 1) # 0
        /\ Window[k] - (t - 1) - 1 = Window[k] - t
    BY <1>8, LimiterTypes DEF Units
  <2>4. admitted'[k][Window[k] - (t - 1)] = admitted[k][Window[k] - t]
    BY <1>1, <2>3
  <2>5. LET own == admitted[k][Window[k] - t]
        IN  own <= counter[k].count /\ own <= Limit[k] /\ admitted[k][Window[k] - 1] <= own + Limit[k]
    BY <1>8, LimiterTypes DEF AllBounded, Bounded
  <2>6. admitted'[k][Window[k] - 1] <= admitted[k][Window[k] - t] + Limit[k]
    <3>1. Window[k] - t \in Units(k)
      BY <1>8, LimiterTypes
    <3> QED BY <1>5, <1>6, <2>5, <3>1, LimiterTypes
  <2> QED BY <1>4, <2>2, <2>4, <2>5, <2>6 DEF Bounded
<1> QED BY <1>7, <1>8

\* All that happens to the limiter: time passes, or a call is counted.
LEMMA LimiterSteps ==
  ASSUME IInv, [Next]_vars
  PROVE  \/ UNCHANGED limiterVars
         \/ LimiterElapse
         \/ \E k \in Keys, times \in Nat \ {0} : Consume(k, times)
<1>1. \A times \in 1..(1 + Resends) : times \in Nat \ {0}
  BY LimitsAssumption
<1>2. ASSUME NEW s \in Sockets, NEW times \in 1..(1 + Resends), Message(s, times)
      PROVE  \E k \in Keys, n \in Nat \ {0} : Consume(k, n)
  <2>1. connection[s].user \in Users
    BY <1>2, TypeOKParts, ConnectionKinds DEF IInv, Message
  <2> QED BY <1>1, <1>2, <2>1, KeysAssumption DEF Message
<1>3. ASSUME NEW s \in Sockets, NEW times \in 1..(1 + Resends),
             NEW a \in Addresses, NEW jwt \in Jwts, Connect(s, a, jwt, times)
      PROVE  \E k \in Keys, n \in Nat \ {0} : Consume(k, n)
  BY <1>1, <1>3, KeysAssumption DEF Connect
<1>4. ASSUME NEW u \in Users, \/ Login(u)
                              \/ LogoutAll(u)
                              \/ \E row \in rows[u] : Refresh(u, row) \/ Logout(u, row)
      PROVE  UNCHANGED limiterVars
  BY <1>4 DEF Login, LogoutAll, Refresh, Logout, Issue, limiterVars
<1>5. ASSUME NEW s \in Sockets, Verify(s) \/ Disconnect(s)
      PROVE  UNCHANGED limiterVars
  BY <1>5 DEF Verify, Disconnect, limiterVars
<1>6. Elapse => LimiterElapse
  BY DEF Elapse
<1>7. UNCHANGED vars => UNCHANGED limiterVars
  BY DEF vars, limiterVars
<1> QED BY <1>2, <1>3, <1>4, <1>5, <1>6, <1>7 DEF Next

LEMMA BoundedNext == IInv /\ AllBounded /\ [Next]_vars => AllBounded'
<1> SUFFICES ASSUME IInv, AllBounded, [Next]_vars PROVE AllBounded'
  OBVIOUS
<1>1. LimiterTypeOK
  BY TypeOKParts DEF IInv
<1>2. CASE UNCHANGED limiterVars
  BY <1>2 DEF AllBounded, Bounded, limiterVars
<1> QED BY <1>1, <1>2, LimiterSteps, ConsumeBounded, ElapseBounded

\* However many windows begin and end while one looks back over the length of one,
\* and however often a script is sent again, no key is admitted more than twice
\* its limit: for any limits, windows and keys.
THEOREM AtMostTwiceTheLimit == Spec => []AdmittedPerWindow
<1>1. Init => AllBounded
  BY BoundedInitially DEF Init
<1>2. IInv /\ AllBounded => AdmittedPerWindow
  BY BoundedImplies, TypeOKParts DEF IInv
<1> QED BY <1>1, <1>2, Invariance, BoundedNext, PTL DEF Spec
=============================================================================
