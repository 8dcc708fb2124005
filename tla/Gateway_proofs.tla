---------------------------- MODULE Gateway_proofs ----------------------------
(***************************************************************************)
(* Theorems about Gateway for any players, sockets, rooms, tokens and      *)
(* messages in processing, and about the gateway through a shutdown.       *)
(***************************************************************************)
EXTENDS Shutdown, TLAPS

-----------------------------------------------------------------------------
(* Type correctness *)

LEMMA InitTyped == Init => TypeOK
<1> SUFFICES ASSUME Init PROVE TypeOK
  OBVIOUS
<1>1. DOMAIN socketsByPlayer = {} /\ DOMAIN reconnectTokens = {}
  BY DEF Init
<1>2. /\ stage \in [Sockets -> Stages]
      /\ transport \in [Sockets -> {"open", "closing", "closed"}]
      /\ owner \in [Sockets -> Players]
      /\ sockets \subseteq Sockets
      /\ minted \subseteq Tokens
      /\ redemptions \in [Tokens -> Nat]
      /\ listening \in [Rooms -> Nat]
      /\ shown \in [Rooms -> [Players -> Standings]]
      /\ presence \in [Players -> {"online", "expired", "offline"}]
  BY DEF Init, Stages, SettingUp, Standings
<1>3. early \in [Sockets -> BOOLEAN]
  BY DEF Init
<1>4. ctx \in [Sockets -> [room : Rooms \cup {NoRoom}, token : Tokens \cup {NoToken}]]
  BY DEF Init, NoContext
<1>5. task \in [Tasks -> Processing]
  BY DEF Init, Processing
<1> QED BY <1>1, <1>2, <1>3, <1>4, <1>5 DEF TypeOK

LEMMA ShowTyped ==
  ASSUME NEW f \in [Rooms -> [Players -> Standings]], NEW r \in Rooms, NEW p \in Players,
         NEW standing \in Standings
  PROVE  /\ [f EXCEPT ![r][p] = standing] \in [Rooms -> [Players -> Standings]]
         /\ \A r2 \in Rooms, p2 \in Players :
              [f EXCEPT ![r][p] = standing][r2][p2]
                = IF r2 = r /\ p2 = p THEN standing ELSE f[r2][p2]
<1> DEFINE row == [f[r] EXCEPT ![p] = standing]
<1>1. f[r] \in [Players -> Standings]
  OBVIOUS
<1>2. row \in [Players -> Standings] /\ \A p2 \in Players : row[p2] = IF p2 = p THEN standing ELSE f[r][p2]
  BY <1>1
<1>3. [f EXCEPT ![r][p] = standing] = [f EXCEPT ![r] = row]
  OBVIOUS
<1> HIDE DEF row
<1> QED BY <1>2, <1>3

LEMMA ConnectionTyped ==
  ASSUME TypeOK, NEW s \in Sockets,
         \/ Refuse(s) \/ Register(s) \/ Attach(s) \/ BufferEarly(s) \/ PeerCloses(s) \/ CloseEvent(s)
         \/ \E p \in Players : Connect(s, p)
  PROVE  TypeOK'
<1>1. ASSUME NEW p \in Players, Connect(s, p)
      PROVE  TypeOK'
  BY <1>1 DEF TypeOK, Connect, NoContext, Stages, SettingUp, tokenVars, roomVars
<1>2. CASE Refuse(s) \/ Attach(s) \/ PeerCloses(s)
  BY <1>2 DEF TypeOK, Refuse, Attach, PeerCloses, Closing, Stages, SettingUp, regVars, tokenVars, roomVars
<1>3. CASE BufferEarly(s)
  BY <1>3 DEF TypeOK, BufferEarly, regVars, tokenVars, roomVars
<1>4. CASE Register(s)
  <2>1. /\ owner[s] \in Players
        /\ DOMAIN socketsByPlayer' \subseteq Players
        /\ \A q \in DOMAIN socketsByPlayer' : socketsByPlayer'[q] \in Sockets
    BY <1>4 DEF TypeOK, Register, Replaced, Put
  <2>2. transport' \in [Sockets -> {"open", "closing", "closed"}]
    BY <1>4 DEF TypeOK, Register, Replaced, Closing
  <2>3. stage' \in [Sockets -> Stages] /\ sockets' \subseteq Sockets
    BY <1>4 DEF TypeOK, Register, Replaced, Stages, SettingUp
  <2>4. presence' \in [Players -> {"online", "expired", "offline"}]
    BY <1>4, <2>1 DEF TypeOK, Register, Replaced
  <2> QED BY <1>4, <2>1, <2>2, <2>3, <2>4 DEF TypeOK, Register, Replaced, tokenVars, roomVars
<1>5. CASE CloseEvent(s)
  <2>1. transport' \in [Sockets -> {"open", "closing", "closed"}]
    BY <1>5 DEF TypeOK, CloseEvent, Hears
  <2>2. /\ sockets' \subseteq Sockets
        /\ DOMAIN socketsByPlayer' \subseteq Players
        /\ \A q \in DOMAIN socketsByPlayer' : socketsByPlayer'[q] \in Sockets
    BY <1>5 DEF TypeOK, CloseEvent, Hears, Unregister, Without
  <2>3. presence' \in [Players -> {"online", "expired", "offline"}]
    BY <1>5 DEF TypeOK, CloseEvent, Hears, Unregister, SetPresence
  <2>4. shown' \in [Rooms -> [Players -> Standings]]
    <3>1. CASE shown' = shown
      BY <3>1 DEF TypeOK
    <3>2. CASE shown' # shown
      <4>1. ctx[s].room \in Rooms \cup {NoRoom} /\ owner[s] \in Players
        BY DEF TypeOK
      <4>2. /\ ctx[s].room # NoRoom
            /\ shown' = [shown EXCEPT ![ctx[s].room][owner[s]] = "disconnected"]
        BY <1>5, <3>2 DEF CloseEvent, Hears, Unregister
      <4> QED BY <4>1, <4>2, ShowTyped DEF TypeOK, Standings
    <3> QED BY <3>1, <3>2
  <2> QED BY <1>5, <2>1, <2>2, <2>3, <2>4 DEF TypeOK, CloseEvent, Hears, tokenVars
<1> QED BY <1>1, <1>2, <1>3, <1>4, <1>5

LEMMA TaskKinds ==
  ASSUME TypeOK, NEW t \in Tasks
  PROVE  /\ task[t].at = "limit" =>
              /\ task[t].socket \in Sockets
              /\ task[t].message \in Message
              /\ task[t].message.kind = "join" =>
                   /\ task[t].message.room \in Rooms
                   /\ task[t].message.token \in Tokens \cup {NoToken}
         /\ task[t].at = "getRoom" => task[t].socket \in Sockets /\ task[t].room \in Rooms
         /\ task[t].at = "announce" => task[t].socket \in Sockets
BY DEF TypeOK, Processing, IdleTask, Message

LEMMA MessageTyped ==
  ASSUME TypeOK, NEW t \in Tasks,
         \/ HandleMessage(t)
         \/ \E s \in Sockets, message \in Messages : Receive(t, s, message)
  PROVE  TypeOK'
<1>1. ASSUME NEW s \in Sockets, NEW message \in Messages, Receive(t, s, message)
      PROVE  TypeOK'
  <2>1. message \in Message
    BY DEF Messages, Message, TypeOK
  <2>2. task' \in [Tasks -> Processing]
    BY <1>1, <2>1 DEF TypeOK, Receive, Goto, Processing
  <2>3. early' \in [Sockets -> BOOLEAN]
    BY <1>1 DEF TypeOK, Receive, Delivered
  <2> QED BY <1>1, <2>2, <2>3 DEF TypeOK, Receive, regVars, tokenVars, roomVars
<1>2. CASE Drop(t)
  <2>1. task' \in [Tasks -> Processing]
    BY <1>2 DEF TypeOK, Drop, Finish, Goto, Processing
  <2> QED BY <1>2, <2>1 DEF TypeOK, Drop, connVars, regVars, tokenVars, roomVars
<1>3. CASE Heartbeat(t)
  <2> DEFINE s == task[t].socket
  <2>1. s \in Sockets /\ owner[s] \in Players /\ ctx[s].room \in Rooms \cup {NoRoom}
    BY <1>3, TaskKinds DEF Heartbeat, TypeOK
  <2>2. task' \in [Tasks -> Processing]
    BY <1>3 DEF TypeOK, Heartbeat, Finish, Goto, Processing
  <2>3. presence' \in [Players -> {"online", "expired", "offline"}]
    BY <1>3, <2>1 DEF TypeOK, Heartbeat, SetPresence
  <2>4. shown' \in [Rooms -> [Players -> Standings]]
    <3>1. CASE shown' = shown
      BY <3>1 DEF TypeOK
    <3>2. CASE shown' # shown
      <4>1. /\ ctx[s].room # NoRoom
            /\ shown' = [shown EXCEPT ![ctx[s].room][owner[s]] = "connected"]
        BY <1>3, <3>2 DEF Heartbeat
      <4>2. ctx[s].room \in Rooms
        BY <2>1, <4>1
      <4> HIDE DEF s
      <4> QED BY <2>1, <4>1, <4>2, ShowTyped DEF TypeOK, Standings
    <3> QED BY <3>1, <3>2
  <2> QED BY <1>3, <2>2, <2>3, <2>4 DEF TypeOK, Heartbeat, connVars, regVars, tokenVars
<1>4. CASE JoinRedeem(t)
  <2> DEFINE k == task[t].message.token
             from == [player |-> owner[task[t].socket], room |-> task[t].message.room]
  <2>1. task[t].socket \in Sockets /\ task[t].message.room \in Rooms
    BY <1>4, TaskKinds DEF JoinRedeem, Unredeemed
  <2>2. task' \in [Tasks -> Processing]
    <3>1. \/ Goto(t, [at |-> "getRoom", socket |-> task[t].socket, room |-> task[t].message.room])
          \/ Finish(t)
      BY <1>4 DEF JoinRedeem, Unredeemed
    <3> QED BY <2>1, <3>1 DEF TypeOK, Finish, Goto, Processing
  <2>3. PICK expired \in SUBSET DOMAIN reconnectTokens :
          /\ reconnectTokens' = Without(reconnectTokens, expired \cup {k})
          /\ redemptions' = IF k \in DOMAIN reconnectTokens \ expired /\ reconnectTokens[k] = from
                            THEN [redemptions EXCEPT ![k] = @ + 1] ELSE redemptions
    BY <1>4 DEF JoinRedeem, Unredeemed
  <2> HIDE DEF k, from
  <2>4. redemptions' \in [Tokens -> Nat]
    <3>1. CASE k \in DOMAIN reconnectTokens
      BY <2>3, <3>1 DEF TypeOK
    <3>2. CASE k \notin DOMAIN reconnectTokens
      BY <2>3, <3>2 DEF TypeOK
    <3> QED BY <3>1, <3>2
  <2>5. /\ DOMAIN reconnectTokens' \subseteq DOMAIN reconnectTokens
        /\ \A k2 \in DOMAIN reconnectTokens' : reconnectTokens'[k2] = reconnectTokens[k2]
    BY <2>3 DEF Without
  <2> QED BY <1>4, <2>2, <2>4, <2>5 DEF TypeOK, JoinRedeem, Unredeemed, connVars, regVars, roomVars
<1>5. CASE JoinAdmit(t)
  <2> DEFINE s == task[t].socket
             p == owner[s]
             r == task[t].room
  <2>1. s \in Sockets /\ p \in Players /\ r \in Rooms
    BY <1>5, TaskKinds DEF JoinAdmit, Subscribed, Reissued, TypeOK
  <2>2. PICK new \in Tokens \ minted :
          /\ shown' = [shown EXCEPT ![r][p] = "connected"]
          /\ listening' = [listening EXCEPT ![r] = IF @ = 0 THEN 1 ELSE @]
          /\ reconnectTokens' = Put(Without(reconnectTokens, {ctx[s].token}), new,
                                    [player |-> p, room |-> r])
          /\ minted' = minted \cup {new}
          /\ ctx' = [ctx EXCEPT ![s] = [room |-> r, token |-> new]]
          /\ presence' \in {presence, [presence EXCEPT ![p] = "online"]}
          /\ Goto(t, [at |-> "announce", socket |-> s])
    BY <1>5 DEF JoinAdmit, Subscribed, Reissued, SetPresence
  <2>3. UNCHANGED <<connVars, sockets, socketsByPlayer, redemptions>>
    BY <1>5 DEF JoinAdmit, Subscribed, Reissued
  <2> HIDE DEF s, p, r
  <2>4. task' \in [Tasks -> Processing]
    BY <2>1, <2>2 DEF TypeOK, Goto, Processing
  <2>5. shown' \in [Rooms -> [Players -> Standings]]
    BY <2>1, <2>2, ShowTyped DEF TypeOK, Standings
  <2>6. listening' \in [Rooms -> Nat]
    BY <2>1, <2>2 DEF TypeOK
  <2>7. /\ DOMAIN reconnectTokens' \subseteq minted'
        /\ \A k \in DOMAIN reconnectTokens' :
             reconnectTokens'[k] \in [player : Players, room : Rooms]
    BY <2>1, <2>2 DEF TypeOK, Put, Without
  <2>8. /\ ctx' \in [Sockets -> [room : Rooms \cup {NoRoom}, token : Tokens \cup {NoToken}]]
        /\ presence' \in [Players -> {"online", "expired", "offline"}]
        /\ minted' \subseteq Tokens
    BY <2>1, <2>2 DEF TypeOK
  <2> QED BY <2>3, <2>4, <2>5, <2>6, <2>7, <2>8 DEF TypeOK, connVars
<1>6. CASE JoinAnnounce(t)
  <2>1. task' \in [Tasks -> Processing]
    BY <1>6 DEF TypeOK, JoinAnnounce, Finish, Goto, Processing
  <2> QED BY <1>6, <2>1 DEF TypeOK, JoinAnnounce, connVars, regVars, tokenVars, roomVars
<1> QED BY <1>1, <1>2, <1>3, <1>4, <1>5, <1>6 DEF HandleMessage

LEMMA OutsideTyped ==
  ASSUME TypeOK,
         \/ \E r \in Rooms : \/ \E silent \in SUBSET Connected(r) : Tick(r, silent)
                            \/ \E p \in Players : LobbyStarts(r, p)
         \/ \E p \in Players : PresenceExpires(p)
         \/ Crash
         \/ UNCHANGED vars
  PROVE  TypeOK'
<1>1. ASSUME NEW r \in Rooms, NEW silent \in SUBSET Connected(r), Tick(r, silent)
      PROVE  TypeOK'
  <2>1. shown' \in [Rooms -> [Players -> Standings]]
    BY <1>1 DEF TypeOK, Tick, Standings
  <2> QED BY <1>1, <2>1 DEF TypeOK, Tick, connVars, regVars, tokenVars
<1>2. ASSUME NEW r \in Rooms, NEW p \in Players, LobbyStarts(r, p)
      PROVE  TypeOK'
  <2>1. shown' \in [Rooms -> [Players -> Standings]]
    BY <1>2, ShowTyped DEF TypeOK, LobbyStarts, Standings
  <2> QED BY <1>2, <2>1 DEF TypeOK, LobbyStarts, connVars, regVars, tokenVars
<1>3. ASSUME NEW p \in Players, PresenceExpires(p)
      PROVE  TypeOK'
  BY <1>3 DEF TypeOK, PresenceExpires, connVars, regVars, tokenVars, roomVars
<1>4. CASE Crash
  <2>1. /\ stage' \in [Sockets -> Stages]
        /\ transport' \in [Sockets -> {"open", "closing", "closed"}]
        /\ listening' \in [Rooms -> Nat]
        /\ shown' \in [Rooms -> [Players -> Standings]]
        /\ sockets' \subseteq Sockets
        /\ DOMAIN socketsByPlayer' = {} /\ DOMAIN reconnectTokens' = {}
    BY <1>4 DEF Crash, Stages, SettingUp, Standings
  <2>2. early' \in [Sockets -> BOOLEAN]
    BY <1>4 DEF Crash
  <2>3. ctx' \in [Sockets -> [room : Rooms \cup {NoRoom}, token : Tokens \cup {NoToken}]]
    BY <1>4 DEF Crash, NoContext
  <2>4. task' \in [Tasks -> Processing]
    BY <1>4 DEF Crash, Processing
  <2> QED BY <1>4, <2>1, <2>2, <2>3, <2>4 DEF TypeOK, Crash
<1>5. CASE UNCHANGED vars
  BY <1>5 DEF TypeOK, vars, connVars, regVars, tokenVars, roomVars
<1> QED BY <1>1, <1>2, <1>3, <1>4, <1>5

LEMMA NextTyped == TypeOK /\ [Next]_vars => TypeOK'
BY ConnectionTyped, MessageTyped, OutsideTyped DEF Next, HandleConnection

\* Type correctness of the gateway's maps, sockets and messages in processing.
THEOREM TypeCorrect == Spec => []TypeOK
BY InitTyped, NextTyped, PTL DEF Spec

-----------------------------------------------------------------------------
(* One connection per player *)

\* The two maps change only when a socket is connected, registered or closed, and
\* in a crash.
LEMMA WhoIsRegistered ==
  ASSUME [Next]_vars
  PROVE  \/ \E s \in Sockets : \/ \E p \in Players : Connect(s, p)
                              \/ Register(s)
                              \/ CloseEvent(s)
         \/ Crash
         \/ UNCHANGED <<owner, sockets, socketsByPlayer>>
<1>1. ASSUME NEW s \in Sockets,
             \/ Refuse(s) \/ Attach(s) \/ BufferEarly(s) \/ PeerCloses(s)
             \/ \E t \in Tasks, message \in Messages : Receive(t, s, message)
      PROVE  UNCHANGED <<owner, sockets, socketsByPlayer>>
  BY <1>1 DEF Refuse, Attach, BufferEarly, PeerCloses, Receive, regVars
<1>2. ASSUME NEW t \in Tasks, HandleMessage(t)
      PROVE  UNCHANGED <<owner, sockets, socketsByPlayer>>
  BY <1>2 DEF HandleMessage, Drop, Heartbeat, JoinRedeem, JoinAdmit, JoinAnnounce, connVars, regVars
<1>3. ASSUME \/ \E r \in Rooms : \/ \E silent \in SUBSET Connected(r) : Tick(r, silent)
                                \/ \E p \in Players : LobbyStarts(r, p)
             \/ \E p \in Players : PresenceExpires(p)
             \/ UNCHANGED vars
      PROVE  UNCHANGED <<owner, sockets, socketsByPlayer>>
  BY <1>3 DEF Tick, LobbyStarts, PresenceExpires, vars, connVars, regVars
<1> QED BY <1>1, <1>2, <1>3 DEF Next, HandleConnection

LEMMA OneConnectionStep ==
  TypeOK /\ OneConnectionPerPlayer /\ [Next]_vars => OneConnectionPerPlayer'
<1> SUFFICES ASSUME TypeOK, OneConnectionPerPlayer, [Next]_vars
             PROVE  OneConnectionPerPlayer'
  OBVIOUS
<1>1. ASSUME NEW s \in Sockets, NEW p \in Players, Connect(s, p)
      PROVE  OneConnectionPerPlayer'
  <2>1. /\ s \notin sockets
        /\ owner' = [owner EXCEPT ![s] = p]
        /\ sockets' = sockets /\ socketsByPlayer' = socketsByPlayer
    BY <1>1 DEF Connect, Gone
  <2>2. \A x \in sockets : owner'[x] = owner[x]
    BY <2>1 DEF TypeOK
  <2> QED BY <2>1, <2>2 DEF OneConnectionPerPlayer
<1>2. ASSUME NEW s \in Sockets, Register(s)
      PROVE  OneConnectionPerPlayer'
  <2> DEFINE p == owner[s]
             old == {socketsByPlayer[q] : q \in DOMAIN socketsByPlayer \cap {p}}
  <2>1. /\ owner' = owner
        /\ sockets' = (sockets \ old) \cup {s}
        /\ socketsByPlayer' = Put(socketsByPlayer, p, s)
    BY <1>2 DEF Register, Replaced
  <2>2. \A x \in sockets : owner[x] = p => x \in old
    BY DEF OneConnectionPerPlayer
  <2>3. \A x \in old : owner[x] = p
    BY DEF OneConnectionPerPlayer
  <2>4. /\ DOMAIN socketsByPlayer' = DOMAIN socketsByPlayer \cup {p}
        /\ \A q \in DOMAIN socketsByPlayer' :
             socketsByPlayer'[q] = IF q = p THEN s ELSE socketsByPlayer[q]
    BY <2>1 DEF Put
  <2>5. ASSUME NEW x \in sockets'
        PROVE  owner[x] \in DOMAIN socketsByPlayer' /\ socketsByPlayer'[owner[x]] = x
    BY <2>1, <2>2, <2>4, <2>5 DEF OneConnectionPerPlayer
  <2>6. ASSUME NEW q \in DOMAIN socketsByPlayer'
        PROVE  socketsByPlayer'[q] \in sockets' /\ owner[socketsByPlayer'[q]] = q
    BY <2>1, <2>3, <2>4, <2>6 DEF OneConnectionPerPlayer
  <2> QED BY <2>1, <2>5, <2>6 DEF OneConnectionPerPlayer
<1>3. ASSUME NEW s \in Sockets, CloseEvent(s)
      PROVE  OneConnectionPerPlayer'
  <2>1. owner' = owner
    BY <1>3 DEF CloseEvent, Hears
  <2>2. CASE s \in sockets /\ stage[s] = "ready"
    <3>1. /\ sockets' = sockets \ {s}
          /\ DOMAIN socketsByPlayer' = DOMAIN socketsByPlayer \ {owner[s]}
          /\ \A q \in DOMAIN socketsByPlayer' : socketsByPlayer'[q] = socketsByPlayer[q]
      BY <1>3, <2>2 DEF CloseEvent, Hears, Unregister, Without, OneConnectionPerPlayer
    <3> QED BY <2>1, <2>2, <3>1 DEF OneConnectionPerPlayer
  <2>3. CASE ~(s \in sockets /\ stage[s] = "ready")
    BY <1>3, <2>1, <2>3 DEF CloseEvent, Hears, OneConnectionPerPlayer
  <2> QED BY <2>2, <2>3
<1>4. CASE Crash
  <2>1. sockets' = {} /\ DOMAIN socketsByPlayer' = {}
    BY <1>4 DEF Crash
  <2> QED BY <2>1 DEF OneConnectionPerPlayer
<1>5. CASE UNCHANGED <<owner, sockets, socketsByPlayer>>
  BY <1>5 DEF OneConnectionPerPlayer
<1> QED BY <1>1, <1>2, <1>3, <1>4, <1>5, WhoIsRegistered

\* However connects, replacements, closes and failures interleave, every player
\* has one registered socket at most, and both maps of the gateway agree on it.
THEOREM OneConnection == Spec => []OneConnectionPerPlayer
<1>1. Init => OneConnectionPerPlayer
  <2>1. Init => sockets = {} /\ DOMAIN socketsByPlayer = {}
    BY DEF Init
  <2> QED BY <2>1 DEF OneConnectionPerPlayer
<1> QED BY <1>1, TypeCorrect, OneConnectionStep, PTL DEF Spec

-----------------------------------------------------------------------------
(* Reconnect tokens *)

\* The strengthening: a token that is live or not minted yet was never redeemed.
Unspent == \A k \in Tokens : k \notin minted \/ k \in DOMAIN reconnectTokens => redemptions[k] = 0

LEMMA TokensStep ==
  TypeOK /\ Unspent /\ TokensRedeemedOnce /\ [Next]_vars => Unspent' /\ TokensRedeemedOnce'
<1> SUFFICES ASSUME TypeOK, Unspent, TokensRedeemedOnce, [Next]_vars
             PROVE  Unspent' /\ TokensRedeemedOnce'
  OBVIOUS
<1>1. ASSUME NEW t \in Tasks, JoinRedeem(t)
      PROVE  Unspent' /\ TokensRedeemedOnce'
  <2> DEFINE k == task[t].message.token
             from == [player |-> owner[task[t].socket], room |-> task[t].message.room]
  <2>1. PICK expired \in SUBSET DOMAIN reconnectTokens :
          /\ reconnectTokens' = Without(reconnectTokens, expired \cup {k})
          /\ redemptions' = IF k \in DOMAIN reconnectTokens \ expired /\ reconnectTokens[k] = from
                            THEN [redemptions EXCEPT ![k] = @ + 1] ELSE redemptions
    BY <1>1 DEF JoinRedeem, Unredeemed
  <2>2. minted' = minted
    BY <1>1 DEF JoinRedeem, Unredeemed
  <2> HIDE DEF k, from
  <2>3. DOMAIN reconnectTokens' \subseteq DOMAIN reconnectTokens \ {k}
    BY <2>1 DEF Without
  <2>4. CASE redemptions' = redemptions
    BY <2>2, <2>3, <2>4 DEF Unspent, TokensRedeemedOnce
  <2>5. CASE redemptions' # redemptions
    <3>1. k \in DOMAIN reconnectTokens /\ redemptions' = [redemptions EXCEPT ![k] = @ + 1]
      BY <2>1, <2>5
    <3>2. k \in minted /\ k \in Tokens /\ redemptions[k] = 0
      BY <3>1 DEF Unspent, TypeOK
    <3>3. \A j \in Tokens : redemptions'[j] = IF j = k THEN 1 ELSE redemptions[j]
      BY <3>1, <3>2 DEF TypeOK
    <3> QED BY <2>2, <2>3, <3>2, <3>3 DEF Unspent, TokensRedeemedOnce
  <2> QED BY <2>4, <2>5
<1>2. ASSUME NEW t \in Tasks, JoinAdmit(t)
      PROVE  Unspent' /\ TokensRedeemedOnce'
  <2>1. PICK new \in Tokens \ minted :
          /\ DOMAIN reconnectTokens' \subseteq DOMAIN reconnectTokens \cup {new}
          /\ minted' = minted \cup {new}
    BY <1>2 DEF JoinAdmit, Subscribed, Reissued, Put, Without
  <2>2. redemptions' = redemptions
    BY <1>2 DEF JoinAdmit, Subscribed, Reissued
  <2> QED BY <2>1, <2>2 DEF Unspent, TokensRedeemedOnce
<1>3. CASE Crash
  <2>1. DOMAIN reconnectTokens' = {} /\ UNCHANGED <<minted, redemptions>>
    BY <1>3 DEF Crash
  <2> QED BY <2>1 DEF Unspent, TokensRedeemedOnce
<1>4. CASE UNCHANGED tokenVars
  BY <1>4 DEF tokenVars, Unspent, TokensRedeemedOnce
<1>5. \/ \E t \in Tasks : JoinRedeem(t) \/ JoinAdmit(t)
      \/ Crash
      \/ UNCHANGED tokenVars
  <2>1. ASSUME NEW s \in Sockets,
               \/ HandleConnection(s) \/ BufferEarly(s) \/ PeerCloses(s) \/ CloseEvent(s)
               \/ \E p \in Players : Connect(s, p)
               \/ \E t \in Tasks, message \in Messages : Receive(t, s, message)
        PROVE  UNCHANGED tokenVars
    BY <2>1 DEF HandleConnection, Refuse, Register, Attach, BufferEarly, PeerCloses, CloseEvent,
                Connect, Receive
  <2>2. ASSUME NEW t \in Tasks, Drop(t) \/ Heartbeat(t) \/ JoinAnnounce(t)
        PROVE  UNCHANGED tokenVars
    BY <2>2 DEF Drop, Heartbeat, JoinAnnounce
  <2>3. ASSUME \/ \E r \in Rooms : \/ \E silent \in SUBSET Connected(r) : Tick(r, silent)
                                  \/ \E p \in Players : LobbyStarts(r, p)
               \/ \E p \in Players : PresenceExpires(p)
               \/ UNCHANGED vars
        PROVE  UNCHANGED tokenVars
    BY <2>3 DEF Tick, LobbyStarts, PresenceExpires, vars
  <2> QED BY <2>1, <2>2, <2>3 DEF Next, HandleMessage
<1> QED BY <1>1, <1>2, <1>3, <1>4, <1>5

\* A reconnect token lets one join through: joinSession takes it out before it
\* awaits anything.
THEOREM TokensAreSpentOnce == Spec => []TokensRedeemedOnce
<1>1. Init => Unspent /\ TokensRedeemedOnce
  BY DEF Init, Unspent, TokensRedeemedOnce
<1>2. Spec => [](Unspent /\ TokensRedeemedOnce)
  BY <1>1, TypeCorrect, TokensStep, PTL DEF Spec
<1> QED BY <1>2, PTL

-----------------------------------------------------------------------------
(* Sockets that joined *)

\* The strengthening covers the sockets that are no longer registered, for a
\* message of theirs may still be in processing.
Fed ==
  /\ \A r \in Rooms : listening[r] \in {0, 1}
  /\ \A s \in Sockets : ctx[s].room # NoRoom => listening[ctx[s].room] = 1

\* Contexts and subscriptions change in three actions only.
LEMMA WhoIsFed ==
  ASSUME [Next]_vars
  PROVE  \/ \E s \in Sockets, p \in Players : Connect(s, p)
         \/ \E t \in Tasks : JoinAdmit(t)
         \/ Crash
         \/ UNCHANGED <<ctx, listening>>
<1>1. ASSUME NEW s \in Sockets,
             \/ HandleConnection(s) \/ BufferEarly(s) \/ PeerCloses(s) \/ CloseEvent(s)
             \/ \E t \in Tasks, message \in Messages : Receive(t, s, message)
      PROVE  UNCHANGED <<ctx, listening>>
  BY <1>1 DEF HandleConnection, Refuse, Register, Attach, BufferEarly, PeerCloses, CloseEvent,
              Receive, regVars, roomVars
<1>2. ASSUME NEW t \in Tasks, Drop(t) \/ Heartbeat(t) \/ JoinRedeem(t) \/ JoinAnnounce(t)
      PROVE  UNCHANGED <<ctx, listening>>
  BY <1>2 DEF Drop, Heartbeat, JoinRedeem, Unredeemed, JoinAnnounce, regVars, roomVars
<1>3. ASSUME \/ \E r \in Rooms : \/ \E silent \in SUBSET Connected(r) : Tick(r, silent)
                                \/ \E p \in Players : LobbyStarts(r, p)
             \/ \E p \in Players : PresenceExpires(p)
             \/ UNCHANGED vars
      PROVE  UNCHANGED <<ctx, listening>>
  BY <1>3 DEF Tick, LobbyStarts, PresenceExpires, vars, regVars, roomVars
<1> QED BY <1>1, <1>2, <1>3 DEF Next, HandleMessage

LEMMA FedStep == TypeOK /\ Fed /\ [Next]_vars => Fed'
<1> SUFFICES ASSUME TypeOK, Fed, [Next]_vars PROVE Fed'
  OBVIOUS
<1>1. ASSUME NEW s \in Sockets, NEW p \in Players, Connect(s, p)
      PROVE  Fed'
  <2>1. listening' = listening /\ ctx' = [ctx EXCEPT ![s] = NoContext]
    BY <1>1 DEF Connect, roomVars
  <2>2. \A x \in Sockets : ctx'[x] = ctx[x] \/ ctx'[x].room = NoRoom
    BY <2>1 DEF TypeOK, NoContext
  <2> QED BY <2>1, <2>2 DEF Fed
<1>2. ASSUME NEW t \in Tasks, JoinAdmit(t)
      PROVE  Fed'
  <2> DEFINE s == task[t].socket
             r == task[t].room
  <2>1. s \in Sockets /\ r \in Rooms
    BY <1>2, TaskKinds DEF JoinAdmit, Subscribed, Reissued
  <2>2. PICK new \in Tokens :
          /\ listening' = [listening EXCEPT ![r] = IF @ = 0 THEN 1 ELSE @]
          /\ ctx' = [ctx EXCEPT ![s] = [room |-> r, token |-> new]]
    BY <1>2 DEF JoinAdmit, Subscribed, Reissued
  <2> HIDE DEF s, r
  <2>3. \A q \in Rooms : listening'[q] = IF q = r THEN 1 ELSE listening[q]
    BY <2>1, <2>2 DEF TypeOK, Fed
  <2>4. \A x \in Sockets : ctx'[x].room = IF x = s THEN r ELSE ctx[x].room
    BY <2>1, <2>2 DEF TypeOK
  <2>5. \A x \in Sockets : ctx[x].room \in Rooms \cup {NoRoom}
    BY DEF TypeOK
  <2> QED BY <2>1, <2>3, <2>4, <2>5 DEF Fed
<1>3. CASE Crash
  BY <1>3 DEF Crash, Fed, NoContext
<1>4. CASE UNCHANGED <<ctx, listening>>
  BY <1>4 DEF Fed
<1> QED BY <1>1, <1>2, <1>3, <1>4, WhoIsFed

\* Whoever has a context in a room is fed by that room's session exactly once,
\* whatever joins and reconnects came before.
THEOREM JoinedAreFed == Spec => []JoinedSocketsAreFed
<1>1. Init => Fed
  BY DEF Init, Fed, NoContext
<1>2. TypeOK /\ Fed => JoinedSocketsAreFed
  BY DEF Fed, TypeOK, JoinedSocketsAreFed
<1> QED BY <1>1, <1>2, TypeCorrect, FedStep, PTL DEF Spec

-----------------------------------------------------------------------------
(* Registered sockets count *)

\* Messages are processed for sockets that are attached, and a socket has no
\* context before.  With it, LiveSocketsCount is inductive.
Attached ==
  /\ \A t \in Tasks : task[t] # IdleTask => stage[task[t].socket] = "ready"
  /\ \A s \in Sockets : stage[s] = "limit" => ctx[s].room = NoRoom

LEMMA BusyTask ==
  ASSUME TypeOK, NEW t \in Tasks, HandleMessage(t)
  PROVE  task[t] # IdleTask /\ task[t].socket \in Sockets
<1>1. task[t].at \in {"limit", "getRoom", "announce"}
  BY DEF HandleMessage, Drop, Heartbeat, JoinRedeem, JoinAdmit, JoinAnnounce
<1> QED BY <1>1, TaskKinds DEF IdleTask

LEMMA AttachedStep == TypeOK /\ Attached /\ [Next]_vars => Attached'
<1> SUFFICES ASSUME TypeOK, Attached, [Next]_vars PROVE Attached'
  OBVIOUS
<1>0. \A t \in Tasks : task[t] # IdleTask => task[t].socket \in Sockets
  BY DEF TypeOK, Processing
<1>1. ASSUME NEW s \in Sockets, NEW p \in Players, Connect(s, p)
      PROVE  Attached'
  <2>1. /\ task' = task
        /\ stage' = [stage EXCEPT ![s] = "limit"]
        /\ ctx' = [ctx EXCEPT ![s] = NoContext]
        /\ \A t \in Tasks : task[t] # IdleTask => task[t].socket # s
    BY <1>1 DEF Connect, Gone, TasksOf
  <2>2. \A x \in Sockets : stage'[x] = IF x = s THEN "limit" ELSE stage[x]
    BY <2>1 DEF TypeOK
  <2>3. \A x \in Sockets : ctx'[x] = IF x = s THEN NoContext ELSE ctx[x]
    BY <2>1 DEF TypeOK
  <2> QED BY <1>0, <2>1, <2>2, <2>3 DEF Attached, NoContext
<1>2. ASSUME NEW s \in Sockets, HandleConnection(s)
      PROVE  Attached'
  <2>1. /\ UNCHANGED <<task, ctx>>
        /\ stage[s] \in SettingUp
        /\ \A x \in Sockets : stage'[x] = stage[x] \/ (x = s /\ stage'[x] # "limit")
    BY <1>2 DEF HandleConnection, Refuse, Register, Attach, SettingUp, TypeOK, regVars
  <2> QED BY <1>0, <2>1 DEF Attached, SettingUp
<1>3. ASSUME NEW s \in Sockets, NEW t \in Tasks, NEW message \in Messages, Receive(t, s, message)
      PROVE  Attached'
  <2>1. /\ UNCHANGED <<stage, ctx>>
        /\ stage[s] = "ready"
        /\ \A u \in Tasks : task'[u] = task[u] \/ task'[u].socket = s
    BY <1>3 DEF Receive, Delivered, Goto, TypeOK, regVars
  <2> QED BY <1>0, <2>1 DEF Attached
<1>4. ASSUME NEW t \in Tasks, HandleMessage(t)
      PROVE  Attached'
  <2>1. stage' = stage /\ task[t] # IdleTask /\ task[t].socket \in Sockets
    BY <1>4, BusyTask DEF HandleMessage, Drop, Heartbeat, JoinRedeem, JoinAdmit, JoinAnnounce, connVars
  <2>2. stage[task[t].socket] = "ready"
    BY <2>1 DEF Attached
  <2>3. \A u \in Tasks : task'[u] = task[u] \/ task'[u] = IdleTask \/ task'[u].socket = task[t].socket
    <3>1. \/ Finish(t)
          \/ \E r : Goto(t, [at |-> "getRoom", socket |-> task[t].socket, room |-> r])
          \/ Goto(t, [at |-> "announce", socket |-> task[t].socket])
      BY <1>4 DEF HandleMessage, Drop, Heartbeat, JoinRedeem, JoinAdmit, JoinAnnounce
    <3> QED BY <3>1 DEF Finish, Goto, TypeOK
  <2>4. \A x \in Sockets : ctx'[x] = ctx[x] \/ x = task[t].socket
    BY <1>4 DEF HandleMessage, Drop, Heartbeat, JoinRedeem, JoinAdmit, JoinAnnounce, regVars, TypeOK
  <2> QED BY <1>0, <2>1, <2>2, <2>3, <2>4 DEF Attached
<1>5. CASE Crash
  BY <1>5 DEF Crash, Attached
<1>6. ASSUME \/ \E s \in Sockets : BufferEarly(s) \/ PeerCloses(s) \/ CloseEvent(s)
             \/ \E r \in Rooms : \/ \E silent \in SUBSET Connected(r) : Tick(r, silent)
                                \/ \E p \in Players : LobbyStarts(r, p)
             \/ \E p \in Players : PresenceExpires(p)
             \/ UNCHANGED vars
      PROVE  Attached'
  <2>1. UNCHANGED <<stage, ctx, task>>
    BY <1>6 DEF BufferEarly, PeerCloses, CloseEvent, Hears, Tick, LobbyStarts, PresenceExpires, vars,
                connVars, regVars
  <2> QED BY <2>1 DEF Attached
<1> QED BY <1>1, <1>2, <1>3, <1>4, <1>5, <1>6 DEF Next

\* The step of LiveSocketsCount, by what happens to the sockets map, to presence
\* and to what the sessions show.
LEMMA LiveStep ==
  TypeOK /\ OneConnectionPerPlayer /\ Attached /\ LiveSocketsCount /\ [Next]_vars
    => LiveSocketsCount'
<1> SUFFICES ASSUME TypeOK, OneConnectionPerPlayer, Attached, LiveSocketsCount, [Next]_vars
             PROVE  LiveSocketsCount'
  OBVIOUS
<1>0. /\ \A s \in Sockets : owner[s] \in Players /\ ctx[s].room \in Rooms \cup {NoRoom}
      /\ sockets \subseteq Sockets
  BY DEF TypeOK
<1>1. ASSUME NEW s \in Sockets, NEW p \in Players, Connect(s, p)
      PROVE  LiveSocketsCount'
  <2>1. /\ s \notin sockets
        /\ UNCHANGED <<sockets, shown, presence>>
        /\ \A x \in sockets : owner'[x] = owner[x] /\ ctx'[x] = ctx[x] /\ stage'[x] = stage[x]
    BY <1>1 DEF Connect, Gone, TypeOK, roomVars
  <2> QED BY <2>1 DEF LiveSocketsCount
<1>2. ASSUME NEW s \in Sockets, Register(s)
      PROVE  LiveSocketsCount'
  <2>1. /\ UNCHANGED <<owner, ctx, shown>>
        /\ sockets' \subseteq sockets \cup {s}
        /\ ctx[s].room = NoRoom
    BY <1>2 DEF Register, Replaced, roomVars, Attached
  <2>2. /\ \A q \in Players : presence'[q] = presence[q] \/ presence'[q] = "online"
        /\ \A x \in Sockets : x # s => stage'[x] = stage[x]
        /\ stage'[s] = "failing" \/ presence'[owner[s]] = "online"
    BY <1>0, <1>2 DEF Register, Replaced, TypeOK
  <2> QED BY <1>0, <2>1, <2>2 DEF LiveSocketsCount
<1>3. ASSUME NEW s \in Sockets, CloseEvent(s)
      PROVE  LiveSocketsCount'
  <2>1. UNCHANGED <<owner, ctx, stage>>
    BY <1>3 DEF CloseEvent, Hears
  <2>2. CASE s \in sockets /\ stage[s] = "ready"
    <3>1. sockets' = sockets \ {s}
      BY <1>3, <2>2 DEF CloseEvent, Hears, Unregister
    <3>2. \A x \in sockets' : x \in sockets /\ owner[x] # owner[s]
      BY <2>2, <3>1 DEF OneConnectionPerPlayer
    <3>3. \A x \in sockets' : presence'[owner[x]] = presence[owner[x]]
      <4>1. presence' \in {presence, [presence EXCEPT ![owner[s]] = "offline"]}
        BY <1>3, <2>2 DEF CloseEvent, Hears, Unregister, SetPresence
      <4> QED BY <1>0, <3>2, <4>1 DEF TypeOK
    <3>4. \A x \in sockets', r \in Rooms : shown'[r][owner[x]] = shown[r][owner[x]]
      <4>1. CASE shown' = shown
        BY <4>1
      <4>2. CASE shown' # shown
        <5>1. /\ ctx[s].room # NoRoom
              /\ shown' = [shown EXCEPT ![ctx[s].room][owner[s]] = "disconnected"]
          BY <1>3, <4>2 DEF CloseEvent, Hears, Unregister
        <5>2. \A r \in Rooms, p \in Players : p # owner[s] => shown'[r][p] = shown[r][p]
          BY <1>0, <5>1, ShowTyped DEF TypeOK, Standings
        <5> QED BY <1>0, <3>2, <5>2
      <4> QED BY <4>1, <4>2
    <3> QED BY <1>0, <2>1, <3>2, <3>3, <3>4 DEF LiveSocketsCount
  <2>3. CASE ~(s \in sockets /\ stage[s] = "ready")
    BY <1>3, <2>1, <2>3 DEF CloseEvent, Hears, LiveSocketsCount
  <2> QED BY <2>2, <2>3
<1>4. ASSUME NEW t \in Tasks, Heartbeat(t)
      PROVE  LiveSocketsCount'
  <2> DEFINE p == owner[task[t].socket]
             room == ctx[task[t].socket].room
  <2>1. /\ UNCHANGED <<owner, ctx, sockets, stage>>
        /\ presence' \in {presence, [presence EXCEPT ![p] = "online"]}
        /\ \/ shown' = shown
           \/ room # NoRoom /\ shown' = [shown EXCEPT ![room][p] = "connected"]
    BY <1>4 DEF Heartbeat, SetPresence, connVars, regVars
  <2>2. p \in Players /\ room \in Rooms \cup {NoRoom}
    BY <1>0, <1>4, TaskKinds DEF Heartbeat
  <2> HIDE DEF p, room
  <2>3. \A q \in Players : presence'[q] = presence[q] \/ presence'[q] = "online"
    BY <2>1, <2>2 DEF TypeOK
  <2>4. \A r \in Rooms, q \in Players : shown'[r][q] = shown[r][q] \/ shown'[r][q] = "connected"
    <3>1. CASE shown' = shown
      BY <3>1
    <3>2. CASE room \in Rooms /\ shown' = [shown EXCEPT ![room][p] = "connected"]
      BY <2>2, <3>2, ShowTyped DEF TypeOK, Standings
    <3> QED BY <2>1, <2>2, <3>1, <3>2
  <2> QED BY <1>0, <2>1, <2>3, <2>4 DEF LiveSocketsCount
<1>5. ASSUME NEW t \in Tasks, JoinAdmit(t)
      PROVE  LiveSocketsCount'
  <2> DEFINE s == task[t].socket
             p == owner[s]
             room == task[t].room
  <2>1. s \in Sockets /\ room \in Rooms /\ p \in Players
    BY <1>0, <1>5, TaskKinds DEF JoinAdmit, Subscribed, Reissued
  <2>2. /\ shown' = [shown EXCEPT ![room][p] = "connected"]
        /\ presence' \in {presence, [presence EXCEPT ![p] = "online"]}
        /\ \E new : ctx' = [ctx EXCEPT ![s] = [room |-> room, token |-> new]]
        /\ UNCHANGED <<owner, sockets, stage>>
    BY <1>5 DEF JoinAdmit, Subscribed, Reissued, SetPresence, connVars
  <2>3. p = owner[s]
    OBVIOUS
  <2> HIDE DEF s, p, room
  <2>4. \A q \in Players : presence'[q] = presence[q] \/ presence'[q] = "online"
    BY <2>1, <2>2 DEF TypeOK
  <2>5. \A r \in Rooms, q \in Players :
          shown'[r][q] = IF r = room /\ q = p THEN "connected" ELSE shown[r][q]
    BY <2>1, <2>2, ShowTyped DEF TypeOK, Standings
  <2>6. \A x \in Sockets : ctx'[x].room = IF x = s THEN room ELSE ctx[x].room
    BY <2>1, <2>2 DEF TypeOK
  <2> QED BY <1>0, <2>1, <2>2, <2>3, <2>4, <2>5, <2>6 DEF LiveSocketsCount
<1>6. ASSUME NEW room \in Rooms, NEW silent \in SUBSET Connected(room), Tick(room, silent)
      PROVE  LiveSocketsCount'
  <2>1. /\ UNCHANGED <<owner, ctx, sockets, stage, presence>>
        /\ \A r \in Rooms, q \in Players :
             shown'[r][q] = shown[r][q] \/ shown'[r][q] = "timedout"
    BY <1>6 DEF Tick, TypeOK, connVars, regVars
  <2> QED BY <1>0, <2>1 DEF LiveSocketsCount
<1>7. ASSUME NEW room \in Rooms, NEW p \in Players, LobbyStarts(room, p)
      PROVE  LiveSocketsCount'
  <2>1. UNCHANGED <<owner, ctx, sockets, stage, presence>>
    BY <1>7 DEF LobbyStarts, connVars, regVars
  <2>2. \A r \in Rooms, q \in Players : shown'[r][q] = shown[r][q] \/ shown'[r][q] = "connected"
    BY <1>7, ShowTyped DEF LobbyStarts, TypeOK, Standings
  <2> QED BY <1>0, <2>1, <2>2 DEF LiveSocketsCount
<1>8. ASSUME NEW p \in Players, PresenceExpires(p)
      PROVE  LiveSocketsCount'
  <2>1. /\ UNCHANGED <<owner, ctx, sockets, stage, shown>>
        /\ \A q \in Players : presence'[q] = presence[q] \/ presence'[q] = "expired"
    BY <1>8 DEF PresenceExpires, TypeOK, connVars, regVars, roomVars
  <2> QED BY <1>0, <2>1 DEF LiveSocketsCount
<1>9. CASE Crash
  BY <1>9 DEF Crash, LiveSocketsCount
<1>10. ASSUME \/ \E s \in Sockets :
                   \/ Refuse(s) \/ Attach(s) \/ BufferEarly(s) \/ PeerCloses(s)
                   \/ \E t \in Tasks, message \in Messages : Receive(t, s, message)
              \/ \E t \in Tasks : Drop(t) \/ JoinRedeem(t) \/ JoinAnnounce(t)
              \/ UNCHANGED vars
       PROVE  LiveSocketsCount'
  <2>1. UNCHANGED <<owner, ctx, sockets, presence, shown>>
    BY <1>10 DEF Refuse, Attach, BufferEarly, PeerCloses, Receive, Drop, JoinRedeem, JoinAnnounce,
                 vars, connVars, regVars, roomVars
  <2>2. \A x \in Sockets : stage'[x] \in {"online", "ready"} => stage[x] \in {"online", "ready"}
    BY <1>10 DEF Refuse, Attach, BufferEarly, PeerCloses, Receive, Drop, JoinRedeem, JoinAnnounce,
                 vars, connVars, TypeOK
  <2> QED BY <1>0, <2>1, <2>2 DEF LiveSocketsCount
<1> QED BY <1>1, <1>2, <1>3, <1>4, <1>5, <1>6, <1>7, <1>8, <1>9, <1>10
        DEF Next, HandleConnection, HandleMessage

\* A player with a registered socket is not marked disconnected because of an older
\* connection that goes away, nor set offline once the socket's presence is written.
THEOREM LiveSocketsAreNotWrittenOff == Spec => []LiveSocketsCount
<1>1. Init => Attached /\ LiveSocketsCount
  BY DEF Init, Attached, LiveSocketsCount
<1> QED BY <1>1, TypeCorrect, OneConnection, AttachedStep, LiveStep, PTL DEF Spec

-----------------------------------------------------------------------------
(* Through a shutdown *)

\* All that a shutdown adds to what the gateway does is the signal.
LEMMA ShutdownSteps ==
  ASSUME [ShutdownNext]_shutdownVars
  PROVE  Terminate \/ [Next]_vars
<1>1. CASE Exit \/ Die
  BY <1>1 DEF Exit, Die, Next
<1>2. CASE Drained \/ Restart \/ UNCHANGED shutdownVars
  BY <1>2 DEF Drained, Restart, shutdownVars
<1>3. CASE Serve
  BY <1>3 DEF Serve, Next
<1>4. CASE Expire
  BY <1>4 DEF Expire, Next
<1> QED BY <1>1, <1>2, <1>3, <1>4 DEF ShutdownNext

\* The signal closes what is registered, and leaves the maps alone.
LEMMA TerminateEffect ==
  ASSUME TypeOK, Terminate
  PROVE  /\ TypeOK'
         /\ UNCHANGED <<stage, owner, sockets, socketsByPlayer, tokenVars>>
         /\ \A s \in Sockets : transport'[s] = "open" => transport[s] = "open" /\ s \notin sockets
<1>1. UNCHANGED <<stage, owner, early, regVars, tokenVars, listening, presence, task>>
  BY DEF Terminate
<1>2. shown' \in [Rooms -> [Players -> Standings]]
  BY DEF Terminate, DestroyAll, Standings
<1>3. \A s \in Sockets :
        transport'[s] = IF s \in sockets /\ transport[s] = "open" THEN "closing" ELSE transport[s]
  BY DEF Terminate, Registered, Closing, TypeOK
<1>4. transport' \in [Sockets -> {"open", "closing", "closed"}]
  <2>1. transport' = [s \in Sockets |-> transport'[s]]
    BY DEF Terminate
  <2> QED BY <1>3, <2>1 DEF TypeOK
<1>5. TypeOK'
  BY <1>1, <1>2, <1>4 DEF TypeOK, regVars, tokenVars
<1> QED BY <1>1, <1>3, <1>5 DEF regVars

LEMMA ShutdownTyped == TypeOK /\ [ShutdownNext]_shutdownVars => TypeOK'
BY ShutdownSteps, TerminateEffect, NextTyped

\* The gateway's maps, sockets and messages keep their types through a shutdown.
THEOREM ShutdownTypeCorrect == ShutdownSpec => []TypeOK
<1>1. ShutdownInit => TypeOK
  BY InitTyped DEF ShutdownInit
<1> QED BY <1>1, ShutdownTyped, PTL DEF ShutdownSpec

\* A player has one registered socket at most, and the two maps agree, through
\* signals, the registrations that come after them, exits and restarts.
THEOREM ShutdownKeepsOneConnection == ShutdownSpec => []OneConnectionPerPlayer
<1>1. ShutdownInit => OneConnectionPerPlayer
  <2>1. Init => sockets = {} /\ DOMAIN socketsByPlayer = {}
    BY DEF Init
  <2> QED BY <2>1 DEF ShutdownInit, OneConnectionPerPlayer
<1>2. TypeOK /\ OneConnectionPerPlayer /\ [ShutdownNext]_shutdownVars => OneConnectionPerPlayer'
  <2> SUFFICES ASSUME TypeOK, OneConnectionPerPlayer, [ShutdownNext]_shutdownVars
               PROVE  OneConnectionPerPlayer'
    OBVIOUS
  <2>1. CASE Terminate
    BY <2>1, TerminateEffect DEF OneConnectionPerPlayer
  <2>2. CASE [Next]_vars
    BY <2>2, OneConnectionStep
  <2> QED BY <2>1, <2>2, ShutdownSteps
<1> QED BY <1>1, <1>2, ShutdownTypeCorrect, PTL DEF ShutdownSpec

\* A reconnect token lets one join through, whatever signals, exits and restarts
\* come between its presentations.
THEOREM ShutdownSpendsTokensOnce == ShutdownSpec => []TokensRedeemedOnce
<1>1. ShutdownInit => Unspent /\ TokensRedeemedOnce
  BY DEF ShutdownInit, Init, Unspent, TokensRedeemedOnce
<1>2. TypeOK /\ Unspent /\ TokensRedeemedOnce /\ [ShutdownNext]_shutdownVars
        => Unspent' /\ TokensRedeemedOnce'
  <2> SUFFICES ASSUME TypeOK, Unspent, TokensRedeemedOnce, [ShutdownNext]_shutdownVars
               PROVE  Unspent' /\ TokensRedeemedOnce'
    OBVIOUS
  <2>1. CASE Terminate
    BY <2>1, TerminateEffect DEF Unspent, TokensRedeemedOnce, tokenVars
  <2>2. CASE [Next]_vars
    BY <2>2, TokensStep
  <2> QED BY <2>1, <2>2, ShutdownSteps
<1>3. ShutdownSpec => [](Unspent /\ TokensRedeemedOnce)
  BY <1>1, <1>2, ShutdownTypeCorrect, PTL DEF ShutdownSpec
<1> QED BY <1>3, PTL

\* The strengthening of what follows: a connection that is open and not registered
\* has not been let past the rate limiter.
OpenAreKnown == \A s \in Sockets : transport[s] = "open" => stage[s] = "limit" \/ s \in sockets

\* Only Connect opens a socket.
LEMMA NobodyElseOpens ==
  ASSUME TypeOK, OpenAreKnown,
         \/ \E s \in Sockets :
              \/ HandleConnection(s) \/ BufferEarly(s) \/ PeerCloses(s) \/ CloseEvent(s)
              \/ \E t \in Tasks, message \in Messages : Receive(t, s, message)
         \/ \E t \in Tasks : HandleMessage(t)
         \/ \E r \in Rooms : \/ \E silent \in SUBSET Connected(r) : Tick(r, silent)
                            \/ \E p \in Players : LobbyStarts(r, p)
         \/ \E p \in Players : PresenceExpires(p)
         \/ UNCHANGED vars
  PROVE  /\ OpenAreKnown'
         /\ \A x \in Sockets : transport'[x] = "open" => transport[x] = "open"
<1>1. ASSUME NEW s \in Sockets, Refuse(s) \/ PeerCloses(s)
      PROVE  /\ OpenAreKnown'
             /\ \A x \in Sockets : transport'[x] = "open" => transport[x] = "open"
  <2>1. /\ sockets' = sockets
        /\ \A x \in Sockets : x # s => stage'[x] = stage[x] /\ transport'[x] = transport[x]
        /\ transport'[s] # "open"
    BY <1>1 DEF Refuse, PeerCloses, Closing, TypeOK, regVars
  <2> QED BY <2>1 DEF OpenAreKnown
<1>2. ASSUME NEW s \in Sockets, Register(s)
      PROVE  /\ OpenAreKnown'
             /\ \A x \in Sockets : transport'[x] = "open" => transport[x] = "open"
  <2> DEFINE old == {socketsByPlayer[q] : q \in DOMAIN socketsByPlayer \cap {owner[s]}}
  <2>1. /\ sockets' = (sockets \ old) \cup {s}
        /\ \E next : stage' = [stage EXCEPT ![s] = next]
        /\ transport' = [x \in Sockets |-> IF x \in old THEN Closing(x)[x] ELSE transport[x]]
    BY <1>2 DEF Register, Replaced
  <2> HIDE DEF old
  <2>2. /\ \A x \in Sockets : x # s => stage'[x] = stage[x]
        /\ \A x \in Sockets : transport'[x] = "open" => transport[x] = "open" /\ x \notin old
    BY <2>1 DEF Closing, TypeOK
  <2> QED BY <2>1, <2>2 DEF OpenAreKnown
<1>3. ASSUME NEW s \in Sockets, Attach(s)
      PROVE  /\ OpenAreKnown'
             /\ \A x \in Sockets : transport'[x] = "open" => transport[x] = "open"
  <2>1. /\ UNCHANGED <<sockets, transport>>
        /\ stage[s] = "online"
        /\ \A x \in Sockets : x # s => stage'[x] = stage[x]
    BY <1>3 DEF Attach, TypeOK, regVars
  <2> QED BY <2>1 DEF OpenAreKnown
<1>4. ASSUME NEW s \in Sockets, CloseEvent(s)
      PROVE  /\ OpenAreKnown'
             /\ \A x \in Sockets : transport'[x] = "open" => transport[x] = "open"
  <2>1. /\ stage' = stage
        /\ sockets \ {s} \subseteq sockets'
        /\ \A x \in Sockets : transport'[x] = IF x = s THEN "closed" ELSE transport[x]
    BY <1>4 DEF CloseEvent, Hears, Unregister, TypeOK
  <2> QED BY <2>1 DEF OpenAreKnown
<1>5. ASSUME \/ \E s \in Sockets :
                  \/ BufferEarly(s)
                  \/ \E t \in Tasks, message \in Messages : Receive(t, s, message)
             \/ \E t \in Tasks : HandleMessage(t)
             \/ \E r \in Rooms : \/ \E silent \in SUBSET Connected(r) : Tick(r, silent)
                                \/ \E p \in Players : LobbyStarts(r, p)
             \/ \E p \in Players : PresenceExpires(p)
             \/ UNCHANGED vars
      PROVE  /\ OpenAreKnown'
             /\ \A x \in Sockets : transport'[x] = "open" => transport[x] = "open"
  <2>1. UNCHANGED <<stage, transport, sockets>>
    BY <1>5 DEF BufferEarly, Receive, HandleMessage, Drop, Heartbeat, JoinRedeem, JoinAdmit,
                JoinAnnounce, Tick, LobbyStarts, PresenceExpires, vars, connVars, regVars
  <2> QED BY <2>1 DEF OpenAreKnown
<1> QED BY <1>1, <1>2, <1>3, <1>4, <1>5 DEF HandleConnection

LEMMA ConnectIsKnown ==
  ASSUME TypeOK, OpenAreKnown, NEW s \in Sockets, NEW p \in Players, Connect(s, p)
  PROVE  OpenAreKnown'
<1>1. /\ sockets' = sockets
      /\ \A x \in Sockets : stage'[x] = IF x = s THEN "limit" ELSE stage[x]
      /\ \A x \in Sockets : transport'[x] = IF x = s THEN "open" ELSE transport[x]
  BY DEF Connect, TypeOK
<1> QED BY <1>1 DEF OpenAreKnown

\* Once the signal has come, the only connections that are open are those whose
\* set-up it overtook: whatever registers, joins or closes afterwards, no other
\* one can hold the shutdown up.
OnlyTheLateStayOpen == phase # "up" => \A s \in Sockets : transport[s] = "open" => s \in late

\* The safety part of ShutdownEnds.  After the signal no socket is connected, the
\* registered ones are closing, and late does not change before the process ends.
THEOREM NobodyElseHoldsItUp == ShutdownSpec => []OnlyTheLateStayOpen
<1>1. ShutdownInit => OpenAreKnown /\ OnlyTheLateStayOpen
  BY DEF ShutdownInit, Init, OpenAreKnown, OnlyTheLateStayOpen
<1>2. TypeOK /\ OpenAreKnown /\ OnlyTheLateStayOpen /\ [ShutdownNext]_shutdownVars
        => OpenAreKnown' /\ OnlyTheLateStayOpen'
  <2> SUFFICES ASSUME TypeOK, OpenAreKnown, OnlyTheLateStayOpen, [ShutdownNext]_shutdownVars
               PROVE  OpenAreKnown' /\ OnlyTheLateStayOpen'
    OBVIOUS
  <2>1. CASE Terminate
    <3>1. late' = {s \in Sockets : stage[s] = "limit"}
      BY <2>1 DEF Terminate
    <3> QED BY <2>1, <3>1, TerminateEffect DEF OpenAreKnown, OnlyTheLateStayOpen
  <2>2. CASE Exit \/ Die
    <3>1. Crash
      BY <2>2 DEF Exit, Die
    <3> QED BY <3>1 DEF Crash, OpenAreKnown, OnlyTheLateStayOpen
  <2>3. CASE Restart
    BY <2>3 DEF Restart, vars, connVars, regVars, OpenAreKnown, OnlyTheLateStayOpen
  <2>4. CASE Drained \/ UNCHANGED shutdownVars
    BY <2>4 DEF Drained, shutdownVars, vars, connVars, regVars, OpenAreKnown, OnlyTheLateStayOpen
  <2>5. ASSUME phase = "up", UNCHANGED <<phase, late>>,
               \E s \in Sockets, p \in Players : Connect(s, p)
        PROVE  OpenAreKnown' /\ OnlyTheLateStayOpen'
    BY <2>5, ConnectIsKnown DEF OnlyTheLateStayOpen
  <2>6. CASE Serve
    <3>1. UNCHANGED <<phase, late>>
      BY <2>6 DEF Serve
    <3>2. CASE phase = "up" /\ \E s \in Sockets, p \in Players : Connect(s, p)
      BY <2>5, <3>1, <3>2
    <3>3. CASE ~(phase = "up" /\ \E s \in Sockets, p \in Players : Connect(s, p))
      <4>1. /\ OpenAreKnown'
            /\ \A x \in Sockets : transport'[x] = "open" => transport[x] = "open"
        BY <2>6, <3>3, NobodyElseOpens DEF Serve
      <4> QED BY <3>1, <4>1 DEF OnlyTheLateStayOpen
    <3> QED BY <3>2, <3>3
  <2>7. CASE Expire
    <3>1. UNCHANGED <<phase, late>>
      BY <2>7 DEF Expire
    <3>2. /\ OpenAreKnown'
          /\ \A x \in Sockets : transport'[x] = "open" => transport[x] = "open"
      BY <2>7, NobodyElseOpens DEF Expire
    <3> QED BY <3>1, <3>2 DEF OnlyTheLateStayOpen
  <2> QED BY <2>1, <2>2, <2>3, <2>4, <2>6, <2>7 DEF ShutdownNext
<1>3. ShutdownSpec => [](OpenAreKnown /\ OnlyTheLateStayOpen)
  BY <1>1, <1>2, ShutdownTypeCorrect, PTL DEF ShutdownSpec
<1> QED BY <1>3, PTL
=============================================================================
