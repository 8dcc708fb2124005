------------------------------- MODULE Gateway -------------------------------
(***************************************************************************)
(* The registrations of WebSocketGateway                                   *)
(* (src/infrastructure/websocket/gateway.ts): which socket speaks for a    *)
(* player, which reconnect tokens are good, who is shown connected in a    *)
(* room and online in Redis.                                               *)
(*                                                                         *)
(* The gateway is one event loop.  What a handler does between two awaits  *)
(* is one action; at every await (rate limiter, presence, lobby) any other *)
(* handler may run.  Redis commands travel on one connection in the order  *)
(* they are issued, so a presence write takes effect where it is issued, or*)
(* is lost with its answer.                                                *)
(*                                                                         *)
(* Data abstraction.  Of a room's GameSession only whom it has and whom it *)
(* shows connected is kept (GameSession and SnapshotStream model the rest),*)
(* so of the client messages only join_session and heartbeat matter here.  *)
(* The lobby's answer to getRoom is any.                                   *)
(***************************************************************************)
EXTENDS Integers, FiniteSets

CONSTANTS
  Players,   \* player ids
  Rooms,     \* room ids
  Sockets,   \* WebSocket objects; a socket that is gone may be used again
  Tokens,    \* the reconnect tokens that may ever be minted
  Tasks,     \* the messages that may be in processing at a time
  NoRoom, NoToken

ASSUME AbsentAssumption == NoRoom \notin Rooms /\ NoToken \notin Tokens

VARIABLES
  stage,            \* how far handleConnection is with a socket
  transport,        \* the socket's readyState; CLOSED once 'close' was emitted
  owner,            \* the player its access token names
  early,            \* a frame waits in earlyMessages
  ctx,              \* its SocketContext: roomId and reconnectToken
  sockets,          \* the keys of the sockets map
  socketsByPlayer,  \* Map playerId -> socket
  reconnectTokens,  \* Map token -> [player, room]
  minted,           \* the tokens ever minted
  redemptions,      \* how often a token was accepted
  listening,        \* subscribedRooms, and the listeners of a room's session
  shown,            \* what a room's GameSession shows of a player
  presence,         \* the presence key in Redis
  task              \* the messages in processing

connVars == <<stage, transport, owner, early>>
regVars == <<ctx, sockets, socketsByPlayer>>
tokenVars == <<reconnectTokens, minted, redemptions>>
roomVars == <<listening, shown>>
vars == <<connVars, regVars, tokenVars, roomVars, presence, task>>

NoContext == [room |-> NoRoom, token |-> NoToken]
IdleTask == [at |-> "idle"]

Put(f, k, v) == [x \in DOMAIN f \cup {k} |-> IF x = k THEN v ELSE f[x]]
Without(f, S) == [x \in DOMAIN f \ S |-> f[x]]

TasksOf(s) == {t \in Tasks : task[t] # IdleTask /\ task[t].socket = s}
Goto(t, next) == task' = [task EXCEPT ![t] = next]
Finish(t) == Goto(t, IdleTask)

\* A presence write takes effect or is lost.  Except in handleConnection its rejection
\* reaches nobody and ends the process, see Crash, or for a buffered frame closes the
\* socket, see PeerCloses.
SetPresence(p, status) == presence' \in {presence, [presence EXCEPT ![p] = status]}

\* The stages at which handleConnection is at an await, its handlers not attached.
SettingUp == {"limit", "online", "failing"}

\* socket.close(): readyState is CLOSING, the 'close' event comes later.
Closing(s) == [transport EXCEPT ![s] = IF @ = "open" THEN "closing" ELSE @]

Init ==
  /\ stage = [s \in Sockets |-> "none"]
  /\ transport = [s \in Sockets |-> "closed"]
  /\ owner \in [Sockets -> Players]
  /\ early = [s \in Sockets |-> FALSE]
  /\ ctx = [s \in Sockets |-> NoContext]
  /\ sockets = {}
  /\ socketsByPlayer = << >>
  /\ reconnectTokens = << >>
  /\ minted = {}
  /\ redemptions = [k \in Tokens |-> 0]
  /\ listening = [r \in Rooms |-> 0]
  /\ shown = [r \in Rooms |-> [p \in Players |-> "absent"]]
  /\ presence = [p \in Players |-> "offline"]
  /\ task = [t \in Tasks |-> IdleTask]

-----------------------------------------------------------------------------
(* Connections *)

\* Nothing in the process refers to the socket any more.
Gone(s) ==
  /\ transport[s] = "closed"
  /\ stage[s] \notin SettingUp
  /\ s \notin sockets
  /\ TasksOf(s) = {}

\* A connection arrives: its frames are buffered, the rate limiter is asked.
Connect(s, p) ==
  /\ Gone(s)
  /\ stage' = [stage EXCEPT ![s] = "limit"]
  /\ transport' = [transport EXCEPT ![s] = "open"]
  /\ owner' = [owner EXCEPT ![s] = p]
  /\ early' = [early EXCEPT ![s] = FALSE]
  /\ ctx' = [ctx EXCEPT ![s] = NoContext]
  /\ UNCHANGED <<sockets, socketsByPlayer, tokenVars, roomVars, presence, task>>

\* A frame arrives before the message handler is attached.
BufferEarly(s) ==
  /\ stage[s] \in SettingUp
  /\ transport[s] = "open"
  /\ early' = [early EXCEPT ![s] = TRUE]
  /\ UNCHANGED <<stage, transport, owner, regVars, tokenVars, roomVars, presence, task>>

\* Rate limited, no valid access token, or a Redis error at either await: the
\* socket is closed, and has no close handler.  A registration made before the
\* error is left as it is, and so is the presence key, which a write whose answer
\* alone was lost has set and a lost write has not.
Refuse(s) ==
  /\ stage[s] \in SettingUp
  /\ stage' = [stage EXCEPT ![s] = "refused"]
  /\ transport' = Closing(s)
  /\ UNCHANGED <<owner, early, regVars, tokenVars, roomVars, presence, task>>

\* Slip: the replaced socket is closed and keeps its context.
ReplacedBeside(old) == sockets

\* replaceExistingSocket takes the contexts of the replaced.
Replaced(old) == sockets \ old

\* The token is verified, the player's other socket replaced, this one
\* registered, even if it has been closed meanwhile; the presence write is issued.
\* If it is lost, all that is left is to refuse the socket.
Register(s) ==
  /\ stage[s] = "limit"
  /\ LET p   == owner[s]
         old == {socketsByPlayer[q] : q \in DOMAIN socketsByPlayer \cap {p}}
     IN  /\ transport' = [x \in Sockets |-> IF x \in old THEN Closing(x)[x] ELSE transport[x]]
         /\ sockets' = Replaced(old) \cup {s}
         /\ socketsByPlayer' = Put(socketsByPlayer, p, s)
         /\ \/ /\ stage' = [stage EXCEPT ![s] = "online"]
               /\ presence' = [presence EXCEPT ![p] = "online"]
            \/ /\ stage' = [stage EXCEPT ![s] = "failing"]
               /\ UNCHANGED presence
  /\ UNCHANGED <<owner, early, ctx, tokenVars, roomVars, task>>

\* The presence write is answered: the message and close handlers are attached.
Attach(s) ==
  /\ stage[s] = "online"
  /\ stage' = [stage EXCEPT ![s] = "ready"]
  /\ UNCHANGED <<transport, owner, early, regVars, tokenVars, roomVars, presence, task>>

\* The peer or the network ends the connection.
PeerCloses(s) ==
  /\ transport[s] = "open"
  /\ transport' = Closing(s)
  /\ UNCHANGED <<stage, owner, early, regVars, tokenVars, roomVars, presence, task>>

\* onClose, of a socket that is still registered: it gives its registration up,
\* its player is marked disconnected and set offline.
Unregister(s) ==
  LET p == owner[s]
      r == ctx[s].room
      mine == {q \in DOMAIN socketsByPlayer : q = p /\ socketsByPlayer[q] = s}
  IN  /\ sockets' = sockets \ {s}
      /\ socketsByPlayer' = Without(socketsByPlayer, mine)
      /\ shown' = IF r # NoRoom /\ shown[r][p] # "absent"
                  THEN [shown EXCEPT ![r][p] = "disconnected"] ELSE shown
      /\ SetPresence(p, "offline")

\* Slip: onClose does not ask whether the socket still has its context.
HearsOfReplaced(s) == stage[s] = "ready"

\* Its close handler is attached, and finds a context.
Hears(s) == stage[s] = "ready" /\ s \in sockets

\* The 'close' event.  Without a handler, or without a context, nothing happens.
CloseEvent(s) ==
  /\ transport[s] = "closing"
  /\ transport' = [transport EXCEPT ![s] = "closed"]
  /\ IF Hears(s)
     THEN Unregister(s)
     ELSE UNCHANGED <<sockets, socketsByPlayer, shown, presence>>
  /\ UNCHANGED <<stage, owner, early, ctx, tokenVars, listening, task>>

-----------------------------------------------------------------------------
(* Messages *)

\* A frame is handed to onMessage: from the connection, or, once, from the buffer.
Delivered(s) ==
  /\ stage[s] = "ready"
  /\ \/ transport[s] \in {"open", "closing"} /\ UNCHANGED early
     \/ early[s] /\ early' = [early EXCEPT ![s] = FALSE]

\* onMessage of a registered socket, up to the rate limiter.  The bound keeps a
\* token in hand for every join in processing.
Receive(t, s, message) ==
  /\ task[t] = IdleTask
  /\ s \in sockets
  /\ Delivered(s)
  /\ message.kind = "join" =>
       Cardinality(Tokens \ minted) > Cardinality({x \in Tasks : task[x] # IdleTask})
  /\ Goto(t, [at |-> "limit", socket |-> s, message |-> message])
  /\ UNCHANGED <<stage, transport, owner, regVars, tokenVars, roomVars, presence>>

\* Rate limited, malformed or refused: answered with an error.  (A buffered
\* frame whose getRoom throws has its socket closed too, see PeerCloses.)
Drop(t) ==
  /\ task[t].at \in {"limit", "getRoom"}
  /\ Finish(t)
  /\ UNCHANGED <<connVars, regVars, tokenVars, roomVars, presence>>

\* heartbeat: the context is the one looked up before the await.
Heartbeat(t) ==
  /\ task[t].at = "limit"
  /\ task[t].message.kind = "heartbeat"
  /\ LET s == task[t].socket
         p == owner[s]
         r == ctx[s].room
     IN  /\ shown' = IF r # NoRoom /\ shown[r][p] # "absent"
                     THEN [shown EXCEPT ![r][p] = "connected"] ELSE shown
         /\ SetPresence(p, "online")
  /\ Finish(t)
  /\ UNCHANGED <<connVars, regVars, tokenVars, listening>>

\* Slip: the presented token is left to expire.
UnredeemedKept(expired, k) == Without(reconnectTokens, expired)

\* The tokens that are left once one has been presented.
Unredeemed(expired, k) == Without(reconnectTokens, expired \cup {k})

\* joinSession up to getRoom.  A presented token is taken out before anything
\* is awaited, whether it turns out valid or not; tokens may have expired.
JoinRedeem(t) ==
  /\ task[t].at = "limit"
  /\ task[t].message.kind = "join"
  /\ \E expired \in SUBSET DOMAIN reconnectTokens :
       LET s     == task[t].socket
           r     == task[t].message.room
           k     == task[t].message.token
           live  == DOMAIN reconnectTokens \ expired
           valid == k \in live /\ reconnectTokens[k] = [player |-> owner[s], room |-> r]
       IN  /\ reconnectTokens' = Unredeemed(expired, k)
           /\ redemptions' = IF valid THEN [redemptions EXCEPT ![k] = @ + 1] ELSE redemptions
           /\ IF k = NoToken \/ valid
              THEN Goto(t, [at |-> "getRoom", socket |-> s, room |-> r])
              ELSE Finish(t)
  /\ UNCHANGED <<connVars, regVars, minted, roomVars, presence>>

\* Slip: every join subscribes to the room's session once more.
SubscribedAgain(r) == [listening EXCEPT ![r] = @ + 1]

\* The room's stream is subscribed once.
Subscribed(r) == [listening EXCEPT ![r] = IF @ = 0 THEN 1 ELSE @]

\* Slip: the context's old token is stored again in place of a new one, which a
\* first join does not have.
ReissuedOld(s, r, new) == Put(reconnectTokens, ctx[s].token, [player |-> owner[s], room |-> r])

\* The context's old token is withdrawn for a new one.
Reissued(s, r, new) ==
  Put(Without(reconnectTokens, {ctx[s].token}), new, [player |-> owner[s], room |-> r])

\* getRoom names the player a member of an open room: the session is found or
\* created and given the player, the room's stream subscribed once, the
\* context's old token withdrawn and a new one minted; then presence is awaited.
JoinAdmit(t) ==
  /\ task[t].at = "getRoom"
  /\ \E new \in Tokens \ minted :
       LET s == task[t].socket
           p == owner[s]
           r == task[t].room
       IN  /\ shown' = [shown EXCEPT ![r][p] = "connected"]
           /\ listening' = Subscribed(r)
           /\ reconnectTokens' = Reissued(s, r, new)
           /\ minted' = minted \cup {new}
           /\ ctx' = [ctx EXCEPT ![s] = [room |-> r, token |-> new]]
           /\ SetPresence(p, "online")
           /\ Goto(t, [at |-> "announce", socket |-> s])
  /\ UNCHANGED <<connVars, sockets, socketsByPlayer, redemptions>>

\* The presence write is answered: joined and the full snapshot are sent, if the
\* socket is still open (SnapshotStream has what they tell the client).
JoinAnnounce(t) ==
  /\ task[t].at = "announce"
  /\ Finish(t)
  /\ UNCHANGED <<connVars, regVars, tokenVars, roomVars, presence>>

-----------------------------------------------------------------------------
(* Sessions, Redis, the process *)

\* Slip: a tick no longer looks at the heartbeat timeout.
TickForgives(r, silent) == UNCHANGED vars

\* A tick of r's session: those silent for too long are shown disconnected.  (What
\* is broadcast to the room's open sockets then is in SnapshotStream.)
Tick(r, silent) ==
  /\ shown' = [shown EXCEPT ![r] = [p \in Players |-> IF p \in silent THEN "timedout" ELSE @[p]]]
  /\ UNCHANGED <<connVars, regVars, tokenVars, listening, presence, task>>

Connected(r) == {p \in Players : shown[r][p] = "connected"}

\* The lobby starts the game of a room: its members are given to the session.
LobbyStarts(r, p) ==
  /\ shown' = [shown EXCEPT ![r][p] = "connected"]
  /\ UNCHANGED <<connVars, regVars, tokenVars, listening, presence, task>>

\* A presence key is not refreshed for 60 seconds.
PresenceExpires(p) ==
  /\ presence[p] = "online"
  /\ presence' = [presence EXCEPT ![p] = "expired"]
  /\ UNCHANGED <<connVars, regVars, tokenVars, roomVars, task>>

\* The process ends and starts again: by a deployment, or because getRoom's
\* NotFoundError or a lost presence write rejects a promise nobody handles.  Redis
\* keeps what it has.
Crash ==
  /\ stage' = [s \in Sockets |-> "none"]
  /\ transport' = [s \in Sockets |-> "closed"]
  /\ early' = [s \in Sockets |-> FALSE]
  /\ ctx' = [s \in Sockets |-> NoContext]
  /\ sockets' = {}
  /\ socketsByPlayer' = << >>
  /\ reconnectTokens' = << >>
  /\ listening' = [r \in Rooms |-> 0]
  /\ shown' = [r \in Rooms |-> [p \in Players |-> "absent"]]
  /\ task' = [t \in Tasks |-> IdleTask]
  /\ UNCHANGED <<owner, minted, redemptions, presence>>

Messages ==
  {[kind |-> "heartbeat"]}
    \cup [kind : {"join"}, room : Rooms, token : minted \cup {NoToken}]

HandleMessage(t) ==
  \/ Drop(t)
  \/ Heartbeat(t)
  \/ JoinRedeem(t)
  \/ JoinAdmit(t)
  \/ JoinAnnounce(t)

HandleConnection(s) == Refuse(s) \/ Register(s) \/ Attach(s)

Next ==
  \/ \E s \in Sockets :
       \/ HandleConnection(s)
       \/ BufferEarly(s)
       \/ PeerCloses(s)
       \/ CloseEvent(s)
       \/ \E p \in Players : Connect(s, p)
       \/ \E t \in Tasks, message \in Messages : Receive(t, s, message)
  \/ \E t \in Tasks : HandleMessage(t)
  \/ \E r \in Rooms : \/ \E silent \in SUBSET Connected(r) : Tick(r, silent)
                      \/ \E p \in Players : LobbyStarts(r, p)
  \/ \E p \in Players : PresenceExpires(p)
  \/ Crash

Spec == Init /\ [][Next]_vars

-----------------------------------------------------------------------------
(* Fairness *)

\* The sockets that may still speak for the player.
Speaking(p) ==
  {s \in Sockets : /\ owner[s] = p
                   /\ \/ transport[s] # "closed"
                      \/ TasksOf(s) # {}
                      \/ stage[s] \in SettingUp
                      \/ early[s] /\ s \in sockets /\ stage[s] = "ready"}

\* A player nobody speaks for sends no heartbeat: some tick finds it silent.
Ghosts(r) == {p \in Connected(r) : Speaking(p) = {}}

\* Awaited calls are answered or fail, 'close' events are emitted, buffered
\* frames are processed (strong fairness, for Tasks is a bound of the model), the
\* tick timer fires and sees the heartbeat timeout.
HandleEarly(s) ==
  /\ early[s]
  /\ \E t \in Tasks, message \in Messages : Receive(t, s, message)
  /\ ~early'[s]

Fairness ==
  /\ \A s \in Sockets : /\ WF_vars(HandleConnection(s))
                        /\ WF_vars(CloseEvent(s))
                        /\ SF_vars(HandleEarly(s))
  /\ \A t \in Tasks : WF_vars(HandleMessage(t))
  /\ \A r \in Rooms : WF_vars(Ghosts(r) # {} /\ Tick(r, Ghosts(r)))

-----------------------------------------------------------------------------
(* Properties *)

Stages == SettingUp \cup {"none", "ready", "refused"}

\* What a session shows of a player; timedout and disconnected are both its
\* connected = false apart by who wrote it.
Standings == {"absent", "connected", "timedout", "disconnected"}

Message ==
  {[kind |-> "heartbeat"]} \cup [kind : {"join"}, room : Rooms, token : Tokens \cup {NoToken}]

Processing ==
  {IdleTask}
    \cup [at : {"limit"}, socket : Sockets, message : Message]
    \cup [at : {"getRoom"}, socket : Sockets, room : Rooms]
    \cup [at : {"announce"}, socket : Sockets]

\* The maps have their types; a live token was minted.
TypeOK ==
  /\ stage \in [Sockets -> Stages]
  /\ transport \in [Sockets -> {"open", "closing", "closed"}]
  /\ owner \in [Sockets -> Players]
  /\ early \in [Sockets -> BOOLEAN]
  /\ ctx \in [Sockets -> [room : Rooms \cup {NoRoom}, token : Tokens \cup {NoToken}]]
  /\ sockets \subseteq Sockets
  /\ DOMAIN socketsByPlayer \subseteq Players
  /\ \A p \in DOMAIN socketsByPlayer : socketsByPlayer[p] \in Sockets
  /\ DOMAIN reconnectTokens \subseteq minted
  /\ \A k \in DOMAIN reconnectTokens : reconnectTokens[k] \in [player : Players, room : Rooms]
  /\ minted \subseteq Tokens
  /\ redemptions \in [Tokens -> Nat]
  /\ shown \in [Rooms -> [Players -> Standings]]
  /\ presence \in [Players -> {"online", "expired", "offline"}]
  /\ listening \in [Rooms -> Nat]
  /\ task \in [Tasks -> Processing]

\* "One connection per player" (README.md): however connects, replacements,
\* closes and failures interleave, a player has one registered socket at most,
\* and the two maps of the gateway name the same one.
OneConnectionPerPlayer ==
  /\ \A s \in sockets : owner[s] \in DOMAIN socketsByPlayer /\ socketsByPlayer[owner[s]] = s
  /\ \A p \in DOMAIN socketsByPlayer :
       socketsByPlayer[p] \in sockets /\ owner[socketsByPlayer[p]] = p

\* A reconnect token lets one join through, though joins that present the same
\* token are in processing at once.
TokensRedeemedOnce == \A k \in Tokens : redemptions[k] <= 1

\* A player with a registered socket is not written off because of an older
\* connection: it is shown disconnected in the room the socket joined only by a
\* timeout, and if the socket's own presence write went through it is absent from
\* Redis only once its key has expired.
LiveSocketsCount ==
  \A s \in sockets :
    /\ stage[s] \in {"online", "ready"} => presence[owner[s]] # "offline"
    /\ ctx[s].room # NoRoom => shown[ctx[s].room][owner[s]] \in {"connected", "timedout"}

\* Whoever has a context in a room is fed by that room's session, and once.
JoinedSocketsAreFed ==
  \A s \in sockets : ctx[s].room # NoRoom => listening[ctx[s].room] = 1

\* A player left connected in a room by a join that outlived its socket, by a
\* close event nobody heard or by a lobby start does not stay so: it is shown
\* disconnected in the end, unless it connects again.
GhostsFade ==
  \A r \in Rooms : \A p \in Players :
    (shown[r][p] = "connected")
      ~> (shown[r][p] # "connected" \/ \E s \in Sockets : owner[s] = p /\ transport[s] = "open")
=============================================================================
