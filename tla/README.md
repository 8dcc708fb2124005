# A formal model of realtime-game-server

TLA+ modules that model the state-keeping parts of the server in `src/`, TLC configurations that check
them on small instances, and theorems that the TLA+ proof system checks for every value of the constants.
Paths below are relative to `src/`; `game-session.ts:117` stands for line 117 of
`src/infrastructure/game/game-session.ts`, and so on.

## 1. The system

One Node.js process serves HTTP (Fastify) and WebSockets (`ws`). PostgreSQL (Prisma) holds accounts,
progress and rooms; Redis holds presence and rate-limit counters; the simulation of a running room is
in memory only.

```
  client --HTTP--> routes --> services --> Prisma repositories --> PostgreSQL
    |                 \ POST /rooms/start                      
    |                  v                                       
    +--WebSocket--> gateway <--> GameSessionManager --> GameSession (timer, 20 ticks/s)
                      |  ^              'snapshot' events  |
                      |  +---------------------------------+
                      +--> Redis (presence, rate limiter)
```

### Inventory

| component | state | operations | what is hard | what makes it correct | module |
| --- | --- | --- | --- | --- | --- |
| **Game session** `game-session.ts`, `anti-cheat.ts`, `snapshot.ts` | players, input queues, delta baseline, tick counter, timer | addPlayer, markDisconnected, enqueueInput, heartbeat, updatePing, step (removePlayer has no caller) | inputs in any order; joins, closes and heartbeats between ticks; a bounded queue | sequence numbers never fall; no move without an acknowledgement; one legal step per tick; the baseline is that of the last tick | `GameSession` |
| **Stream** gateway + session | what each client has been sent | joined + snapshot, request_snapshot, broadcast of deltas | one baseline for the room, snapshots between ticks for one socket | a client shows players where the server has them; it is in step again and again | `SnapshotStream` |
| **Gateway** `gateway.ts` | sockets, socketsByPlayer, contexts, reconnect tokens, subscribed rooms | connect, replace, close, join_session, heartbeat | every handler awaits Redis or PostgreSQL in the middle; close events of replaced sockets; sockets that close during an await | one connection per player; tokens redeemed once; a live socket is not written off; a room's stream reaches a socket once | `Gateway` |
| **Session manager** `game-session-manager.ts` | Map roomId -> session | getOrCreate, destroyAll (destroy has no other caller) | a join in processing may create a session after destroyAll | one started session per room | in `Gateway`, `SnapshotStream`, `Shutdown` |
| **Lobby** `lobby-service.ts`, `prisma-room-repository.ts`, `routes/lobby.ts` | Room, RoomMember, Session rows; the in-memory session | create, join, leave, ready, start | checks and writes in separate statements at READ COMMITTED | rooms whose requests do not meet behave as if each request were one step; capacity, one open room per player, an open room has its host, a start records every member | `Lobby`, which implements `AtomicRooms` |
| **Accounts** `auth-service.ts`, repositories | User, Player, RefreshToken rows | register, login, refresh, logout, logoutAll | concurrent refreshes of one token, reuse detection, failures between rows | a refresh token is exchanged once; one active token per login; an ended session is not revived | `Auth`, which implements `LoginSessions` |
| **Coins and experience** `economy-service.ts`, `prisma-player-repository.ts` | coins, ledger, experience, level, leaderboard row | credit, debit, addExperience | row lock in one, read outside the transaction in the other | the ledger accounts for the balance; the leaderboard agrees with the profile; nothing is minted | `PlayerRow` |
| **Inventory** `prisma-inventory-repository.ts`, `player-service.ts` | item rows, equipment | addItem, removeItem, equip, unequip | quantities and the equipment column computed from unlocked reads | none is minted; capacity; what is worn was granted | `Inventory` |
| **Presence** `redis-client.ts` | presence:{player} with a TTL | setOnline, setOffline | written by two sockets of one player | a connected player is not offline | in `Gateway` |
| **Rate limiter** `redis-client.ts` | counters with a TTL | consume | fixed windows, a script that is sent again | a bound on the calls admitted, nobody is locked out | `RateLimiter`, in `Access` |
| **Token checks** `token-service.ts`, `middleware/auth.ts`, `routes/auth.ts` | the tokens in circulation and the time they have left | issue, verify, authenticate | access tokens cannot be revoked; refresh tokens are JWTs too | once logged out for the lifetime of an access token, nothing the user holds is accepted | `Access` |
| **Shutdown** `server.ts`, `gateway.ts:56` | how far it is | signal, drain, exit, restart | connections set up while it waits | it ends, and what may hold it up is known | `Shutdown` |
| HTTP app, schemas, error mapping, bcrypt, admin key, reads, load tests, CI | - | - | - | - | not modelled, see section 7 |

Interactions: HTTP routes call services, services call repositories. The lobby's start route also adds
the members to the in-memory session. The gateway calls `lobby.getRoom`, the session manager, presence
and the rate limiter. A session emits `snapshot` synchronously from its tick; the listener that the
first `join_session` of a room installs broadcasts it to every registered open socket of that room.

## 2. Modules

| module | extends | what it is |
| --- | --- | --- |
| `GameSession` | - | one room's authoritative state; one action per method |
| `SnapshotStream` | `GameSession` | composes the session with the clients that watch it |
| `Gateway` | - | registrations, tokens, presence; one action per stretch of code between two awaits |
| `Shutdown` | `Gateway` | composes the gateway with the orderly shutdown, the end and the restart of the process |
| `AtomicRooms` | - | abstract: what the lobby promises of a room's row and members |
| `Lobby` | (instantiates `AtomicRooms`) | requests as sequences of SQL statements, and who is in the in-memory session |
| `LoginSessions` | - | abstract: the life of one login session |
| `Auth` | (instantiates `LoginSessions`) | accounts and refresh tokens as sequences of SQL statements |
| `PlayerRow` | - | the same for coins and experience |
| `Inventory` | - | the same for items and equipment |
| `RateLimiter` | - | the Redis counters, which only `Access` runs |
| `Access` | `RateLimiter` | composes the auth routes, the token checks and the limiter over time |
| `MC*` | each of the above | symmetry sets and constants for TLC |
| `*_proofs` | each of `GameSession`, `SnapshotStream`, `Shutdown` (`Gateway_proofs`), `Lobby`, `Auth`, `PlayerRow`, `Inventory`, `Access`, and `TLAPS` | theorems |

Definitions whose comment begins with *Slip:* are not part of the specifications. Each is a form that a
plausible mistake would give the definition after it; with it in place the property that guards against
the mistake is violated, which shows that the property can fail.

### How state and actions correspond to the code

**GameSession.** The variables are the fields of the class (`game-session.ts:20-25`). `tick` is kept
modulo `FullSnapshotEvery`, the only way it is used. `Step` is the whole of `step`: expiry
(`Expired`), the drain of each queue (`Drained`), the message (`StepMessage`) and the new baseline
(`NextBaseline`). A movement input is `[seq, d]`: `d` is the displacement it asks for on one axis, and
a `d` beyond `MaxStep` stands for everything the checks on dt, vector length, speed and distance
refuse. `Drained` is the loop as the code writes it: every queued input is validated against the player object
captured at the beginning of the tick, and each accepted one overwrites the map entry, so that the last
accepted one remains.
`silentFor` is the age of `lastHeartbeatAt`, advanced by `Elapse`.

**SnapshotStream.** `phase[p]` follows p's socket and `view[p]` what its client shows once everything
sent has arrived; a socket delivers in order. A message acts after the limiter has answered, when its socket
may be gone (`SocketMessage`). `JoinSession` and `SendJoined` are the two halves of
`joinSession` around the presence write. The client's application of snapshot and delta messages is
not in the repository: `Apply` takes the messages' types at their word.

**Gateway.** `stage` follows `handleConnection` through its two awaits; a presence write takes effect when it is
issued or is lost (`SetPresence`), and where the write of a new connection is rejected, stage `failing`, the
registration stays and the presence key is as it was. `transport` is the socket's
readyState as the server sees it; the maps are those of the class. A message in processing is a `task`
that remembers at which await it is. `getRoom` may answer anything. Tokens may expire at any time. A
socket object with no references left may be used for a new connection.

**Shutdown.** `phase` is where `shutdown` of `server.ts:12` waits. `Terminate` is the code up to the first
await of `close`: the sessions are destroyed, the registered sockets are closed. While it drains, handlers go on
with whatever they were doing and may register a socket that nobody will close, which `late` remembers, or
create a session again. `Exit` and `Die` lose all memory and `Restart` begins anew; presence keys survive.

**Access.** Time is counted in units and a token is its kind, its user and the time it has left. `Issue`,
`Refresh`, `Logout` and `LogoutAll` are whole requests, for `Auth` has their statements. The gateway's
connection is cut at the limiter's await, `Connect` and `Verify`, because a token may expire there;
`times` is how often Redis ran the script for one call, for ioredis sends a command again when its
connection breaks before the reply. With `OneSecret` the two JWT secrets are equal, which `env.ts` allows.
`admitted[k][n]` is history: the calls of `k` admitted in this unit and the `n` before it.

**Lobby, Auth, PlayerRow, Inventory.** A `request` record is the program counter and the local
variables of one HTTP request; each action is one statement or one transaction commit. At READ COMMITTED a
statement sees committed rows and what its own transaction wrote, a transaction's writes take effect at its commit, rows that are written
are locked to the end of the transaction and rows that are only read are not, unless FOR UPDATE says so
(`PlayerRow`). `Fail` and `Crash` end requests at any statement. Lobby's `EnterCheck` and `Enter` are the two sides of
the await in the gateway's `joinSession`: the room that `getRoom` answered, and the player that is added
afterwards. `StartRowFails` is an insert that fails under `Promise.all` while the others go on.

### Abstract specifications

* `AtomicRooms` has create, join, leave, ready and start as single steps on a room and constrains every room
  that is not in `disturbed`. `Lobby` implements it with `disturbed <- raced`, the rooms that two requests
  in flight were about at once (`ActsAtomically`). So whatever goes wrong with a room needs two requests about
  that room: failures, crashes and what happens in other rooms do not suffice. A room stays
  in `raced` for good, because a race may leave it over its capacity, deserted or reopened.
* `LoginSessions` has the states unborn, open, renewing and ended of a session, and whose sessions they are.
  `EndAll(u)` ends every session of `u` that is open, no fewer; `EndOne` ends one; nothing leaves `ended`. `Auth`
  implements it with the state of a family read off its tokens and the requests that are exchanging one
  (`EndedForGood`). The history variable `dismissed` is the sessions that somebody has been told are ended,
  so that an answer that ends nothing is no stutter. An ending that meets a renewal misses it, and the abstract
  specification says so: a session that is renewing is not open. The run `auth_reuse` shows what becomes of it.

## 3. What the runs check

| run | instance | checks | shows |
| --- | --- | --- | --- |
| `session_inputs` | 1 player, queue of 3, seqs 1 and 2, one illegal input | TypeOK, DistanceIsEarned, SeqNeverFalls, NoTeleport, MovesAreAcknowledged | inputs in every order, with repeats and overflow of the queue |
| `stream_views` | 2 players, 2 spawn points, 1 input, fair timer | ViewMotionExact, BaselineIsLastTick, TicksKeepViewsRight, ViewsResync, SilentPlayersTimeOut | views assembled from snapshots and deltas while players join, close and are replaced between ticks; a stale connected or ping is corrected; silence is noticed |
| `gateway_safety` | 1 player, 2 sockets, 3 tokens, 2 messages in processing | TypeOK, OneConnectionPerPlayer, TokensRedeemedOnce, LiveSocketsCount, JoinedSocketsAreFed | old and new socket, two joins with one token, lost presence writes |
| `gateway_shutdown` | 1 player, 2 sockets, 1 token, 1 message, shutdown and restart, fair | GhostsFade, ShutdownEnds | lost close events and late joins are repaired by the heartbeat timeout; only a connection in its set-up can hold up a shutdown |
| `lobby_overlap` | 3 players, 1 room of 2, 2 requests, failures and crashes | OpenRoomsHaveTheirHost, StartRecordsEveryMember, OverfillBound, ActsAtomically | what holds of rooms no two requests raced for, and how far a race can go |
| `lobby_rooms` | 2 players, 2 rooms, 2 requests, both enter sessions, failures | TypeOK, OneOpenRoom, EntrantsAreMembers | one player in several rooms; who gets into a game |
| `lobby_capacity` | 3 players, 1 room of 2, 2 requests | Capacity (violated) | section 6 |
| `auth_rotation` | 2 accounts, 3 tokens, 3 requests | TypeOK, RotatedOnce, OneActivePerFamily, EndedForGood | concurrent refreshes, reuse and logouts; whom a logout of all or a reuse ends |
| `auth_reuse` | 1 account, 2 tokens, 2 requests | ReuseRevokesFamily (violated) | section 6 |
| `row_progress` | 1 player, 3 requests, amounts 1 and 2 | TypeOK, LedgerAccounts, BoardAgrees, NothingMinted | overlapping and failing credits, debits, awards |
| `inventory_overlap` | 2 items, 2 slots, capacity 1, 2 requests | TypeOK, OverfillBound, NoMoreThanGranted, WornWasGranted | how far overlapping requests can go |
| `access` | 1 user, 1 address, 2 sockets, tokens of 2 and 3 units, limits 1 and 2, one secret, fair time | TypeOK, AdmittedPerWindow, LogoutTakesHold, LetInAgain | windows, lifetimes and awaits in every alignment |

### Bounds

* Queue, full-snapshot period, capacity, level size: 40, 20, 8 and 1000 in the code, 1 to 3 here. They
  enter the code through comparisons with the limit and one modulus, and the runs go below, to and
  beyond each of them. `HeartbeatTimeout = 0` gives the age two values, within and over the timeout.
* Two players, or two sockets of one player, are what a race needs: the close of a replaced socket, or a
  message it sent, meets the registration of the next one. A socket object that nothing refers to any more is
  used again, so chains of replacements are as long as they come. The theorems of section 5 hold without these
  bounds, for every invariant and action property of the runs that pass.
* A join is received only while tokens remain to be minted for every message in processing, so the finite pool is
  never short of one. With three tokens and two messages one token can be live while two joins that present it are in
  processing at once, which is the race `TokensRedeemedOnce` is about; with two there could not.
* Requests in flight: two (every pairwise race) and three (`auth_rotation`, `row_progress`), where a third
  request meets what the first two left. Behaviours without overlap are among them: ActsAtomically is about the
  rooms that saw none.
* `MaxEntries`, `MaxAwarded` (PlayerRow), `MaxQuantity` (Inventory) and the finite sets `Tokens`,
  `Rooms` bound what would grow for ever. Each is a guard of the action that would exceed it.
* `MaxMarked` (Lobby) is how many rooms and players the history variables `raced`, `crossed` and `orphaned` may
  mark: one where two rooms leave no space for more, two elsewhere, so that a behaviour holds a race, or
  a crash, and the time after it. `Entrants` are the players that open a socket; none where the run is about
  the database only.
* Access: a limit of 2 in a window of 2 units and of 1 in a window of 1 stand for 60 connections a
  minute and 30 messages a second; what counts is that calls, windows and lifetimes meet in every alignment. A
  counter above its limit and `ended` above `AccessTtl` are not counted on. `Resends = 1`: a script runs once
  or twice. The order AccessTtl < RefreshTtl is that of the code (15m and 7d); LogoutTakesHold would say
  nothing about refresh tokens otherwise.
* The symmetry sets permute players, rooms and requests only where no property tells them apart. ActsAtomically,
  EntrantsAreMembers and EndedForGood are checked under symmetry too; they are safety properties that are
  themselves symmetric, which is what TLC's reduction needs. No run with a liveness property uses symmetry.
* Lobby's runs have `CHECK_DEADLOCK FALSE`: once every room of the finite pool has been closed nothing
  more can happen. In every other run deadlock is checked.

### Fairness

* `FairStreamSpec`: weak fairness of `Fires`, which is the tick and nothing else, because `setInterval` calls it as
  long as the timer is armed. Nothing is assumed of clients.
* `Fairness` (Gateway): an awaited call is answered or rejected (ioredis gives up after
  `maxRetriesPerRequest`), `ws` emits `close` for a closing socket, and the tick of a room fires
  and eventually sees the heartbeat timeout of a player for whom nobody sends anything. A buffered frame
  gets strong fairness: it needs a free slot of `Tasks`, which is a bound of the model and not of the code.
* `FairShutdownSpec`: that, and the closes that `shutdown` awaits one after the other end once nothing
  holds them up. Nothing is assumed of peers: they may keep a connection open for ever.
* `FairSpec` (Access): time passes.

## 4. Properties that hold

* *Inputs* (GameSession): whatever comes in, a player's `lastProcessedInputSeq` never falls, its position
  changes only together with it and by one legal displacement per tick, however inputs are repeated or reordered it
  is no further from where it spawned than its sequence number pays for, and the delta baseline is never
  affected by what happens between ticks.
* *Views* (SnapshotStream): a joined client never shows a wrong position or acknowledgement, although
  snapshots are sent between ticks and deltas are computed against one baseline for all. What may be
  stale is `connected` and `ping`, until the next full snapshot at the latest. A tick never spoils a
  view that holds what the last tick recorded.
* *Connections* (Gateway): one registered socket per player in both maps through any interleaving of connects,
  replacements, closes and failures; the close of an older socket does not show the player of the newer one
  disconnected, nor take its presence key if the newer socket's write went through; a reconnect token is
  redeemed at most once; a joined socket is fed exactly once; a player left behind by a race is shown
  disconnected in the end.
* *Rooms* (Lobby): a room that no two requests were about at once behaves as `AtomicRooms` says, through
  failures, crashes and races in other rooms. It has its host among its members, a start of it records every
  member once, and nobody else enters its game. A room that was raced for is overfilled by one player per further
  request in flight at most, and recorded once per start that found it waiting.
* *Items* (Inventory): overlapping requests overfill an inventory by one row per further request at most;
  no item comes into being that was not granted, and nothing is worn that the player never had.
* *Sessions and coins* (Auth, PlayerRow): rotation is exclusive because `revokeIfActive` is one
  conditional update; a logout of all and the answer to a reuse end every session of the account that is open,
  and a session that has ended stays ended; the ledger is exact because of FOR UPDATE.
* *Access* (RateLimiter, Access): no key is admitted more than twice its limit in any span of a window's length, and
  a refused client is admitted again however it insists. Whoever has had no session for
  the lifetime of an access token is let in nowhere, although access tokens are not revoked, refresh tokens
  have good signatures where the secrets are equal, and the gateway looks at the token after an await.
* *Shutdown*: it ends unless a connection that was being set up when the signal came stays open: it is not in
  `sockets` when `close` closes those, and the WebSocket server waits for every connection.

## 5. What is proved

A theorem is `Spec => []Inv`, `Spec => [][A]_vars`, or `Spec => Abstract` for a refinement, for arbitrary
constants that satisfy the named assumptions of the modules. `CrashSpec` is Lobby's specification with crashes
and covers the one without. Between them the theorems state every invariant, every action property and both
refinements that the passing runs check; what only TLC checks is liveness.

| module | theorem | states |
| --- | --- | --- |
| `GameSession_proofs` | TypeCorrect, BaselineSound, SequenceMonotone, OneStepPerTick, MotionAcknowledged, EveryStepIsPaidFor | TypeOK, BaselineIsLastTick, SeqNeverFalls, NoTeleport, MovesAreAcknowledged, DistanceIsEarned |
| `SnapshotStream_proofs` | StreamRunsSession, StreamTypeCorrect, ViewsMotionExact, TicksNeverSpoilAView | StreamSpec => Spec, StreamTypeOK, ViewMotionExact, TicksKeepViewsRight |
| `Gateway_proofs` | TypeCorrect, OneConnection, TokensAreSpentOnce, LiveSocketsAreNotWrittenOff, JoinedAreFed | TypeOK, OneConnectionPerPlayer, TokensRedeemedOnce, LiveSocketsCount, JoinedSocketsAreFed |
| | ShutdownTypeCorrect, ShutdownKeepsOneConnection, ShutdownSpendsTokensOnce, NobodyElseHoldsItUp | of ShutdownSpec: TypeOK, OneConnectionPerPlayer, TokensRedeemedOnce, OnlyTheLateStayOpen |
| `Lobby_proofs` | TypeCorrect, OpenRoomsKeepTheirHost, OnlyMembersEnter, StartsRecordEveryMember, OverfillIsBounded, OneRoomAtATime | TypeOK, OpenRoomsHaveTheirHost, EntrantsAreMembers, StartRecordsEveryMember, OverfillBound, OneOpenRoom |
| | RoomsActAtomically, UnracedRoomsKeepToCapacity, ClosedRoomsStayClosed | ActsAtomically, UnracedCapacity, ClosedForGood |
| `Auth_proofs` | TypeCorrect, TokensRotateOnce, OneActiveToken, SessionsEndForGood | TypeOK, RotatedOnce, OneActivePerFamily, EndedForGood |
| `PlayerRow_proofs` | TypeCorrect, EveryCoinIsAccountedFor, LeaderboardAgrees, NoExperienceIsMinted | TypeOK, LedgerAccounts, BoardAgrees, NothingMinted |
| `Inventory_proofs` | TypeCorrect, OverfillIsBounded, NothingFromNothing, WornItemsWereOwned | TypeOK, OverfillBound, NoMoreThanGranted, WornWasGranted |
| `Access_proofs` | TypeCorrect, AtMostTwiceTheLimit, LoggedOutInTime | TypeOK, AdmittedPerWindow, LogoutTakesHold |

The arguments:

* **GameSession.** The assumptions are finiteness of `Players`, natural limits and spawn points within
  the world. `TypeOK` is inductive and gives every other invariant its types. The lemma about `Drained`
  says that a drain either leaves the state or is one accepted movement from it; `NoTeleport`,
  `MovesAreAcknowledged` and `SeqNeverFalls` follow from it and from the fact that no other action
  touches a known player's position or sequence number. `BaselineIsLastTick` is inductive given `TypeOK`:
  a tick replaces or overwrites every entry of the baseline. That the loop leaves the move of the last
  acceptable input (`DrainedIsAtOnce`) would be an induction on the length of the queue; here it is the argument
  from the first place in the queue after which the two disagree, which exists because places are natural numbers.
  `DistanceIsEarned` adds up what `NoTeleport` and `MovesAreAcknowledged` say of one step: a displacement is paid
  for by a sequence number, a new player begins at a spawn point with number 0.
* **SnapshotStream.** Each step of the stream is a step of the session or leaves it alone
  (`StreamRunsSession`), which carries the session's theorems over. `ViewMotionExact` is inductive
  together with them: a full snapshot is right by construction, and a delta is right because
  the view and the baseline agree on positions before the tick and the delta carries every field in
  which the baseline and the tick's result differ. For `TicksKeepViewsRight` the view is the
  baseline, and a delta applied to the baseline it was computed from gives the tick's result (`DeltaOnBaseline`),
  which is the next baseline.
* **Gateway.** `OneConnectionPerPlayer` is inductive: registering a socket removes exactly the socket
  the other map names. `TokensRedeemedOnce` needs that a token in the map has never been redeemed and that
  tokens are fresh when minted. `LiveSocketsCount` needs `OneConnectionPerPlayer`, for a
  replaced socket is no longer in `sockets` when its close arrives, and that a joined context's player is
  in the session. `JoinedSocketsAreFed` needs that no room has more than one listener.
* **Shutdown.** The only step it adds to the gateway's is the signal (`ShutdownSteps`), which leaves the maps alone.
  `OnlyTheLateStayOpen` is the safety part of `ShutdownEnds`: after the signal no connection is open but one
  whose set-up the signal overtook. Its strengthening `OpenAreKnown` says that an open connection is
  registered or has not passed the rate limiter.
* **Lobby.** `Noticed` ties the histories to the present: two requests in flight about one room or player
  are in `raced` or `crossed`. With it, a room outside `raced` has one request in flight at most, and
  `RoomInv` says that what this request has read of the room still holds (`Knows`) and that the room is open
  with its host in it or has nobody (`Settled`). `OpenRoomsHaveTheirHost` and `EntrantsAreMembers` follow.
  `StartRecordsEveryMember` needs `PlayedInv`: while a start is recording, members still to be recorded have no row
  and the others have one. `OverfillBound` is inductive by counting: a join that has found a free place
  counts all requests with it. `OneOpenRoom` needs `HomelyInv`: while a request is about to put a player into a
  room the player has none. `ActsAtomically` maps a statement to a stutter and the writing statement of
  each request to the abstract operation, whose guard holds by `Knows`. `UnracedCapacity` and `ClosedForGood` are
  proved of `AtomicRooms` and hold of `Lobby` because it implements it.
* **Auth.** The strengthening `Chains` says that the end of a family's chain is either its one
  active token or the token that exactly one request is exchanging, and that an exchanged token is
  inactive. Without it the two properties are not inductive: between the conditional update
  and the insert no token of the family is active, and what excludes a second insert is the request. `EndedForGood`
  follows from it step by step: a family is unborn without tokens, open with an active one,
  renewing with a request that exchanges one, and ended otherwise, and only an exchange in flight can insert.
  That a logout of all ends every open session of the account needs `Owned`: the tokens of a family are one
  account's, for an exchange issues on behalf of the owner of the token it took.
* **PlayerRow.** The strengthening says that a request about to commit holds the row's lock and that its
  balance is the row's balance plus its amount.
* **Inventory.** `Backed` says that what a request is about to write, from a read that may be stale, is within
  what was granted by now together with what it grants itself, which holds because `granted` never falls; `Tried` says the
  same of what is about to be put on. `OverfillBound` is a count of the requests past the capacity check.
* **Access.** `Aged` adds the time an access token has left to the time its user has been without
  a session: never more than `AccessTtl`, in the user's hand or in a connection whose token was presented and
  not yet verified. `AdmittedPerWindow` needs `Bounded`: the calls that the present counter admitted are
  counted in it and within the limit, and the calls admitted before it, within the window, are of one
  earlier counter, because two would be further apart than a window.

The assumptions are: finite sets of players and requests, natural limits (positive where the code
compares a count with them), positive lifetimes of tokens, room capacity of at least 2 (the schema of the create
route asks for it), special values outside the sets they are special for, and spawn points within the world.

**Only model-checked:** the liveness properties `SilentPlayersTimeOut`, `ViewsResync`, `GhostsFade`,
`ShutdownEnds` and `LetInAgain`: liveness under fairness is beyond the prover. **Only proved:** `StreamTypeOK`,
`OnlyTheLateStayOpen`, `UnracedCapacity` and `ClosedForGood` are no properties of a run; the first belongs to an
induction, the others follow from what the runs check or are part of it.

## 6. Where the code and its documentation disagree

Two disagreements are runs that TLC ends with a counterexample.

* `lobby_capacity`: `addMember` counts and inserts without a lock (`prisma-room-repository.ts:121`), so two
  joins that count the same free place both commit; `OverfillBound` says how far this goes.
* `auth_reuse`: revoking all rows of a user misses the row that an exchange in flight is about to insert
  (`auth-service.ts:147`), although the comment there promises to revoke the whole family.

The models have these behaviours too. They were seen while the properties were developed; none is kept
as a run, and the properties above are stated so that they hold in spite of them.

* An input that was accepted can be accepted again when a later one of the same queue had a lower
  number, because a tick validates its queue against the state it began with (`game-session.ts:133`).
* After `request_snapshot` a client may be wrong about `connected` or `ping` until the next full
  snapshot: the next delta is computed against the last tick's record (`game-session.ts:158`).
* A client may be sent world state before `joined` (`gateway.ts:343`).
* Two creations or joins of one player at once put it in two open rooms (`lobby-service.ts:20`), and two
  starts at once write two Session rows per member (`lobby-service.ts:107`).
* A removal may raise a quantity that another removal has lowered (`prisma-inventory-repository.ts:147`).
* Two members who leave at once leave an open room without members (`prisma-room-repository.ts:154`), and a
  start that overlaps the last member's leave reopens a closed room (`prisma-room-repository.ts:207`).
* A logout that meets an exchange of the session ends nothing: the exchange's row comes after it
  (`auth-service.ts:172`).
* A connection whose presence write is rejected stays registered, without handlers and without a presence key
  (`gateway.ts:110`), until the player connects again.
* A shutdown may wait for ever for a connection it did not see (`gateway.ts:65`).
* A connection outlives its token and its sessions: the token is verified once (`gateway.ts:99`).

## 7. Not modelled, and why

* Signatures, bcrypt, the duration parser, the admin key, schemas, error mapping, configuration: computations
  without state. A signature is good or not in `Access`.
* The limiter's verdict is nondeterministic in `Gateway`, which covers every verdict; what it is when is in
  `Access`, where a script that ioredis sends again runs twice in one step: calls of the same key that come in
  between are left out. The HTTP routes' own limit is a plugin (`@fastify/rate-limit`) configured in `app.ts`.
* Reads (leaderboard, ledger, room lists, profiles): no state changes.
* `PlayerService.addExperience` has no caller either: `PlayerRow` has it, as an operation of the repository that would
  run beside credits and debits, so what is said of experience and the leaderboard is about a service not yet wired up.
* `RedisSessionCache`, `updateCoins`, `createTransaction`, `SessionRepository.updateStatus` and
  `endAllForRoom`: no callers.
* Sessions are never destroyed while the process lives (`game-session-manager.ts:20`), and players never removed
  from them: there is no operation to model and no bound to state.
* A second signal during the shutdown, which would run it twice.
* Vectors, rotation and velocity: one axis stands for three; an accepted input changes them together.
* Message sizes, parse errors, load tests, CI.

## 8. Plan

Done: sections 2 to 6, in the order GameSession, SnapshotStream, Lobby, Gateway, Auth, PlayerRow,
Inventory, AtomicRooms, LoginSessions, RateLimiter, Access, Shutdown.

Proved: every safety property of the passing runs (section 5).

What could still be proved: that registered sockets stay fed and counted through a shutdown, once the model
tells a session from the one that a late join creates in its place; and that `SnapshotStream` implements an abstract
replica of the room, which is not written yet.

What could still be modelled: that replica, and the numeric checks of `validateAndApplyMovement` in fixed
point over three axes.
