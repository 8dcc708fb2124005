-------------------------------- MODULE Lobby --------------------------------
(***************************************************************************)
(* Rooms, their members and the start of a game: LobbyService              *)
(* (src/application/services/lobby-service.ts) over the Prisma             *)
(* repositories, called by the HTTP routes of src/api/routes/lobby.ts.     *)
(*                                                                         *)
(* Every request is a sequence of awaited database statements, and the     *)
(* statements of concurrent requests interleave.  PostgreSQL runs them at  *)
(* READ COMMITTED: a statement sees what is committed, a transaction its   *)
(* own writes too, and no statement locks what it merely reads.  A         *)
(* transaction's writes are applied at its commit.                         *)
(*                                                                         *)
(* Data abstraction.  A room's code is the room: the collision loop of     *)
(* createRoom and the unique index make codes distinct.  A Prisma read of  *)
(* a room with its members is one statement.                               *)
(***************************************************************************)
EXTENDS Integers, Sequences, FiniteSets

CONSTANTS
  Players,     \* player ids
  Rooms,       \* the rooms that may ever be created
  Requests,    \* the requests that may be in flight at a time
  MaxPlayers,  \* a room's capacity (2 .. MAX_PLAYERS_PER_ROOM)
  Entrants,    \* bound: the players that open a socket and join a session
  MaxMarked    \* bound: how many rooms and players the histories may mark

ASSUME PlayersAssumption == IsFiniteSet(Players)
ASSUME RequestsAssumption == IsFiniteSet(Requests)
ASSUME MaxPlayersAssumption == MaxPlayers \in Nat /\ MaxPlayers >= 2
ASSUME MarkedAssumption == MaxMarked \in Nat

VARIABLES
  status,    \* Room.status, "NONE" before the room is created
  host,      \* Room.hostId
  members,   \* the RoomMember rows of a room, players by joinedAt
  ready,     \* the players of a room whose row says ready
  sessions,  \* the number of ACTIVE Session rows of a player in a room
  arena,     \* the players the in-memory GameSession of a room was given
  orphaned,  \* history: the rooms whose start failed or that were in progress at a crash
  raced,     \* history: the rooms that two requests in flight were about at once
  crossed,   \* history: the players with two requests in flight at once
  request    \* what each request in flight has done and read so far

rows == <<status, host, members, ready, sessions>>
memory == <<arena, orphaned>>
overlaps == <<raced, crossed>>
vars == <<rows, memory, overlaps, request>>

-----------------------------------------------------------------------------
(* Helpers *)

Elements(s) == {s[i] : i \in DOMAIN s}

\* The sequence s, in which p occurs at most once, without p.
Remove(s, p) ==
  IF p \notin Elements(s) THEN s
  ELSE LET at == CHOOSE i \in DOMAIN s : s[i] = p
       IN  [i \in 1..(Len(s) - 1) |-> IF i < at THEN s[i] ELSE s[i + 1]]

IsMember(p, r) == p \in Elements(members[r])

Open(r) == status[r] \in {"WAITING", "IN_PROGRESS"}

\* findByPlayerId finds one of these, and null when there is none.
OpenRoomsOf(p) == {r \in Rooms : IsMember(p, r) /\ Open(r)}

Idle == [at |-> "idle"]

\* The request goes on to its next statement; it ends, with an answer or an error.
Goto(q, next) == request' = [request EXCEPT ![q] = next]
Finish(q) == Goto(q, Idle)

-----------------------------------------------------------------------------
Init ==
  /\ status = [r \in Rooms |-> "NONE"]
  /\ host \in [Rooms -> Players]
  /\ members = [r \in Rooms |-> << >>]
  /\ ready = [r \in Rooms |-> {}]
  /\ sessions = [r \in Rooms |-> [p \in Players |-> 0]]
  /\ arena = [r \in Rooms |-> {}]
  /\ orphaned = {}
  /\ raced = {}
  /\ crossed = {}
  /\ request = [q \in Requests |-> Idle]

-----------------------------------------------------------------------------
(* createRoom *)

\* Slip: nobody asks whether the player is in a room.
InNoRoomAnyway(p) == TRUE

InNoRoom(p) == OpenRoomsOf(p) = {}

\* findByPlayerId: refused with "Already in a room" otherwise.
CreateCheck(q, p) ==
  /\ request[q] = Idle
  /\ InNoRoom(p)
  /\ Goto(q, [at |-> "create.insert", player |-> p])
  /\ UNCHANGED <<rows, memory>>

\* The room and its first member are inserted by one nested write.
CreateInsert(q, r) ==
  /\ request[q].at = "create.insert"
  /\ status[r] = "NONE"
  /\ LET p == request[q].player IN
     /\ status' = [status EXCEPT ![r] = "WAITING"]
     /\ host' = [host EXCEPT ![r] = p]
     /\ members' = [members EXCEPT ![r] = <<p>>]
  /\ Finish(q)
  /\ UNCHANGED <<ready, sessions, memory>>

\* The transactions that have deleted p's row of r and not committed yet.
Deleting(p, r) ==
  {q \in Requests : /\ request[q].at \in {"leave.count", "leave.heir", "leave.commit"}
                    /\ request[q].player = p
                    /\ request[q].room = r
                    /\ request[q].found}

-----------------------------------------------------------------------------
(* joinRoom *)

JoinCheck(q, p, r) ==
  /\ request[q] = Idle
  /\ InNoRoom(p)
  /\ status[r] # "NONE"
  /\ Goto(q, [at |-> "join.read", player |-> p, room |-> r])
  /\ UNCHANGED <<rows, memory>>

\* Slip: off by one at the last place.
HasPlaceAtLast(r) == Len(members[r]) <= MaxPlayers

HasPlace(r) == Len(members[r]) < MaxPlayers

MayJoin(p, r) ==
  /\ status[r] = "WAITING"
  /\ HasPlace(r)
  /\ ~IsMember(p, r)

\* addMember's transaction reads the room and its members and refuses or goes on.
JoinRead(q) ==
  /\ request[q].at = "join.read"
  /\ LET p == request[q].player
         r == request[q].room
     IN  IF MayJoin(p, r)
         THEN Goto(q, [at |-> "join.insert", player |-> p, room |-> r])
         ELSE Finish(q)
  /\ UNCHANGED <<rows, memory>>

\* The insert commits, unless the unique index on (roomId, playerId) refuses it;
\* it waits for a transaction that is deleting the row it collides with.
JoinInsert(q) ==
  /\ request[q].at = "join.insert"
  /\ LET p == request[q].player
         r == request[q].room
     IN  /\ Deleting(p, r) = {}
         /\ members' = [members EXCEPT ![r] = IF IsMember(p, r) THEN @ ELSE Append(@, p)]
  /\ Finish(q)
  /\ UNCHANGED <<status, host, ready, sessions, memory>>

-----------------------------------------------------------------------------
(* leaveRoom *)

LeaveCheck(q, p) ==
  /\ request[q] = Idle
  /\ \E r \in OpenRoomsOf(p) : Goto(q, [at |-> "leave.read", player |-> p, room |-> r])
  /\ UNCHANGED <<rows, memory>>

\* removeMember's transaction reads the room, and with it who its host is.
LeaveRead(q) ==
  /\ request[q].at = "leave.read"
  /\ LET p == request[q].player
         r == request[q].room
     IN  Goto(q, [at |-> "leave.delete", player |-> p, room |-> r, wasHost |-> host[r] = p])
  /\ UNCHANGED <<rows, memory>>

\* Slip: the delete is a statement of its own, committed at once.
LeaveDeleteAtOnce(q) ==
  /\ request[q].at = "leave.delete"
  /\ LET p == request[q].player
         r == request[q].room
     IN  /\ members' = [members EXCEPT ![r] = Remove(@, p)]
         /\ ready' = [ready EXCEPT ![r] = @ \ {p}]
         /\ Goto(q, [at |-> "leave.count", player |-> p, room |-> r,
                     wasHost |-> request[q].wasHost, found |-> FALSE])
  /\ UNCHANGED <<status, host, sessions, memory>>

\* It deletes the row, if it is there.  A delete of the same row waits for the
\* commit of the one before it.
LeaveDelete(q) ==
  /\ request[q].at = "leave.delete"
  /\ LET p == request[q].player
         r == request[q].room
     IN  /\ Deleting(p, r) = {}
         /\ Goto(q, [at |-> "leave.count", player |-> p, room |-> r,
                     wasHost |-> request[q].wasHost, found |-> IsMember(p, r)])
  /\ UNCHANGED <<rows, memory>>

\* The members the transaction sees after its delete.  The rows that other
\* transactions delete are still there.
Remaining(q) ==
  LET r == request[q].room
  IN  IF request[q].found THEN Remove(members[r], request[q].player) ELSE members[r]

\* It counts the rows: with none left the room is to be closed, and a host's room
\* is to be handed on.
LeaveCount(q) ==
  /\ request[q].at = "leave.count"
  /\ LET empty == Remaining(q) = << >>
     IN  Goto(q, [at |-> IF request[q].wasHost /\ ~empty THEN "leave.heir" ELSE "leave.commit",
                  player |-> request[q].player, room |-> request[q].room,
                  found |-> request[q].found, empty |-> empty, heirs |-> {}])
  /\ UNCHANGED <<rows, memory>>

\* It finds the oldest of the remaining members, unless they have left since.
LeaveHeir(q) ==
  /\ request[q].at = "leave.heir"
  /\ Goto(q, [request[q] EXCEPT
       !.at = "leave.commit",
       !.heirs = IF Remaining(q) = << >> THEN {} ELSE {Head(Remaining(q))}])
  /\ UNCHANGED <<rows, memory>>

\* What the transaction leaves of the room.
Closed(q) == [status EXCEPT ![request[q].room] = IF request[q].empty THEN "CLOSED" ELSE @]

HandedOn(q) ==
  [host EXCEPT ![request[q].room] = IF request[q].heirs = {} THEN @
                                    ELSE CHOOSE p \in request[q].heirs : TRUE]

\* Slip: the ready flag outlives the row of the member.
StillReadyAll(q) == ready

StillReady(q) ==
  [ready EXCEPT ![request[q].room] = IF request[q].found THEN @ \ {request[q].player} ELSE @]

\* It commits.
LeaveCommit(q) ==
  /\ request[q].at = "leave.commit"
  /\ members' = [members EXCEPT ![request[q].room] = Remaining(q)]
  /\ ready' = StillReady(q)
  /\ status' = Closed(q)
  /\ host' = HandedOn(q)
  /\ Finish(q)
  /\ UNCHANGED <<sessions, memory>>

-----------------------------------------------------------------------------
(* setReady *)

ReadyCheck(q, p, value) ==
  /\ request[q] = Idle
  /\ \E r \in OpenRoomsOf(p) :
       /\ status[r] = "WAITING"
       /\ Goto(q, [at |-> "ready.write", player |-> p, room |-> r, value |-> value])
  /\ UNCHANGED <<rows, memory>>

\* The row is found and updated, or is gone and the request fails.
ReadyWrite(q) ==
  /\ request[q].at = "ready.write"
  /\ LET p == request[q].player
         r == request[q].room
     IN  ready' = [ready EXCEPT ![r] = IF ~IsMember(p, r) THEN @
                                       ELSE IF request[q].value THEN @ \cup {p}
                                       ELSE @ \ {p}]
  /\ Finish(q)
  /\ UNCHANGED <<status, host, members, sessions, memory>>

-----------------------------------------------------------------------------
(* startGame *)

MayStart(p, r) ==
  /\ host[r] = p
  /\ status[r] = "WAITING"
  /\ Elements(members[r]) \subseteq ready[r] \cup {host[r]}

\* Slip: rows for those who are ready; the host need not be.
SeenReady(r) == ready[r]

\* The members there will be Session rows for.
Seen(r) == Elements(members[r])

\* All checks are made on one read of the room.
StartCheck(q, p) ==
  /\ request[q] = Idle
  /\ \E r \in OpenRoomsOf(p) :
       /\ MayStart(p, r)
       /\ Goto(q, [at |-> "start.status", room |-> r, seen |-> Seen(r)])
  /\ UNCHANGED <<rows, memory>>

\* updateStatus writes unconditionally and returns the members as they are now.
StartStatus(q) ==
  /\ request[q].at = "start.status"
  /\ LET r == request[q].room IN
     /\ status' = [status EXCEPT ![r] = "IN_PROGRESS"]
     /\ Goto(q, [at |-> "start.rows", room |-> r, todo |-> request[q].seen,
                 updated |-> Elements(members[r])])
  /\ UNCHANGED <<host, members, ready, sessions, memory>>

\* sessions.create
Recorded(r, p) == [sessions EXCEPT ![r][p] = @ + 1]

\* One Session row is inserted for each member of the first read, in any order.
StartRow(q, p) ==
  /\ request[q].at = "start.rows"
  /\ p \in request[q].todo
  /\ sessions' = Recorded(request[q].room, p)
  /\ Goto(q, [request[q] EXCEPT !.todo = @ \ {p}])
  /\ UNCHANGED <<status, host, members, ready, memory>>

\* One of the inserts fails: the others are made all the same, the status stays,
\* and the route answers with the error instead of going on.
StartRowFails(q, p) ==
  /\ request[q].at = "start.rows"
  /\ p \in request[q].todo
  /\ Goto(q, [request[q] EXCEPT !.todo = @ \ {p}, !.updated = {}])
  /\ orphaned' = orphaned \cup {request[q].room}
  /\ UNCHANGED <<rows, arena>>

\* The route then gives the GameSession every member updateStatus returned.
StartArena(q) ==
  /\ request[q].at = "start.rows"
  /\ request[q].todo = {}
  /\ arena' = [arena EXCEPT ![request[q].room] = @ \cup request[q].updated]
  /\ Finish(q)
  /\ UNCHANGED <<rows, orphaned>>

-----------------------------------------------------------------------------
(* join_session of the gateway *)

\* Slip: anybody may watch a room that is open.
MayEnterAnybody(p, r) == Open(r)

MayEnter(p, r) == IsMember(p, r) /\ Open(r)

\* getRoom reads the room; the player must be a member of a room that is open.
EnterCheck(q, p, r) ==
  /\ request[q] = Idle
  /\ p \in Entrants
  /\ MayEnter(p, r)
  /\ Goto(q, [at |-> "enter", player |-> p, room |-> r])
  /\ UNCHANGED <<rows, memory>>

\* Once it is answered the session is given the player, whatever the room is now.
Enter(q) ==
  /\ request[q].at = "enter"
  /\ arena' = [arena EXCEPT ![request[q].room] = @ \cup {request[q].player}]
  /\ Finish(q)
  /\ UNCHANGED <<rows, orphaned>>

\* Any other statement fails, and its transaction rolls back.
Fail(q) ==
  /\ request[q].at \notin {"idle", "start.rows"}
  /\ Finish(q)
  /\ UNCHANGED <<rows, memory>>

-----------------------------------------------------------------------------
(* Which requests have met *)

About(x) == {v \in Rooms \cup Players :
               \/ "room" \in DOMAIN x /\ x.room = v
               \/ "player" \in DOMAIN x /\ x.player = v}

Met == UNION {UNION {About(request'[q]) \cap About(request'[x]) : x \in Requests \ {q}} : q \in Requests}

\* Once two requests have met, or a crash has come, the histories remember it; the
\* bound ends behaviours in which that happens all over the place.
Marked == Cardinality(raced) + Cardinality(crossed) + Cardinality(orphaned)

Watch ==
  /\ raced' = raced \cup (Met \cap Rooms)
  /\ crossed' = crossed \cup (Met \cap Players)
  /\ Marked' <= MaxMarked

Statement(q) ==
    \/ JoinRead(q)
    \/ JoinInsert(q)
    \/ LeaveRead(q)
    \/ LeaveDelete(q)
    \/ LeaveCount(q)
    \/ LeaveHeir(q)
    \/ LeaveCommit(q)
    \/ ReadyWrite(q)
    \/ StartStatus(q)
    \/ StartArena(q)
    \/ Enter(q)
    \/ Fail(q)
    \/ \E r \in Rooms : CreateInsert(q, r)
    \/ \E p \in Players :
         \/ CreateCheck(q, p)
         \/ LeaveCheck(q, p)
         \/ StartCheck(q, p)
         \/ StartRow(q, p)
         \/ StartRowFails(q, p)
         \/ \E r \in Rooms : JoinCheck(q, p, r) \/ EnterCheck(q, p, r)
         \/ \E value \in BOOLEAN : ReadyCheck(q, p, value)

Next == (\E q \in Requests : Statement(q)) /\ Watch

Spec == Init /\ [][Next]_vars

\* The server process dies: the requests and the in-memory sessions are gone,
\* the transactions that have not committed roll back.
Crash ==
  /\ request' = [q \in Requests |-> Idle]
  /\ arena' = [r \in Rooms |-> {}]
  /\ orphaned' = orphaned \cup {r \in Rooms : status[r] = "IN_PROGRESS"}
  /\ UNCHANGED <<rows, overlaps>>
  /\ Marked' <= MaxMarked

CrashSpec == Init /\ [][Next \/ Crash]_vars

-----------------------------------------------------------------------------
(* Properties *)

\* The tables have their types; no player has two rows in one room.
TypeOK ==
  /\ status \in [Rooms -> {"NONE", "WAITING", "IN_PROGRESS", "CLOSED"}]
  /\ host \in [Rooms -> Players]
  /\ members \in [Rooms -> Seq(Players)]
  /\ \A r \in Rooms : \A i, j \in DOMAIN members[r] : members[r][i] = members[r][j] => i = j
  /\ ready \in [Rooms -> SUBSET Players]
  /\ \A r \in Rooms : ready[r] \subseteq Elements(members[r])
  /\ sessions \in [Rooms -> [Players -> Nat]]
  /\ arena \in [Rooms -> SUBSET Players]
  /\ orphaned \subseteq Rooms
  /\ raced \subseteq Rooms
  /\ crossed \subseteq Players
  /\ DOMAIN request = Requests

\* What README.md's "capacity checks" promises: a room holds no more players than
\* its capacity.
Capacity == \A r \in Rooms : Len(members[r]) <= MaxPlayers

\* Rooms that no two requests are about at once behave as if create, join, leave,
\* ready and start were indivisible, through every crash and whatever happens in
\* other rooms: a room is filled to its capacity at most, is handed on by a leaving
\* host, is closed by its last member and never opens again.
Atomic == INSTANCE AtomicRooms WITH disturbed <- raced

ActsAtomically == Atomic!Spec

\* A player whose own requests never overlap is in one open room at most ("prevents
\* creating a room while already in one", tests/unit/lobby-service.test.ts), apart
\* from rooms that others' requests raced for and that may have been reopened.
OneOpenRoom ==
  \A p \in Players \ crossed : \A r, x \in OpenRoomsOf(p) : r = x \/ {r, x} \cap raced # {}

\* A room that is open has somebody in it and its host among them, so that it can
\* be started and is closed in the end: two leaves, or a leave and a start, must
\* have met in a room for it to be open and deserted.
OpenRoomsHaveTheirHost == \A r \in Rooms \ raced : Open(r) => IsMember(host[r], r)

\* Nobody enters the in-memory game of a room it has left, or of a closed one,
\* unless the leave and the entry, or the start, were in flight together.
EntrantsAreMembers ==
  [][\A r \in Rooms \ raced' : \A p \in arena'[r] \ arena[r] : IsMember(p, r) /\ Open(r)]_vars

\* The joins that have passed the capacity check of r and not inserted yet.
Inserting(r) ==
  {q \in Requests : request[q].at = "join.insert" /\ request[q].room = r}

\* What the capacity check guarantees when requests do interleave: each request
\* in flight may overfill a room by one player beyond the last free place.
OverfillBound ==
  \A r \in Rooms :
    Len(members[r]) + Cardinality(Inserting(r)) <= MaxPlayers - 1 + Cardinality(Requests)

\* The starts of r that will still write a Session row for p.
Recording(r, p) ==
  {q \in Requests : \/ /\ request[q].at = "start.status"
                       /\ request[q].room = r
                       /\ p \in request[q].seen
                    \/ /\ request[q].at = "start.rows"
                       /\ request[q].room = r
                       /\ p \in request[q].todo}

\* Who a start records.  A game that several starts found waiting is recorded once
\* by each of them and never again: no start finds the room waiting once one of
\* them has written.  And once no request is in flight, every member of a started
\* room has exactly one session row and was given to the in-memory session, unless
\* one of the inserts failed, a crash came, or requests met in the room.
StartRecordsEveryMember ==
  /\ \A r \in Rooms : \A p \in Players :
       sessions[r][p] + Cardinality(Recording(r, p)) <= Cardinality(Requests)
  /\ (\A q \in Requests : request[q] = Idle) =>
       \A r \in Rooms \ (orphaned \cup raced) : status[r] = "IN_PROGRESS" =>
         \A p \in Elements(members[r]) : sessions[r][p] = 1 /\ p \in arena[r]
=============================================================================
