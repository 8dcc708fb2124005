---------------------------- MODULE AtomicRooms ----------------------------
(***************************************************************************)
(* What the lobby promises of a room: create, join, leave, ready and start *)
(* are each one indivisible step on the room's row and its members, as the *)
(* rules of LobbyService (src/application/services/lobby-service.ts) read  *)
(* when no statement of another request comes in between.  Nothing is      *)
(* promised of a room once it has been disturbed.  Lobby implements this   *)
(* with disturbed <- raced.                                                *)
(***************************************************************************)
EXTENDS Integers, Sequences

CONSTANTS Players, Rooms, MaxPlayers

VARIABLES
  status, host, members, ready,  \* the row of a room, as in Lobby
  disturbed                      \* the rooms of which nothing is promised

vars == <<status, host, members, ready, disturbed>>

MembersOf(r) == {members[r][i] : i \in DOMAIN members[r]}

\* The members of r without the i-th, in the order in which they joined.
Others(r, i) == SubSeq(members[r], 1, i - 1) \o SubSeq(members[r], i + 1, Len(members[r]))

\* The row of r becomes this, and every other room keeps its own.
RoomBecomes(r, s, h, m, y) ==
  /\ status' = [status EXCEPT ![r] = s]
  /\ host' = [host EXCEPT ![r] = h]
  /\ members' = [members EXCEPT ![r] = m]
  /\ ready' = [ready EXCEPT ![r] = y]

Init ==
  /\ status = [r \in Rooms |-> "NONE"]
  /\ host \in [Rooms -> Players]
  /\ members = [r \in Rooms |-> << >>]
  /\ ready = [r \in Rooms |-> {}]
  /\ disturbed = {}

Create(r, p) ==
  /\ status[r] = "NONE"
  /\ RoomBecomes(r, "WAITING", p, <<p>>, {})

Join(r, p) ==
  /\ status[r] = "WAITING"
  /\ p \notin MembersOf(r)
  /\ Len(members[r]) < MaxPlayers
  /\ RoomBecomes(r, status[r], host[r], Append(members[r], p), ready[r])

\* The last member closes the room, the host hands it on to the oldest other one.
Leave(r, p) ==
  /\ status[r] \in {"WAITING", "IN_PROGRESS"}
  /\ \E i \in DOMAIN members[r] :
       /\ members[r][i] = p
       /\ LET rest == Others(r, i) IN
          RoomBecomes(r, IF rest = << >> THEN "CLOSED" ELSE status[r],
                      IF p = host[r] /\ rest # << >> THEN Head(rest) ELSE host[r],
                      rest, ready[r] \ {p})

SetReady(r, p, value) ==
  /\ status[r] = "WAITING"
  /\ p \in MembersOf(r)
  /\ RoomBecomes(r, status[r], host[r], members[r],
                 IF value THEN ready[r] \cup {p} ELSE ready[r] \ {p})

Start(r) ==
  /\ status[r] = "WAITING"
  /\ MembersOf(r) \subseteq ready[r] \cup {host[r]}
  /\ RoomBecomes(r, "IN_PROGRESS", host[r], members[r], ready[r])

Operation(r) ==
  \/ Start(r)
  \/ \E p \in Players :
       \/ Create(r, p)
       \/ Join(r, p)
       \/ Leave(r, p)
       \/ \E value \in BOOLEAN : SetReady(r, p, value)

\* Further rooms are disturbed; a disturbed room does as it likes.
Disturb ==
  /\ disturbed \subseteq disturbed'
  /\ \A r \in Rooms \ disturbed' :
       /\ status'[r] = status[r]
       /\ host'[r] = host[r]
       /\ members'[r] = members[r]
       /\ ready'[r] = ready[r]

Next ==
  \/ \E r \in Rooms \ disturbed : Operation(r) /\ UNCHANGED disturbed
  \/ Disturb

Spec == Init /\ [][Next]_vars
=============================================================================
