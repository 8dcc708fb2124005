----------------------------- MODULE Lobby_proofs -----------------------------
(***************************************************************************)
(* Theorems about Lobby for any players, rooms, capacity, number of        *)
(* requests in flight and bound on the histories, with crashes.            *)
(***************************************************************************)
EXTENDS Lobby, FiniteSetTheorems, SequenceTheorems, TLAPS

-----------------------------------------------------------------------------
(* Sequences of members *)

Distinct(s) == \A i, j \in DOMAIN s : s[i] = s[j] => i = j

\* Remove drops the one place of p and keeps the order of the others.
LEMMA RemoveAtPlace ==
  ASSUME NEW S, NEW s \in Seq(S), Distinct(s), NEW i \in DOMAIN s
  PROVE  Remove(s, s[i]) = [j \in 1..(Len(s) - 1) |-> IF j < i THEN s[j] ELSE s[j + 1]]
<1>1. s[i] \in Elements(s)
  BY DEF Elements
<1>2. (CHOOSE j \in DOMAIN s : s[j] = s[i]) = i
  BY DEF Distinct
<1> QED BY <1>1, <1>2 DEF Remove

LEMMA RemoveTyped ==
  ASSUME NEW S, NEW s \in Seq(S), Distinct(s), NEW p
  PROVE  /\ Remove(s, p) \in Seq(S)
         /\ Distinct(Remove(s, p))
         /\ Elements(Remove(s, p)) = Elements(s) \ {p}
         /\ p \in Elements(s) => Len(Remove(s, p)) = Len(s) - 1
         /\ Len(Remove(s, p)) <= Len(s)
<1>1. CASE p \notin Elements(s)
  BY <1>1 DEF Remove
<1>2. CASE p \in Elements(s)
  <2>1. PICK i \in DOMAIN s : s[i] = p
    BY <1>2 DEF Elements
  <2> DEFINE t == [j \in 1..(Len(s) - 1) |-> IF j < i THEN s[j] ELSE s[j + 1]]
  <2>2. Remove(s, p) = t
    BY <2>1, RemoveAtPlace
  <2>3. Len(s) \in Nat /\ DOMAIN s = 1..Len(s) /\ i \in 1..Len(s) /\ \A j \in 1..Len(s) : s[j] \in S
    BY <2>1
  <2>4. DOMAIN t = 1..(Len(s) - 1) /\ \A j \in DOMAIN t : t[j] = IF j < i THEN s[j] ELSE s[j + 1]
    OBVIOUS
  <2>5. Len(s) - 1 \in Nat
    BY <2>3
  <2>6. \A j \in 1..(Len(s) - 1) : t[j] \in S
    BY <2>3, <2>4
  <2>7. t \in Seq(S) /\ Len(t) = Len(s) - 1
    BY <2>5, <2>6
  <2>8. Distinct(t)
    <3> SUFFICES ASSUME NEW j \in DOMAIN t, NEW k \in DOMAIN t, t[j] = t[k]
                 PROVE  j = k
      BY DEF Distinct
    <3>1. j \in 1..(Len(s) - 1) /\ k \in 1..(Len(s) - 1)
      BY <2>4
    <3>2. j \in DOMAIN s /\ j + 1 \in DOMAIN s /\ k \in DOMAIN s /\ k + 1 \in DOMAIN s
      BY <2>3, <3>1
    <3> DEFINE a == IF j < i THEN j ELSE j + 1
               b == IF k < i THEN k ELSE k + 1
    <3>3. s[a] = s[b] /\ a \in DOMAIN s /\ b \in DOMAIN s
      BY <2>4, <3>1, <3>2
    <3>4. a = b
      BY <3>3 DEF Distinct
    <3> QED BY <2>3, <3>1, <3>4
  <2>9. Elements(t) = Elements(s) \ {p}
    <3>1. ASSUME NEW j \in DOMAIN t
          PROVE  t[j] \in Elements(s) \ {p}
      <4>1. j \in 1..(Len(s) - 1)
        BY <2>4
      <4> DEFINE a == IF j < i THEN j ELSE j + 1
      <4>2. t[j] = s[a] /\ a \in DOMAIN s /\ a # i
        BY <2>3, <2>4, <4>1
      <4> QED BY <2>1, <4>2 DEF Distinct, Elements
    <3>2. ASSUME NEW k \in DOMAIN s, s[k] # p
          PROVE  s[k] \in Elements(t)
      <4>1. k \in 1..Len(s) /\ k # i
        BY <2>1, <2>3, <3>2
      <4> DEFINE a == IF k < i THEN k ELSE k - 1
      <4>2. a \in DOMAIN t /\ t[a] = s[k]
        <5>1. CASE k < i
          BY <2>3, <2>4, <4>1, <5>1
        <5>2. CASE ~(k < i)
          BY <2>3, <2>4, <4>1, <5>2
        <5> QED BY <5>1, <5>2
      <4> QED BY <4>2 DEF Elements
    <3> QED BY <3>1, <3>2 DEF Elements
  <2> QED BY <2>2, <2>3, <2>7, <2>8, <2>9
<1> QED BY <1>1, <1>2

LEMMA AppendTyped ==
  ASSUME NEW S, NEW s \in Seq(S), NEW p \in S
  PROVE  /\ Append(s, p) \in Seq(S) /\ Len(Append(s, p)) = Len(s) + 1
         /\ Elements(Append(s, p)) = Elements(s) \cup {p}
         /\ Distinct(s) /\ p \notin Elements(s) => Distinct(Append(s, p))
<1>1. /\ Append(s, p) \in Seq(S) /\ Len(s) \in Nat /\ Len(Append(s, p)) = Len(s) + 1
      /\ DOMAIN s = 1..Len(s) /\ DOMAIN Append(s, p) = 1..(Len(s) + 1)
      /\ \A i \in 1..(Len(s) + 1) : Append(s, p)[i] = IF i <= Len(s) THEN s[i] ELSE p
  OBVIOUS
<1>2. Elements(Append(s, p)) = Elements(s) \cup {p}
  <2>1. Len(s) + 1 \in 1..(Len(s) + 1) /\ Append(s, p)[Len(s) + 1] = p
    BY <1>1
  <2>2. \A i \in 1..Len(s) : i \in 1..(Len(s) + 1) /\ Append(s, p)[i] = s[i]
    BY <1>1
  <2>3. \A i \in 1..(Len(s) + 1) : i \in 1..Len(s) \/ Append(s, p)[i] = p
    BY <1>1
  <2> QED BY <1>1, <2>1, <2>2, <2>3 DEF Elements
<1>3. ASSUME Distinct(s), p \notin Elements(s), NEW i \in DOMAIN Append(s, p),
             NEW j \in DOMAIN Append(s, p), Append(s, p)[i] = Append(s, p)[j]
      PROVE  i = j
  <2>1. i \in 1..(Len(s) + 1) /\ j \in 1..(Len(s) + 1)
    BY <1>1
  <2>2. \A k \in 1..Len(s) : s[k] # p
    BY <1>1, <1>3 DEF Elements
  <2> QED BY <1>1, <1>3, <2>1, <2>2 DEF Distinct
<1> QED BY <1>1, <1>2, <1>3 DEF Distinct

LEMMA OneMember ==
  ASSUME NEW S, NEW p \in S
  PROVE  <<p>> \in Seq(S) /\ Distinct(<<p>>) /\ Elements(<<p>>) = {p} /\ Len(<<p>>) = 1
<1>1. DOMAIN <<p>> = {1} /\ <<p>>[1] = p
  OBVIOUS
<1> QED BY <1>1 DEF Distinct, Elements

LEMMA NoMember ==
  ASSUME NEW S
  PROVE  /\ << >> \in Seq(S) /\ Distinct(<< >>) /\ Elements(<< >>) = {} /\ Len(<< >>) = 0
         /\ \A s \in Seq(S) : Elements(s) = {} => s = << >>
<1>1. DOMAIN << >> = {}
  OBVIOUS
<1>2. \A s \in Seq(S) : DOMAIN s = 1..Len(s) /\ Len(s) \in Nat
  OBVIOUS
<1>3. ASSUME NEW s \in Seq(S), Elements(s) = {}
      PROVE  s = << >>
  <2>1. \A i \in 1..Len(s) : FALSE
    BY <1>2, <1>3 DEF Elements
  <2>2. Len(s) = 0
    BY <1>2, <2>1
  <2> QED BY <2>2
<1> QED BY <1>1, <1>3 DEF Distinct, Elements

-----------------------------------------------------------------------------
(* Types: what a request in flight holds, by the statement it has come to *)

Creating == [at : {"create.insert"}, player : Players]
Plain == [at : {"join.read", "join.insert", "leave.read", "enter"}, player : Players, room : Rooms]
LeaveDeleting == [at : {"leave.delete"}, player : Players, room : Rooms, wasHost : BOOLEAN]
LeaveCounting ==
  [at : {"leave.count"}, player : Players, room : Rooms, wasHost : BOOLEAN, found : BOOLEAN]
LeaveEnding ==
  [at : {"leave.heir", "leave.commit"}, player : Players, room : Rooms,
   found : BOOLEAN, empty : BOOLEAN, heirs : SUBSET Players]
ReadyWriting == [at : {"ready.write"}, player : Players, room : Rooms, value : BOOLEAN]
StartMarking == [at : {"start.status"}, room : Rooms, seen : SUBSET Players]
StartRecording == [at : {"start.rows"}, room : Rooms, todo : SUBSET Players, updated : SUBSET Players]

Processing ==
  {Idle} \cup Creating \cup Plain \cup LeaveDeleting \cup LeaveCounting \cup LeaveEnding
         \cup ReadyWriting \cup StartMarking \cup StartRecording

\* The request q is about the room r; about the player p.
InRoom(q, r) == request[q].at \notin {"idle", "create.insert"} /\ request[q].room = r
OfPlayer(q, p) ==
  request[q].at \notin {"idle", "start.status", "start.rows"} /\ request[q].player = p

Statuses == {"NONE", "WAITING", "IN_PROGRESS", "CLOSED"}
Started == {"IN_PROGRESS", "CLOSED"}

\* The tables: TypeOK, and what has not happened yet has left no rows.
RowsOK ==
  /\ status \in [Rooms -> Statuses]
  /\ host \in [Rooms -> Players]
  /\ members \in [Rooms -> Seq(Players)]
  /\ \A r \in Rooms : Distinct(members[r])
  /\ ready \in [Rooms -> SUBSET Players]
  /\ \A r \in Rooms : ready[r] \subseteq Elements(members[r])
  /\ sessions \in [Rooms -> [Players -> Nat]]
  /\ \A r \in Rooms : status[r] = "NONE" => members[r] = << >>
  /\ \A r \in Rooms : status[r] \notin Started => \A p \in Players : sessions[r][p] = 0

MemoryOK ==
  /\ arena \in [Rooms -> SUBSET Players]
  /\ orphaned \subseteq Rooms
  /\ raced \subseteq Rooms
  /\ crossed \subseteq Players

\* The requests: a room that a request is about exists, and is past waiting once a
\* start has marked it.
RequestsOK ==
  /\ request \in [Requests -> Processing]
  /\ \A q \in Requests :
       /\ request[q].at \notin {"idle", "create.insert"} => status[request[q].room] # "NONE"
       /\ request[q].at = "start.rows" => status[request[q].room] \in Started

TInv == RowsOK /\ MemoryOK /\ RequestsOK

LEMMA TInvImplies == TInv => TypeOK
BY DEF TInv, RowsOK, MemoryOK, RequestsOK, TypeOK, Distinct, Statuses

LEMMA IdleIs == Idle \in Processing /\ Idle.at = "idle"
BY DEF Idle, Processing

\* What the position of a request says of its data.
LEMMA Kinds ==
  ASSUME NEW x \in Processing
  PROVE  /\ x.at = "idle" => x = Idle
         /\ x.at = "create.insert" => x \in Creating
         /\ x.at \in {"join.read", "join.insert", "leave.read", "enter"} => x \in Plain
         /\ x.at = "leave.delete" => x \in LeaveDeleting
         /\ x.at = "leave.count" => x \in LeaveCounting
         /\ x.at \in {"leave.heir", "leave.commit"} => x \in LeaveEnding
         /\ x.at = "ready.write" => x \in ReadyWriting
         /\ x.at = "start.status" => x \in StartMarking
         /\ x.at = "start.rows" => x \in StartRecording
BY DEF Processing, Idle, Creating, Plain, LeaveDeleting, LeaveCounting, LeaveEnding, ReadyWriting,
       StartMarking, StartRecording

LEMMA RoomAndPlayer ==
  ASSUME NEW x \in Processing
  PROVE  /\ x.at \notin {"idle", "create.insert"} => x.room \in Rooms /\ "room" \in DOMAIN x
         /\ x.at \notin {"idle", "start.status", "start.rows"} =>
              x.player \in Players /\ "player" \in DOMAIN x
<1> USE DEF Processing, Idle, Creating, Plain, LeaveDeleting, LeaveCounting, LeaveEnding,
            ReadyWriting, StartMarking, StartRecording
<1>1. x.at \notin {"idle", "create.insert"} => x.room \in Rooms
  OBVIOUS
<1>2. x.at \notin {"idle", "create.insert"} => "room" \in DOMAIN x
  OBVIOUS
<1>3. x.at \notin {"idle", "start.status", "start.rows"} => x.player \in Players
  OBVIOUS
<1>4. x.at \notin {"idle", "start.status", "start.rows"} => "player" \in DOMAIN x
  OBVIOUS
<1> QED BY <1>1, <1>2, <1>3, <1>4

\* One request goes on; the status of a room never goes back.
LEMMA RequestsMove ==
  ASSUME RequestsOK, NEW q \in Requests, NEW next \in Processing, Goto(q, next),
         \A r \in Rooms : /\ status[r] # "NONE" => status'[r] # "NONE"
                          /\ status[r] \in Started => status'[r] \in Started,
         next.at \notin {"idle", "create.insert"} => status'[next.room] # "NONE",
         next.at = "start.rows" => status'[next.room] \in Started
  PROVE  /\ RequestsOK'
         /\ request'[q] = next
         /\ \A x \in Requests \ {q} : request'[x] = request[x]
<1>1. request' = [request EXCEPT ![q] = next] /\ request \in [Requests -> Processing]
  BY DEF Goto, RequestsOK
<1>2. request'[q] = next /\ \A x \in Requests \ {q} : request'[x] = request[x]
  BY <1>1
<1>3. request' \in [Requests -> Processing]
  BY <1>1
<1>4. ASSUME NEW x \in Requests
      PROVE  /\ request'[x].at \notin {"idle", "create.insert"} => status'[request'[x].room] # "NONE"
             /\ request'[x].at = "start.rows" => status'[request'[x].room] \in Started
  <2>1. CASE x = q
    BY <1>2, <2>1
  <2>2. CASE x # q
    <3>1. request'[x] = request[x] /\ request[x] \in Processing
      BY <1>1, <1>2, <2>2
    <3> QED BY <3>1, RoomAndPlayer DEF RequestsOK
  <2> QED BY <2>1, <2>2
<1> QED BY <1>2, <1>3, <1>4 DEF RequestsOK

-----------------------------------------------------------------------------
(* What a request knows of a room that no two requests have raced for *)

Rest(p, r) == Remove(members[r], p)

\* The room is open with its host in it, or has no members.
Settled(r) ==
  /\ Open(r) => IsMember(host[r], r)
  /\ status[r] = "CLOSED" => members[r] = << >>

\* What a request x has read of r still holds.
Knows(x, r) ==
  /\ x.at = "join.insert" => MayJoin(x.player, r)
  /\ x.at \in {"leave.read", "leave.delete", "leave.count", "leave.heir", "leave.commit", "enter"} =>
       IsMember(x.player, r) /\ Open(r)
  /\ x.at \in {"leave.delete", "leave.count"} => (x.wasHost = TRUE <=> host[r] = x.player)
  /\ x.at \in {"leave.count", "leave.heir", "leave.commit"} => x.found = TRUE
  /\ x.at = "leave.heir" => host[r] = x.player /\ x.empty = FALSE
  /\ x.at \in {"leave.heir", "leave.commit"} => (x.empty = TRUE <=> Rest(x.player, r) = << >>)
  /\ x.at = "leave.commit" =>
       x.heirs = IF host[r] = x.player /\ x.empty = FALSE THEN {Head(Rest(x.player, r))} ELSE {}
  /\ x.at = "ready.write" => IsMember(x.player, r) /\ status[r] = "WAITING"
  /\ x.at = "start.status" => /\ MayStart(host[r], r) /\ IsMember(host[r], r)
                              /\ x.seen = Elements(members[r])
  /\ x.at = "start.rows" => /\ status[r] = "IN_PROGRESS"
                            /\ x.todo \subseteq Elements(members[r])
                            /\ x.updated \subseteq Elements(members[r])

\* The request goes on to next and has changed nothing: it is about the same room
\* as before, if about one, and knows as much of it.
Moves(q, next) ==
  /\ Goto(q, next)
  /\ UNCHANGED <<rows, memory>>
  /\ request[q].at # "start.rows" /\ next.at # "start.rows"
  /\ next.at \notin {"idle", "create.insert"} =>
       /\ status[next.room] # "NONE"
       /\ request[q] = Idle \/ InRoom(q, next.room)
       /\ request[q] = Idle \/ Knows(request[q], next.room) => Knows(next, next.room)
  /\ next.at \in {"create.insert", "join.read", "join.insert"} =>
       \/ request[q] = Idle /\ InNoRoom(next.player)
       \/ request[q].at = "join.read" /\ request[q].player = next.player
  /\ next.at = "join.insert" => Len(members[next.room]) < MaxPlayers
  /\ next.at = "start.status" => status[next.room] = "WAITING"

LEMMA PlainMove ==
  ASSUME NEW a \in {"join.read", "join.insert", "leave.read", "enter"},
         NEW p \in Players, NEW r \in Rooms
  PROVE  /\ [at |-> a, player |-> p, room |-> r] \in Processing
         /\ [at |-> a, player |-> p, room |-> r].at = a
         /\ [at |-> a, player |-> p, room |-> r].player = p
         /\ [at |-> a, player |-> p, room |-> r].room = r
<1>1. [at |-> a, player |-> p, room |-> r] \in Plain
  BY DEF Plain
<1> QED BY <1>1 DEF Processing

LEMMA CheckMoves ==
  ASSUME TInv, NEW q \in Requests, NEW p \in Players,
         \/ CreateCheck(q, p)
         \/ LeaveCheck(q, p)
         \/ \E r \in Rooms : JoinCheck(q, p, r) \/ EnterCheck(q, p, r)
  PROVE  \E next \in Processing : Moves(q, next)
<1>1. CASE CreateCheck(q, p)
  <2> DEFINE next == [at |-> "create.insert", player |-> p]
  <2>1. next \in Processing /\ next.at = "create.insert" /\ next.player = p
    BY DEF Processing, Creating
  <2>2. Goto(q, next) /\ UNCHANGED <<rows, memory>> /\ request[q] = Idle /\ InNoRoom(p)
    BY <1>1 DEF CreateCheck
  <2> HIDE DEF next
  <2> QED BY <2>1, <2>2, IdleIs DEF Moves
<1>2. ASSUME NEW r \in Rooms, JoinCheck(q, p, r)
      PROVE  \E next \in Processing : Moves(q, next)
  <2> DEFINE next == [at |-> "join.read", player |-> p, room |-> r]
  <2>1. next \in Processing /\ next.at = "join.read" /\ next.player = p /\ next.room = r
    BY PlainMove
  <2>2. /\ Goto(q, next) /\ UNCHANGED <<rows, memory>> /\ request[q] = Idle /\ InNoRoom(p)
        /\ status[r] # "NONE"
    BY <1>2 DEF JoinCheck
  <2> HIDE DEF next
  <2>3. Knows(next, r)
    BY <2>1 DEF Knows
  <2> QED BY <2>1, <2>2, <2>3, IdleIs DEF Moves
<1>3. CASE LeaveCheck(q, p)
  <2>1. PICK x \in OpenRoomsOf(p) : Goto(q, [at |-> "leave.read", player |-> p, room |-> x])
    BY <1>3 DEF LeaveCheck
  <2> DEFINE next == [at |-> "leave.read", player |-> p, room |-> x]
  <2>2. x \in Rooms /\ IsMember(p, x) /\ Open(x)
    BY DEF OpenRoomsOf
  <2>3. next \in Processing /\ next.at = "leave.read" /\ next.player = p /\ next.room = x
    BY <2>2, PlainMove
  <2>4. Goto(q, next) /\ UNCHANGED <<rows, memory>> /\ request[q] = Idle
    BY <1>3, <2>1 DEF LeaveCheck
  <2> HIDE DEF next
  <2>5. Knows(next, x)
    BY <2>2, <2>3 DEF Knows
  <2>6. status[x] # "NONE"
    BY <2>2 DEF Open
  <2> QED BY <2>3, <2>4, <2>5, <2>6, IdleIs DEF Moves
<1>4. ASSUME NEW r \in Rooms, EnterCheck(q, p, r)
      PROVE  \E next \in Processing : Moves(q, next)
  <2> DEFINE next == [at |-> "enter", player |-> p, room |-> r]
  <2>1. next \in Processing /\ next.at = "enter" /\ next.player = p /\ next.room = r
    BY PlainMove
  <2>2. /\ Goto(q, next) /\ UNCHANGED <<rows, memory>> /\ request[q] = Idle
        /\ IsMember(p, r) /\ Open(r)
    BY <1>4 DEF EnterCheck, MayEnter
  <2> HIDE DEF next
  <2>3. Knows(next, r)
    BY <2>1, <2>2 DEF Knows
  <2>4. status[r] # "NONE"
    BY <2>2 DEF Open
  <2> QED BY <2>1, <2>2, <2>3, <2>4, IdleIs DEF Moves
<1> QED BY <1>1, <1>2, <1>3, <1>4

LEMMA ReadyAndStartMove ==
  ASSUME TInv, NEW q \in Requests, NEW p \in Players,
         StartCheck(q, p) \/ \E value \in BOOLEAN : ReadyCheck(q, p, value)
  PROVE  \E next \in Processing : Moves(q, next)
<1>1. CASE StartCheck(q, p)
  <2>1. PICK r \in OpenRoomsOf(p) :
          MayStart(p, r) /\ Goto(q, [at |-> "start.status", room |-> r, seen |-> Seen(r)])
    BY <1>1 DEF StartCheck
  <2> DEFINE next == [at |-> "start.status", room |-> r, seen |-> Seen(r)]
  <2>2. r \in Rooms /\ IsMember(p, r) /\ Open(r) /\ host[r] = p /\ status[r] = "WAITING"
    BY <2>1 DEF OpenRoomsOf, MayStart
  <2>3. Seen(r) \subseteq Players /\ Seen(r) = Elements(members[r])
    BY <2>2 DEF Seen, Elements, TInv, RowsOK
  <2>4. next \in Processing /\ next.at = "start.status" /\ next.room = r /\ next.seen = Elements(members[r])
    BY <2>2, <2>3 DEF Processing, StartMarking
  <2>5. Goto(q, next) /\ UNCHANGED <<rows, memory>> /\ request[q] = Idle
    BY <1>1, <2>1 DEF StartCheck
  <2> HIDE DEF next
  <2>6. Knows(next, r)
    BY <2>1, <2>2, <2>4 DEF Knows
  <2> QED BY <2>2, <2>4, <2>5, <2>6, IdleIs DEF Moves
<1>2. ASSUME NEW value \in BOOLEAN, ReadyCheck(q, p, value)
      PROVE  \E next \in Processing : Moves(q, next)
  <2>1. PICK r \in OpenRoomsOf(p) :
          /\ status[r] = "WAITING"
          /\ Goto(q, [at |-> "ready.write", player |-> p, room |-> r, value |-> value])
    BY <1>2 DEF ReadyCheck
  <2> DEFINE next == [at |-> "ready.write", player |-> p, room |-> r, value |-> value]
  <2>2. r \in Rooms /\ IsMember(p, r)
    BY DEF OpenRoomsOf
  <2>3. next \in Processing /\ next.at = "ready.write" /\ next.room = r /\ next.player = p
    BY <2>2 DEF Processing, ReadyWriting
  <2>4. Goto(q, next) /\ UNCHANGED <<rows, memory>> /\ request[q] = Idle
    BY <1>2, <2>1 DEF ReadyCheck
  <2> HIDE DEF next
  <2>5. Knows(next, r)
    BY <2>1, <2>2, <2>3 DEF Knows
  <2> QED BY <2>1, <2>3, <2>4, <2>5, IdleIs DEF Moves
<1> QED BY <1>1, <1>2

LEMMA JoinReadMoves ==
  ASSUME TInv, NEW q \in Requests, JoinRead(q)
  PROVE  \E next \in Processing : Moves(q, next)
<1> DEFINE p == request[q].player
           r == request[q].room
           insert == [at |-> "join.insert", player |-> p, room |-> r]
<1>1. /\ request[q].at = "join.read" /\ UNCHANGED <<rows, memory>>
      /\ IF MayJoin(p, r) THEN Goto(q, insert) ELSE Goto(q, Idle)
  BY DEF JoinRead, Finish
<1>2. p \in Players /\ r \in Rooms
  BY <1>1, RoomAndPlayer DEF TInv, RequestsOK
<1>3. insert \in Processing /\ insert.at = "join.insert" /\ insert.player = p /\ insert.room = r
  BY <1>2, PlainMove
<1>4. InRoom(q, r) /\ request[q].player = p
  BY <1>1 DEF InRoom
<1> HIDE DEF p, r, insert
<1>5. CASE MayJoin(p, r)
  <2>1. Knows(insert, r)
    BY <1>3, <1>5 DEF Knows
  <2>2. Len(members[r]) < MaxPlayers /\ status[r] # "NONE"
    BY <1>5 DEF MayJoin, HasPlace
  <2> QED BY <1>1, <1>3, <1>4, <1>5, <2>1, <2>2 DEF Moves
<1>6. CASE ~MayJoin(p, r)
  BY <1>1, <1>6, IdleIs DEF Moves
<1> QED BY <1>5, <1>6

LEMMA LeaveReadMoves ==
  ASSUME TInv, NEW q \in Requests, LeaveRead(q)
  PROVE  \E next \in Processing : Moves(q, next)
<1> DEFINE p == request[q].player
           r == request[q].room
           next == [at |-> "leave.delete", player |-> p, room |-> r, wasHost |-> host[r] = p]
<1>1. request[q].at = "leave.read" /\ UNCHANGED <<rows, memory>> /\ Goto(q, next)
  BY DEF LeaveRead
<1>2. p \in Players /\ r \in Rooms /\ status[r] # "NONE"
  BY <1>1, RoomAndPlayer DEF TInv, RequestsOK
<1>3. /\ next \in Processing /\ next.at = "leave.delete" /\ next.player = p /\ next.room = r
      /\ next.wasHost = (host[r] = p)
  BY <1>2 DEF Processing, LeaveDeleting
<1>4. InRoom(q, r) /\ request[q].player = p
  BY <1>1 DEF InRoom
<1> HIDE DEF p, r, next
<1>5. Knows(request[q], r) => Knows(next, r)
  BY <1>1, <1>3, <1>4 DEF Knows
<1> QED BY <1>1, <1>2, <1>3, <1>4, <1>5, IdleIs DEF Moves

LEMMA LeaveDeleteMoves ==
  ASSUME TInv, NEW q \in Requests, LeaveDelete(q)
  PROVE  \E next \in Processing : Moves(q, next)
<1> DEFINE p == request[q].player
           r == request[q].room
           next == [at |-> "leave.count", player |-> p, room |-> r,
                    wasHost |-> request[q].wasHost, found |-> IsMember(p, r)]
<1>1. request[q].at = "leave.delete" /\ UNCHANGED <<rows, memory>> /\ Goto(q, next)
  BY DEF LeaveDelete
<1>2. p \in Players /\ r \in Rooms /\ status[r] # "NONE" /\ request[q].wasHost \in BOOLEAN
  BY <1>1, RoomAndPlayer, Kinds DEF TInv, RequestsOK, LeaveDeleting
<1>3. IsMember(p, r) \in BOOLEAN
  BY DEF IsMember
<1>4. /\ next \in Processing /\ next.at = "leave.count" /\ next.player = p /\ next.room = r
      /\ next.wasHost = request[q].wasHost /\ next.found = IsMember(p, r)
  BY <1>2, <1>3 DEF Processing, LeaveCounting
<1>5. InRoom(q, r) /\ request[q].player = p
  BY <1>1 DEF InRoom
<1> HIDE DEF p, r, next
<1>6. Knows(request[q], r) => Knows(next, r)
  BY <1>1, <1>4, <1>5 DEF Knows
<1> QED BY <1>1, <1>2, <1>4, <1>5, <1>6, IdleIs DEF Moves

LEMMA LeaveCountMoves ==
  ASSUME TInv, NEW q \in Requests, LeaveCount(q)
  PROVE  \E next \in Processing : Moves(q, next)
<1> DEFINE p == request[q].player
           r == request[q].room
           empty == Remaining(q) = << >>
           place == IF request[q].wasHost /\ ~empty THEN "leave.heir" ELSE "leave.commit"
           next == [at |-> place, player |-> p, room |-> r,
                    found |-> request[q].found, empty |-> empty, heirs |-> {}]
<1>1. request[q].at = "leave.count" /\ UNCHANGED <<rows, memory>> /\ Goto(q, next)
  BY DEF LeaveCount
<1>2. /\ p \in Players /\ r \in Rooms /\ status[r] # "NONE"
      /\ request[q].wasHost \in BOOLEAN /\ request[q].found \in BOOLEAN
  BY <1>1, RoomAndPlayer, Kinds DEF TInv, RequestsOK, LeaveCounting
<1>3. empty \in BOOLEAN /\ place \in {"leave.heir", "leave.commit"}
  OBVIOUS
<1>4. /\ next \in Processing /\ next.at = place /\ next.player = p /\ next.room = r
      /\ next.found = request[q].found /\ next.empty = empty /\ next.heirs = {}
  BY <1>2, <1>3 DEF Processing, LeaveEnding
<1>5. InRoom(q, r) /\ request[q].player = p
  BY <1>1 DEF InRoom
<1>6. request[q].found = TRUE => (empty <=> Rest(p, r) = << >>)
  BY DEF Remaining, Rest
<1>7. place = "leave.heir" <=> request[q].wasHost = TRUE /\ ~empty
  BY <1>2
<1> HIDE DEF p, r, empty, place, next
<1>8. Knows(request[q], r) => Knows(next, r)
  <2> SUFFICES ASSUME Knows(request[q], r) PROVE Knows(next, r)
    OBVIOUS
  <2>1. /\ IsMember(p, r) /\ Open(r) /\ request[q].found = TRUE
        /\ (request[q].wasHost = TRUE <=> host[r] = p)
    BY <1>1, <1>5 DEF Knows
  <2>2. next.found = TRUE
    BY <1>4, <2>1
  <2>3. next.empty = TRUE <=> Rest(p, r) = << >>
    BY <1>3, <1>4, <1>6, <2>1
  <2>4. next.at = "leave.heir" => host[r] = p /\ next.empty = FALSE
    BY <1>3, <1>4, <1>7, <2>1
  <2>5. next.at = "leave.commit" => next.heirs = IF host[r] = p /\ next.empty = FALSE THEN {Head(Rest(p, r))} ELSE {}
    BY <1>3, <1>4, <1>7, <2>1
  <2> QED BY <1>3, <1>4, <2>1, <2>2, <2>3, <2>4, <2>5 DEF Knows
<1> QED BY <1>1, <1>2, <1>3, <1>4, <1>5, <1>8, IdleIs DEF Moves

LEMMA LeaveHeirMoves ==
  ASSUME TInv, NEW q \in Requests, LeaveHeir(q)
  PROVE  \E next \in Processing : Moves(q, next)
<1> DEFINE p == request[q].player
           r == request[q].room
           rest == Remaining(q)
           heirs == IF rest = << >> THEN {} ELSE {Head(rest)}
<1>0. PICK next : next = [request[q] EXCEPT !.at = "leave.commit", !.heirs = heirs]
  OBVIOUS
<1>1. request[q].at = "leave.heir" /\ UNCHANGED <<rows, memory>> /\ Goto(q, next)
  BY <1>0 DEF LeaveHeir
<1>2. /\ p \in Players /\ r \in Rooms /\ status[r] # "NONE" /\ request[q] \in LeaveEnding
      /\ request[q].found \in BOOLEAN /\ request[q].empty \in BOOLEAN
  BY <1>1, RoomAndPlayer, Kinds DEF TInv, RequestsOK, LeaveEnding
<1>3. heirs \in SUBSET Players
  <2>1. members[r] \in Seq(Players) /\ Distinct(members[r])
    BY <1>2 DEF TInv, RowsOK
  <2>2. rest \in Seq(Players)
    BY <2>1, RemoveTyped DEF Remaining
  <2> HIDE DEF rest
  <2>3. rest # << >> => Head(rest) \in Players
    BY <2>2
  <2> QED BY <2>3
<1> HIDE DEF heirs
<1>4. /\ next \in Processing /\ next.at = "leave.commit" /\ next.player = p /\ next.room = r
      /\ next.found = request[q].found /\ next.empty = request[q].empty /\ next.heirs = heirs
  <2>1. /\ next \in LeaveEnding /\ next.at = "leave.commit" /\ next.player = request[q].player
        /\ next.room = request[q].room /\ next.found = request[q].found
        /\ next.empty = request[q].empty /\ next.heirs = heirs
    <3>1. request[q] \in LeaveEnding /\ heirs \in SUBSET Players
      BY <1>2, <1>3
    <3> QED BY ONLY <1>0, <3>1 DEF LeaveEnding
  <2> QED BY <2>1 DEF Processing
<1>5. InRoom(q, r) /\ request[q].player = p
  BY <1>1 DEF InRoom
<1>6. request[q].found = TRUE => rest = Rest(p, r)
  BY DEF Remaining, Rest
<1> HIDE DEF p, r, rest
<1>7. Knows(request[q], r) => Knows(next, r)
  <2> SUFFICES ASSUME Knows(request[q], r) PROVE Knows(next, r)
    OBVIOUS
  <2>1. /\ IsMember(p, r) /\ Open(r) /\ request[q].found = TRUE
        /\ host[r] = p /\ request[q].empty = FALSE
        /\ (request[q].empty = TRUE <=> Rest(p, r) = << >>)
    BY <1>1, <1>5 DEF Knows
  <2>2. heirs = {Head(Rest(p, r))}
    BY <1>6, <2>1 DEF heirs
  <2> QED BY <1>4, <2>1, <2>2 DEF Knows
<1> QED BY <1>1, <1>2, <1>4, <1>5, <1>7, IdleIs DEF Moves

LEMMA FailMoves ==
  ASSUME TInv, NEW q \in Requests, Fail(q)
  PROVE  \E next \in Processing : Moves(q, next)
<1>1. Goto(q, Idle) /\ UNCHANGED <<rows, memory>> /\ request[q].at # "start.rows"
  BY DEF Fail, Finish
<1> QED BY <1>1, IdleIs DEF Moves

-----------------------------------------------------------------------------
(* Type correctness *)

\* What a request that writes holds.
LEMMA Holds ==
  ASSUME TInv, NEW q \in Requests
  PROVE  /\ request[q] \in Processing
         /\ request[q].at = "create.insert" => request[q].player \in Players
         /\ request[q].at \in {"join.insert", "leave.commit", "ready.write", "enter"} =>
              /\ request[q].player \in Players /\ request[q].room \in Rooms
              /\ status[request[q].room] # "NONE"
         /\ request[q].at = "leave.commit" =>
              /\ request[q].found \in BOOLEAN /\ request[q].empty \in BOOLEAN
              /\ request[q].heirs \in SUBSET Players
         /\ request[q].at = "start.status" =>
              /\ request[q].room \in Rooms /\ request[q].seen \in SUBSET Players
              /\ status[request[q].room] # "NONE"
         /\ request[q].at = "start.rows" =>
              /\ request[q] \in StartRecording
              /\ request[q].room \in Rooms
              /\ request[q].todo \in SUBSET Players /\ request[q].updated \in SUBSET Players
              /\ status[request[q].room] \in Started
<1>1. request[q] \in Processing
  BY DEF TInv, RequestsOK
<1>2. request[q].at = "leave.commit" => request[q] \in LeaveEnding
  BY <1>1, Kinds
<1>3. request[q].at = "start.status" => request[q] \in StartMarking
  BY <1>1, Kinds
<1>4. request[q].at = "start.rows" => request[q] \in StartRecording
  BY <1>1, Kinds
<1>5. request[q].at = "leave.commit" =>
        /\ request[q].found \in BOOLEAN /\ request[q].empty \in BOOLEAN
        /\ request[q].heirs \in SUBSET Players
  BY <1>2 DEF LeaveEnding
<1>6. request[q].at = "start.status" => request[q].seen \in SUBSET Players
  BY <1>3 DEF StartMarking
<1>7. request[q].at = "start.rows" =>
        request[q].todo \in SUBSET Players /\ request[q].updated \in SUBSET Players
  BY <1>4 DEF StartRecording
<1> QED BY <1>1, <1>4, <1>5, <1>6, <1>7, RoomAndPlayer DEF TInv, RequestsOK

\* A request that ends leaves the others as they were.
LEMMA FinishMoves ==
  ASSUME TInv, NEW q \in Requests, Finish(q),
         \A r \in Rooms : /\ status[r] # "NONE" => status'[r] # "NONE"
                          /\ status[r] \in Started => status'[r] \in Started
  PROVE  RequestsOK' /\ request'[q] = Idle /\ \A x \in Requests \ {q} : request'[x] = request[x]
BY IdleIs, RequestsMove DEF Finish, TInv

LEMMA MoveTyped ==
  ASSUME TInv, NEW q \in Requests, NEW next \in Processing, Moves(q, next)
  PROVE  /\ RowsOK' /\ RequestsOK' /\ UNCHANGED <<arena, orphaned>>
         /\ request'[q] = next /\ \A x \in Requests \ {q} : request'[x] = request[x]
<1>1. /\ Goto(q, next) /\ UNCHANGED <<rows, memory>> /\ next.at # "start.rows"
      /\ next.at \notin {"idle", "create.insert"} => status[next.room] # "NONE"
  BY DEF Moves
<1>2. /\ status' = status /\ host' = host /\ members' = members /\ ready' = ready
      /\ sessions' = sessions /\ arena' = arena /\ orphaned' = orphaned
  BY <1>1 DEF rows, memory
<1>3. RowsOK'
  BY <1>2 DEF TInv, RowsOK
<1>4. /\ RequestsOK' /\ request'[q] = next
      /\ \A x \in Requests \ {q} : request'[x] = request[x]
  BY <1>1, <1>2, RequestsMove DEF TInv
<1> QED BY <1>2, <1>3, <1>4

LEMMA CreateInsertTyped ==
  ASSUME TInv, NEW q \in Requests, NEW r \in Rooms, CreateInsert(q, r)
  PROVE  /\ RowsOK' /\ RequestsOK' /\ UNCHANGED <<arena, orphaned>>
         /\ request'[q] = Idle /\ \A x \in Requests \ {q} : request'[x] = request[x]
<1> DEFINE p == request[q].player
<1>1. /\ request[q].at = "create.insert" /\ status[r] = "NONE" /\ Finish(q)
      /\ status' = [status EXCEPT ![r] = "WAITING"] /\ host' = [host EXCEPT ![r] = p]
      /\ members' = [members EXCEPT ![r] = <<p>>] /\ ready' = ready /\ sessions' = sessions
      /\ arena' = arena /\ orphaned' = orphaned
  BY DEF CreateInsert, memory
<1>2. p \in Players
  BY <1>1, Holds
<1> HIDE DEF p
<1>3. /\ status \in [Rooms -> Statuses] /\ members \in [Rooms -> Seq(Players)]
      /\ ready[r] = {}
  BY <1>1, NoMember DEF TInv, RowsOK
<1>4. RequestsOK' /\ request'[q] = Idle /\ \A x \in Requests \ {q} : request'[x] = request[x]
  BY <1>1, <1>3, FinishMoves DEF Started
<1>5. RowsOK'
  <2>1. /\ status' \in [Rooms -> Statuses] /\ host' \in [Rooms -> Players]
        /\ members' \in [Rooms -> Seq(Players)]
    BY <1>1, <1>2, <1>3, OneMember DEF TInv, RowsOK, Statuses
  <2>2. \A x \in Rooms : Distinct(members'[x]) /\ ready'[x] \subseteq Elements(members'[x])
    BY <1>1, <1>2, <1>3, OneMember DEF TInv, RowsOK
  <2>3. \A x \in Rooms : status'[x] = "NONE" => members'[x] = << >>
    BY <1>1, <1>3 DEF TInv, RowsOK
  <2>4. \A x \in Rooms : status'[x] \notin Started => \A a \in Players : sessions'[x][a] = 0
    BY <1>1, <1>3 DEF TInv, RowsOK, Started
  <2> QED BY <1>1, <2>1, <2>2, <2>3, <2>4 DEF TInv, RowsOK
<1> QED BY <1>1, <1>4, <1>5

LEMMA JoinInsertTyped ==
  ASSUME TInv, NEW q \in Requests, JoinInsert(q)
  PROVE  /\ RowsOK' /\ RequestsOK' /\ UNCHANGED <<arena, orphaned>>
         /\ request'[q] = Idle /\ \A x \in Requests \ {q} : request'[x] = request[x]
<1> DEFINE p == request[q].player
           r == request[q].room
<1>1. /\ request[q].at = "join.insert" /\ Finish(q)
      /\ members' = [members EXCEPT ![r] = IF IsMember(p, r) THEN @ ELSE Append(@, p)]
      /\ status' = status /\ host' = host /\ ready' = ready /\ sessions' = sessions
      /\ arena' = arena /\ orphaned' = orphaned
  BY DEF JoinInsert, memory
<1>2. p \in Players /\ r \in Rooms /\ status[r] # "NONE"
  BY <1>1, Holds
<1> HIDE DEF p, r
<1>3. members \in [Rooms -> Seq(Players)] /\ \A x \in Rooms : Distinct(members[x])
  BY DEF TInv, RowsOK
<1>4. RequestsOK' /\ request'[q] = Idle /\ \A x \in Requests \ {q} : request'[x] = request[x]
  BY <1>1, FinishMoves
<1>5. /\ members'[r] \in Seq(Players) /\ Distinct(members'[r])
      /\ Elements(members[r]) \subseteq Elements(members'[r])
  BY <1>1, <1>2, <1>3, AppendTyped DEF IsMember
<1>6. members' \in [Rooms -> Seq(Players)] /\ \A x \in Rooms \ {r} : members'[x] = members[x]
  BY <1>1, <1>2, <1>3, <1>5
<1>7. RowsOK'
  BY <1>1, <1>2, <1>3, <1>5, <1>6 DEF TInv, RowsOK
<1> QED BY <1>1, <1>4, <1>7

LEMMA LeaveCommitTyped ==
  ASSUME TInv, NEW q \in Requests, LeaveCommit(q)
  PROVE  /\ RowsOK' /\ RequestsOK' /\ UNCHANGED <<arena, orphaned>>
         /\ request'[q] = Idle /\ \A x \in Requests \ {q} : request'[x] = request[x]
<1> DEFINE p == request[q].player
           r == request[q].room
           rest == Remaining(q)
           heir == CHOOSE a \in request[q].heirs : TRUE
<1>1. /\ request[q].at = "leave.commit" /\ Finish(q)
      /\ members' = [members EXCEPT ![r] = rest]
      /\ ready' = [ready EXCEPT ![r] = IF request[q].found THEN @ \ {p} ELSE @]
      /\ status' = [status EXCEPT ![r] = IF request[q].empty THEN "CLOSED" ELSE @]
      /\ host' = [host EXCEPT ![r] = IF request[q].heirs = {} THEN @ ELSE heir]
      /\ sessions' = sessions /\ arena' = arena /\ orphaned' = orphaned
  BY DEF LeaveCommit, StillReady, Closed, HandedOn, memory
<1>2. /\ p \in Players /\ r \in Rooms /\ status[r] # "NONE"
      /\ request[q].found \in BOOLEAN /\ request[q].empty \in BOOLEAN
      /\ request[q].heirs \in SUBSET Players
  BY <1>1, Holds
<1>3. request[q].heirs # {} => heir \in Players
  BY <1>2
<1>4. /\ members \in [Rooms -> Seq(Players)] /\ \A x \in Rooms : Distinct(members[x])
      /\ status \in [Rooms -> Statuses] /\ host \in [Rooms -> Players]
      /\ ready \in [Rooms -> SUBSET Players]
      /\ \A x \in Rooms : ready[x] \subseteq Elements(members[x])
  BY DEF TInv, RowsOK
<1>5. /\ rest \in Seq(Players) /\ Distinct(rest)
      /\ Elements(rest) = IF request[q].found THEN Elements(members[r]) \ {p} ELSE Elements(members[r])
  <2>1. rest = IF request[q].found THEN Remove(members[r], p) ELSE members[r]
    BY DEF Remaining
  <2> HIDE DEF p, r, rest
  <2>2. members[r] \in Seq(Players) /\ Distinct(members[r])
    BY <1>2, <1>4
  <2>3. CASE request[q].found
    BY <2>1, <2>2, <2>3, RemoveTyped
  <2>4. CASE ~request[q].found
    BY <2>1, <2>2, <2>4
  <2> QED BY <2>3, <2>4
<1> HIDE DEF p, r, rest, heir
<1>6. RequestsOK' /\ request'[q] = Idle /\ \A x \in Requests \ {q} : request'[x] = request[x]
  BY <1>1, <1>2, <1>4, FinishMoves DEF Started
<1>7. RowsOK'
  <2>1. members' \in [Rooms -> Seq(Players)] /\ \A x \in Rooms : Distinct(members'[x])
    BY <1>1, <1>2, <1>4, <1>5
  <2>2. status' \in [Rooms -> Statuses] /\ host' \in [Rooms -> Players]
    BY <1>1, <1>2, <1>3, <1>4 DEF Statuses
  <2>3. ready' \in [Rooms -> SUBSET Players]
    BY <1>1, <1>2, <1>4
  <2>4. \A x \in Rooms : ready'[x] \subseteq Elements(members'[x])
    BY <1>1, <1>2, <1>4, <1>5
  <2>5. \A x \in Rooms : status'[x] = "NONE" => members'[x] = << >>
    BY <1>1, <1>2, <1>4 DEF TInv, RowsOK
  <2>6. \A x \in Rooms : status'[x] \notin Started => \A a \in Players : sessions'[x][a] = 0
    BY <1>1, <1>2, <1>4 DEF TInv, RowsOK, Started
  <2> QED BY <1>1, <2>1, <2>2, <2>3, <2>4, <2>5, <2>6 DEF TInv, RowsOK
<1> QED BY <1>1, <1>6, <1>7

LEMMA ReadyWriteTyped ==
  ASSUME TInv, NEW q \in Requests, ReadyWrite(q)
  PROVE  /\ RowsOK' /\ RequestsOK' /\ UNCHANGED <<arena, orphaned>>
         /\ request'[q] = Idle /\ \A x \in Requests \ {q} : request'[x] = request[x]
<1> DEFINE p == request[q].player
           r == request[q].room
<1>1. /\ request[q].at = "ready.write" /\ Finish(q)
      /\ ready' = [ready EXCEPT ![r] = IF ~IsMember(p, r) THEN @
                                       ELSE IF request[q].value THEN @ \cup {p} ELSE @ \ {p}]
      /\ status' = status /\ host' = host /\ members' = members /\ sessions' = sessions
      /\ arena' = arena /\ orphaned' = orphaned
  BY DEF ReadyWrite, memory
<1>2. p \in Players /\ r \in Rooms
  BY <1>1, Holds
<1> HIDE DEF p, r
<1>3. RequestsOK' /\ request'[q] = Idle /\ \A x \in Requests \ {q} : request'[x] = request[x]
  BY <1>1, FinishMoves
<1>4. /\ ready' \in [Rooms -> SUBSET Players]
      /\ \A x \in Rooms : ready'[x] \subseteq Elements(members'[x])
  BY <1>1, <1>2 DEF TInv, RowsOK, IsMember
<1> QED BY <1>1, <1>3, <1>4 DEF TInv, RowsOK

\* What a start holds after a Session row, and after one that failed.
LEMMA RowNext ==
  ASSUME NEW x \in StartRecording, NEW p
  PROVE  LET next == [x EXCEPT !.todo = @ \ {p}]
             fails == [x EXCEPT !.todo = @ \ {p}, !.updated = {}]
         IN  /\ next \in StartRecording /\ next.at = "start.rows" /\ next.room = x.room
             /\ next.todo = x.todo \ {p} /\ next.updated = x.updated
             /\ fails \in StartRecording /\ fails.at = "start.rows" /\ fails.room = x.room
             /\ fails.todo = x.todo \ {p} /\ fails.updated = {}
BY DEF StartRecording

LEMMA StartStatusTyped ==
  ASSUME TInv, NEW q \in Requests, StartStatus(q)
  PROVE  /\ RowsOK' /\ RequestsOK' /\ UNCHANGED <<arena, orphaned>>
         /\ \A x \in Requests \ {q} : request'[x] = request[x]
         /\ request'[q].at = "start.rows" /\ request'[q].room = request[q].room
         /\ request'[q].todo = request[q].seen
         /\ request'[q].updated = Elements(members[request[q].room])
<1> DEFINE r == request[q].room
           next == [at |-> "start.rows", room |-> r, todo |-> request[q].seen,
                    updated |-> Elements(members[r])]
<1>1. /\ request[q].at = "start.status" /\ Goto(q, next)
      /\ status' = [status EXCEPT ![r] = "IN_PROGRESS"]
      /\ host' = host /\ members' = members /\ ready' = ready /\ sessions' = sessions
      /\ arena' = arena /\ orphaned' = orphaned
  BY DEF StartStatus, memory
<1>2. r \in Rooms /\ request[q].seen \in SUBSET Players /\ status[r] # "NONE"
  BY <1>1, Holds
<1>3. Elements(members[r]) \in SUBSET Players
  BY <1>2 DEF TInv, RowsOK, Elements
<1>4. /\ next \in Processing /\ next.at = "start.rows" /\ next.room = r
      /\ next.todo = request[q].seen /\ next.updated = Elements(members[r])
  BY <1>2, <1>3 DEF Processing, StartRecording
<1> HIDE DEF r, next
<1>5. status \in [Rooms -> Statuses]
  BY DEF TInv, RowsOK
<1>6. RequestsOK' /\ request'[q] = next /\ \A x \in Requests \ {q} : request'[x] = request[x]
  <2>1. /\ \A x \in Rooms : /\ status[x] # "NONE" => status'[x] # "NONE"
                            /\ status[x] \in Started => status'[x] \in Started
        /\ status'[r] \in Started /\ status'[r] # "NONE"
    BY <1>1, <1>2, <1>5 DEF Started
  <2> QED BY <1>1, <1>4, <2>1, RequestsMove DEF TInv
<1>7. RowsOK'
  <2>1. status' \in [Rooms -> Statuses]
    BY <1>1, <1>5 DEF Statuses
  <2>2. \A x \in Rooms : status'[x] = "NONE" => members'[x] = << >>
    BY <1>1, <1>2, <1>5 DEF TInv, RowsOK
  <2>3. \A x \in Rooms : status'[x] \notin Started => \A a \in Players : sessions'[x][a] = 0
    BY <1>1, <1>2, <1>5 DEF TInv, RowsOK, Started
  <2> QED BY <1>1, <2>1, <2>2, <2>3 DEF TInv, RowsOK
<1> QED BY <1>1, <1>4, <1>6, <1>7 DEF r

LEMMA StartRowTyped ==
  ASSUME TInv, NEW q \in Requests, NEW p \in Players, StartRow(q, p)
  PROVE  /\ RowsOK' /\ RequestsOK' /\ UNCHANGED <<arena, orphaned>>
         /\ \A x \in Requests \ {q} : request'[x] = request[x]
         /\ request'[q].at = "start.rows" /\ request'[q].room = request[q].room
         /\ request'[q].todo = request[q].todo \ {p}
         /\ request'[q].updated = request[q].updated
<1> DEFINE r == request[q].room
<1>0. PICK next : next = [request[q] EXCEPT !.todo = @ \ {p}]
  OBVIOUS
<1>1. /\ request[q].at = "start.rows" /\ Goto(q, next)
      /\ sessions' = [sessions EXCEPT ![r][p] = @ + 1]
      /\ status' = status /\ host' = host /\ members' = members /\ ready' = ready
      /\ arena' = arena /\ orphaned' = orphaned
  BY <1>0 DEF StartRow, Recorded, memory
<1>2. r \in Rooms /\ request[q] \in StartRecording /\ status[r] \in Started
  BY <1>1, Holds
<1>3. /\ next \in StartRecording /\ next.at = "start.rows" /\ next.room = r
      /\ next.todo = request[q].todo \ {p} /\ next.updated = request[q].updated
  BY <1>0, <1>2, RowNext
<1>4. next \in Processing
  BY <1>3 DEF Processing
<1> HIDE DEF r
<1>5. RequestsOK' /\ request'[q] = next /\ \A x \in Requests \ {q} : request'[x] = request[x]
  BY <1>1, <1>2, <1>3, <1>4, RequestsMove DEF TInv, Started
<1>6. RowsOK'
  <2>1. sessions' \in [Rooms -> [Players -> Nat]]
    BY <1>1, <1>2 DEF TInv, RowsOK
  <2>2. \A x \in Rooms \ {r} : sessions'[x] = sessions[x]
    BY <1>1, <1>2 DEF TInv, RowsOK
  <2>3. \A x \in Rooms : status'[x] \notin Started => \A a \in Players : sessions'[x][a] = 0
    BY <1>1, <1>2, <2>2 DEF TInv, RowsOK
  <2> QED BY <1>1, <2>1, <2>3 DEF TInv, RowsOK
<1> QED BY <1>1, <1>3, <1>5, <1>6 DEF r

LEMMA StartRowFailsTyped ==
  ASSUME TInv, NEW q \in Requests, NEW p \in Players, StartRowFails(q, p)
  PROVE  /\ RowsOK' /\ RequestsOK' /\ UNCHANGED arena /\ UNCHANGED rows
         /\ request[q].room \in Rooms /\ orphaned' = orphaned \cup {request[q].room}
         /\ \A x \in Requests \ {q} : request'[x] = request[x]
         /\ request'[q].at = "start.rows" /\ request'[q].room = request[q].room
         /\ request'[q].todo = request[q].todo \ {p}
         /\ request'[q].updated = {}
<1> DEFINE r == request[q].room
<1>0. PICK next : next = [request[q] EXCEPT !.todo = @ \ {p}, !.updated = {}]
  OBVIOUS
<1>1. /\ request[q].at = "start.rows" /\ Goto(q, next) /\ orphaned' = orphaned \cup {r}
      /\ sessions' = sessions /\ UNCHANGED rows
      /\ status' = status /\ host' = host /\ members' = members /\ ready' = ready
      /\ arena' = arena
  BY <1>0 DEF StartRowFails, rows
<1>2. r \in Rooms /\ request[q] \in StartRecording /\ status[r] \in Started
  BY <1>1, Holds
<1>3. /\ next \in StartRecording /\ next.at = "start.rows" /\ next.room = r
      /\ next.todo = request[q].todo \ {p} /\ next.updated = {}
  BY <1>0, <1>2, RowNext
<1>4. next \in Processing
  BY <1>3 DEF Processing
<1> HIDE DEF r
<1>5. RequestsOK' /\ request'[q] = next /\ \A x \in Requests \ {q} : request'[x] = request[x]
  BY <1>1, <1>2, <1>3, <1>4, RequestsMove DEF TInv, Started
<1>6. RowsOK'
  BY <1>1 DEF TInv, RowsOK
<1> QED BY <1>1, <1>2, <1>3, <1>5, <1>6 DEF r

LEMMA StartArenaTyped ==
  ASSUME TInv, NEW q \in Requests, StartArena(q)
  PROVE  /\ RowsOK' /\ RequestsOK' /\ UNCHANGED rows /\ UNCHANGED orphaned
         /\ arena' \in [Rooms -> SUBSET Players]
         /\ request'[q] = Idle /\ \A x \in Requests \ {q} : request'[x] = request[x]
<1>1. /\ request[q].at = "start.rows" /\ Finish(q) /\ UNCHANGED rows /\ UNCHANGED orphaned
      /\ arena' = [arena EXCEPT ![request[q].room] = @ \cup request[q].updated]
      /\ sessions' = sessions
      /\ status' = status /\ host' = host /\ members' = members /\ ready' = ready
  BY DEF StartArena, rows
<1>2. request[q].room \in Rooms /\ request[q].updated \in SUBSET Players
  BY <1>1, Holds
<1>3. RequestsOK' /\ request'[q] = Idle /\ \A x \in Requests \ {q} : request'[x] = request[x]
  BY <1>1, FinishMoves
<1>4. arena' \in [Rooms -> SUBSET Players]
  BY <1>1, <1>2 DEF TInv, MemoryOK
<1>5. RowsOK'
  BY <1>1 DEF TInv, RowsOK
<1> QED BY <1>1, <1>3, <1>4, <1>5

LEMMA EnterTyped ==
  ASSUME TInv, NEW q \in Requests, Enter(q)
  PROVE  /\ RowsOK' /\ RequestsOK' /\ UNCHANGED rows /\ UNCHANGED orphaned
         /\ arena' \in [Rooms -> SUBSET Players]
         /\ request'[q] = Idle /\ \A x \in Requests \ {q} : request'[x] = request[x]
<1>1. /\ request[q].at = "enter" /\ Finish(q) /\ UNCHANGED rows /\ UNCHANGED orphaned
      /\ arena' = [arena EXCEPT ![request[q].room] = @ \cup {request[q].player}]
      /\ sessions' = sessions
      /\ status' = status /\ host' = host /\ members' = members /\ ready' = ready
  BY DEF Enter, rows
<1>2. request[q].room \in Rooms /\ request[q].player \in Players
  BY <1>1, Holds
<1>3. RequestsOK' /\ request'[q] = Idle /\ \A x \in Requests \ {q} : request'[x] = request[x]
  BY <1>1, FinishMoves
<1>4. arena' \in [Rooms -> SUBSET Players]
  BY <1>1, <1>2 DEF TInv, MemoryOK
<1>5. RowsOK'
  BY <1>1 DEF TInv, RowsOK
<1> QED BY <1>1, <1>3, <1>4, <1>5

\* A step that is no move writes.
LEMMA StatementKinds ==
  ASSUME TInv, NEW q \in Requests, Statement(q)
  PROVE  \/ \E next \in Processing : Moves(q, next)
         \/ \E r \in Rooms : CreateInsert(q, r)
         \/ JoinInsert(q) \/ LeaveCommit(q) \/ ReadyWrite(q)
         \/ StartStatus(q) \/ StartArena(q) \/ Enter(q)
         \/ \E p \in Players : StartRow(q, p) \/ StartRowFails(q, p)
<1>1. CASE JoinRead(q) \/ LeaveRead(q) \/ LeaveDelete(q) \/ LeaveCount(q) \/ LeaveHeir(q) \/ Fail(q)
  BY <1>1, JoinReadMoves, LeaveReadMoves, LeaveDeleteMoves, LeaveCountMoves, LeaveHeirMoves, FailMoves
<1>2. ASSUME NEW p \in Players,
             \/ CreateCheck(q, p) \/ LeaveCheck(q, p) \/ StartCheck(q, p)
             \/ \E r \in Rooms : JoinCheck(q, p, r) \/ EnterCheck(q, p, r)
             \/ \E value \in BOOLEAN : ReadyCheck(q, p, value)
      PROVE  \E next \in Processing : Moves(q, next)
  BY <1>2, CheckMoves, ReadyAndStartMove
<1> QED BY <1>1, <1>2 DEF Statement

LEMMA WatchTyped ==
  ASSUME MemoryOK, Watch
  PROVE  /\ raced' \subseteq Rooms /\ crossed' \subseteq Players
         /\ raced \subseteq raced' /\ crossed \subseteq crossed'
BY DEF Watch, MemoryOK

LEMMA CrashTyped ==
  ASSUME TInv, Crash
  PROVE  /\ TInv' /\ UNCHANGED rows /\ UNCHANGED overlaps
         /\ \A q \in Requests : request'[q] = Idle
         /\ arena' = [r \in Rooms |-> {}]
         /\ orphaned' = orphaned \cup {r \in Rooms : status[r] = "IN_PROGRESS"}
<1>1. /\ UNCHANGED rows /\ UNCHANGED overlaps /\ request' = [q \in Requests |-> Idle]
      /\ arena' = [r \in Rooms |-> {}]
      /\ orphaned' = orphaned \cup {r \in Rooms : status[r] = "IN_PROGRESS"}
  BY DEF Crash
<1>2. RowsOK'
  BY <1>1 DEF TInv, RowsOK, rows
<1>3. MemoryOK'
  BY <1>1 DEF TInv, MemoryOK, overlaps
<1>4. RequestsOK'
  BY <1>1, IdleIs DEF RequestsOK
<1> QED BY <1>1, <1>2, <1>3, <1>4 DEF TInv

LEMMA StatementTyped ==
  ASSUME TInv, NEW q \in Requests, Statement(q), Watch
  PROVE  TInv'
<1>1. RowsOK' /\ RequestsOK' /\ arena' \in [Rooms -> SUBSET Players] /\ orphaned' \subseteq Rooms
  <2>1. arena \in [Rooms -> SUBSET Players] /\ orphaned \subseteq Rooms
    BY DEF TInv, MemoryOK
  <2> QED BY <2>1, StatementKinds, MoveTyped, CreateInsertTyped, JoinInsertTyped, LeaveCommitTyped,
             ReadyWriteTyped, StartStatusTyped, StartArenaTyped, EnterTyped, StartRowTyped,
             StartRowFailsTyped
<1>2. raced' \subseteq Rooms /\ crossed' \subseteq Players
  BY WatchTyped DEF TInv
<1> QED BY <1>1, <1>2 DEF TInv, MemoryOK

LEMMA TypedInitially == Init => TInv
<1> SUFFICES ASSUME Init PROVE TInv
  OBVIOUS
<1>1. RowsOK
  BY NoMember DEF Init, RowsOK, Statuses
<1>2. MemoryOK
  BY DEF Init, MemoryOK
<1>3. RequestsOK
  BY IdleIs DEF Init, RequestsOK
<1> QED BY <1>1, <1>2, <1>3 DEF TInv

LEMMA TypedNext == TInv /\ [Next \/ Crash]_vars => TInv'
<1>1. ASSUME TInv, Next PROVE TInv'
  BY <1>1, StatementTyped DEF Next
<1>2. ASSUME TInv, UNCHANGED vars PROVE TInv'
  BY <1>2 DEF TInv, RowsOK, MemoryOK, RequestsOK, vars, rows, memory, overlaps
<1> QED BY <1>1, <1>2, CrashTyped

\* A behaviour without crashes is one of CrashSpec: what is proved of CrashSpec
\* holds of Spec.
LEMMA WithoutCrashes == Spec => CrashSpec
<1>1. [Next]_vars => [Next \/ Crash]_vars
  OBVIOUS
<1> QED BY <1>1, PTL DEF Spec, CrashSpec

LEMMA AlwaysTyped == CrashSpec => []TInv
BY TypedInitially, TypedNext, PTL DEF CrashSpec

\* The rows, the histories and the in-memory sessions have their types, no player
\* has two rows in one room, and only members are ready.
THEOREM TypeCorrect == CrashSpec => []TypeOK
BY AlwaysTyped, TInvImplies, PTL

-----------------------------------------------------------------------------
(* The histories: requests about the same room or player have been noticed *)

\* The rooms and players that two requests in flight are about now: Met, of this state.
Meeting == {v \in Rooms \cup Players :
              \E q, x \in Requests : q # x /\ v \in About(request[q]) \cap About(request[x])}

\* Met is said of the next state.
LEMMA MetIsMeeting == Met = Meeting'
<1>1. \A v \in Met : v \in Meeting'
  BY DEF Met, Meeting, About
<1>2. \A v \in Meeting' : v \in Met
  BY DEF Met, Meeting
<1> QED BY <1>1, <1>2

Noticed == Meeting \cap Rooms \subseteq raced /\ Meeting \cap Players \subseteq crossed

\* The rooms and players a request is about.
LEMMA AboutIs ==
  ASSUME RequestsOK, NEW q \in Requests
  PROVE  /\ \A r \in Rooms : InRoom(q, r) => r \in About(request[q])
         /\ \A p \in Players : OfPlayer(q, p) => p \in About(request[q])
BY RoomAndPlayer DEF RequestsOK, About, InRoom, OfPlayer

LEMMA AboutIdle == About(Idle) = {}
BY DEF About, Idle

\* No two requests in flight are about a room that is not marked, nor about a player.
LEMMA Lone ==
  ASSUME RequestsOK, Noticed, NEW q \in Requests, NEW x \in Requests, q # x
  PROVE  /\ \A r \in Rooms \ raced : InRoom(q, r) => ~InRoom(x, r)
         /\ \A p \in Players \ crossed : OfPlayer(q, p) => ~OfPlayer(x, p)
BY AboutIs DEF Noticed, Meeting

LEMMA NoticedInitially == Init => Noticed
BY AboutIdle DEF Init, Noticed, Meeting

LEMMA NoticedNext == Noticed /\ [Next \/ Crash]_vars => Noticed'
<1>1. ASSUME Noticed, Next PROVE Noticed'
  <2>1. raced' = raced \cup (Met \cap Rooms) /\ crossed' = crossed \cup (Met \cap Players)
    BY <1>1 DEF Next, Watch
  <2> QED BY <2>1, MetIsMeeting DEF Noticed
<1>2. ASSUME Crash PROVE Noticed'
  BY <1>2, AboutIdle DEF Crash, Noticed, Meeting
<1>3. ASSUME Noticed, UNCHANGED vars PROVE Noticed'
  BY <1>3 DEF vars, overlaps, Noticed, Meeting
<1> QED BY <1>1, <1>2, <1>3

-----------------------------------------------------------------------------
(* A room that no two requests have raced for *)

\* The room is settled, and what the request in flight has read of it still holds.
Quiet(r) == Settled(r) /\ \A q \in Requests : InRoom(q, r) => Knows(request[q], r)

RoomInv == \A r \in Rooms \ raced : Quiet(r)

\* The rows of r are as they were.
Same(r) ==
  /\ status'[r] = status[r]
  /\ host'[r] = host[r]
  /\ members'[r] = members[r]
  /\ ready'[r] = ready[r]

LEMMA SameKnows ==
  ASSUME NEW r \in Rooms, Same(r)
  PROVE  /\ Settled(r) => Settled(r)'
         /\ \A q \in Requests : request'[q] = request[q] /\ Knows(request[q], r) => Knows(request[q], r)'
<1>1. Settled(r) => Settled(r)'
  BY DEF Same, Settled, Open, IsMember
<1>2. ASSUME NEW q \in Requests, request'[q] = request[q], Knows(request[q], r)
      PROVE  Knows(request[q], r)'
  BY <1>2 DEF Same, Knows, Open, IsMember, MayJoin, HasPlace, Rest, MayStart
<1> QED BY <1>1, <1>2

LEMMA IdleKnows == \A r \in Rooms : \A q \in Requests : request[q] = Idle => ~InRoom(q, r)
BY IdleIs DEF InRoom

\* A step of a request that leaves the rows of r alone and either ends or still
\* knows what it has to know of r.
LEMMA QuietElsewhere ==
  ASSUME NEW r \in Rooms, Quiet(r), Same(r), NEW q \in Requests,
         \A x \in Requests \ {q} : request'[x] = request[x],
         InRoom(q, r)' => Knows(request[q], r)'
  PROVE  Quiet(r)'
<1>1. Settled(r)'
  BY SameKnows DEF Quiet
<1>2. ASSUME NEW x \in Requests \ {q}, InRoom(x, r)'
      PROVE  Knows(request[x], r)'
  <2>1. InRoom(x, r)
    BY <1>2 DEF InRoom
  <2> QED BY <2>1, SameKnows DEF Quiet
<1> QED BY <1>1, <1>2 DEF Quiet

\* A step of the only request about r.
LEMMA QuietHere ==
  ASSUME NEW r \in Rooms, NEW q \in Requests,
         \A x \in Requests \ {q} : request'[x] = request[x] /\ ~InRoom(x, r),
         Settled(r)', InRoom(q, r)' => Knows(request[q], r)'
  PROVE  Quiet(r)'
BY DEF Quiet, InRoom

\* Nobody is about a room that does not exist.
LEMMA NobodyInNoRoom ==
  ASSUME RequestsOK, NEW r \in Rooms, status[r] = "NONE", NEW q \in Requests
  PROVE  ~InRoom(q, r)
BY DEF RequestsOK, InRoom

LEMMA MoveQuiet ==
  ASSUME TInv, NEW q \in Requests, NEW next \in Processing, Moves(q, next),
         NEW r \in Rooms, Quiet(r)
  PROVE  Quiet(r)'
<1>1. request'[q] = next /\ \A x \in Requests \ {q} : request'[x] = request[x]
  BY MoveTyped
<1>2. Same(r)
  BY DEF Moves, rows, Same
<1>3. InRoom(q, r)' => Knows(next, r)
  <2> SUFFICES ASSUME InRoom(q, r)' PROVE Knows(next, r)
    OBVIOUS
  <2>1. next.at \notin {"idle", "create.insert"} /\ next.room = r
    BY <1>1 DEF InRoom
  <2>2. request[q] = Idle \/ InRoom(q, r)
    BY <2>1 DEF Moves
  <2>3. request[q] = Idle \/ Knows(request[q], r)
    BY <2>2 DEF Quiet
  <2> QED BY <2>1, <2>3 DEF Moves
<1>4. Knows(next, r) => Knows(request[q], r)'
  BY <1>1, <1>2 DEF Same, Knows, Open, IsMember, MayJoin, HasPlace, Rest, MayStart
<1> QED BY <1>1, <1>2, <1>3, <1>4, QuietElsewhere

LEMMA CreateInsertQuiet ==
  ASSUME TInv, NEW q \in Requests, NEW a \in Rooms, CreateInsert(q, a), NEW r \in Rooms, Quiet(r)
  PROVE  Quiet(r)'
<1>1. request'[q] = Idle /\ \A x \in Requests \ {q} : request'[x] = request[x]
  BY CreateInsertTyped
<1>2. ~InRoom(q, r)'
  BY <1>1, IdleIs DEF InRoom
<1>3. CASE a = r
  <2> DEFINE p == request[q].player
  <2>1. /\ status[r] = "NONE" /\ status' = [status EXCEPT ![r] = "WAITING"]
        /\ host' = [host EXCEPT ![r] = p] /\ members' = [members EXCEPT ![r] = <<p>>]
        /\ request[q].at = "create.insert"
    BY <1>3 DEF CreateInsert
  <2>2. p \in Players
    BY <2>1, Holds
  <2>3. \A x \in Requests : ~InRoom(x, r)
    BY <2>1, NobodyInNoRoom DEF TInv
  <2>4. status'[r] = "WAITING" /\ host'[r] = p /\ Elements(members'[r]) = {p}
    BY <2>1, <2>2, OneMember DEF TInv, RowsOK
  <2>5. Settled(r)'
    BY <2>4 DEF Settled, Open, IsMember
  <2> QED BY <1>1, <1>2, <2>3, <2>5, QuietHere
<1>4. CASE a # r
  <2>1. Same(r)
    BY <1>4 DEF CreateInsert, Same, TInv, RowsOK
  <2> QED BY <1>1, <1>2, <2>1, QuietElsewhere
<1> QED BY <1>3, <1>4

LEMMA JoinInsertQuiet ==
  ASSUME TInv, Noticed, NEW q \in Requests, JoinInsert(q), NEW r \in Rooms \ raced, Quiet(r)
  PROVE  Quiet(r)'
<1> DEFINE p == request[q].player
           a == request[q].room
<1>1. request'[q] = Idle /\ \A x \in Requests \ {q} : request'[x] = request[x]
  BY JoinInsertTyped
<1>2. ~InRoom(q, r)'
  BY <1>1, IdleIs DEF InRoom
<1>3. /\ request[q].at = "join.insert" /\ status' = status /\ host' = host /\ ready' = ready
      /\ members' = [members EXCEPT ![a] = IF IsMember(p, a) THEN @ ELSE Append(@, p)]
  BY DEF JoinInsert
<1>4. p \in Players /\ a \in Rooms
  BY <1>3, Holds
<1>5. members \in [Rooms -> Seq(Players)]
  BY DEF TInv, RowsOK
<1>6. CASE a = r
  <2>1. InRoom(q, r)
    BY <1>3, <1>6 DEF InRoom
  <2>2. \A x \in Requests \ {q} : ~InRoom(x, r)
    BY <2>1, Lone DEF TInv
  <2>3. status[r] = "WAITING" /\ ~IsMember(p, r)
    BY <1>3, <2>1 DEF Quiet, Knows, MayJoin
  <2>4. members'[r] = Append(members[r], p) /\ members[r] \in Seq(Players)
    BY <1>3, <1>5, <1>6, <2>3
  <2>5. Elements(members[r]) \subseteq Elements(members'[r])
    BY <1>4, <2>4, AppendTyped
  <2>6. Settled(r)'
    BY <1>3, <2>3, <2>5 DEF Quiet, Settled, Open, IsMember
  <2> QED BY <1>1, <1>2, <2>2, <2>6, QuietHere
<1>7. CASE a # r
  <2>1. Same(r)
    BY <1>3, <1>5, <1>7 DEF Same
  <2> QED BY <1>1, <1>2, <2>1, QuietElsewhere
<1> QED BY <1>6, <1>7

\* What a leave does to an undisturbed room.
LEMMA LeaveCommitDoes ==
  ASSUME TInv, Noticed, NEW q \in Requests, LeaveCommit(q),
         request[q].room \notin raced, Quiet(request[q].room)
  PROVE  LET p == request[q].player
             r == request[q].room
         IN  /\ p \in Players /\ r \in Rooms /\ InRoom(q, r)
             /\ IsMember(p, r) /\ Open(r) /\ IsMember(host[r], r)
             /\ members' = [members EXCEPT ![r] = Rest(p, r)]
             /\ ready' = [ready EXCEPT ![r] = @ \ {p}]
             /\ status' = [status EXCEPT ![r] = IF Rest(p, r) = << >> THEN "CLOSED" ELSE @]
             /\ host' = [host EXCEPT ![r] =
                           IF p = host[r] /\ Rest(p, r) # << >> THEN Head(Rest(p, r)) ELSE @]
<1> DEFINE p == request[q].player
           r == request[q].room
           heirs == request[q].heirs
           empty == request[q].empty
           heir == CHOOSE x \in heirs : TRUE
<1>1. /\ request[q].at = "leave.commit"
      /\ members' = [members EXCEPT ![r] = Remaining(q)]
      /\ ready' = [ready EXCEPT ![r] = IF request[q].found THEN @ \ {p} ELSE @]
      /\ status' = [status EXCEPT ![r] = IF empty THEN "CLOSED" ELSE @]
      /\ host' = [host EXCEPT ![r] = IF heirs = {} THEN @ ELSE heir]
  BY DEF LeaveCommit, StillReady, Closed, HandedOn
<1>2. p \in Players /\ r \in Rooms /\ empty \in BOOLEAN
  BY <1>1, Holds
<1>3. InRoom(q, r) /\ Knows(request[q], r) /\ Settled(r)
  BY <1>1, <1>2 DEF InRoom, Quiet
<1>4. /\ IsMember(p, r) /\ Open(r) /\ request[q].found = TRUE
      /\ empty = TRUE <=> Rest(p, r) = << >>
      /\ heirs = IF host[r] = p /\ empty = FALSE THEN {Head(Rest(p, r))} ELSE {}
  BY <1>1, <1>3 DEF Knows
<1>5. Remaining(q) = Rest(p, r)
  BY <1>4 DEF Remaining, Rest
<1>6. IsMember(host[r], r)
  BY <1>3, <1>4 DEF Settled
<1> HIDE DEF p, r, heirs, empty
<1>7. host' = [host EXCEPT ![r] =
                 IF p = host[r] /\ Rest(p, r) # << >> THEN Head(Rest(p, r)) ELSE @]
  <2>1. CASE p = host[r] /\ Rest(p, r) # << >>
    <3>1. heirs = {Head(Rest(p, r))}
      BY <1>2, <1>4, <2>1
    <3>2. heir = Head(Rest(p, r)) /\ heirs # {}
      BY <3>1
    <3> HIDE DEF heir
    <3> QED BY <1>1, <2>1, <3>2
  <2>2. CASE ~(p = host[r] /\ Rest(p, r) # << >>)
    <3>1. heirs = {}
      BY <1>2, <1>4, <2>2
    <3> QED BY <1>1, <2>2, <3>1
  <2> QED BY <2>1, <2>2
<1>8. status' = [status EXCEPT ![r] = IF Rest(p, r) = << >> THEN "CLOSED" ELSE @]
  BY <1>1, <1>2, <1>4
<1>9. ready' = [ready EXCEPT ![r] = @ \ {p}] /\ members' = [members EXCEPT ![r] = Rest(p, r)]
  BY <1>1, <1>4, <1>5
<1> QED BY <1>2, <1>3, <1>4, <1>6, <1>7, <1>8, <1>9 DEF p, r

LEMMA LeaveCommitQuiet ==
  ASSUME TInv, Noticed, NEW q \in Requests, LeaveCommit(q), NEW r \in Rooms \ raced, Quiet(r)
  PROVE  Quiet(r)'
<1> DEFINE p == request[q].player
           a == request[q].room
<1>1. request'[q] = Idle /\ \A x \in Requests \ {q} : request'[x] = request[x]
  BY LeaveCommitTyped
<1>2. ~InRoom(q, r)'
  BY <1>1, IdleIs DEF InRoom
<1>3. CASE a = r
  <2> DEFINE rest == Rest(p, r)
  <2>1. /\ p \in Players /\ InRoom(q, r) /\ IsMember(p, r) /\ Open(r) /\ IsMember(host[r], r)
        /\ members' = [members EXCEPT ![r] = rest]
        /\ status' = [status EXCEPT ![r] = IF rest = << >> THEN "CLOSED" ELSE @]
        /\ host' = [host EXCEPT ![r] = IF p = host[r] /\ rest # << >> THEN Head(rest) ELSE @]
    BY <1>3, LeaveCommitDoes
  <2>2. \A x \in Requests \ {q} : ~InRoom(x, r)
    BY <2>1, Lone DEF TInv
  <2>3. members[r] \in Seq(Players) /\ Distinct(members[r])
    BY DEF TInv, RowsOK
  <2>4. rest \in Seq(Players) /\ Elements(rest) = Elements(members[r]) \ {p}
    BY <2>3, RemoveTyped DEF Rest
  <2> HIDE DEF rest, p, a
  <2>5. rest # << >> => Head(rest) \in Elements(rest)
    <3>1. rest # << >> => 1 \in DOMAIN rest /\ Head(rest) = rest[1]
      BY <2>4
    <3> QED BY <3>1 DEF Elements
  <2>6. /\ status'[r] = IF rest = << >> THEN "CLOSED" ELSE status[r]
        /\ members'[r] = rest
        /\ host'[r] = IF p = host[r] /\ rest # << >> THEN Head(rest) ELSE host[r]
    BY <2>1 DEF TInv, RowsOK
  <2>7. Settled(r)'
    <3>1. CASE rest = << >>
      BY <2>6, <3>1 DEF Settled, Open
    <3>2. CASE rest # << >>
      <4>1. status'[r] = status[r] /\ host'[r] \in Elements(members'[r])
        BY <2>1, <2>4, <2>5, <2>6, <3>2 DEF IsMember
      <4> QED BY <2>1, <4>1 DEF Settled, Open, IsMember
    <3> QED BY <3>1, <3>2
  <2> QED BY <1>1, <1>2, <2>2, <2>7, QuietHere
<1>4. CASE a # r
  <2>1. Same(r)
    BY <1>4 DEF LeaveCommit, StillReady, Closed, HandedOn, Same, TInv, RowsOK
  <2> QED BY <1>1, <1>2, <2>1, QuietElsewhere
<1> QED BY <1>3, <1>4

LEMMA ReadyWriteQuiet ==
  ASSUME TInv, Noticed, NEW q \in Requests, ReadyWrite(q), NEW r \in Rooms \ raced, Quiet(r)
  PROVE  Quiet(r)'
<1>1. request'[q] = Idle /\ \A x \in Requests \ {q} : request'[x] = request[x]
  BY ReadyWriteTyped
<1>2. ~InRoom(q, r)'
  BY <1>1, IdleIs DEF InRoom
<1>3. request[q].at = "ready.write" /\ status' = status /\ host' = host /\ members' = members
  BY DEF ReadyWrite
<1>4. CASE request[q].room = r
  <2>1. InRoom(q, r)
    BY <1>3, <1>4 DEF InRoom
  <2>2. \A x \in Requests \ {q} : ~InRoom(x, r)
    BY <2>1, Lone DEF TInv
  <2>3. Settled(r)'
    BY <1>3 DEF Quiet, Settled, Open, IsMember
  <2> QED BY <1>1, <1>2, <2>2, <2>3, QuietHere
<1>5. CASE request[q].room # r
  <2>1. Same(r)
    BY <1>5 DEF ReadyWrite, Same, TInv, RowsOK
  <2> QED BY <1>1, <1>2, <2>1, QuietElsewhere
<1> QED BY <1>4, <1>5

LEMMA StartStatusQuiet ==
  ASSUME TInv, Noticed, NEW q \in Requests, StartStatus(q), NEW r \in Rooms \ raced, Quiet(r)
  PROVE  Quiet(r)'
<1> DEFINE a == request[q].room
<1>1. /\ \A x \in Requests \ {q} : request'[x] = request[x]
      /\ request'[q].at = "start.rows" /\ request'[q].room = a
      /\ request'[q].todo = request[q].seen
      /\ request'[q].updated = Elements(members[a])
  BY StartStatusTyped
<1>2. /\ request[q].at = "start.status" /\ status' = [status EXCEPT ![a] = "IN_PROGRESS"]
      /\ host' = host /\ members' = members /\ ready' = ready
  BY DEF StartStatus
<1>3. CASE a = r
  <2>1. InRoom(q, r)
    BY <1>2, <1>3 DEF InRoom
  <2>2. \A x \in Requests \ {q} : ~InRoom(x, r)
    BY <2>1, Lone DEF TInv
  <2>3. IsMember(host[r], r) /\ request[q].seen = Elements(members[r])
    BY <1>2, <2>1 DEF Quiet, Knows
  <2>4. status'[r] = "IN_PROGRESS"
    BY <1>2, <1>3 DEF TInv, RowsOK
  <2>5. Settled(r)'
    BY <1>2, <2>3, <2>4 DEF Settled, Open, IsMember
  <2>6. Knows(request[q], r)'
    BY <1>1, <1>2, <1>3, <2>3, <2>4 DEF Knows
  <2> QED BY <1>1, <2>2, <2>5, <2>6, QuietHere
<1>4. CASE a # r
  <2>1. Same(r)
    BY <1>2, <1>4 DEF Same, TInv, RowsOK
  <2>2. ~InRoom(q, r)'
    BY <1>1, <1>4 DEF InRoom
  <2> QED BY <1>1, <2>1, <2>2, QuietElsewhere
<1> QED BY <1>3, <1>4

\* A step of a start that records or fails to record.
LEMMA RecordingQuiet ==
  ASSUME TInv, NEW q \in Requests, NEW p \in Players, StartRow(q, p) \/ StartRowFails(q, p),
         NEW r \in Rooms, Quiet(r)
  PROVE  Quiet(r)'
<1>1. /\ \A x \in Requests \ {q} : request'[x] = request[x]
      /\ request'[q].at = "start.rows" /\ request'[q].room = request[q].room
      /\ request'[q].todo = request[q].todo \ {p}
      /\ request'[q].updated = request[q].updated \/ request'[q].updated = {}
  BY StartRowTyped, StartRowFailsTyped
<1>2. /\ request[q].at = "start.rows" /\ Same(r) /\ status' = status /\ members' = members
  BY DEF StartRow, StartRowFails, Same, rows
<1>3. InRoom(q, r)' => Knows(request[q], r)'
  <2> SUFFICES ASSUME InRoom(q, r)' PROVE Knows(request[q], r)'
    OBVIOUS
  <2>1. InRoom(q, r)
    BY <1>1, <1>2 DEF InRoom
  <2>2. /\ status[r] = "IN_PROGRESS" /\ request[q].todo \subseteq Elements(members[r])
        /\ request[q].updated \subseteq Elements(members[r])
    BY <1>2, <2>1 DEF Quiet, Knows
  <2> QED BY <1>1, <1>2, <2>2 DEF Knows
<1> QED BY <1>1, <1>2, <1>3, QuietElsewhere

LEMMA MemoryQuiet ==
  ASSUME TInv, NEW q \in Requests, StartArena(q) \/ Enter(q), NEW r \in Rooms, Quiet(r)
  PROVE  Quiet(r)'
<1>1. /\ request'[q] = Idle /\ \A x \in Requests \ {q} : request'[x] = request[x]
      /\ UNCHANGED rows
  BY StartArenaTyped, EnterTyped
<1>2. ~InRoom(q, r)' /\ Same(r)
  BY <1>1, IdleIs DEF InRoom, Same, rows
<1> QED BY <1>1, <1>2, QuietElsewhere

LEMMA StatementQuiet ==
  ASSUME TInv, Noticed, NEW q \in Requests, Statement(q), NEW r \in Rooms \ raced, Quiet(r)
  PROVE  Quiet(r)'
BY StatementKinds, MoveQuiet, CreateInsertQuiet, JoinInsertQuiet, LeaveCommitQuiet, ReadyWriteQuiet,
   StartStatusQuiet, RecordingQuiet, MemoryQuiet

LEMMA QuietInitially == Init => RoomInv
<1> SUFFICES ASSUME Init, NEW r \in Rooms PROVE Quiet(r)
  BY DEF RoomInv
<1>1. status[r] = "NONE" /\ \A q \in Requests : request[q] = Idle
  BY DEF Init
<1> QED BY <1>1, IdleKnows DEF Quiet, Settled, Open

LEMMA QuietNext == TInv /\ Noticed /\ RoomInv /\ [Next \/ Crash]_vars => RoomInv'
<1> SUFFICES ASSUME TInv, Noticed, RoomInv, NEW r \in Rooms \ raced'
             PROVE  [Next \/ Crash]_vars => Quiet(r)'
  BY DEF RoomInv
<1>1. ASSUME Next PROVE Quiet(r)'
  <2>1. r \in Rooms \ raced
    BY <1>1, WatchTyped DEF Next, TInv
  <2> QED BY <1>1, <2>1, StatementQuiet DEF Next, RoomInv
<1>2. ASSUME Crash PROVE Quiet(r)'
  <2>1. Quiet(r) /\ Same(r)
    BY <1>2, CrashTyped DEF RoomInv, overlaps, rows, Same
  <2>2. \A q \in Requests : ~InRoom(q, r)'
    BY <1>2, CrashTyped, IdleIs DEF InRoom
  <2> QED BY <2>1, <2>2, SameKnows DEF Quiet
<1>3. ASSUME UNCHANGED vars PROVE Quiet(r)'
  <2>1. Quiet(r) /\ Same(r) /\ request' = request
    BY <1>3 DEF RoomInv, vars, overlaps, rows, Same
  <2> QED BY <2>1, SameKnows DEF Quiet, InRoom
<1> QED BY <1>1, <1>2, <1>3

RInv == TInv /\ Noticed /\ RoomInv

LEMMA AlwaysQuiet == CrashSpec => []RInv
<1>1. Init => RInv
  BY TypedInitially, NoticedInitially, QuietInitially DEF RInv
<1>2. RInv /\ [Next \/ Crash]_vars => RInv'
  BY TypedNext, NoticedNext, QuietNext DEF RInv
<1> QED BY <1>1, <1>2, PTL DEF CrashSpec

\* An open room has its host among its members, unless requests have raced for it.
THEOREM OpenRoomsKeepTheirHost == CrashSpec => []OpenRoomsHaveTheirHost
<1>1. RInv => OpenRoomsHaveTheirHost
  BY DEF RInv, RoomInv, Quiet, Settled, OpenRoomsHaveTheirHost
<1> QED BY <1>1, AlwaysQuiet, PTL

-----------------------------------------------------------------------------
(* Who is given to the in-memory session of a room *)

Entering(r) == \A p \in arena'[r] \ arena[r] : IsMember(p, r) /\ Open(r)

LEMMA EnterEntering ==
  ASSUME TInv, NEW q \in Requests, Enter(q), NEW r \in Rooms, Quiet(r)
  PROVE  Entering(r)
<1>1. /\ request[q].at = "enter"
      /\ arena' = [arena EXCEPT ![request[q].room] = @ \cup {request[q].player}]
  BY DEF Enter
<1>2. CASE request[q].room = r
  <2>1. IsMember(request[q].player, r) /\ Open(r)
    BY <1>1, <1>2 DEF Quiet, InRoom, Knows
  <2>2. arena'[r] = arena[r] \cup {request[q].player}
    BY <1>1, <1>2 DEF TInv, MemoryOK
  <2> QED BY <2>1, <2>2 DEF Entering
<1>3. CASE request[q].room # r
  BY <1>1, <1>3 DEF Entering, TInv, MemoryOK
<1> QED BY <1>2, <1>3

LEMMA StartArenaEntering ==
  ASSUME TInv, NEW q \in Requests, StartArena(q), NEW r \in Rooms, Quiet(r)
  PROVE  Entering(r)
<1>1. /\ request[q].at = "start.rows"
      /\ arena' = [arena EXCEPT ![request[q].room] = @ \cup request[q].updated]
  BY DEF StartArena
<1>2. CASE request[q].room = r
  <2>1. request[q].updated \subseteq Elements(members[r]) /\ Open(r)
    BY <1>1, <1>2 DEF Quiet, InRoom, Knows, Open
  <2>2. arena'[r] = arena[r] \cup request[q].updated
    BY <1>1, <1>2 DEF TInv, MemoryOK
  <2> QED BY <2>1, <2>2 DEF Entering, IsMember
<1>3. CASE request[q].room # r
  BY <1>1, <1>3 DEF Entering, TInv, MemoryOK
<1> QED BY <1>2, <1>3

LEMMA StepEntering ==
  RInv /\ [Next \/ Crash]_vars => \A r \in Rooms \ raced' : Entering(r)
<1> SUFFICES ASSUME RInv, [Next \/ Crash]_vars, NEW r \in Rooms \ raced' PROVE Entering(r)
  OBVIOUS
<1>1. ASSUME NEW q \in Requests, Statement(q), Watch
      PROVE  Entering(r)
  <2>1. TInv /\ Quiet(r)
    BY <1>1, WatchTyped DEF RInv, TInv, RoomInv
  <2>2. arena' = arena => Entering(r)
    BY DEF Entering
  <2>3. (\E next \in Processing : Moves(q, next)) => Entering(r)
    BY <2>1, <2>2, MoveTyped
  <2> QED BY <1>1, <2>1, <2>2, <2>3, StatementKinds, CreateInsertTyped, JoinInsertTyped,
             LeaveCommitTyped, ReadyWriteTyped, StartStatusTyped, StartRowTyped,
             StartRowFailsTyped, StartArenaEntering, EnterEntering
<1>2. ASSUME Crash PROVE Entering(r)
  BY <1>2 DEF Crash, Entering
<1>3. ASSUME UNCHANGED vars PROVE Entering(r)
  BY <1>3 DEF vars, memory, Entering
<1> QED BY <1>1, <1>2, <1>3 DEF Next

\* Whoever is given to the in-memory session of a room is a member of the room, and
\* the room is open, unless requests have raced for it.
THEOREM OnlyMembersEnter == CrashSpec => EntrantsAreMembers
<1>1. RInv /\ [Next \/ Crash]_vars =>
        [\A r \in Rooms \ raced' : \A p \in arena'[r] \ arena[r] : IsMember(p, r) /\ Open(r)]_vars
  BY StepEntering DEF Entering
<1> QED BY <1>1, AlwaysQuiet, PTL DEF CrashSpec, EntrantsAreMembers

-----------------------------------------------------------------------------
(* What a start leaves behind, in a room nothing has gone wrong in *)

Starting(q, r) == request[q].at = "start.rows" /\ request[q].room = r

\* While a start is recording, the members still to do have no Session row and the
\* others one; afterwards all have one and are in the in-memory session.
Played(r) ==
  status[r] = "IN_PROGRESS" =>
    /\ \A q \in Requests : Starting(q, r) =>
         \A p \in Elements(members[r]) :
           p \in request[q].updated /\ sessions[r][p] = IF p \in request[q].todo THEN 0 ELSE 1
    /\ (\A q \in Requests : ~Starting(q, r)) =>
         \A p \in Elements(members[r]) : sessions[r][p] = 1 /\ p \in arena[r]

PlayedInv == \A r \in Rooms \ (orphaned \cup raced) : Played(r)

\* A step that leaves the starts in r and its Session rows alone, and adds nobody to
\* a room in progress.
LEMMA PlayedElsewhere ==
  ASSUME NEW r \in Rooms, Played(r),
         \A q \in Requests : Starting(q, r)' <=> Starting(q, r),
         \A q \in Requests : Starting(q, r) => request'[q] = request[q],
         sessions'[r] = sessions[r], arena[r] \subseteq arena'[r],
         status'[r] = "IN_PROGRESS" =>
           status[r] = "IN_PROGRESS" /\ Elements(members'[r]) \subseteq Elements(members[r])
  PROVE  Played(r)'
<1> SUFFICES ASSUME status'[r] = "IN_PROGRESS"
             PROVE  /\ \A q \in Requests : Starting(q, r)' =>
                         \A p \in Elements(members'[r]) :
                           /\ p \in request'[q].updated
                           /\ sessions'[r][p] = IF p \in request'[q].todo THEN 0 ELSE 1
                    /\ (\A q \in Requests : ~Starting(q, r)') =>
                         \A p \in Elements(members'[r]) : sessions'[r][p] = 1 /\ p \in arena'[r]
  BY DEF Played
<1>1. status[r] = "IN_PROGRESS" /\ Elements(members'[r]) \subseteq Elements(members[r])
  OBVIOUS
<1>2. ASSUME NEW q \in Requests, Starting(q, r)', NEW p \in Elements(members'[r])
      PROVE  /\ p \in request'[q].updated
             /\ sessions'[r][p] = IF p \in request'[q].todo THEN 0 ELSE 1
  <2>1. Starting(q, r) /\ request'[q] = request[q]
    BY <1>2
  <2> QED BY <1>1, <1>2, <2>1 DEF Played
<1>3. ASSUME \A q \in Requests : ~Starting(q, r)', NEW p \in Elements(members'[r])
      PROVE  sessions'[r][p] = 1 /\ p \in arena'[r]
  BY <1>1, <1>3 DEF Played
<1> QED BY <1>2, <1>3

\* A step of a request that is recording no start.
LEMMA NoStartPlayed ==
  ASSUME NEW r \in Rooms, Played(r), NEW q \in Requests,
         \A x \in Requests \ {q} : request'[x] = request[x],
         ~Starting(q, r), ~Starting(q, r)',
         sessions'[r] = sessions[r], arena[r] \subseteq arena'[r],
         status'[r] = "IN_PROGRESS" =>
           status[r] = "IN_PROGRESS" /\ Elements(members'[r]) \subseteq Elements(members[r])
  PROVE  Played(r)'
<1>1. \A x \in Requests : /\ Starting(x, r)' <=> Starting(x, r)
                          /\ Starting(x, r) => request'[x] = request[x]
  BY DEF Starting
<1> QED BY <1>1, PlayedElsewhere

LEMMA IdleStarts == \A r \in Rooms : \A q \in Requests : request[q] = Idle => ~Starting(q, r)
BY IdleIs DEF Starting

LEMMA RowWritesPlayed ==
  ASSUME TInv, NEW q \in Requests, NEW r \in Rooms, Quiet(r), Played(r),
         \/ \E next \in Processing : Moves(q, next)
         \/ \E a \in Rooms : CreateInsert(q, a)
         \/ JoinInsert(q) \/ ReadyWrite(q) \/ Enter(q)
  PROVE  Played(r)'
<1>1. CASE \E next \in Processing : Moves(q, next)
  <2>1. PICK next \in Processing : Moves(q, next)
    BY <1>1
  <2>2. request'[q] = next /\ \A x \in Requests \ {q} : request'[x] = request[x]
    BY <2>1, MoveTyped
  <2>3. /\ sessions' = sessions /\ arena' = arena /\ status' = status /\ members' = members
        /\ request[q].at # "start.rows" /\ next.at # "start.rows"
    BY <2>1 DEF Moves, rows, memory
  <2>4. ~Starting(q, r) /\ ~Starting(q, r)'
    BY <2>2, <2>3 DEF Starting
  <2> QED BY <2>2, <2>3, <2>4, NoStartPlayed
<1>2. ASSUME NEW a \in Rooms, CreateInsert(q, a) PROVE Played(r)'
  <2>1. request'[q] = Idle /\ \A x \in Requests \ {q} : request'[x] = request[x]
    BY <1>2, CreateInsertTyped
  <2>2. /\ sessions' = sessions /\ arena' = arena
        /\ status' = [status EXCEPT ![a] = "WAITING"]
        /\ members' = [members EXCEPT ![a] = <<request[q].player>>]
        /\ request[q].at = "create.insert"
    BY <1>2 DEF CreateInsert, memory
  <2>3. status'[r] = "IN_PROGRESS" => status[r] = "IN_PROGRESS" /\ members'[r] = members[r]
    BY <2>2 DEF TInv, RowsOK
  <2>4. ~Starting(q, r) /\ ~Starting(q, r)'
    BY <2>1, <2>2, IdleIs DEF Starting
  <2> QED BY <2>1, <2>2, <2>3, <2>4, NoStartPlayed
<1>3. CASE JoinInsert(q)
  <2>1. request'[q] = Idle /\ \A x \in Requests \ {q} : request'[x] = request[x]
    BY <1>3, JoinInsertTyped
  <2> DEFINE a == request[q].room
             p == request[q].player
  <2>2. /\ sessions' = sessions /\ arena' = arena /\ status' = status
        /\ members' = [members EXCEPT ![a] = IF IsMember(p, a) THEN @ ELSE Append(@, p)]
        /\ request[q].at = "join.insert"
    BY <1>3 DEF JoinInsert, memory
  <2>3. status'[r] = "IN_PROGRESS" => status[r] = "IN_PROGRESS" /\ members'[r] = members[r]
    <3>1. a = r => status[r] = "WAITING"
      BY <2>2 DEF Quiet, InRoom, Knows, MayJoin
    <3> QED BY <2>2, <3>1 DEF TInv, RowsOK
  <2>4. ~Starting(q, r) /\ ~Starting(q, r)'
    BY <2>1, <2>2, IdleIs DEF Starting
  <2> QED BY <2>1, <2>2, <2>3, <2>4, NoStartPlayed
<1>4. CASE ReadyWrite(q)
  <2>1. request'[q] = Idle /\ \A x \in Requests \ {q} : request'[x] = request[x]
    BY <1>4, ReadyWriteTyped
  <2>2. /\ sessions' = sessions /\ arena' = arena /\ status' = status /\ members' = members
        /\ request[q].at = "ready.write"
    BY <1>4 DEF ReadyWrite, memory
  <2>3. ~Starting(q, r) /\ ~Starting(q, r)'
    BY <2>1, <2>2, IdleIs DEF Starting
  <2> QED BY <2>1, <2>2, <2>3, NoStartPlayed
<1>5. CASE Enter(q)
  <2>1. /\ request'[q] = Idle /\ \A x \in Requests \ {q} : request'[x] = request[x]
        /\ sessions' = sessions /\ status' = status /\ members' = members
    BY <1>5, EnterTyped DEF rows
  <2>2. /\ request[q].at = "enter"
        /\ arena' = [arena EXCEPT ![request[q].room] = @ \cup {request[q].player}]
    BY <1>5 DEF Enter
  <2>3. arena[r] \subseteq arena'[r]
    BY <2>2 DEF TInv, MemoryOK
  <2>4. ~Starting(q, r) /\ ~Starting(q, r)'
    BY <2>1, <2>2, IdleIs DEF Starting
  <2> QED BY <2>1, <2>3, <2>4, NoStartPlayed
<1> QED BY <1>1, <1>2, <1>3, <1>4, <1>5

LEMMA LeaveCommitPlayed ==
  ASSUME TInv, NEW q \in Requests, LeaveCommit(q), NEW r \in Rooms, Played(r)
  PROVE  Played(r)'
<1> DEFINE a == request[q].room
           rest == Remaining(q)
<1>1. request'[q] = Idle /\ \A x \in Requests \ {q} : request'[x] = request[x]
  BY LeaveCommitTyped
<1>2. /\ request[q].at = "leave.commit" /\ sessions' = sessions /\ arena' = arena
      /\ members' = [members EXCEPT ![a] = rest]
      /\ status' = [status EXCEPT ![a] = IF request[q].empty THEN "CLOSED" ELSE @]
  BY DEF LeaveCommit, Closed, memory
<1>3. a \in Rooms
  BY <1>2, Holds
<1>4. Elements(rest) \subseteq Elements(members[a])
  <2>1. members[a] \in Seq(Players) /\ Distinct(members[a])
    BY <1>3 DEF TInv, RowsOK
  <2>2. rest = IF request[q].found THEN Remove(members[a], request[q].player) ELSE members[a]
    BY DEF Remaining
  <2> HIDE DEF a, rest
  <2> QED BY <2>1, <2>2, RemoveTyped
<1> HIDE DEF a, rest
<1>5. status'[r] = "IN_PROGRESS" =>
        status[r] = "IN_PROGRESS" /\ Elements(members'[r]) \subseteq Elements(members[r])
  BY <1>2, <1>3, <1>4 DEF TInv, RowsOK
<1>6. ~Starting(q, r) /\ ~Starting(q, r)'
  BY <1>1, <1>2, IdleIs DEF Starting
<1> QED BY <1>1, <1>2, <1>5, <1>6, NoStartPlayed

\* Only one start is recording in a room that nobody has raced for.
LEMMA OneStart ==
  ASSUME RequestsOK, Noticed, NEW q \in Requests, NEW x \in Requests \ {q}, NEW r \in Rooms \ raced,
         InRoom(q, r)
  PROVE  ~Starting(x, r)
BY Lone DEF Starting, InRoom

LEMMA StartStatusPlayed ==
  ASSUME TInv, Noticed, NEW q \in Requests, StartStatus(q), NEW r \in Rooms \ raced,
         Quiet(r), Played(r)
  PROVE  Played(r)'
<1> DEFINE a == request[q].room
<1>1. /\ \A x \in Requests \ {q} : request'[x] = request[x]
      /\ request'[q].at = "start.rows" /\ request'[q].room = a
      /\ request'[q].todo = request[q].seen
      /\ request'[q].updated = Elements(members[a])
  BY StartStatusTyped
<1>2. /\ request[q].at = "start.status" /\ status' = [status EXCEPT ![a] = "IN_PROGRESS"]
      /\ members' = members /\ sessions' = sessions /\ arena' = arena
  BY DEF StartStatus, memory
<1>3. CASE a = r
  <2>1. InRoom(q, r)
    BY <1>2, <1>3 DEF InRoom
  <2>2. \A x \in Requests \ {q} : ~Starting(x, r)'
    BY <1>1, <2>1, OneStart DEF TInv, Starting
  <2>3. status[r] = "WAITING" /\ request[q].seen = Elements(members[r])
    BY <1>2, <2>1 DEF Quiet, Knows, MayStart
  <2>4. \A p \in Players : sessions[r][p] = 0
    BY <2>3 DEF TInv, RowsOK, Started
  <2>5. Elements(members[r]) \subseteq Players
    BY DEF TInv, RowsOK, Elements
  <2>6. \A p \in Elements(members'[r]) :
          p \in request'[q].updated /\ sessions'[r][p] = IF p \in request'[q].todo THEN 0 ELSE 1
    BY <1>1, <1>2, <1>3, <2>3, <2>4, <2>5
  <2>7. Starting(q, r)'
    BY <1>1, <1>3 DEF Starting
  <2> QED BY <2>2, <2>6, <2>7 DEF Played
<1>4. CASE a # r
  <2>1. ~Starting(q, r) /\ ~Starting(q, r)'
    BY <1>1, <1>2, <1>4 DEF Starting
  <2>2. status'[r] = status[r]
    BY <1>2, <1>4 DEF TInv, RowsOK
  <2> QED BY <1>1, <1>2, <2>1, <2>2, NoStartPlayed
<1> QED BY <1>3, <1>4

LEMMA StartRowPlayed ==
  ASSUME TInv, Noticed, NEW q \in Requests, NEW a \in Players, StartRow(q, a),
         NEW r \in Rooms \ raced, Quiet(r), Played(r)
  PROVE  Played(r)'
<1>1. /\ \A x \in Requests \ {q} : request'[x] = request[x]
      /\ request'[q].at = "start.rows" /\ request'[q].room = request[q].room
      /\ request'[q].todo = request[q].todo \ {a}
      /\ request'[q].updated = request[q].updated
  BY StartRowTyped
<1>2. /\ request[q].at = "start.rows" /\ a \in request[q].todo
      /\ sessions' = [sessions EXCEPT ![request[q].room][a] = @ + 1]
      /\ status' = status /\ members' = members /\ arena' = arena
  BY DEF StartRow, Recorded, memory
<1>3. CASE request[q].room = r
  <2>1. InRoom(q, r) /\ Starting(q, r) /\ Starting(q, r)'
    BY <1>1, <1>2, <1>3 DEF InRoom, Starting
  <2>2. \A x \in Requests \ {q} : ~Starting(x, r)'
    BY <1>1, <2>1, OneStart DEF TInv, Starting
  <2>3. status[r] = "IN_PROGRESS" /\ request[q].todo \subseteq Elements(members[r])
    BY <1>2, <2>1 DEF Quiet, Knows
  <2>4. \A p \in Elements(members[r]) :
          p \in request[q].updated /\ sessions[r][p] = IF p \in request[q].todo THEN 0 ELSE 1
    BY <2>1, <2>3 DEF Played
  <2>5. Elements(members[r]) \subseteq Players
    BY DEF TInv, RowsOK, Elements
  <2>6. \A p \in Players : sessions'[r][p] = IF p = a THEN sessions[r][p] + 1 ELSE sessions[r][p]
    BY <1>2, <1>3 DEF TInv, RowsOK
  <2>7. \A p \in Elements(members'[r]) :
          p \in request'[q].updated /\ sessions'[r][p] = IF p \in request'[q].todo THEN 0 ELSE 1
    <3> SUFFICES ASSUME NEW p \in Elements(members'[r])
                 PROVE  /\ p \in request'[q].updated
                        /\ sessions'[r][p] = IF p \in request'[q].todo THEN 0 ELSE 1
      OBVIOUS
    <3>1. p \in Elements(members[r]) /\ p \in Players
      BY <1>2, <2>5
    <3>2. CASE p = a
      <4>1. sessions[r][p] = 0 /\ p \notin request'[q].todo /\ p \in request'[q].updated
        BY <1>1, <1>2, <2>4, <3>1, <3>2
      <4> QED BY <2>6, <3>1, <3>2, <4>1
    <3>3. CASE p # a
      BY <1>1, <2>4, <2>6, <3>1, <3>3
    <3> QED BY <3>2, <3>3
  <2> QED BY <2>1, <2>2, <2>7 DEF Played
<1>4. CASE request[q].room # r
  <2>1. ~Starting(q, r) /\ ~Starting(q, r)'
    BY <1>1, <1>4 DEF Starting
  <2>2. sessions'[r] = sessions[r]
    BY <1>2, <1>4 DEF TInv, RowsOK
  <2> QED BY <1>1, <1>2, <2>1, <2>2, NoStartPlayed
<1> QED BY <1>3, <1>4

LEMMA StartRowFailsPlayed ==
  ASSUME TInv, NEW q \in Requests, NEW a \in Players, StartRowFails(q, a),
         NEW r \in Rooms \ orphaned', Played(r)
  PROVE  Played(r)'
<1>1. /\ \A x \in Requests \ {q} : request'[x] = request[x]
      /\ request'[q].room = request[q].room
      /\ orphaned' = orphaned \cup {request[q].room}
      /\ sessions' = sessions /\ status' = status /\ members' = members /\ arena' = arena
  BY StartRowFailsTyped DEF rows
<1>2. ~Starting(q, r) /\ ~Starting(q, r)'
  BY <1>1 DEF Starting
<1> QED BY <1>1, <1>2, NoStartPlayed

LEMMA StartArenaPlayed ==
  ASSUME TInv, Noticed, NEW q \in Requests, StartArena(q), NEW r \in Rooms \ raced,
         Quiet(r), Played(r)
  PROVE  Played(r)'
<1>1. /\ request'[q] = Idle /\ \A x \in Requests \ {q} : request'[x] = request[x]
      /\ sessions' = sessions /\ status' = status /\ members' = members
  BY StartArenaTyped DEF rows
<1>2. /\ request[q].at = "start.rows" /\ request[q].todo = {}
      /\ arena' = [arena EXCEPT ![request[q].room] = @ \cup request[q].updated]
  BY DEF StartArena
<1>3. CASE request[q].room = r
  <2>1. InRoom(q, r) /\ Starting(q, r) /\ ~Starting(q, r)'
    BY <1>1, <1>2, <1>3, IdleIs DEF InRoom, Starting
  <2>2. \A x \in Requests \ {q} : ~Starting(x, r)'
    BY <1>1, <2>1, OneStart DEF TInv, Starting
  <2>3. arena'[r] = arena[r] \cup request[q].updated
    BY <1>2, <1>3 DEF TInv, MemoryOK
  <2>4. status[r] = "IN_PROGRESS" =>
          \A p \in Elements(members[r]) : p \in request[q].updated /\ sessions[r][p] = 1
    BY <1>2, <2>1 DEF Played
  <2> QED BY <1>1, <2>1, <2>2, <2>3, <2>4 DEF Played
<1>4. CASE request[q].room # r
  <2>1. ~Starting(q, r) /\ ~Starting(q, r)'
    BY <1>1, <1>4, IdleIs DEF Starting
  <2>2. arena'[r] = arena[r]
    BY <1>2, <1>4 DEF TInv, MemoryOK
  <2> QED BY <1>1, <2>1, <2>2, NoStartPlayed
<1> QED BY <1>3, <1>4

LEMMA OrphansStay ==
  ASSUME TInv, NEW q \in Requests, Statement(q)
  PROVE  orphaned \subseteq orphaned'
<1>1. (\E next \in Processing : Moves(q, next)) => orphaned' = orphaned
  BY MoveTyped
<1> QED BY <1>1, StatementKinds, CreateInsertTyped, JoinInsertTyped, LeaveCommitTyped,
           ReadyWriteTyped, StartStatusTyped, StartRowTyped, StartRowFailsTyped, StartArenaTyped,
           EnterTyped

LEMMA PlayedNext == RInv /\ PlayedInv /\ [Next \/ Crash]_vars => PlayedInv'
<1> SUFFICES ASSUME RInv, PlayedInv, NEW r \in Rooms, r \notin orphaned', r \notin raced'
             PROVE  [Next \/ Crash]_vars => Played(r)'
  BY DEF PlayedInv
<1>1. ASSUME NEW q \in Requests, Statement(q), Watch
      PROVE  Played(r)'
  <2>1. TInv /\ Noticed /\ r \in Rooms \ raced /\ Quiet(r) /\ Played(r)
    BY <1>1, WatchTyped, OrphansStay DEF RInv, TInv, RoomInv, PlayedInv
  <2> QED BY <1>1, <2>1, StatementKinds, RowWritesPlayed, LeaveCommitPlayed, StartStatusPlayed,
             StartRowPlayed, StartRowFailsPlayed, StartArenaPlayed
<1>2. ASSUME Crash PROVE Played(r)'
  <2>1. status'[r] # "IN_PROGRESS"
    BY <1>2, CrashTyped DEF RInv, rows
  <2> QED BY <2>1 DEF Played
<1>3. ASSUME UNCHANGED vars PROVE Played(r)'
  <2>1. Played(r)
    BY <1>3 DEF PlayedInv, vars, memory, overlaps
  <2> QED BY <1>3, <2>1 DEF vars, rows, memory, Played, Starting
<1> QED BY <1>1, <1>2, <1>3 DEF Next

LEMMA PlayedInitially == Init => PlayedInv
BY DEF Init, PlayedInv, Played

-----------------------------------------------------------------------------
(* How often a start that several requests found waiting is recorded *)

Fewer(r, p) == sessions[r][p] + Cardinality(Recording(r, p)) <= Cardinality(Requests)

FewerInv == \A r \in Rooms : \A p \in Players : Fewer(r, p)

LEMMA RequestsCounted ==
  ASSUME NEW S \in SUBSET Requests
  PROVE  /\ IsFiniteSet(S) /\ Cardinality(S) \in Nat /\ Cardinality(Requests) \in Nat
         /\ Cardinality(S) <= Cardinality(Requests)
         /\ \A T \in SUBSET S : Cardinality(T) <= Cardinality(S)
         /\ \A q \in S : Cardinality(S \ {q}) = Cardinality(S) - 1
<1>1. IsFiniteSet(S) /\ Cardinality(S) <= Cardinality(Requests)
  BY RequestsAssumption, FS_Subset
<1>2. \A T \in SUBSET S : Cardinality(T) <= Cardinality(S)
  BY <1>1, FS_Subset
<1>3. Cardinality(S) \in Nat /\ Cardinality(Requests) \in Nat
  BY <1>1, RequestsAssumption, FS_CardinalityType
<1>4. \A q \in S : Cardinality(S \ {q}) = Cardinality(S) - 1
  BY <1>1, FS_RemoveElement
<1> QED BY <1>1, <1>2, <1>3, <1>4

\* A room that no start has marked has no Session rows, so there the bound holds anyway.
LEMMA FewerBefore ==
  ASSUME RowsOK', NEW r \in Rooms, NEW p \in Players, status'[r] \notin Started
  PROVE  Fewer(r, p)'
<1>1. sessions'[r][p] = 0
  BY DEF RowsOK
<1>2. Recording(r, p)' \in SUBSET Requests
  BY DEF Recording
<1> QED BY <1>1, <1>2, RequestsCounted DEF Fewer

\* A step that writes no Session row of p and adds no start that will.
LEMMA FewerElsewhere ==
  ASSUME TInv, NEW r \in Rooms, NEW p \in Players, Fewer(r, p), sessions'[r][p] = sessions[r][p],
         Recording(r, p)' \subseteq Recording(r, p)
  PROVE  Fewer(r, p)'
<1>1. Recording(r, p) \in SUBSET Requests
  BY DEF Recording
<1> DEFINE before == Recording(r, p)
           after == Recording(r, p)'
<1>2. /\ Cardinality(before) \in Nat /\ Cardinality(Requests) \in Nat
      /\ Cardinality(after) <= Cardinality(before)
  BY <1>1, RequestsCounted
<1>3. Cardinality(after) \in Nat /\ sessions[r][p] \in Nat
  BY <1>1, RequestsCounted DEF TInv, RowsOK
<1>4. sessions[r][p] + Cardinality(before) <= Cardinality(Requests)
  BY DEF Fewer
<1> HIDE DEF before, after
<1>5. sessions[r][p] + Cardinality(after) <= Cardinality(Requests)
  BY <1>2, <1>3, <1>4
<1> QED BY <1>5 DEF Fewer, after

\* The same of a step of a request that will write no row of p.
LEMMA FewerOthers ==
  ASSUME TInv, NEW r \in Rooms, NEW p \in Players, Fewer(r, p), sessions'[r][p] = sessions[r][p],
         NEW q \in Requests, \A x \in Requests \ {q} : request'[x] = request[x],
         q \notin Recording(r, p)' \/ q \in Recording(r, p)
  PROVE  Fewer(r, p)'
<1>1. Recording(r, p)' \subseteq Recording(r, p)
  BY DEF Recording
<1> QED BY <1>1, FewerElsewhere

LEMMA EndsRecording ==
  ASSUME NEW r \in Rooms, NEW p \in Players, NEW q \in Requests, request'[q] = Idle
  PROVE  q \notin Recording(r, p)'
BY IdleIs DEF Recording

LEMMA StatementFewer ==
  ASSUME TInv, NEW q \in Requests, Statement(q), RowsOK',
         NEW r \in Rooms, NEW p \in Players, Fewer(r, p)
  PROVE  Fewer(r, p)'
<1>1. ASSUME NEW next \in Processing, Moves(q, next) PROVE Fewer(r, p)'
  <2>1. request'[q] = next /\ \A x \in Requests \ {q} : request'[x] = request[x]
    BY <1>1, MoveTyped
  <2>2. /\ sessions' = sessions /\ status' = status /\ next.at # "start.rows"
        /\ next.at = "start.status" => status[next.room] = "WAITING"
    BY <1>1 DEF Moves, rows
  <2>3. CASE q \in Recording(r, p)'
    <3>1. next.at = "start.status" /\ next.room = r
      BY <2>1, <2>2, <2>3 DEF Recording
    <3>2. status'[r] \notin Started
      BY <2>2, <3>1 DEF Started
    <3> QED BY <3>2, FewerBefore
  <2>4. CASE q \notin Recording(r, p)'
    BY <2>1, <2>2, <2>4, FewerOthers
  <2> QED BY <2>3, <2>4
<1>2. ASSUME \/ \E a \in Rooms : CreateInsert(q, a)
             \/ JoinInsert(q) \/ LeaveCommit(q) \/ ReadyWrite(q) \/ StartArena(q) \/ Enter(q)
      PROVE  Fewer(r, p)'
  <2>1. request'[q] = Idle /\ \A x \in Requests \ {q} : request'[x] = request[x]
    BY <1>2, CreateInsertTyped, JoinInsertTyped, LeaveCommitTyped, ReadyWriteTyped,
       StartArenaTyped, EnterTyped
  <2>2. sessions' = sessions
    BY <1>2 DEF CreateInsert, JoinInsert, LeaveCommit, ReadyWrite, StartArena, Enter, rows
  <2> QED BY <2>1, <2>2, EndsRecording, FewerOthers
<1>3. CASE StartStatus(q)
  <2>1. /\ \A x \in Requests \ {q} : request'[x] = request[x]
        /\ request'[q].at = "start.rows" /\ request'[q].room = request[q].room
        /\ request'[q].todo = request[q].seen
    BY <1>3, StartStatusTyped
  <2>2. request[q].at = "start.status" /\ sessions' = sessions
    BY <1>3 DEF StartStatus
  <2>3. q \in Recording(r, p)' => q \in Recording(r, p)
    BY <2>1, <2>2 DEF Recording
  <2> QED BY <2>1, <2>2, <2>3, FewerOthers
<1>4. ASSUME NEW a \in Players, StartRow(q, a) PROVE Fewer(r, p)'
  <2>1. /\ \A x \in Requests \ {q} : request'[x] = request[x]
        /\ request'[q].at = "start.rows" /\ request'[q].room = request[q].room
        /\ request'[q].todo = request[q].todo \ {a}
    BY <1>4, StartRowTyped
  <2>2. /\ request[q].at = "start.rows" /\ a \in request[q].todo
        /\ sessions' = [sessions EXCEPT ![request[q].room][a] = @ + 1]
    BY <1>4 DEF StartRow, Recorded
  <2>3. CASE request[q].room = r /\ p = a
    <3>1. q \in Recording(r, p)
      BY <2>2, <2>3 DEF Recording
    <3>2. Recording(r, p)' = Recording(r, p) \ {q}
      BY <2>1, <2>3 DEF Recording
    <3>3. sessions'[r][p] = sessions[r][p] + 1 /\ sessions[r][p] \in Nat
      BY <2>2, <2>3 DEF TInv, RowsOK
    <3>4. Recording(r, p) \in SUBSET Requests
      BY DEF Recording
    <3> DEFINE before == Recording(r, p)
    <3>5. /\ Cardinality(before \ {q}) = Cardinality(before) - 1
          /\ Cardinality(before) \in Nat /\ Cardinality(Requests) \in Nat
      BY <3>1, <3>4, RequestsCounted
    <3>6. sessions[r][p] + Cardinality(before) <= Cardinality(Requests)
      BY DEF Fewer
    <3>7. sessions'[r][p] + Cardinality(before \ {q}) <= Cardinality(Requests)
      <4> HIDE DEF before
      <4> QED BY <3>3, <3>5, <3>6
    <3> QED BY <3>2, <3>7 DEF Fewer
  <2>4. CASE ~(request[q].room = r /\ p = a)
    <3>1. sessions'[r][p] = sessions[r][p]
      BY <2>2, <2>4 DEF TInv, RowsOK
    <3>2. q \in Recording(r, p)' => q \in Recording(r, p)
      BY <2>1, <2>2 DEF Recording
    <3> QED BY <2>1, <3>1, <3>2, FewerOthers
  <2> QED BY <2>3, <2>4
<1>5. ASSUME NEW a \in Players, StartRowFails(q, a) PROVE Fewer(r, p)'
  <2>1. /\ \A x \in Requests \ {q} : request'[x] = request[x]
        /\ request'[q].at = "start.rows" /\ request'[q].room = request[q].room
        /\ request'[q].todo = request[q].todo \ {a} /\ sessions' = sessions
    BY <1>5, StartRowFailsTyped DEF rows
  <2>2. request[q].at = "start.rows"
    BY <1>5 DEF StartRowFails
  <2>3. q \in Recording(r, p)' => q \in Recording(r, p)
    BY <2>1, <2>2 DEF Recording
  <2> QED BY <2>1, <2>3, FewerOthers
<1> QED BY <1>1, <1>2, <1>3, <1>4, <1>5, StatementKinds

LEMMA FewerInitially == Init => FewerInv
<1> SUFFICES ASSUME Init, NEW r \in Rooms, NEW p \in Players PROVE Fewer(r, p)
  BY DEF FewerInv
<1>1. sessions[r][p] = 0
  BY DEF Init
<1>2. Recording(r, p) \in SUBSET Requests
  BY DEF Recording
<1> QED BY <1>1, <1>2, RequestsCounted DEF Fewer

LEMMA FewerNext == TInv /\ FewerInv /\ [Next \/ Crash]_vars => FewerInv'
<1> SUFFICES ASSUME TInv, FewerInv, NEW r \in Rooms, NEW p \in Players
             PROVE  [Next \/ Crash]_vars => Fewer(r, p)'
  BY DEF FewerInv
<1>1. ASSUME Next PROVE Fewer(r, p)'
  <2>1. RowsOK'
    BY <1>1, TypedNext DEF TInv
  <2> QED BY <1>1, <2>1, StatementFewer DEF Next, FewerInv
<1>2. ASSUME Crash PROVE Fewer(r, p)'
  <2>1. (\A q \in Requests : request'[q] = Idle) /\ sessions' = sessions
    BY <1>2, CrashTyped DEF rows
  <2>2. Recording(r, p)' \subseteq Recording(r, p)
    BY <2>1, EndsRecording DEF Recording
  <2> QED BY <2>1, <2>2, FewerElsewhere DEF FewerInv
<1>3. ASSUME UNCHANGED vars PROVE Fewer(r, p)'
  BY <1>3 DEF FewerInv, Fewer, Recording, vars, rows
<1> QED BY <1>1, <1>2, <1>3

\* A game that several starts found waiting is recorded once by each of them at most;
\* and once no request is in flight every member of a started room has one Session
\* row and is in the in-memory session, unless an insert failed, a crash came, or
\* requests raced for the room.
THEOREM StartsRecordEveryMember == CrashSpec => []StartRecordsEveryMember
<1> DEFINE SInv == RInv /\ PlayedInv /\ FewerInv
<1>1. Init => SInv
  BY TypedInitially, NoticedInitially, QuietInitially, PlayedInitially, FewerInitially DEF RInv
<1>2. SInv /\ [Next \/ Crash]_vars => SInv'
  BY TypedNext, NoticedNext, QuietNext, PlayedNext, FewerNext DEF RInv
<1>3. SInv => StartRecordsEveryMember
  <2> SUFFICES ASSUME SInv PROVE StartRecordsEveryMember
    OBVIOUS
  <2>1. \A r \in Rooms : \A p \in Players :
          sessions[r][p] + Cardinality(Recording(r, p)) <= Cardinality(Requests)
    BY DEF FewerInv, Fewer
  <2>2. (\A q \in Requests : request[q] = Idle) =>
          \A r \in Rooms \ (orphaned \cup raced) : status[r] = "IN_PROGRESS" =>
            \A p \in Elements(members[r]) : sessions[r][p] = 1 /\ p \in arena[r]
    BY IdleStarts DEF PlayedInv, Played
  <2> QED BY <2>1, <2>2 DEF StartRecordsEveryMember
<1> HIDE DEF SInv
<1> QED BY <1>1, <1>2, <1>3, PTL DEF CrashSpec

-----------------------------------------------------------------------------
(* How far joins that overlap can overfill a room *)

Fits(r) ==
  Len(members[r]) + Cardinality(Inserting(r)) <= MaxPlayers - 1 + Cardinality(Requests)

LEMMA NotInserting ==
  ASSUME NEW r \in Rooms, NEW q \in Requests, request'[q].at # "join.insert"
  PROVE  q \notin Inserting(r)'
BY DEF Inserting

\* The room has grown by no more than the joins that are through with it.
LEMMA FitsWhenBounded ==
  ASSUME NEW r \in Rooms, NEW n \in Nat, NEW m \in Nat, NEW S \in SUBSET Requests,
         NEW T \in SUBSET S, m <= n \/ (m <= n + 1 /\ \E q \in S : q \notin T),
         n + Cardinality(S) <= MaxPlayers - 1 + Cardinality(Requests)
  PROVE  m + Cardinality(T) <= MaxPlayers - 1 + Cardinality(Requests)
<1>1. /\ Cardinality(S) \in Nat /\ Cardinality(T) \in Nat /\ Cardinality(Requests) \in Nat
      /\ Cardinality(T) <= Cardinality(S) /\ MaxPlayers \in Nat
  BY RequestsCounted, MaxPlayersAssumption
<1>2. CASE m <= n
  BY <1>1, <1>2
<1>3. ASSUME m <= n + 1, NEW q \in S, q \notin T
      PROVE  m + Cardinality(T) <= MaxPlayers - 1 + Cardinality(Requests)
  <2>1. Cardinality(S \ {q}) = Cardinality(S) - 1 /\ Cardinality(T) <= Cardinality(S \ {q})
    <3>1. T \in SUBSET (S \ {q}) /\ S \ {q} \in SUBSET Requests
      BY <1>3
    <3> QED BY <3>1, RequestsCounted
  <2> QED BY <1>1, <1>3, <2>1
<1> QED BY <1>2, <1>3

\* A room that is full, or nearly, whatever joins it.
LEMMA FitsBelowCapacity ==
  ASSUME RowsOK', NEW r \in Rooms, Len(members'[r]) < MaxPlayers
  PROVE  Fits(r)'
<1>1. Inserting(r)' \in SUBSET Requests
  BY DEF Inserting
<1>2. Len(members'[r]) \in Nat
  BY DEF RowsOK
<1> DEFINE c == Cardinality(Inserting(r)')
<1>3. c \in Nat /\ Cardinality(Requests) \in Nat /\ c <= Cardinality(Requests) /\ MaxPlayers \in Nat
  BY <1>1, RequestsCounted, MaxPlayersAssumption
<1> HIDE DEF c
<1>4. Len(members'[r]) + c <= MaxPlayers - 1 + Cardinality(Requests)
  BY <1>2, <1>3
<1> QED BY <1>4 DEF Fits, c

LEMMA FitsAfter ==
  ASSUME TInv, RowsOK', NEW r \in Rooms, Fits(r), NEW q \in Requests,
         \A x \in Requests \ {q} : request'[x] = request[x], q \notin Inserting(r)',
         \/ Len(members'[r]) <= Len(members[r])
         \/ Len(members'[r]) <= Len(members[r]) + 1 /\ q \in Inserting(r)
  PROVE  Fits(r)'
<1>1. Inserting(r)' \in SUBSET Inserting(r) /\ Inserting(r) \in SUBSET Requests
  BY DEF Inserting
<1>2. Len(members'[r]) \in Nat /\ Len(members[r]) \in Nat
  BY DEF TInv, RowsOK
<1>3. Len(members[r]) + Cardinality(Inserting(r)) <= MaxPlayers - 1 + Cardinality(Requests)
  BY DEF Fits
<1>4. Len(members'[r]) + Cardinality(Inserting(r)') <= MaxPlayers - 1 + Cardinality(Requests)
  BY <1>1, <1>2, <1>3, FitsWhenBounded
<1> QED BY <1>4 DEF Fits

LEMMA StatementFits ==
  ASSUME TInv, NEW q \in Requests, Statement(q), RowsOK', NEW r \in Rooms, Fits(r)
  PROVE  Fits(r)'
<1>0. Len(members[r]) \in Nat /\ Idle.at # "join.insert"
  BY IdleIs DEF TInv, RowsOK
<1>1. ASSUME NEW next \in Processing, Moves(q, next) PROVE Fits(r)'
  <2>1. request'[q] = next /\ \A x \in Requests \ {q} : request'[x] = request[x]
    BY <1>1, MoveTyped
  <2>2. /\ members' = members
        /\ next.at = "join.insert" => Len(members[next.room]) < MaxPlayers
    BY <1>1 DEF Moves, rows
  <2>3. CASE q \in Inserting(r)'
    BY <2>1, <2>2, <2>3, FitsBelowCapacity DEF Inserting
  <2>4. CASE q \notin Inserting(r)'
    BY <1>0, <2>1, <2>2, <2>4, FitsAfter
  <2> QED BY <2>3, <2>4
<1>2. ASSUME ReadyWrite(q) \/ StartArena(q) \/ Enter(q) PROVE Fits(r)'
  <2>1. /\ request'[q] = Idle /\ \A x \in Requests \ {q} : request'[x] = request[x]
        /\ members' = members
    BY <1>2, ReadyWriteTyped, StartArenaTyped, EnterTyped DEF ReadyWrite, rows
  <2> QED BY <1>0, <2>1, NotInserting, FitsAfter
<1>3. ASSUME NEW p \in Players, StartRow(q, p) \/ StartRowFails(q, p)
      PROVE  Fits(r)'
  <2>1. request'[q].at = "start.rows" /\ \A x \in Requests \ {q} : request'[x] = request[x]
    BY <1>3, StartRowTyped, StartRowFailsTyped
  <2>2. members' = members
    BY <1>3 DEF StartRow, StartRowFails, rows
  <2> QED BY <1>0, <2>1, <2>2, NotInserting, FitsAfter
<1>4. ASSUME StartStatus(q) PROVE Fits(r)'
  <2>1. request'[q].at = "start.rows" /\ \A x \in Requests \ {q} : request'[x] = request[x]
    BY <1>4, StartStatusTyped
  <2>2. members' = members
    BY <1>4 DEF StartStatus
  <2> QED BY <1>0, <2>1, <2>2, NotInserting, FitsAfter
<1>5. ASSUME NEW a \in Rooms, CreateInsert(q, a) PROVE Fits(r)'
  <2>1. request'[q] = Idle /\ \A x \in Requests \ {q} : request'[x] = request[x]
    BY <1>5, CreateInsertTyped
  <2>2. members' = [members EXCEPT ![a] = <<request[q].player>>]
    BY <1>5 DEF CreateInsert
  <2>3. CASE a = r
    <3>1. members'[r] = <<request[q].player>>
      BY <2>2, <2>3 DEF TInv, RowsOK
    <3>2. Len(members'[r]) = 1 /\ 1 < MaxPlayers
      BY <3>1, MaxPlayersAssumption
    <3> QED BY <3>2, FitsBelowCapacity
  <2>4. CASE a # r
    <3>1. members'[r] = members[r]
      BY <2>2, <2>4 DEF TInv, RowsOK
    <3> QED BY <1>0, <2>1, <3>1, NotInserting, FitsAfter
  <2> QED BY <2>3, <2>4
<1>6. CASE JoinInsert(q)
  <2> DEFINE p == request[q].player
             a == request[q].room
  <2>1. request'[q] = Idle /\ \A x \in Requests \ {q} : request'[x] = request[x]
    BY <1>6, JoinInsertTyped
  <2>2. /\ request[q].at = "join.insert"
        /\ members' = [members EXCEPT ![a] = IF IsMember(p, a) THEN @ ELSE Append(@, p)]
    BY <1>6 DEF JoinInsert
  <2>3. p \in Players
    BY <2>2, Holds
  <2>4. CASE a = r
    <3>1. members'[r] = members[r] \/ members'[r] = Append(members[r], p)
      BY <2>2, <2>4 DEF TInv, RowsOK
    <3>2. members[r] \in Seq(Players)
      BY DEF TInv, RowsOK
    <3>3. Len(members'[r]) <= Len(members[r]) + 1
      BY <1>0, <2>3, <3>1, <3>2, AppendTyped
    <3>4. q \in Inserting(r)
      BY <2>2, <2>4 DEF Inserting
    <3> QED BY <1>0, <2>1, <3>3, <3>4, NotInserting, FitsAfter
  <2>5. CASE a # r
    <3>1. members'[r] = members[r]
      BY <2>2, <2>5 DEF TInv, RowsOK
    <3> QED BY <1>0, <2>1, <3>1, NotInserting, FitsAfter
  <2> QED BY <2>4, <2>5
<1>7. CASE LeaveCommit(q)
  <2> DEFINE a == request[q].room
  <2>1. request'[q] = Idle /\ \A x \in Requests \ {q} : request'[x] = request[x]
    BY <1>7, LeaveCommitTyped
  <2>2. /\ members' = [members EXCEPT ![a] = Remaining(q)]
        /\ Remaining(q) = IF request[q].found THEN Remove(members[a], request[q].player) ELSE members[a]
    BY <1>7 DEF LeaveCommit, Remaining
  <2>3. members[r] \in Seq(Players) /\ Distinct(members[r])
    BY DEF TInv, RowsOK
  <2>4. CASE a = r
    <3>1. members'[r] = members[r] \/ members'[r] = Remove(members[r], request[q].player)
      BY <2>2, <2>4 DEF TInv, RowsOK
    <3>2. Len(members'[r]) <= Len(members[r])
      BY <1>0, <2>3, <3>1, RemoveTyped
    <3> QED BY <1>0, <2>1, <3>2, NotInserting, FitsAfter
  <2>5. CASE a # r
    <3>1. members'[r] = members[r]
      BY <2>2, <2>5 DEF TInv, RowsOK
    <3> QED BY <1>0, <2>1, <3>1, NotInserting, FitsAfter
  <2> QED BY <2>4, <2>5
<1> QED BY <1>1, <1>2, <1>3, <1>4, <1>5, <1>6, <1>7, StatementKinds

\* Each request in flight can overfill a room by one player beyond its last free
\* place, and no more.
THEOREM OverfillIsBounded == CrashSpec => []OverfillBound
<1> DEFINE OInv == TInv /\ \A r \in Rooms : Fits(r)
<1>1. Init => OInv
  <2> SUFFICES ASSUME Init, NEW r \in Rooms PROVE Fits(r)
    BY TypedInitially
  <2>1. Len(members[r]) = 0 /\ Inserting(r) \in SUBSET Requests
    BY NoMember DEF Init, Inserting
  <2>2. /\ Cardinality(Inserting(r)) \in Nat /\ Cardinality(Requests) \in Nat
        /\ Cardinality(Inserting(r)) <= Cardinality(Requests)
    BY <2>1, RequestsCounted
  <2> QED BY <2>1, <2>2, MaxPlayersAssumption DEF Fits
<1>2. OInv /\ [Next \/ Crash]_vars => OInv'
  <2> SUFFICES ASSUME OInv, [Next \/ Crash]_vars, NEW r \in Rooms PROVE Fits(r)'
    BY TypedNext
  <2>1. RowsOK'
    BY TypedNext DEF TInv
  <2>2. CASE Next
    BY <2>1, <2>2, StatementFits DEF Next
  <2>3. CASE Crash
    <3>1. (\A q \in Requests : request'[q] = Idle) /\ members' = members
      BY <2>3, CrashTyped DEF rows
    <3>2. Inserting(r)' = {}
      BY <3>1, IdleIs DEF Inserting
    <3>3. Len(members'[r]) \in Nat /\ Inserting(r)' \in SUBSET Inserting(r) /\ Inserting(r) \in SUBSET Requests
      BY <2>1, <3>2 DEF RowsOK, Inserting
    <3>4. Len(members[r]) + Cardinality(Inserting(r)) <= MaxPlayers - 1 + Cardinality(Requests)
      BY DEF Fits
    <3>5. Len(members'[r]) + Cardinality(Inserting(r)') <= MaxPlayers - 1 + Cardinality(Requests)
      BY <3>1, <3>3, <3>4, FitsWhenBounded
    <3> QED BY <3>5 DEF Fits
  <2>4. CASE UNCHANGED vars
    BY <2>4 DEF Fits, Inserting, vars, rows
  <2> QED BY <2>2, <2>3, <2>4
<1>3. OInv => OverfillBound
  BY DEF Fits, OverfillBound
<1> HIDE DEF OInv
<1> QED BY <1>1, <1>2, <1>3, PTL DEF CrashSpec

-----------------------------------------------------------------------------
(* The open rooms of a player whose requests do not overlap *)

\* Those that nobody has raced for.
Homes(p) == OpenRoomsOf(p) \ raced

Entrance == {"create.insert", "join.read", "join.insert"}

\* The player has one at most, and none while a request is about to put it into a room.
Homely(p) ==
  /\ \A r, x \in Homes(p) : r = x
  /\ \A q \in Requests : request[q].at \in Entrance /\ request[q].player = p => Homes(p) = {}

HomelyInv == \A p \in Players \ crossed : Homely(p)

\* Only an insert gives a player a room.
LEMMA HomelyElsewhere ==
  ASSUME NEW p \in Players, Homely(p), Homes(p)' \subseteq Homes(p), NEW q \in Requests,
         \A x \in Requests \ {q} : request'[x] = request[x],
         request'[q].at \in Entrance /\ request'[q].player = p => Homes(p) = {}
  PROVE  Homely(p)'
<1>1. \A r, x \in Homes(p)' : r = x
  BY DEF Homely
<1>2. ASSUME NEW x \in Requests, request'[x].at \in Entrance, request'[x].player = p
      PROVE  Homes(p)' = {}
  <2>1. Homes(p) = {}
    BY <1>2 DEF Homely
  <2> QED BY <2>1
<1> QED BY <1>1, <1>2 DEF Homely

\* Rooms are left alone or closed, and nobody comes into one.
LEMMA NoNewHome ==
  ASSUME NEW p \in Players, raced \subseteq raced',
         \A r \in Rooms \ raced : /\ Open(r)' => Open(r)
                                  /\ IsMember(p, r)' => IsMember(p, r)
  PROVE  Homes(p)' \subseteq Homes(p)
BY DEF Homes, OpenRoomsOf

LEMMA MoveHomely ==
  ASSUME TInv, NEW q \in Requests, NEW next \in Processing, Moves(q, next), raced \subseteq raced',
         NEW p \in Players, Homely(p)
  PROVE  Homely(p)'
<1>1. request'[q] = next /\ \A x \in Requests \ {q} : request'[x] = request[x]
  BY MoveTyped
<1>2. status' = status /\ members' = members
  BY DEF Moves, rows
<1>3. Homes(p)' \subseteq Homes(p)
  BY <1>2, NoNewHome DEF Open, IsMember
<1>4. next.at \in Entrance /\ next.player = p => Homes(p) = {}
  <2> SUFFICES ASSUME next.at \in Entrance, next.player = p PROVE Homes(p) = {}
    OBVIOUS
  <2>1. \/ OpenRoomsOf(p) = {}
        \/ request[q].at = "join.read" /\ request[q].player = p
    BY DEF Moves, Entrance, InNoRoom
  <2> QED BY <2>1 DEF Homes, Homely, Entrance
<1> QED BY <1>1, <1>3, <1>4, HomelyElsewhere

\* The insert of the only request of p gives p its only room.
LEMMA InsertHomely ==
  ASSUME TInv, Noticed, raced \subseteq raced', NEW q \in Requests, NEW a \in Rooms,
         request[q].at \in Entrance, request'[q] = Idle,
         \A x \in Requests \ {q} : request'[x] = request[x],
         \A r \in (Rooms \ raced) \ {a} : /\ Open(r)' => Open(r)
                                          /\ members'[r] = members[r],
         a \notin raced => \A p \in Players : IsMember(p, a)' => p = request[q].player \/ IsMember(p, a),
         a \notin raced => Open(a) \/ \A p \in Players : IsMember(p, a)' => p = request[q].player,
         NEW p \in Players \ crossed, Homely(p)
  PROVE  Homely(p)'
<1>1. CASE request[q].player = p
  <2>1. Homes(p) = {}
    BY <1>1 DEF Homely
  <2>2. Homes(p)' \subseteq {a}
    BY <2>1 DEF Homes, OpenRoomsOf, IsMember
  <2>3. \A x \in Requests : ~(request'[x].at \in Entrance /\ request'[x].player = p)
    <3>1. ASSUME NEW x \in Requests \ {q}, request[x].at \in Entrance, request[x].player = p
          PROVE  FALSE
      <4>1. OfPlayer(q, p) /\ OfPlayer(x, p)
        BY <1>1, <3>1 DEF OfPlayer, Entrance
      <4> QED BY <4>1, Lone DEF TInv
    <3>2. request'[q].at \notin Entrance
      BY IdleIs DEF Entrance
    <3> QED BY <3>1, <3>2
  <2> QED BY <2>2, <2>3 DEF Homely
<1>2. CASE request[q].player # p
  <2>1. Homes(p)' \subseteq Homes(p)
    BY <1>2 DEF Homes, OpenRoomsOf, IsMember
  <2>2. request'[q].at \notin Entrance
    BY IdleIs DEF Entrance
  <2> QED BY <2>1, <2>2, HomelyElsewhere
<1> QED BY <1>1, <1>2

LEMMA StatementHomely ==
  ASSUME RInv, NEW q \in Requests, Statement(q), Watch, NEW p \in Players \ crossed, Homely(p)
  PROVE  Homely(p)'
<1> USE DEF RInv
<1>0. raced \subseteq raced' /\ TInv /\ Noticed
  BY WatchTyped DEF TInv
<1>1. CASE \E next \in Processing : Moves(q, next)
  BY <1>0, <1>1, MoveHomely
<1>2. ASSUME NEW a \in Rooms, CreateInsert(q, a) PROVE Homely(p)'
  <2>1. request'[q] = Idle /\ \A x \in Requests \ {q} : request'[x] = request[x]
    BY <1>2, CreateInsertTyped
  <2>2. /\ request[q].at = "create.insert"
        /\ members' = [members EXCEPT ![a] = <<request[q].player>>]
        /\ status' = [status EXCEPT ![a] = "WAITING"]
    BY <1>2 DEF CreateInsert
  <2>3. request[q].player \in Players
    BY <2>2, Holds
  <2>4. Elements(members'[a]) = {request[q].player}
    BY <2>2, <2>3, OneMember DEF TInv, RowsOK
  <2>5. \A x \in Players : IsMember(x, a)' => x = request[q].player
    BY <2>4 DEF IsMember
  <2>6. \A r \in Rooms \ {a} : status'[r] = status[r] /\ members'[r] = members[r]
    BY <2>2 DEF TInv, RowsOK
  <2>7. \A r \in (Rooms \ raced) \ {a} : (Open(r)' => Open(r)) /\ members'[r] = members[r]
    BY <2>6 DEF Open
  <2>8. request[q].at \in Entrance
    BY <2>2 DEF Entrance
  <2> QED BY <1>0, <2>1, <2>5, <2>7, <2>8, InsertHomely
<1>3. CASE JoinInsert(q)
  <2>0. request[q].at = "join.insert"
    BY <1>3 DEF JoinInsert
  <2>3. PICK b \in Players, a \in Rooms : b = request[q].player /\ a = request[q].room
    BY <2>0, Holds
  <2>1. request'[q] = Idle /\ \A x \in Requests \ {q} : request'[x] = request[x]
    BY <1>3, JoinInsertTyped
  <2>2. /\ request[q].at = "join.insert" /\ status' = status
        /\ members' = [members EXCEPT ![a] = IF IsMember(b, a) THEN @ ELSE Append(@, b)]
    BY <1>3, <2>3 DEF JoinInsert
  <2>4. a \notin raced => Open(a)
    BY <2>2, <2>3 DEF RoomInv, Quiet, InRoom, Knows, MayJoin, Open
  <2>5. \A x \in Players : IsMember(x, a)' => x = b \/ IsMember(x, a)
    <3>1. members'[a] = members[a] \/ members'[a] = Append(members[a], b)
      BY <2>2, <2>3 DEF TInv, RowsOK
    <3>2. members[a] \in Seq(Players)
      BY <2>3 DEF TInv, RowsOK
    <3>3. Elements(members'[a]) \subseteq Elements(members[a]) \cup {b}
      <4>1. Elements(Append(members[a], b)) = Elements(members[a]) \cup {b}
        BY <3>2, AppendTyped
      <4> QED BY <3>1, <4>1
    <3> QED BY <3>3 DEF IsMember
  <2>6. \A r \in (Rooms \ raced) \ {a} : (Open(r)' => Open(r)) /\ members'[r] = members[r]
    BY <2>2 DEF TInv, RowsOK, Open
  <2>7. request[q].at \in Entrance
    BY <2>2 DEF Entrance
  <2> QED BY <1>0, <2>1, <2>3, <2>4, <2>5, <2>6, <2>7, InsertHomely
<1>4. CASE LeaveCommit(q)
  <2> DEFINE a == request[q].room
  <2>1. request'[q] = Idle /\ \A x \in Requests \ {q} : request'[x] = request[x]
    BY <1>4, LeaveCommitTyped
  <2>2. /\ members' = [members EXCEPT ![a] = Remaining(q)]
        /\ Remaining(q) = IF request[q].found THEN Remove(members[a], request[q].player) ELSE members[a]
        /\ status' = [status EXCEPT ![a] = IF request[q].empty THEN "CLOSED" ELSE @]
    BY <1>4 DEF LeaveCommit, Remaining, Closed
  <2>3. ASSUME NEW r \in Rooms
        PROVE  (Open(r)' => Open(r)) /\ (IsMember(p, r)' => IsMember(p, r))
    <3>1. members[r] \in Seq(Players) /\ Distinct(members[r])
      BY DEF TInv, RowsOK
    <3>2. members'[r] = members[r] \/ members'[r] = Remove(members[r], request[q].player)
      BY <2>2 DEF TInv, RowsOK
    <3>3. IsMember(p, r)' => IsMember(p, r)
      BY <3>1, <3>2, RemoveTyped DEF IsMember
    <3>4. status'[r] = status[r] \/ status'[r] = "CLOSED"
      BY <2>2 DEF TInv, RowsOK
    <3> QED BY <3>3, <3>4 DEF Open
  <2>4. Homes(p)' \subseteq Homes(p)
    BY <1>0, <2>3, NoNewHome
  <2> QED BY <2>1, <2>4, HomelyElsewhere, IdleIs DEF Entrance
<1>5. CASE ReadyWrite(q) \/ StartArena(q) \/ Enter(q)
  <2>1. /\ request'[q] = Idle /\ \A x \in Requests \ {q} : request'[x] = request[x]
        /\ members' = members /\ status' = status
    BY <1>5, ReadyWriteTyped, StartArenaTyped, EnterTyped DEF ReadyWrite, rows
  <2>2. Homes(p)' \subseteq Homes(p)
    BY <1>0, <2>1, NoNewHome DEF Open, IsMember
  <2> QED BY <2>1, <2>2, HomelyElsewhere, IdleIs DEF Entrance
<1>6. CASE StartStatus(q)
  <2>1. request'[q].at = "start.rows" /\ \A x \in Requests \ {q} : request'[x] = request[x]
    BY <1>6, StartStatusTyped
  <2>2. /\ request[q].at = "start.status" /\ members' = members
        /\ status' = [status EXCEPT ![request[q].room] = "IN_PROGRESS"]
    BY <1>6 DEF StartStatus
  <2>3. ASSUME NEW r \in Rooms \ raced
        PROVE  (Open(r)' => Open(r)) /\ (IsMember(p, r)' => IsMember(p, r))
    <3>1. request[q].room = r => Open(r)
      BY <2>2, <2>3 DEF RoomInv, Quiet, InRoom, Knows, MayStart, Open
    <3>2. request[q].room # r => status'[r] = status[r]
      BY <2>2 DEF TInv, RowsOK
    <3> QED BY <2>2, <3>1, <3>2 DEF Open, IsMember
  <2>4. Homes(p)' \subseteq Homes(p)
    BY <1>0, <2>3, NoNewHome
  <2> QED BY <2>1, <2>4, HomelyElsewhere DEF Entrance
<1>7. ASSUME NEW a \in Players, StartRow(q, a) \/ StartRowFails(q, a)
      PROVE  Homely(p)'
  <2>1. request'[q].at = "start.rows" /\ \A x \in Requests \ {q} : request'[x] = request[x]
    BY <1>7, StartRowTyped, StartRowFailsTyped
  <2>2. members' = members /\ status' = status
    BY <1>7 DEF StartRow, StartRowFails, rows
  <2>3. Homes(p)' \subseteq Homes(p)
    BY <1>0, <2>2, NoNewHome DEF Open, IsMember
  <2> QED BY <2>1, <2>3, HomelyElsewhere DEF Entrance
<1> QED BY <1>1, <1>2, <1>3, <1>4, <1>5, <1>6, <1>7, StatementKinds

LEMMA HomelyInitially == Init => HomelyInv
<1> SUFFICES ASSUME Init, NEW p \in Players PROVE Homely(p)
  BY DEF HomelyInv
<1>1. OpenRoomsOf(p) = {}
  BY DEF Init, OpenRoomsOf, Open
<1> QED BY <1>1 DEF Homely, Homes

LEMMA HomelyNext == RInv /\ HomelyInv /\ [Next \/ Crash]_vars => HomelyInv'
<1> SUFFICES ASSUME RInv, HomelyInv, NEW p \in Players, p \notin crossed'
             PROVE  [Next \/ Crash]_vars => Homely(p)'
  BY DEF HomelyInv
<1>1. ASSUME NEW q \in Requests, Statement(q), Watch PROVE Homely(p)'
  <2>1. p \in Players \ crossed /\ Homely(p)
    BY <1>1, WatchTyped DEF RInv, TInv, HomelyInv
  <2> QED BY <1>1, <2>1, StatementHomely
<1>2. ASSUME Crash PROVE Homely(p)'
  <2>1. /\ UNCHANGED <<status, members, raced, crossed>>
        /\ \A q \in Requests : request'[q] = Idle
    BY <1>2, CrashTyped DEF RInv, rows, overlaps
  <2>2. Homely(p) /\ Homes(p)' = Homes(p)
    BY <2>1 DEF HomelyInv, Homes, OpenRoomsOf, Open, IsMember
  <2> QED BY <2>1, <2>2, IdleIs DEF Homely, Entrance
<1>3. ASSUME UNCHANGED vars PROVE Homely(p)'
  <2>1. /\ UNCHANGED <<status, members, raced, crossed, request>>
    BY <1>3 DEF vars, rows, overlaps
  <2>2. Homely(p) /\ Homes(p)' = Homes(p)
    BY <2>1 DEF HomelyInv, Homes, OpenRoomsOf, Open, IsMember
  <2> QED BY <2>1, <2>2 DEF Homely
<1> QED BY <1>1, <1>2, <1>3 DEF Next

\* A player whose own requests never overlap is in one open room at most, apart from
\* rooms that others' requests raced for.
THEOREM OneRoomAtATime == CrashSpec => []OneOpenRoom
<1>1. Init => RInv /\ HomelyInv
  BY TypedInitially, NoticedInitially, QuietInitially, HomelyInitially DEF RInv
<1>2. RInv /\ HomelyInv /\ [Next \/ Crash]_vars => (RInv /\ HomelyInv)'
  BY TypedNext, NoticedNext, QuietNext, HomelyNext DEF RInv
<1>3. HomelyInv => OneOpenRoom
  BY DEF HomelyInv, Homely, Homes, OneOpenRoom
<1> QED BY <1>1, <1>2, <1>3, PTL DEF CrashSpec

-----------------------------------------------------------------------------
(* Rooms that nobody has raced for act atomically *)

\* The abstract specification cuts the place of the i-th member out of the sequence.
LEMMA OthersIsRemove ==
  ASSUME NEW S, NEW s \in Seq(S), Distinct(s), NEW i \in DOMAIN s
  PROVE  SubSeq(s, 1, i - 1) \o SubSeq(s, i + 1, Len(s)) = Remove(s, s[i])
<1> DEFINE u == SubSeq(s, 1, i - 1)
           v == SubSeq(s, i + 1, Len(s))
           t == [j \in 1..(Len(s) - 1) |-> IF j < i THEN s[j] ELSE s[j + 1]]
<1>1. Len(s) \in Nat /\ DOMAIN s = 1..Len(s) /\ i \in 1..Len(s)
  OBVIOUS
<1>2. u \in Seq(S) /\ Len(u) = i - 1 /\ \A j \in 1..(i - 1) : u[j] = s[j]
  BY <1>1
<1>3. v \in Seq(S) /\ Len(v) = Len(s) - i /\ \A j \in 1..(Len(s) - i) : v[j] = s[j + i]
  BY <1>1
<1>4. t \in Seq(S) /\ Len(t) = Len(s) - 1 /\ \A j \in 1..(Len(s) - 1) : t[j] = IF j < i THEN s[j] ELSE s[j + 1]
  <2>1. \A j \in 1..(Len(s) - 1) : t[j] \in S
    BY <1>1
  <2> QED BY <1>1, <2>1
<1> HIDE DEF u, v, t
<1>5. /\ u \o v \in Seq(S) /\ Len(u \o v) = Len(u) + Len(v)
      /\ \A j \in 1..(Len(u) + Len(v)) : (u \o v)[j] = IF j <= Len(u) THEN u[j] ELSE v[j - Len(u)]
  BY <1>2, <1>3, ConcatProperties
<1>6. Len(u \o v) = Len(t)
  BY <1>1, <1>2, <1>3, <1>4, <1>5
<1>7. ASSUME NEW j \in 1..(Len(s) - 1)
      PROVE  (u \o v)[j] = t[j]
  <2>1. (u \o v)[j] = IF j <= i - 1 THEN u[j] ELSE v[j - (i - 1)]
    BY <1>1, <1>2, <1>3, <1>5
  <2>2. CASE j < i
    BY <1>1, <1>2, <1>4, <2>1, <2>2
  <2>3. CASE ~(j < i)
    <3>1. j - (i - 1) \in 1..(Len(s) - i) /\ j - (i - 1) + i = j + 1
      BY <1>1, <2>3
    <3>2. (u \o v)[j] = s[j - (i - 1) + i]
      BY <1>1, <1>3, <2>1, <2>3, <3>1
    <3> QED BY <1>1, <1>4, <2>3, <3>1, <3>2
  <2> QED BY <2>2, <2>3
<1>8. u \o v = t
  BY <1>4, <1>5, <1>6, <1>7, SeqEqual
<1> QED BY <1>8, RemoveAtPlace DEF u, v, t

\* A step after which its request is about no more than before marks nothing.
LEMMA NothingNoticed ==
  ASSUME Noticed, Watch, NEW q \in Requests, \A x \in Requests \ {q} : request'[x] = request[x],
         About(request'[q]) \subseteq About(request[q])
  PROVE  raced' = raced
<1>1. \A x \in Requests : About(request'[x]) \subseteq About(request[x])
  OBVIOUS
<1>2. Meeting' \subseteq Meeting
  BY <1>1 DEF Meeting
<1> QED BY <1>2, MetIsMeeting DEF Watch, Noticed

\* What an abstract step in which no undisturbed room changes is.
LEMMA Disturbs ==
  ASSUME raced \subseteq raced', \A r \in Rooms \ raced' : Same(r)
  PROVE  Atomic!Next
BY DEF Atomic!Next, Atomic!Disturb, Same

LEMMA Operates ==
  ASSUME NEW r \in Rooms, r \notin raced => Atomic!Operation(r) /\ raced' = raced,
         raced \subseteq raced', \A x \in Rooms \ {r} : Same(x)
  PROVE  Atomic!Next
<1>1. CASE r \in raced
  BY <1>1, Disturbs
<1>2. CASE r \notin raced
  BY <1>2 DEF Atomic!Next
<1> QED BY <1>1, <1>2

LEMMA Idles ==
  ASSUME Noticed, Watch, NEW q \in Requests, request'[q] = Idle,
         \A x \in Requests \ {q} : request'[x] = request[x]
  PROVE  raced' = raced
BY AboutIdle, NothingNoticed

LEMMA MembersSame == \A r \in Rooms : Atomic!MembersOf(r) = Elements(members[r])
BY DEF Atomic!MembersOf, Elements

LEMMA CreateIsAtomic ==
  ASSUME RInv, Watch, NEW q \in Requests, NEW r \in Rooms, CreateInsert(q, r)
  PROVE  Atomic!Next
<1> USE DEF RInv
<1>1. request'[q] = Idle /\ \A x \in Requests \ {q} : request'[x] = request[x]
  BY CreateInsertTyped
<1>2. raced' = raced
  BY <1>1, Idles
<1> DEFINE p == request[q].player
<1>3. /\ request[q].at = "create.insert" /\ status[r] = "NONE"
      /\ status' = [status EXCEPT ![r] = "WAITING"] /\ host' = [host EXCEPT ![r] = p]
      /\ members' = [members EXCEPT ![r] = <<p>>] /\ ready' = ready
  BY DEF CreateInsert
<1>4. p \in Players
  BY <1>3, Holds
<1>5. ready' = [ready EXCEPT ![r] = {}]
  <2>1. ready[r] = {} /\ ready \in [Rooms -> SUBSET Players]
    BY <1>3, NoMember DEF TInv, RowsOK
  <2> QED BY <1>3, <2>1
<1>6. Atomic!Create(r, p)
  BY <1>3, <1>5 DEF Atomic!Create, Atomic!RoomBecomes
<1>7. \A x \in Rooms \ {r} : Same(x)
  BY <1>3 DEF Same, TInv, RowsOK
<1> QED BY <1>2, <1>4, <1>6, <1>7, Operates DEF Atomic!Operation

LEMMA JoinIsAtomic ==
  ASSUME RInv, Watch, NEW q \in Requests, JoinInsert(q)
  PROVE  Atomic!Next
<1> USE DEF RInv
<1>1. request'[q] = Idle /\ \A x \in Requests \ {q} : request'[x] = request[x]
  BY JoinInsertTyped
<1>2. raced' = raced
  BY <1>1, Idles
<1>3. request[q].at = "join.insert"
  BY DEF JoinInsert
<1>4. PICK p \in Players, r \in Rooms : p = request[q].player /\ r = request[q].room
  BY <1>3, Holds
<1>5. /\ status' = status /\ host' = host /\ ready' = ready
      /\ members' = [members EXCEPT ![r] = IF IsMember(p, r) THEN @ ELSE Append(@, p)]
  BY <1>4 DEF JoinInsert
<1>6. ASSUME r \notin raced PROVE Atomic!Join(r, p)
  <2>1. MayJoin(p, r)
    BY <1>3, <1>4, <1>6 DEF RoomInv, Quiet, InRoom, Knows
  <2>2. /\ status[r] = "WAITING" /\ Len(members[r]) < MaxPlayers /\ ~IsMember(p, r)
        /\ p \notin Atomic!MembersOf(r)
    BY <2>1, MembersSame DEF MayJoin, HasPlace, IsMember
  <2>3. members' = [members EXCEPT ![r] = Append(members[r], p)]
    BY <1>5, <2>2
  <2>4. /\ status' = [status EXCEPT ![r] = status[r]] /\ host' = [host EXCEPT ![r] = host[r]]
        /\ ready' = [ready EXCEPT ![r] = ready[r]]
    BY <1>5 DEF TInv, RowsOK
  <2> QED BY <2>2, <2>3, <2>4 DEF Atomic!Join, Atomic!RoomBecomes
<1>7. \A x \in Rooms \ {r} : Same(x)
  BY <1>5 DEF Same, TInv, RowsOK
<1> QED BY <1>2, <1>6, <1>7, Operates DEF Atomic!Operation

LEMMA LeaveIsAtomic ==
  ASSUME RInv, Watch, NEW q \in Requests, LeaveCommit(q)
  PROVE  Atomic!Next
<1> USE DEF RInv
<1>1. request'[q] = Idle /\ \A x \in Requests \ {q} : request'[x] = request[x]
  BY LeaveCommitTyped
<1>2. raced' = raced
  BY <1>1, Idles
<1>3. request[q].at = "leave.commit"
  BY DEF LeaveCommit
<1>4. PICK p \in Players, r \in Rooms : p = request[q].player /\ r = request[q].room
  BY <1>3, Holds
<1>5. ASSUME r \notin raced PROVE Atomic!Leave(r, p)
  <2> DEFINE rest == Rest(p, r)
  <2>1. /\ IsMember(p, r) /\ Open(r)
        /\ members' = [members EXCEPT ![r] = rest]
        /\ ready' = [ready EXCEPT ![r] = @ \ {p}]
        /\ status' = [status EXCEPT ![r] = IF rest = << >> THEN "CLOSED" ELSE @]
        /\ host' = [host EXCEPT ![r] = IF p = host[r] /\ rest # << >> THEN Head(rest) ELSE @]
    BY <1>4, <1>5, LeaveCommitDoes DEF RoomInv
  <2>2. PICK i \in DOMAIN members[r] : members[r][i] = p
    BY <2>1 DEF IsMember, Elements
  <2>3. members[r] \in Seq(Players) /\ Distinct(members[r])
    BY DEF TInv, RowsOK
  <2>4. Atomic!Others(r, i) = rest
    BY <2>2, <2>3, OthersIsRemove DEF Atomic!Others, Rest
  <2> HIDE DEF rest
  <2>5. Atomic!RoomBecomes(r, IF rest = << >> THEN "CLOSED" ELSE status[r],
                           IF p = host[r] /\ rest # << >> THEN Head(rest) ELSE host[r],
                           rest, ready[r] \ {p})
    BY <2>1 DEF Atomic!RoomBecomes
  <2>6. status[r] \in {"WAITING", "IN_PROGRESS"}
    BY <2>1 DEF Open
  <2> QED BY <2>2, <2>4, <2>5, <2>6 DEF Atomic!Leave
<1>6. \A x \in Rooms \ {r} : Same(x)
  BY <1>4 DEF LeaveCommit, StillReady, Closed, HandedOn, Same, TInv, RowsOK
<1> QED BY <1>2, <1>5, <1>6, Operates DEF Atomic!Operation

LEMMA ReadyIsAtomic ==
  ASSUME RInv, Watch, NEW q \in Requests, ReadyWrite(q)
  PROVE  Atomic!Next
<1> USE DEF RInv
<1>1. request'[q] = Idle /\ \A x \in Requests \ {q} : request'[x] = request[x]
  BY ReadyWriteTyped
<1>2. raced' = raced
  BY <1>1, Idles
<1>3. request[q].at = "ready.write"
  BY DEF ReadyWrite
<1>4. request[q].value \in BOOLEAN
  BY <1>3, Holds, Kinds DEF ReadyWriting
<1>5. PICK p \in Players, r \in Rooms : p = request[q].player /\ r = request[q].room
  BY <1>3, Holds
<1>6. /\ status' = status /\ host' = host /\ members' = members
      /\ ready' = [ready EXCEPT ![r] = IF ~IsMember(p, r) THEN @
                                       ELSE IF request[q].value THEN @ \cup {p} ELSE @ \ {p}]
  BY <1>5 DEF ReadyWrite
<1>7. ASSUME r \notin raced PROVE \E value \in BOOLEAN : Atomic!SetReady(r, p, value)
  <2>1. IsMember(p, r) /\ status[r] = "WAITING"
    BY <1>3, <1>5, <1>7 DEF RoomInv, Quiet, InRoom, Knows
  <2>2. PICK value \in BOOLEAN : value = request[q].value
    BY <1>4
  <2>3. ready' = [ready EXCEPT ![r] = IF value THEN ready[r] \cup {p} ELSE ready[r] \ {p}]
    BY <1>6, <2>1, <2>2
  <2>4. /\ status' = [status EXCEPT ![r] = status[r]] /\ host' = [host EXCEPT ![r] = host[r]]
        /\ members' = [members EXCEPT ![r] = members[r]]
    BY <1>6 DEF TInv, RowsOK
  <2>5. Atomic!SetReady(r, p, value)
    BY <2>1, <2>3, <2>4, MembersSame DEF Atomic!SetReady, Atomic!RoomBecomes, IsMember
  <2> QED BY <2>5
<1>8. \A x \in Rooms \ {r} : Same(x)
  BY <1>6 DEF Same, TInv, RowsOK
<1> QED BY <1>2, <1>7, <1>8, Operates DEF Atomic!Operation

LEMMA StartIsAtomic ==
  ASSUME RInv, Watch, NEW q \in Requests, StartStatus(q)
  PROVE  Atomic!Next
<1> USE DEF RInv
<1>1. request[q].at = "start.status"
  BY DEF StartStatus
<1>2. PICK r \in Rooms : r = request[q].room
  BY <1>1, Holds
<1>3. /\ status' = [status EXCEPT ![r] = "IN_PROGRESS"] /\ host' = host /\ members' = members
      /\ ready' = ready
      /\ Goto(q, [at |-> "start.rows", room |-> r, todo |-> request[q].seen,
                  updated |-> Elements(members[r])])
  BY <1>2 DEF StartStatus
<1>4. \A x \in Requests \ {q} : request'[x] = request[x]
  BY StartStatusTyped
<1>5. raced' = raced
  <2>1. request'[q] = [at |-> "start.rows", room |-> r, todo |-> request[q].seen,
                       updated |-> Elements(members[r])]
    BY <1>3 DEF Goto, TInv, RequestsOK
  <2>2. About(request'[q]) \subseteq {r}
    BY <2>1 DEF About
  <2>3. r \in About(request[q])
    BY <1>1, <1>2, AboutIs DEF TInv, InRoom
  <2> QED BY <1>4, <2>2, <2>3, NothingNoticed
<1>6. ASSUME r \notin raced PROVE Atomic!Start(r)
  <2>1. status[r] = "WAITING" /\ Elements(members[r]) \subseteq ready[r] \cup {host[r]}
    BY <1>1, <1>2, <1>6 DEF RoomInv, Quiet, InRoom, Knows, MayStart
  <2>2. /\ host' = [host EXCEPT ![r] = host[r]] /\ members' = [members EXCEPT ![r] = members[r]]
        /\ ready' = [ready EXCEPT ![r] = ready[r]]
    BY <1>3 DEF TInv, RowsOK
  <2> QED BY <1>3, <2>1, <2>2, MembersSame DEF Atomic!Start, Atomic!RoomBecomes
<1>7. \A x \in Rooms \ {r} : Same(x)
  BY <1>3 DEF Same, TInv, RowsOK
<1> QED BY <1>5, <1>6, <1>7, Operates DEF Atomic!Operation

LEMMA RowsSame == UNCHANGED rows => \A r \in Rooms : Same(r)
BY DEF rows, Same

LEMMA StepIsAtomic == RInv /\ [Next \/ Crash]_vars => [Atomic!Next]_(Atomic!vars)
<1> SUFFICES ASSUME RInv, [Next \/ Crash]_vars PROVE [Atomic!Next]_(Atomic!vars)
  OBVIOUS
<1>1. ASSUME NEW q \in Requests, Statement(q), Watch PROVE Atomic!Next
  <2>1. raced \subseteq raced' /\ TInv
    BY <1>1, WatchTyped DEF RInv, TInv
  <2>2. ASSUME UNCHANGED rows PROVE Atomic!Next
    BY <2>1, <2>2, RowsSame, Disturbs
  <2>3. CASE \E next \in Processing : Moves(q, next)
    BY <2>2, <2>3 DEF Moves
  <2>4. CASE StartArena(q) \/ Enter(q)
    BY <2>1, <2>2, <2>4, StartArenaTyped, EnterTyped
  <2>5. ASSUME NEW p \in Players, StartRowFails(q, p) PROVE Atomic!Next
    BY <2>1, <2>2, <2>5, StartRowFailsTyped
  <2>6. ASSUME NEW p \in Players, StartRow(q, p) PROVE Atomic!Next
    BY <2>1, <2>6, Disturbs DEF StartRow, Same
  <2> QED BY <1>1, <2>1, <2>3, <2>4, <2>5, <2>6, StatementKinds, CreateIsAtomic, JoinIsAtomic,
             LeaveIsAtomic, ReadyIsAtomic, StartIsAtomic
<1>2. ASSUME Crash PROVE Atomic!Next
  BY <1>2, RowsSame, Disturbs DEF Crash, overlaps
<1>3. ASSUME UNCHANGED vars PROVE UNCHANGED Atomic!vars
  BY <1>3 DEF vars, rows, overlaps, Atomic!vars
<1> QED BY <1>1, <1>2, <1>3 DEF Next

\* Rooms that no two requests are about at once behave as AtomicRooms says: create,
\* join, leave, ready and start are each one step, through every crash.
THEOREM RoomsActAtomically == CrashSpec => ActsAtomically
<1>1. Init => Atomic!Init
  BY DEF Init, Atomic!Init
<1> QED BY <1>1, StepIsAtomic, AlwaysQuiet, PTL DEF CrashSpec, ActsAtomically, Atomic!Spec

-----------------------------------------------------------------------------
(* What follows from the abstract specification *)

\* A room that no two requests raced for holds no more than its capacity.
UnracedCapacity == \A r \in Rooms \ raced : Len(members[r]) <= MaxPlayers

LEMMA CapacityKept ==
  ASSUME TInv, UnracedCapacity, [Atomic!Next]_(Atomic!vars)
  PROVE  UnracedCapacity'
<1> SUFFICES ASSUME NEW r \in Rooms, r \notin raced' PROVE Len(members'[r]) <= MaxPlayers
  BY DEF UnracedCapacity
<1>1. members \in [Rooms -> Seq(Players)] /\ Distinct(members[r]) /\ MaxPlayers \in Nat /\ MaxPlayers >= 2
  BY MaxPlayersAssumption DEF TInv, RowsOK
<1>2. Len(members[r]) \in Nat
  BY <1>1
<1>3. ASSUME r \notin raced, members'[r] = members[r] PROVE Len(members'[r]) <= MaxPlayers
  BY <1>3 DEF UnracedCapacity
<1>4. ASSUME NEW x \in Rooms \ raced, Atomic!Operation(x), UNCHANGED raced
      PROVE  Len(members'[r]) <= MaxPlayers
  <2>1. ASSUME NEW p \in Players, Atomic!Create(x, p) PROVE Len(members'[r]) <= MaxPlayers
    <3>1. members'[r] = IF r = x THEN <<p>> ELSE members[r]
      BY <1>1, <2>1 DEF Atomic!Create, Atomic!RoomBecomes
    <3>2. Len(<<p>>) = 1
      OBVIOUS
    <3> QED BY <1>1, <1>3, <1>4, <3>1, <3>2
  <2>2. ASSUME NEW p \in Players, Atomic!Join(x, p) PROVE Len(members'[r]) <= MaxPlayers
    <3>1. members'[r] = IF r = x THEN Append(members[r], p) ELSE members[r]
      BY <1>1, <2>2 DEF Atomic!Join, Atomic!RoomBecomes
    <3>2. r = x => Len(members[r]) < MaxPlayers
      BY <2>2 DEF Atomic!Join
    <3>3. Len(Append(members[r], p)) = Len(members[r]) + 1
      BY <1>1
    <3> QED BY <1>1, <1>2, <1>3, <1>4, <3>1, <3>2, <3>3
  <2>3. ASSUME NEW p \in Players, Atomic!Leave(x, p) PROVE Len(members'[r]) <= MaxPlayers
    <3>1. PICK i \in DOMAIN members[x] : members'[r] = IF r = x THEN Atomic!Others(x, i) ELSE members[r]
      BY <1>1, <2>3 DEF Atomic!Leave, Atomic!RoomBecomes
    <3>2. CASE r = x
      <4>1. members'[r] = Remove(members[r], members[r][i])
        BY <1>1, <3>1, <3>2, OthersIsRemove DEF Atomic!Others
      <4>2. members[r][i] \in Elements(members[r])
        BY <3>2 DEF Elements
      <4>3. Len(members'[r]) <= Len(members[r])
        BY <1>1, <1>2, <4>1, <4>2, RemoveTyped
      <4>4. Len(members[r]) <= MaxPlayers /\ Len(members'[r]) \in Nat
        BY <1>1, <1>4, <4>1, <4>2, RemoveTyped DEF UnracedCapacity
      <4> QED BY <1>1, <1>2, <4>3, <4>4
    <3>3. CASE r # x
      BY <1>3, <1>4, <3>1, <3>3
    <3> QED BY <3>2, <3>3
  <2>4. ASSUME \/ Atomic!Start(x)
               \/ \E p \in Players : \E value \in BOOLEAN : Atomic!SetReady(x, p, value)
        PROVE  Len(members'[r]) <= MaxPlayers
    <3>1. members' = [members EXCEPT ![x] = members[x]]
      BY <2>4 DEF Atomic!Start, Atomic!SetReady, Atomic!RoomBecomes
    <3>2. members'[r] = members[r]
      BY <1>1, <3>1
    <3> QED BY <1>3, <1>4, <3>2
  <2> QED BY <1>4, <2>1, <2>2, <2>3, <2>4 DEF Atomic!Operation
<1>5. CASE Atomic!Disturb
  BY <1>3, <1>5 DEF Atomic!Disturb
<1>6. CASE UNCHANGED Atomic!vars
  BY <1>3, <1>6 DEF Atomic!vars
<1> QED BY <1>4, <1>5, <1>6 DEF Atomic!Next

\* The capacity that README.md promises, for every room that no two requests were
\* about at once: any number of players, through failures and crashes.
THEOREM UnracedRoomsKeepToCapacity == CrashSpec => []UnracedCapacity
<1>1. Init => UnracedCapacity
  BY MaxPlayersAssumption DEF Init, UnracedCapacity
<1>2. RInv /\ UnracedCapacity /\ [Next \/ Crash]_vars => UnracedCapacity'
  BY StepIsAtomic, CapacityKept DEF RInv
<1> QED BY <1>1, <1>2, AlwaysQuiet, PTL DEF CrashSpec

\* A room that its last member has closed stays closed, unless a start was in
\* flight together with that leave.
ClosedForGood == [][\A r \in Rooms \ raced' : status[r] = "CLOSED" => status'[r] = "CLOSED"]_vars

\* Nothing that requests one after the other can do reopens a room.
THEOREM ClosedRoomsStayClosed == CrashSpec => ClosedForGood
<1>1. ASSUME RInv, [Next \/ Crash]_vars, NEW r \in Rooms, r \notin raced', status[r] = "CLOSED"
      PROVE  status'[r] = "CLOSED"
  <2>1. [Atomic!Next]_(Atomic!vars) /\ status \in [Rooms -> Statuses]
    BY <1>1, StepIsAtomic DEF RInv, TInv, RowsOK
  <2>2. ASSUME NEW x \in Rooms \ raced, Atomic!Operation(x), UNCHANGED raced
        PROVE  status'[r] = status[r]
    <3>1. CASE x = r
      BY <1>1, <2>2, <3>1 DEF Atomic!Operation, Atomic!Start, Atomic!Create, Atomic!Join, Atomic!Leave,
         Atomic!SetReady
    <3>2. CASE x # r
      BY <2>1, <2>2, <3>2 DEF Atomic!Operation, Atomic!Start, Atomic!Create, Atomic!Join, Atomic!Leave,
         Atomic!SetReady, Atomic!RoomBecomes
    <3> QED BY <3>1, <3>2
  <2>3. Atomic!Disturb \/ UNCHANGED Atomic!vars => status'[r] = status[r]
    BY <1>1 DEF Atomic!Disturb, Atomic!vars
  <2> QED BY <1>1, <2>1, <2>2, <2>3 DEF Atomic!Next
<1>2. RInv /\ [Next \/ Crash]_vars =>
        [\A r \in Rooms \ raced' : status[r] = "CLOSED" => status'[r] = "CLOSED"]_vars
  BY <1>1
<1> QED BY <1>2, AlwaysQuiet, PTL DEF CrashSpec, ClosedForGood
=============================================================================
