----------------------------- MODULE GameSession -----------------------------
(***************************************************************************)
(* The authoritative world state of one room: class GameSession of         *)
(* src/infrastructure/game/game-session.ts with the two pure modules it    *)
(* calls, anti-cheat.ts and snapshot.ts.  The methods are synchronous, so   *)
(* each of them is one action; they interleave in any order, because every *)
(* caller is a WebSocket callback, a lobby request or the tick timer.      *)
(*                                                                         *)
(* Data abstraction.  A movement input is [seq, d]: d is the displacement  *)
(* move * maxSpeed * dt on one axis, and a d beyond MaxStep stands for     *)
(* every input the checks on dt, vector length, speed and distance refuse. *)
(* position stands for position, rotation and velocity, which only an      *)
(* accepted input changes, and changes together.  Time is counted in units *)
(* of the heartbeat timeout's resolution: silentFor is the age of          *)
(* lastHeartbeatAt, no longer counted once it is over the timeout.         *)
(***************************************************************************)
EXTENDS Integers, Sequences, FiniteSets

CONSTANTS
  Players,            \* player ids
  Inputs,             \* the movement inputs clients may send: [seq, d]
  Rtts,               \* the round-trip times a ping message may yield
  QueueLimit,         \* length of a player's input queue (40 in the code)
  FullSnapshotEvery,  \* a full snapshot every so many ticks (20 in the code)
  HeartbeatTimeout,   \* HEARTBEAT_TIMEOUT_MS in units of Elapse
  WorldMax,           \* WORLD_BOUNDS on the modelled axis
  MaxStep,            \* the longest displacement one input may ask for
  SpawnPoints         \* the spawn positions, indexed from 0 (8 in the code)

ASSUME PlayersAssumption == IsFiniteSet(Players)
ASSUME InputsAssumption == Inputs \subseteq [seq : Nat, d : Int]
ASSUME RttsAssumption == Rtts \subseteq Int
ASSUME BoundsAssumption ==
  /\ QueueLimit \in Nat \ {0}
  /\ FullSnapshotEvery \in Nat \ {0}
  /\ HeartbeatTimeout \in Nat
  /\ WorldMax \in Nat
  /\ MaxStep \in Nat

Positions == (-WorldMax)..WorldMax

\* The number of spawn points is the 8 of "spawnIndex * 2 * PI / 8".
NumSpawns == Cardinality(DOMAIN SpawnPoints)

ASSUME SpawnAssumption ==
  /\ NumSpawns \in Nat \ {0}
  /\ SpawnPoints \in [0..(NumSpawns - 1) -> Positions]

VARIABLES
  players,            \* Map playerId -> RuntimePlayerState
  pendingInputs,      \* Map playerId -> MovementInput[]
  previousSnapshots,  \* Map playerId -> PlayerSnapshot: the delta baseline
  tick,               \* the tick counter, modulo FullSnapshotEvery
  timer               \* the interval timer is armed

vars == <<players, pendingInputs, previousSnapshots, tick, timer>>

RuntimePlayer ==
  [position : Positions, connected : BOOLEAN, ping : Nat, lastSeq : Nat,
   silentFor : 0..(HeartbeatTimeout + 1)]

PlayerSnapshot ==
  [position : Positions, connected : BOOLEAN, ping : Nat, lastSeq : Nat]

-----------------------------------------------------------------------------
(* Maps keyed by player *)

\* map.set(k, v)
Put(f, k, v) == [x \in DOMAIN f \cup {k} |-> IF x = k THEN v ELSE f[x]]

\* map.delete(k)
Without(f, k) == [x \in DOMAIN f \ {k} |-> f[x]]

-----------------------------------------------------------------------------
(* anti-cheat.ts *)

\* spawnIndex is the number of players the session already has.
CreateRuntimePlayer(spawnIndex) ==
  [position  |-> SpawnPoints[spawnIndex % NumSpawns],
   connected |-> TRUE,
   ping      |-> 0,
   lastSeq   |-> 0,
   silentFor |-> 0]

\* clampVec3(position, WORLD_BOUNDS)
Clamp(x) == IF x > WorldMax THEN WorldMax ELSE IF x < -WorldMax THEN -WorldMax ELSE x

\* Slip: the sequence number is not looked at.
AcceptableReplayed(state, input) == input.d \in (-MaxStep)..MaxStep

\* Slip: an input that repeats the last sequence number is not stale.
AcceptableAgain(state, input) ==
  /\ input.seq >= state.lastSeq
  /\ input.d \in (-MaxStep)..MaxStep

\* validateAndApplyMovement accepts the input in this state.
Acceptable(state, input) ==
  /\ input.seq > state.lastSeq
  /\ input.d \in (-MaxStep)..MaxStep

\* ... and returns this one.
Moved(state, input) ==
  [state EXCEPT !.position = Clamp(@ + input.d), !.lastSeq = input.seq]

-----------------------------------------------------------------------------
(* snapshot.ts *)

ToPlayerSnapshot(state) ==
  [position |-> state.position, connected |-> state.connected,
   ping |-> state.ping, lastSeq |-> state.lastSeq]

Snapshots(ps) == [p \in DOMAIN ps |-> ToPlayerSnapshot(ps[p])]

\* Slip: connected is missing from the fields that are compared.
PatchWithoutConnected(a, b) == [f \in {g \in DOMAIN b \ {"connected"} : a[g] # b[g]} |-> b[f]]

\* The fields of b that differ from a.
Patch(a, b) == [f \in {g \in DOMAIN b : a[g] # b[g]} |-> b[f]]

\* Slip: a player the baseline lacks is left to the next full snapshot.
ChangesOfKnown(previous, current) ==
  [p \in {q \in DOMAIN current \cap DOMAIN previous : previous[q] # current[q]} |->
     Patch(previous[p], current[p])]

\* A player the baseline lacks is sent whole, a player of the baseline as the
\* patch of its dirty fields, a clean one not at all.
Changes(previous, current) ==
  [p \in {q \in DOMAIN current : q \notin DOMAIN previous \/ previous[q] # current[q]} |->
     IF p \in DOMAIN previous THEN Patch(previous[p], current[p]) ELSE current[p]]

Removed(previous, current) == DOMAIN previous \ DOMAIN current

ComputeDelta(previous, current) ==
  [type |-> "delta", changes |-> Changes(previous, current),
   removed |-> Removed(previous, current)]

FullSnapshot(current) == [type |-> "snapshot", players |-> current]

\* step emits nothing when nothing changed.
NoMessage == [type |-> "none"]

-----------------------------------------------------------------------------
(* The tick *)

\* Slip: the timeout is compared in another unit than the age.
ExpiredNever(state) ==
  IF state.silentFor > 2 * HeartbeatTimeout + 1 THEN [state EXCEPT !.connected = FALSE] ELSE state

\* A player not heard of for longer than the timeout is shown disconnected.
Expired(state) ==
  IF state.silentFor > HeartbeatTimeout THEN [state EXCEPT !.connected = FALSE] ELSE state

\* Slip: an accepted input moves the player on from what the map holds by then.
DrainedSummed(state, queue) ==
  LET reached[i \in 0..Len(queue)] ==
        IF i = 0 THEN state
        ELSE IF Acceptable(state, queue[i]) THEN Moved(reached[i - 1], queue[i])
        ELSE reached[i - 1]
  IN  reached[Len(queue)]

\* The loop drains the whole queue: reached[i] is what the players map holds after
\* the first i inputs.  Every input is validated against the state the tick began
\* with, and an accepted one overwrites what the inputs before it wrote.
Drained(state, queue) ==
  LET reached[i \in 0..Len(queue)] ==
        IF i = 0 THEN state
        ELSE IF Acceptable(state, queue[i]) THEN Moved(state, queue[i])
        ELSE reached[i - 1]
  IN  reached[Len(queue)]

\* The players map once the tick has gone over it.
Simulated == [p \in DOMAIN players |-> Drained(Expired(players[p]), pendingInputs[p])]

NextTick == (tick + 1) % FullSnapshotEvery

\* Slip: only an empty baseline asks for a full snapshot.
ShouldFullOnce == DOMAIN previousSnapshots = {}

ShouldFull == NextTick = 0 \/ DOMAIN previousSnapshots = {}

\* The message the tick emits.
StepMessage ==
  LET current == Snapshots(Simulated)
      delta   == ComputeDelta(previousSnapshots, current)
  IN  IF ShouldFull THEN FullSnapshot(current)
      ELSE IF DOMAIN delta.changes = {} /\ delta.removed = {} THEN NoMessage
      ELSE delta

\* Slip: a delta tick leaves the baseline of the last full snapshot.
NextBaselineOfFull == IF ShouldFull THEN Snapshots(Simulated) ELSE previousSnapshots

\* The baseline the tick leaves: replaced by a full snapshot, and in a delta
\* tick rid of the removed players and overwritten by every current snapshot.
NextBaseline ==
  LET current == Snapshots(Simulated)
      kept    == DOMAIN previousSnapshots \ Removed(previousSnapshots, current)
  IN  IF ShouldFull THEN current
      ELSE [p \in kept \cup DOMAIN current |->
              IF p \in DOMAIN current THEN current[p] ELSE previousSnapshots[p]]

-----------------------------------------------------------------------------
Init ==
  /\ players = << >>
  /\ pendingInputs = << >>
  /\ previousSnapshots = << >>
  /\ tick = 0
  /\ timer = FALSE

\* GameSessionManager starts a session as it creates it, and stops it for good.
Start ==
  /\ ~timer
  /\ timer' = TRUE
  /\ UNCHANGED <<players, pendingInputs, previousSnapshots, tick>>

Stop ==
  /\ timer
  /\ timer' = FALSE
  /\ UNCHANGED <<players, pendingInputs, previousSnapshots, tick>>

\* Slip: a player that joins again is spawned again.
AddPlayerAfresh(p) ==
  /\ players' = Put(players, p, CreateRuntimePlayer(Cardinality(DOMAIN players \ {p})))
  /\ pendingInputs' = Put(pendingInputs, p, << >>)
  /\ UNCHANGED <<previousSnapshots, tick, timer>>

\* A player the session already has keeps its state and counts as heard of.
AddPlayer(p) ==
  /\ IF p \in DOMAIN players
     THEN /\ players' = [players EXCEPT ![p].connected = TRUE, ![p].silentFor = 0]
          /\ UNCHANGED pendingInputs
     ELSE /\ players' = Put(players, p, CreateRuntimePlayer(Cardinality(DOMAIN players)))
          /\ pendingInputs' = Put(pendingInputs, p, << >>)
  /\ UNCHANGED <<previousSnapshots, tick, timer>>

RemovePlayer(p) ==
  /\ players' = Without(players, p)
  /\ pendingInputs' = Without(pendingInputs, p)
  /\ previousSnapshots' = Without(previousSnapshots, p)
  /\ UNCHANGED <<tick, timer>>

MarkDisconnected(p) ==
  /\ p \in DOMAIN players
  /\ players' = [players EXCEPT ![p].connected = FALSE]
  /\ UNCHANGED <<pendingInputs, previousSnapshots, tick, timer>>

\* Slip: the queue is cut one input too late.
EnqueueInputOneMore(p, input) ==
  /\ p \in DOMAIN pendingInputs
  /\ pendingInputs' = [pendingInputs EXCEPT
       ![p] = Append(IF Len(@) > QueueLimit THEN Tail(@) ELSE @, input)]
  /\ UNCHANGED <<players, previousSnapshots, tick, timer>>

\* A full queue loses its oldest input.
EnqueueInput(p, input) ==
  /\ p \in DOMAIN pendingInputs
  /\ pendingInputs' = [pendingInputs EXCEPT
       ![p] = Append(IF Len(@) >= QueueLimit THEN Tail(@) ELSE @, input)]
  /\ UNCHANGED <<players, previousSnapshots, tick, timer>>

Heartbeat(p) ==
  /\ p \in DOMAIN players
  /\ players' = [players EXCEPT ![p].silentFor = 0, ![p].connected = TRUE]
  /\ UNCHANGED <<pendingInputs, previousSnapshots, tick, timer>>

UpdatePing(p, rtt) ==
  /\ p \in DOMAIN players
  /\ players' = [players EXCEPT ![p].ping = IF rtt > 0 THEN rtt ELSE 0]
  /\ UNCHANGED <<pendingInputs, previousSnapshots, tick, timer>>

\* The interval timer's callback.
Step ==
  /\ timer
  /\ players' = Simulated
  /\ pendingInputs' = [p \in DOMAIN pendingInputs |-> << >>]
  /\ previousSnapshots' = NextBaseline
  /\ tick' = NextTick
  /\ UNCHANGED timer

\* Date.now() advances by one unit for everybody.
Aged(state) ==
  [state EXCEPT !.silentFor = IF @ <= HeartbeatTimeout THEN @ + 1 ELSE @]

Elapse ==
  /\ players' = [p \in DOMAIN players |-> Aged(players[p])]
  /\ UNCHANGED <<pendingInputs, previousSnapshots, tick, timer>>

Next ==
  \/ Start
  \/ Stop
  \/ Step
  \/ Elapse
  \/ \E p \in Players :
       \/ AddPlayer(p)
       \/ RemovePlayer(p)
       \/ MarkDisconnected(p)
       \/ Heartbeat(p)
       \/ \E input \in Inputs : EnqueueInput(p, input)
       \/ \E rtt \in Rtts : UpdatePing(p, rtt)

Spec == Init /\ [][Next]_vars

-----------------------------------------------------------------------------
(* Properties *)

\* Every map holds what its declared type says, the three maps are keyed by
\* players of the session, and no queue outgrows its limit.
TypeOK ==
  /\ DOMAIN players \subseteq Players
  /\ players \in [DOMAIN players -> RuntimePlayer]
  /\ pendingInputs \in [DOMAIN players -> Seq(Inputs)]
  /\ \A p \in DOMAIN players : Len(pendingInputs[p]) <= QueueLimit
  /\ DOMAIN previousSnapshots \subseteq DOMAIN players
  /\ previousSnapshots \in [DOMAIN previousSnapshots -> PlayerSnapshot]
  /\ tick \in 0..(FullSnapshotEvery - 1)
  /\ timer \in BOOLEAN

\* However inputs are repeated, reordered and queued, over however many ticks and
\* joins, a player is no further from a spawn point than one legal displacement for
\* every sequence number up to the last acknowledged one: repeated inputs do not add up.
DistanceIsEarned ==
  \A p \in DOMAIN players :
    \E spawn \in DOMAIN SpawnPoints :
      players[p].position - SpawnPoints[spawn]
        \in (-(players[p].lastSeq * MaxStep))..(players[p].lastSeq * MaxStep)

\* The delta baseline always agrees with the live state on everything the
\* simulation computes: between two ticks only connected and ping may differ
\* from what the last tick recorded, whatever joins, closes and heartbeats came.
BaselineIsLastTick ==
  \A p \in DOMAIN previousSnapshots :
    /\ p \in DOMAIN players
    /\ previousSnapshots[p].position = players[p].position
    /\ previousSnapshots[p].lastSeq = players[p].lastSeq

\* Whatever a client sends, in whatever order, and however often it joins
\* again, a player in the session never goes back to an earlier sequence number.
SeqNeverFalls ==
  [][\A p \in DOMAIN players \cap DOMAIN players' :
       players'[p].lastSeq >= players[p].lastSeq]_vars

\* A flood of inputs moves a player no further in one step than one legal input
\* does: queued displacements do not add up, a join again is no teleport.
NoTeleport ==
  [][\A p \in DOMAIN players \cap DOMAIN players' :
       players'[p].position - players[p].position \in (-MaxStep)..MaxStep]_vars

\* A player moves only by an input with a higher sequence number: the client can
\* tell from lastProcessedInputSeq that its prediction must be reconciled.
MovesAreAcknowledged ==
  [][\A p \in DOMAIN players \cap DOMAIN players' :
       players'[p].position # players[p].position
         => players'[p].lastSeq > players[p].lastSeq]_vars

\* A player that has fallen silent is shown disconnected by some later tick,
\* unless it is heard of again, leaves, or the session is stopped.
SilentPlayersTimeOut ==
  \A p \in Players :
    (p \in DOMAIN players /\ players[p].silentFor > HeartbeatTimeout)
      ~> \/ p \notin DOMAIN players
         \/ players[p].silentFor = 0
         \/ ~players[p].connected
         \/ ~timer
=============================================================================
