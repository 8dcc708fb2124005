------------------------ MODULE SnapshotStream_proofs ------------------------
(***************************************************************************)
(* Theorems about SnapshotStream for any players, inputs and bounds: the   *)
(* stream runs the session it watches, and a joined client's picture of    *)
(* where everybody is agrees with the server's.  The inductive invariant   *)
(* joins that of GameSession (the baseline agrees with the players) with   *)
(* the clause of ViewMotionExact that a joined client knows every player   *)
(* of the baseline: a patch then always finds the snapshot it amends.      *)
(***************************************************************************)
EXTENDS SnapshotStream, GameSession_proofs

-----------------------------------------------------------------------------
(* Deltas *)

Fields == {"position", "connected", "ping", "lastSeq"}

LEMMA SnapshotFields ==
  ASSUME NEW s \in PlayerSnapshot
  PROVE  /\ DOMAIN s = Fields
         /\ s = [f \in Fields |-> s[f]]
         /\ s.position = s["position"]
         /\ s.lastSeq = s["lastSeq"]
BY DEF PlayerSnapshot, Fields

\* A field in which a client's copy c agrees with the old snapshot a agrees with
\* the new snapshot b once the patch from a to b is applied to c.
LEMMA OverlayPatch ==
  ASSUME NEW a \in PlayerSnapshot, NEW b \in PlayerSnapshot, NEW c \in PlayerSnapshot,
         NEW f \in Fields, c[f] = a[f]
  PROVE  Overlay(c, Patch(a, b))[f] = b[f]
<1>1. f \in DOMAIN a /\ f \in DOMAIN b /\ f \in DOMAIN c
  BY SnapshotFields
<1> QED BY <1>1 DEF Overlay, Patch

LEMMA OverlayWhole ==
  ASSUME NEW b \in PlayerSnapshot, NEW c \in PlayerSnapshot
  PROVE  Overlay(c, b) = b
<1>1. DOMAIN c \cup DOMAIN b = DOMAIN b
  BY SnapshotFields
<1>2. Overlay(c, b) = [f \in DOMAIN b |-> b[f]]
  BY <1>1 DEF Overlay
<1> QED BY <1>2, SnapshotFields

LEMMA OverlayType ==
  ASSUME NEW a \in PlayerSnapshot, NEW b \in PlayerSnapshot, NEW c \in PlayerSnapshot
  PROVE  Overlay(c, Patch(a, b)) \in PlayerSnapshot
<1> DEFINE o == Overlay(c, Patch(a, b))
<1>1. DOMAIN o = Fields
  BY SnapshotFields DEF Overlay, Patch
<1>2. o = [f \in Fields |-> o[f]]
  BY <1>1 DEF Overlay
<1>3. /\ o["position"] \in Positions /\ o["connected"] \in BOOLEAN
      /\ o["ping"] \in Nat /\ o["lastSeq"] \in Nat
  BY SnapshotFields DEF Overlay, Patch, PlayerSnapshot, Fields
<1>4. o \in PlayerSnapshot
  <2> HIDE DEF o
  <2>1. o = [position |-> o["position"], connected |-> o["connected"],
             ping |-> o["ping"], lastSeq |-> o["lastSeq"]]
    BY <1>2 DEF Fields
  <2> QED BY <1>3, <2>1 DEF PlayerSnapshot
<1> QED BY <1>4

\* The client's copy of one player after a delta, whatever the copy was before.
\* previous, current and known are maps to snapshots; the baseline previous has
\* no player that left, and the client knows every player of it.
LEMMA DeltaOnOnePlayer ==
  ASSUME NEW previous, NEW current, NEW known,
         \A q \in DOMAIN previous : previous[q] \in PlayerSnapshot,
         \A q \in DOMAIN current : current[q] \in PlayerSnapshot,
         \A q \in DOMAIN known : known[q] \in PlayerSnapshot,
         DOMAIN previous \subseteq DOMAIN current,
         DOMAIN previous \subseteq DOMAIN known,
         DOMAIN known \subseteq DOMAIN current
  PROVE  LET after == ApplyDelta(known, ComputeDelta(previous, current)) IN
         /\ DOMAIN after \subseteq DOMAIN current
         /\ DOMAIN current \subseteq DOMAIN after
         /\ after = [q \in DOMAIN after |-> after[q]]
         /\ \A q \in DOMAIN current :
              /\ after[q] \in PlayerSnapshot
              /\ q \notin DOMAIN previous => after[q] = current[q]
              /\ \A f \in Fields :
                   (q \in DOMAIN previous /\ known[q][f] = previous[q][f])
                     => after[q][f] = current[q][f]
<1> DEFINE delta == ComputeDelta(previous, current)
           dirty == {q \in DOMAIN current : q \notin DOMAIN previous \/ previous[q] # current[q]}
           after == ApplyDelta(known, delta)
<1>1. /\ delta.removed = {}
      /\ DOMAIN delta.changes = dirty
      /\ \A q \in dirty : delta.changes[q] =
           IF q \in DOMAIN previous THEN Patch(previous[q], current[q]) ELSE current[q]
  BY DEF ComputeDelta, Changes, Removed
<1> HIDE DEF delta
<1>2. /\ DOMAIN after = DOMAIN known \cup dirty
      /\ \A q \in DOMAIN after : after[q] =
           IF q \notin dirty THEN known[q]
           ELSE IF q \notin DOMAIN known THEN delta.changes[q]
           ELSE Overlay(known[q], delta.changes[q])
      /\ after = [q \in DOMAIN after |-> after[q]]
  BY <1>1 DEF ApplyDelta
<1>3. DOMAIN after \subseteq DOMAIN current /\ DOMAIN current \subseteq DOMAIN after
  BY <1>2
<1>4. ASSUME NEW q \in DOMAIN current
      PROVE  /\ after[q] \in PlayerSnapshot
             /\ q \notin DOMAIN previous => after[q] = current[q]
             /\ \A f \in Fields :
                  (q \in DOMAIN previous /\ known[q][f] = previous[q][f])
                    => after[q][f] = current[q][f]
  <2> HIDE DEF after
  <2>1. CASE q \notin dirty
    BY <1>2, <1>3, <2>1
  <2>2. CASE q \in dirty /\ q \notin DOMAIN previous
    <3>1. after[q] = current[q]
      BY <1>1, <1>2, <1>3, <2>2, OverlayWhole
    <3> QED BY <3>1, <2>2
  <2>3. CASE q \in dirty /\ q \in DOMAIN previous
    <3>1. after[q] = Overlay(known[q], Patch(previous[q], current[q]))
      BY <1>1, <1>2, <1>3, <2>3
    <3>2. /\ previous[q] \in PlayerSnapshot /\ current[q] \in PlayerSnapshot
          /\ known[q] \in PlayerSnapshot
      BY <2>3
    <3>3. after[q] \in PlayerSnapshot
      BY <3>1, <3>2, OverlayType
    <3>4. ASSUME NEW f \in Fields, known[q][f] = previous[q][f]
          PROVE  after[q][f] = current[q][f]
      BY <3>1, <3>2, <3>4, OverlayPatch
    <3> QED BY <2>3, <3>3, <3>4
  <2> QED BY <2>1, <2>2, <2>3
<1> QED BY <1>2, <1>3, <1>4 DEF delta

\* What a client makes of the message of a tick: that no message is sent when
\* nothing changed makes no difference to it.
LEMMA TickMessage ==
  ASSUME NEW known, known = [q \in DOMAIN known |-> known[q]]
  PROVE  LET current == Snapshots(Simulated) IN
         Apply(known, StepMessage) =
           IF ShouldFull THEN current ELSE ApplyDelta(known, ComputeDelta(previousSnapshots, current))
<1> DEFINE current == Snapshots(Simulated)
           delta == ComputeDelta(previousSnapshots, current)
<1>1. CASE ShouldFull
  BY <1>1 DEF StepMessage, Apply, FullSnapshot
<1>2. CASE ~ShouldFull /\ StepMessage = delta
  BY <1>2 DEF Apply, ComputeDelta
<1>3. CASE ~ShouldFull /\ StepMessage # delta
  <2>1. /\ StepMessage = NoMessage
        /\ DOMAIN delta.changes = {} /\ delta.removed = {}
    BY <1>3 DEF StepMessage
  <2>2. Apply(known, StepMessage) = known
    BY <2>1 DEF Apply, NoMessage
  <2>3. ApplyDelta(known, delta) = [q \in DOMAIN known |-> known[q]]
    BY <2>1 DEF ApplyDelta
  <2> QED BY <1>3, <2>2, <2>3
<1> QED BY <1>1, <1>2, <1>3

-----------------------------------------------------------------------------
(* The stream drives the session by the session's own actions *)

LEMMA StreamStep == [StreamNext]_streamVars => [Next]_vars
BY DEF StreamNext, streamVars, Next, StepAndBroadcast, SessionAlone, JoinSession, SendJoined,
       RequestSnapshot, AddWithoutSocket, SocketCloses, OnClose, ReplaceSocket, SocketMessage

\* The session behind the sockets behaves as GameSession says: what is proved of
\* GameSession holds of it as the gateway uses it.
THEOREM StreamRunsSession == StreamSpec => Spec
<1>1. StreamInit => Init
  BY DEF StreamInit
<1> QED BY <1>1, StreamStep, PTL DEF StreamSpec, Spec

-----------------------------------------------------------------------------
(* The inductive invariant *)

SInv == IInv /\ StreamTypeOK /\ ViewMotionExact

LEMMA StreamInitEstablishes == StreamInit => SInv
<1> SUFFICES ASSUME StreamInit PROVE SInv
  OBVIOUS
<1>1. IInv
  BY InitEstablishes DEF StreamInit
<1>2. \A p \in Players : phase[p] = "out"
  BY DEF StreamInit
<1>3. StreamTypeOK
  BY <1>1, <1>2 DEF StreamInit, StreamTypeOK, IInv, Phases
<1>4. ViewMotionExact
  BY <1>2 DEF ViewMotionExact
<1> QED BY <1>1, <1>3, <1>4 DEF SInv

\* A view that is the snapshot of all players is exact.
LEMMA FullViewExact ==
  ASSUME IInv
  PROVE  /\ DOMAIN Snapshots(players) = DOMAIN players
         /\ Snapshots(players) \in [DOMAIN players -> PlayerSnapshot]
         /\ \A q \in DOMAIN players : /\ Snapshots(players)[q].position = players[q].position
                                     /\ Snapshots(players)[q].lastSeq = players[q].lastSeq
<1>1. \A q \in DOMAIN players : players[q] \in RuntimePlayer
  BY DEF IInv, TypeOK
<1> QED BY <1>1, SnapshotType DEF Snapshots

\* The steps other than ticks: nobody leaves, nobody moves, the baseline stays.
LEMMA BetweenTicks ==
  ASSUME SInv, [StreamNext]_streamVars, ~StepAndBroadcast
  PROVE  /\ DOMAIN players \subseteq DOMAIN players'
         /\ \A q \in DOMAIN players : /\ players'[q].position = players[q].position
                                     /\ players'[q].lastSeq = players[q].lastSeq
         /\ previousSnapshots' = previousSnapshots
<1>1. DOMAIN players \subseteq DOMAIN players' /\ previousSnapshots' = previousSnapshots
  BY DEF StreamNext, streamVars, vars, SessionAlone, Start, Elapse, JoinSession, SendJoined,
         RequestSnapshot, AddWithoutSocket, SocketCloses, OnClose, ReplaceSocket, SocketMessage,
         AddPlayer, Put, MarkDisconnected, Heartbeat, EnqueueInput, UpdatePing
<1>2. BetweenSteps
  BY DEF BetweenSteps, StreamNext, streamVars, SessionAlone, JoinSession, SendJoined,
         RequestSnapshot, AddWithoutSocket, SocketCloses, OnClose, ReplaceSocket, SocketMessage
<1>3. \A q \in DOMAIN players : /\ players'[q].position = players[q].position
                               /\ players'[q].lastSeq = players[q].lastSeq
  BY <1>1, <1>2, OnlyTicksMove DEF SInv
<1> QED BY <1>1, <1>3

\* Between ticks a joined client keeps its view or is sent a full snapshot.
LEMMA QuietPreserves ==
  ASSUME SInv, [StreamNext]_streamVars, ~StepAndBroadcast
  PROVE  SInv'
<1>1. IInv'
  BY StreamStep, NextPreserves DEF SInv
<1>2. /\ phase' \in [Players -> Phases]
      /\ DOMAIN view' = Players
      /\ \A p \in Players : phase'[p] = "live" =>
           \/ phase[p] = "live" /\ view'[p] = view[p]
           \/ view'[p] = Snapshots(players) /\ players' = players
  BY DEF SInv, StreamTypeOK, StreamNext, streamVars, vars, SessionAlone, JoinSession, SendJoined,
         RequestSnapshot, AddWithoutSocket, SocketCloses, OnClose, ReplaceSocket, SocketMessage,
         Phases, Receiving
<1>3. ASSUME NEW p \in Players, phase'[p] = "live"
      PROVE  /\ DOMAIN view'[p] \subseteq DOMAIN players'
             /\ view'[p] \in [DOMAIN view'[p] -> PlayerSnapshot]
             /\ DOMAIN previousSnapshots' \subseteq DOMAIN view'[p]
             /\ \A q \in DOMAIN view'[p] :
                  /\ view'[p][q].position = players'[q].position
                  /\ view'[p][q].lastSeq = players'[q].lastSeq
  <2>1. CASE phase[p] = "live" /\ view'[p] = view[p]
    BY <2>1, BetweenTicks DEF SInv, StreamTypeOK, ViewMotionExact
  <2>2. CASE view'[p] = Snapshots(players) /\ players' = players
    <3>1. DOMAIN previousSnapshots' \subseteq DOMAIN players'
      BY <1>1 DEF IInv, TypeOK
    <3> QED BY <2>2, <3>1, FullViewExact DEF SInv
  <2> QED BY <1>2, <1>3, <2>1, <2>2
<1>4. StreamTypeOK'
  BY <1>1, <1>2, <1>3 DEF StreamTypeOK, IInv
<1>5. ViewMotionExact'
  BY <1>3 DEF ViewMotionExact
<1> QED BY <1>1, <1>4, <1>5 DEF SInv

\* A tick: the broadcast brings every joined client to the players' new state.
LEMMA TickPreserves ==
  ASSUME SInv, StepAndBroadcast
  PROVE  SInv'
<1> DEFINE current == Snapshots(Simulated)
           delta == ComputeDelta(previousSnapshots, current)
<1>1. IInv'
  <2>1. [Next]_vars
    BY StreamStep DEF StreamNext
  <2> QED BY <2>1, NextPreserves DEF SInv
<1>2. /\ phase' = phase
      /\ players' = Simulated
      /\ previousSnapshots' = NextBaseline
      /\ view' = [p \in Players |->
                   IF Receiving(p) THEN Apply(view[p], StepMessage) ELSE view[p]]
  BY DEF StepAndBroadcast, Step
<1>3. /\ DOMAIN Simulated = DOMAIN players
      /\ \A q \in DOMAIN players : Simulated[q] \in RuntimePlayer
  BY SimulatedStep DEF SInv, IInv
<1>4. /\ DOMAIN current = DOMAIN players
      /\ \A q \in DOMAIN players :
           /\ current[q] \in PlayerSnapshot
           /\ current[q].position = Simulated[q].position
           /\ current[q].lastSeq = Simulated[q].lastSeq
  BY <1>3, SnapshotType DEF Snapshots
<1>5. DOMAIN previousSnapshots' = DOMAIN players
  BY <1>2, <1>3, NextBaselineIsCurrent DEF SInv, IInv
<1> HIDE DEF current
<1>6. ASSUME NEW p \in Players, phase[p] = "live"
      PROVE  LET after == Apply(view[p], StepMessage) IN
             /\ DOMAIN after = DOMAIN players
             /\ after \in [DOMAIN after -> PlayerSnapshot]
             /\ \A q \in DOMAIN players : /\ after[q].position = Simulated[q].position
                                         /\ after[q].lastSeq = Simulated[q].lastSeq
  <2> DEFINE after == Apply(view[p], StepMessage)
             known == view[p]
  <2>1. /\ DOMAIN known \subseteq DOMAIN players
        /\ \A q \in DOMAIN known : known[q] \in PlayerSnapshot
        /\ DOMAIN previousSnapshots \subseteq DOMAIN known
        /\ \A q \in DOMAIN known : /\ known[q].position = players[q].position
                                  /\ known[q].lastSeq = players[q].lastSeq
    BY <1>6 DEF SInv, StreamTypeOK, ViewMotionExact
  <2>2. /\ DOMAIN previousSnapshots \subseteq DOMAIN players
        /\ \A q \in DOMAIN previousSnapshots :
             /\ previousSnapshots[q] \in PlayerSnapshot
             /\ previousSnapshots[q].position = players[q].position
             /\ previousSnapshots[q].lastSeq = players[q].lastSeq
    BY DEF SInv, IInv, TypeOK, BaselineIsLastTick
  <2> HIDE DEF known
  <2>3. CASE ShouldFull
    <3>1. known = [q \in DOMAIN known |-> known[q]]
      BY <1>6 DEF known, SInv, StreamTypeOK
    <3>2. after = current
      BY <2>3, <3>1, TickMessage DEF current, known
    <3>3. current \in [DOMAIN current -> PlayerSnapshot]
      BY <1>4 DEF current, Snapshots
    <3> QED BY <1>4, <3>2, <3>3
  <2>4. CASE ~ShouldFull
    <3> DEFINE patched == ApplyDelta(known, delta)
    <3>1. /\ DOMAIN patched \subseteq DOMAIN current
          /\ DOMAIN current \subseteq DOMAIN patched
          /\ patched = [q \in DOMAIN patched |-> patched[q]]
          /\ \A q \in DOMAIN current :
               /\ patched[q] \in PlayerSnapshot
               /\ q \notin DOMAIN previousSnapshots => patched[q] = current[q]
               /\ \A f \in Fields :
                    (q \in DOMAIN previousSnapshots /\ known[q][f] = previousSnapshots[q][f])
                      => patched[q][f] = current[q][f]
      BY <1>4, <2>1, <2>2, DeltaOnOnePlayer
    <3>2. after = patched
      <4>1. known = [q \in DOMAIN known |-> known[q]]
        BY <1>6 DEF known, SInv, StreamTypeOK
      <4> QED BY <2>4, <4>1, TickMessage DEF current, known
    <3> HIDE DEF patched, after, delta
    <3>3. after \in [DOMAIN after -> PlayerSnapshot] /\ DOMAIN after = DOMAIN players
      BY <1>4, <3>1, <3>2
    <3>4. ASSUME NEW q \in DOMAIN players
          PROVE  /\ after[q].position = current[q].position
                 /\ after[q].lastSeq = current[q].lastSeq
      <4>1. after[q] \in PlayerSnapshot /\ current[q] \in PlayerSnapshot
        BY <1>4, <3>1, <3>2
      <4>2. CASE q \notin DOMAIN previousSnapshots
        BY <1>4, <3>1, <3>2, <4>2
      <4>3. CASE q \in DOMAIN previousSnapshots
        <5>1. /\ known[q] \in PlayerSnapshot /\ previousSnapshots[q] \in PlayerSnapshot
              /\ known[q].position = previousSnapshots[q].position
              /\ known[q].lastSeq = previousSnapshots[q].lastSeq
          BY <2>1, <2>2, <4>3
        <5>2. /\ known[q]["position"] = previousSnapshots[q]["position"]
              /\ known[q]["lastSeq"] = previousSnapshots[q]["lastSeq"]
          BY <5>1, SnapshotFields
        <5>3. /\ after[q]["position"] = current[q]["position"]
              /\ after[q]["lastSeq"] = current[q]["lastSeq"]
          BY <1>4, <3>1, <3>2, <4>3, <5>2 DEF Fields
        <5> QED BY <4>1, <5>3, SnapshotFields
      <4> QED BY <4>2, <4>3
    <3> QED BY <1>4, <3>3, <3>4 DEF after
  <2> QED BY <2>3, <2>4
<1>7. ASSUME NEW p \in Players, phase'[p] = "live"
      PROVE  /\ DOMAIN view'[p] = DOMAIN players'
             /\ view'[p] \in [DOMAIN view'[p] -> PlayerSnapshot]
             /\ \A q \in DOMAIN players' : /\ view'[p][q].position = players'[q].position
                                          /\ view'[p][q].lastSeq = players'[q].lastSeq
  <2>1. phase[p] = "live" /\ view'[p] = Apply(view[p], StepMessage)
    BY <1>2, <1>7 DEF Receiving
  <2> QED BY <1>2, <1>3, <1>6, <2>1
<1>8. StreamTypeOK'
  BY <1>1, <1>2, <1>7 DEF StreamTypeOK, SInv, IInv
<1>9. ViewMotionExact'
  BY <1>2, <1>3, <1>5, <1>7 DEF ViewMotionExact
<1> QED BY <1>1, <1>8, <1>9 DEF SInv

LEMMA StreamInvariance == StreamSpec => []SInv
<1>1. StreamInit => SInv
  BY StreamInitEstablishes
<1>2. SInv /\ [StreamNext]_streamVars => SInv'
  BY QuietPreserves, TickPreserves
<1> QED BY <1>1, <1>2, PTL DEF StreamSpec

-----------------------------------------------------------------------------
(* Theorems *)

\* Type correctness of the session and of what every joined client holds.
THEOREM StreamTypeCorrect == StreamSpec => []StreamTypeOK
<1>1. SInv => StreamTypeOK
  BY DEF SInv
<1> QED BY StreamInvariance, <1>1, PTL

\* One baseline for the whole room is enough: for any number of players and any
\* interleaving of joins, snapshots, closes and ticks, no joined client ever
\* shows a player anywhere else than the server does.
THEOREM ViewsMotionExact == StreamSpec => []ViewMotionExact
<1>1. SInv => ViewMotionExact
  BY DEF SInv
<1> QED BY StreamInvariance, <1>1, PTL

-----------------------------------------------------------------------------
(* A tick never spoils a view that is right *)

LEMMA OnlyTicksTick ==
  ASSUME [StreamNext]_streamVars, tick' # tick
  PROVE  StepAndBroadcast
BY DEF StreamNext, streamVars, vars, SessionAlone, Start, Elapse, JoinSession, SendJoined,
       RequestSnapshot, AddWithoutSocket, SocketCloses, OnClose, ReplaceSocket, SocketMessage,
       AddPlayer, MarkDisconnected, Heartbeat, EnqueueInput, UpdatePing

\* A delta against the baseline that is applied to the baseline gives the current
\* snapshots: a client that held the baseline holds the next one.
LEMMA DeltaOnBaseline ==
  ASSUME NEW previous, NEW current,
         previous \in [DOMAIN previous -> PlayerSnapshot],
         current \in [DOMAIN current -> PlayerSnapshot],
         DOMAIN previous \subseteq DOMAIN current
  PROVE  ApplyDelta(previous, ComputeDelta(previous, current)) = current
<1> DEFINE after == ApplyDelta(previous, ComputeDelta(previous, current))
<1>1. /\ DOMAIN after = DOMAIN current
      /\ after = [q \in DOMAIN after |-> after[q]]
      /\ \A q \in DOMAIN current :
           /\ after[q] \in PlayerSnapshot
           /\ q \notin DOMAIN previous => after[q] = current[q]
           /\ \A f \in Fields : q \in DOMAIN previous => after[q][f] = current[q][f]
  BY DeltaOnOnePlayer
<1> HIDE DEF after
<1>2. ASSUME NEW q \in DOMAIN current
      PROVE  after[q] = current[q]
  <2>1. CASE q \notin DOMAIN previous
    BY <1>1, <2>1
  <2>2. CASE q \in DOMAIN previous
    <3>1. after[q] = [f \in Fields |-> after[q][f]] /\ current[q] = [f \in Fields |-> current[q][f]]
      BY <1>1, SnapshotFields
    <3>2. [f \in Fields |-> after[q][f]] = [f \in Fields |-> current[q][f]]
      BY <1>1, <2>2
    <3> QED BY <3>1, <3>2
  <2> QED BY <2>1, <2>2
<1>3. after = [q \in DOMAIN current |-> current[q]]
  BY <1>1, <1>2
<1> QED BY <1>3 DEF after

LEMMA TickKeepsRightView ==
  ASSUME SInv, StepAndBroadcast,
         NEW p \in Players, phase[p] = "live", view[p] = previousSnapshots
  PROVE  view'[p] = previousSnapshots'
<1> DEFINE current == Snapshots(Simulated)
<1>1. /\ previousSnapshots' = NextBaseline
      /\ view'[p] = Apply(previousSnapshots, StepMessage)
  BY DEF StepAndBroadcast, Step, Receiving
<1>2. /\ DOMAIN current = DOMAIN players
      /\ current \in [DOMAIN current -> PlayerSnapshot]
  <2>1. /\ DOMAIN Simulated = DOMAIN players
        /\ \A q \in DOMAIN players : Simulated[q] \in RuntimePlayer
    BY SimulatedStep DEF SInv, IInv
  <2> QED BY <2>1, SnapshotType DEF Snapshots
<1>3. /\ previousSnapshots \in [DOMAIN previousSnapshots -> PlayerSnapshot]
      /\ DOMAIN previousSnapshots \subseteq DOMAIN current
  BY <1>2 DEF SInv, IInv, TypeOK
<1>4. NextBaseline = current
  <2>1. DOMAIN NextBaseline = DOMAIN current /\ \A q \in DOMAIN current : NextBaseline[q] = current[q]
    BY NextBaselineIsCurrent DEF Snapshots, SInv, IInv
  <2>2. NextBaseline = [q \in DOMAIN NextBaseline |-> NextBaseline[q]]
    BY DEF NextBaseline, Snapshots
  <2> HIDE DEF current
  <2>3. current = [q \in DOMAIN current |-> current[q]]
    BY <1>2
  <2> QED BY <2>1, <2>2, <2>3
<1>5. view'[p] = current
  <2>1. previousSnapshots = [q \in DOMAIN previousSnapshots |-> previousSnapshots[q]]
    BY <1>3
  <2>2. ApplyDelta(previousSnapshots, ComputeDelta(previousSnapshots, current)) = current
    <3> HIDE DEF current
    <3> QED BY <1>2, <1>3, DeltaOnBaseline
  <2> QED BY <1>1, <2>1, <2>2, TickMessage
<1> QED BY <1>1, <1>4, <1>5

\* Only a full snapshot between two ticks can make a client wrong about who is
\* connected and at which ping: for any number of players, what a tick sends
\* takes a client that held the last tick's record to the record of this one.
THEOREM TicksNeverSpoilAView == StreamSpec => TicksKeepViewsRight
<1>1. SInv /\ [StreamNext]_streamVars =>
        [tick' # tick =>
           \A p \in Players : (phase[p] = "live" /\ view[p] = previousSnapshots)
             => view'[p] = previousSnapshots']_streamVars
  BY OnlyTicksTick, TickKeepsRightView
<1> QED BY <1>1, StreamInvariance, PTL DEF StreamSpec, TicksKeepViewsRight
=============================================================================
