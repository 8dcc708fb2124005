-------------------------- MODULE GameSession_proofs --------------------------
(***************************************************************************)
(* Theorems about GameSession for any players, inputs and bounds.  The     *)
(* inductive invariant is TypeOK and BaselineIsLastTick together: what a   *)
(* delta tick leaves in the baseline is typed because the baseline was,    *)
(* and agrees with the players because each action that moves a player     *)
(* rewrites the baseline.                                                  *)
(***************************************************************************)
EXTENDS GameSession, FiniteSetTheorems, WellFoundedInduction, TLAPS

\* The places in the queue of the inputs that are acceptable in the state.
AcceptedAt(state, queue) == {i \in DOMAIN queue : Acceptable(state, queue[i])}

\* What the drain loop computes, in closed form: each accepted input overwrites what
\* the one before it wrote, so that the last accepted one remains.
DrainedAtOnce(state, queue) ==
  LET accepted == AcceptedAt(state, queue)
      last     == CHOOSE i \in accepted : \A j \in accepted : j <= i
  IN  IF accepted = {} THEN state ELSE Moved(state, queue[last])

LEMMA LeastNatural ==
  ASSUME NEW S, S \subseteq Nat, S # {}
  PROVE  \E m \in S : \A n \in S : m <= n
<1>1. IsWellFoundedOn(OpToRel(<, Nat), Nat)
  BY NatLessThanWellFounded
<1>2. PICK m \in S : \A n \in S : ~(<<n, m>> \in OpToRel(<, Nat))
  BY <1>1, WFMin
<1>3. \A n \in S : ~(n < m)
  BY <1>2 DEF OpToRel
<1> QED BY <1>3

\* A nonempty set of places of a queue has a last one: the CHOOSE of DrainedAtOnce
\* names an accepted input whenever there is one.
LEMMA LastOfPlaces ==
  ASSUME NEW n \in Nat, NEW S, S \subseteq 1..n, S # {}
  PROVE  \E i \in S : \A j \in S : j <= i
<1> DEFINE FromEnd == {n - i : i \in S}
<1>1. FromEnd \subseteq Nat /\ FromEnd # {}
  <2>1. \A i \in S : n - i \in Nat
    OBVIOUS
  <2>2. PICK i \in S : TRUE
    OBVIOUS
  <2>3. n - i \in FromEnd
    OBVIOUS
  <2> QED BY <2>1, <2>3
<1>2. PICK m \in FromEnd : \A y \in FromEnd : m <= y
  <2> HIDE DEF FromEnd
  <2> QED BY <1>1, LeastNatural
<1>3. PICK i \in S : m = n - i
  OBVIOUS
<1>4. \A j \in S : j <= i
  BY <1>2, <1>3
<1> QED BY <1>4

\* What that does to a player, whatever the queue: nothing, or the move of
\* one acceptable input of the queue.
LEMMA AtOnceIsOneMove ==
  ASSUME NEW state, NEW queue \in Seq(Inputs)
  PROVE  \/ DrainedAtOnce(state, queue) = state
         \/ \E i \in DOMAIN queue : /\ Acceptable(state, queue[i])
                                    /\ DrainedAtOnce(state, queue) = Moved(state, queue[i])
<1> DEFINE accepted == AcceptedAt(state, queue)
           last == CHOOSE i \in accepted : \A j \in accepted : j <= i
<1>1. CASE accepted = {}
  BY <1>1 DEF DrainedAtOnce
<1>2. CASE accepted # {}
  <2>1. accepted \subseteq 1..Len(queue) /\ Len(queue) \in Nat
    BY DEF AcceptedAt
  <2>2. \E i \in accepted : \A j \in accepted : j <= i
    <3> HIDE DEF accepted
    <3> QED BY <1>2, <2>1, LastOfPlaces
  <2>3. last \in accepted
    <3> HIDE DEF accepted
    <3> QED BY <2>2
  <2>4. last \in DOMAIN queue /\ Acceptable(state, queue[last])
    BY <2>3 DEF AcceptedAt
  <2>5. DrainedAtOnce(state, queue) = Moved(state, queue[last])
    BY <1>2 DEF DrainedAtOnce
  <2> QED BY <2>4, <2>5
<1> QED BY <1>1, <1>2

\* The places among the first i of the inputs that the loop accepts.
Places(state, queue, i) == {j \in 1..i : Acceptable(state, queue[j])}

IsLast(j, S) == j \in S /\ \A h \in S : h <= j

LEMMA PlacesGrow ==
  ASSUME NEW state, NEW queue, NEW i \in Nat \ {0}
  PROVE  /\ ~Acceptable(state, queue[i]) => Places(state, queue, i) = Places(state, queue, i - 1)
         /\ Acceptable(state, queue[i]) =>
              i \in Places(state, queue, i) /\ \A j : IsLast(j, Places(state, queue, i)) <=> j = i
<1>1. ASSUME ~Acceptable(state, queue[i])
      PROVE  Places(state, queue, i) = Places(state, queue, i - 1)
  <2>1. \A j \in 1..i : j = i \/ j \in 1..(i - 1)
    OBVIOUS
  <2>2. \A j \in 1..(i - 1) : j \in 1..i
    OBVIOUS
  <2> QED BY <1>1, <2>1, <2>2 DEF Places
<1>2. ASSUME Acceptable(state, queue[i])
      PROVE  i \in Places(state, queue, i) /\ \A j : IsLast(j, Places(state, queue, i)) <=> j = i
  <2>1. i \in Places(state, queue, i) /\ \A j \in Places(state, queue, i) : j \in 1..i
    BY <1>2 DEF Places
  <2> QED BY <2>1 DEF IsLast
<1> QED BY <1>1, <1>2

\* The equation that the loop's recursive function is to satisfy.
Looped(state, queue, reached) ==
  reached = [i \in 0..Len(queue) |->
               IF i = 0 THEN state
               ELSE IF Acceptable(state, queue[i]) THEN Moved(state, queue[i])
               ELSE reached[i - 1]]

\* Some function does, so that Drained's is one.
LEMMA LoopExists ==
  ASSUME NEW state, NEW queue \in Seq(Inputs)
  PROVE  \E reached : Looped(state, queue, reached)
<1> DEFINE n == Len(queue)
           P(i) == Places(state, queue, i)
           closed == [i \in 0..n |->
             IF P(i) = {} THEN state ELSE Moved(state, queue[CHOOSE j : IsLast(j, P(i))])]
           turn(i) == IF i = 0 THEN state
                      ELSE IF Acceptable(state, queue[i]) THEN Moved(state, queue[i])
                      ELSE closed[i - 1]
<1>1. ASSUME NEW i \in 0..n
      PROVE  closed[i] = turn(i)
  <2>1. closed[i] = IF P(i) = {} THEN state ELSE Moved(state, queue[CHOOSE j : IsLast(j, P(i))])
    OBVIOUS
  <2>2. CASE i = 0
    <3>1. P(i) = {}
      BY <2>2 DEF Places
    <3> QED BY <2>1, <2>2, <3>1
  <2>3. CASE i # 0 /\ Acceptable(state, queue[i])
    <3>1. i \in P(i) /\ \A j : IsLast(j, P(i)) <=> j = i
      BY <2>3, PlacesGrow
    <3>2. (CHOOSE j : IsLast(j, P(i))) = i
      BY <3>1
    <3> QED BY <2>1, <2>3, <3>1, <3>2
  <2>4. CASE i # 0 /\ ~Acceptable(state, queue[i])
    <3>1. P(i) = P(i - 1)
      BY <2>4, PlacesGrow
    <3>2. i - 1 \in 0..n
      BY <2>4
    <3>3. closed[i - 1] =
            IF P(i - 1) = {} THEN state ELSE Moved(state, queue[CHOOSE j : IsLast(j, P(i - 1))])
      BY <3>2
    <3>4. turn(i) = closed[i - 1]
      BY <2>4
    <3> HIDE DEF closed, P, turn
    <3> QED BY <2>1, <3>1, <3>3, <3>4
  <2> QED BY <2>2, <2>3, <2>4
<1>2. closed = [i \in 0..n |-> turn(i)]
  <2>1. closed = [i \in 0..n |-> closed[i]]
    OBVIOUS
  <2> HIDE DEF closed
  <2> QED BY <1>1, <2>1
<1>3. Looped(state, queue, closed)
  BY <1>2 DEF Looped
<1> QED BY <1>3

\* The loop leaves the state or the move of the last accepted input: no first place
\* is the first at which it does not.
LEMMA LoopReaches ==
  ASSUME NEW state, NEW queue \in Seq(Inputs), NEW reached, Looped(state, queue, reached),
         NEW i \in 0..Len(queue)
  PROVE  /\ Places(state, queue, i) = {} => reached[i] = state
         /\ \A j : IsLast(j, Places(state, queue, i)) => reached[i] = Moved(state, queue[j])
<1> DEFINE n == Len(queue)
           Right(m) == /\ Places(state, queue, m) = {} => reached[m] = state
                       /\ \A j : IsLast(j, Places(state, queue, m)) => reached[m] = Moved(state, queue[j])
           wrong == {m \in 0..n : ~Right(m)}
<1>1. \A m \in 0..n : reached[m] = IF m = 0 THEN state
                                   ELSE IF Acceptable(state, queue[m]) THEN Moved(state, queue[m])
                                   ELSE reached[m - 1]
  BY DEF Looped
<1>2. Right(0)
  <2>1. 0 \in 0..n /\ Places(state, queue, 0) = {}
    BY DEF Places
  <2> QED BY <1>1, <2>1 DEF IsLast
<1>3. ASSUME NEW m \in 0..n, m # 0, Right(m - 1)
      PROVE  Right(m)
  <2>1. CASE Acceptable(state, queue[m])
    <3>1. reached[m] = Moved(state, queue[m])
      BY <1>1, <1>3, <2>1
    <3>2. /\ Places(state, queue, m) # {}
          /\ \A j : IsLast(j, Places(state, queue, m)) <=> j = m
      BY <1>3, <2>1, PlacesGrow
    <3> QED BY <3>1, <3>2
  <2>2. CASE ~Acceptable(state, queue[m])
    <3>1. reached[m] = reached[m - 1] /\ Places(state, queue, m) = Places(state, queue, m - 1)
      BY <1>1, <1>3, <2>2, PlacesGrow
    <3> QED BY <1>3, <3>1
  <2> QED BY <2>1, <2>2
<1> HIDE DEF Right
<1>4. wrong = {}
  <2> SUFFICES ASSUME wrong # {} PROVE FALSE
    OBVIOUS
  <2>1. PICK m \in wrong : \A h \in wrong : m <= h
    <3>1. wrong \subseteq Nat
      OBVIOUS
    <3> HIDE DEF wrong
    <3> QED BY <3>1, LeastNatural
  <2>2. m \in 0..n /\ m # 0 /\ ~Right(m)
    BY <1>2
  <2>3. m - 1 \in 0..n /\ ~(m <= m - 1)
    BY <2>2
  <2>4. Right(m - 1)
    BY <2>1, <2>3
  <2> QED BY <1>3, <2>2, <2>4
<1>5. Right(i)
  BY <1>4
<1> QED BY <1>5 DEF Right

\* The drain loop leaves the move of the last acceptable input, on every state and
\* queue there is.
LEMMA DrainedIsAtOnce ==
  ASSUME NEW state, NEW queue \in Seq(Inputs)
  PROVE  Drained(state, queue) = DrainedAtOnce(state, queue)
<1> DEFINE n == Len(queue)
           reached == CHOOSE r : Looped(state, queue, r)
           accepted == AcceptedAt(state, queue)
           last == CHOOSE i \in accepted : \A j \in accepted : j <= i
<1>1. Looped(state, queue, reached)
  BY LoopExists
<1>2. Drained(state, queue) = reached[n]
  BY DEF Drained, Looped
<1> HIDE DEF reached
<1>3. n \in 0..n /\ accepted = Places(state, queue, n)
  BY DEF AcceptedAt, Places
<1>4. /\ Places(state, queue, n) = {} => reached[n] = state
      /\ \A j : IsLast(j, Places(state, queue, n)) => reached[n] = Moved(state, queue[j])
  <2>1. n \in 0..Len(queue)
    BY <1>3
  <2> HIDE DEF accepted, last
  <2>2. \A r : Looped(state, queue, r) => \A i \in 0..Len(queue) :
          /\ Places(state, queue, i) = {} => r[i] = state
          /\ \A j : IsLast(j, Places(state, queue, i)) => r[i] = Moved(state, queue[j])
    <3> HIDE DEF n
    <3> QED BY LoopReaches
  <2>3. \A i \in 0..Len(queue) :
          /\ Places(state, queue, i) = {} => reached[i] = state
          /\ \A j : IsLast(j, Places(state, queue, i)) => reached[i] = Moved(state, queue[j])
    BY <1>1, <2>2, Zenon
  <2> QED BY <2>1, <2>3, Zenon
<1>5. CASE accepted = {}
  <2>1. DrainedAtOnce(state, queue) = state
    BY <1>5 DEF DrainedAtOnce
  <2>2. Places(state, queue, n) = {}
    BY <1>3, <1>5
  <2>3. reached[n] = state
    BY <1>4, <2>2
  <2> QED BY <1>2, <2>1, <2>3
<1>6. CASE accepted # {}
  <2>1. accepted \subseteq 1..n /\ n \in Nat
    BY DEF AcceptedAt
  <2>2. DrainedAtOnce(state, queue) = Moved(state, queue[last])
    BY <1>6 DEF DrainedAtOnce
  <2> HIDE DEF accepted
  <2>3. IsLast(last, accepted)
    BY <1>6, <2>1, LastOfPlaces DEF IsLast
  <2>4. reached[n] = Moved(state, queue[last])
    BY <1>3, <1>4, <2>3
  <2> QED BY <1>2, <2>2, <2>4
<1> QED BY <1>5, <1>6

LEMMA ClampType ==
  ASSUME NEW x \in Int
  PROVE  Clamp(x) \in Positions
BY BoundsAssumption DEF Clamp, Positions

\* The tick gives a typed state, no older sequence number, no displacement
\* longer than MaxStep, and none at all without a new sequence number.
LEMMA DrainedStep ==
  ASSUME NEW state \in RuntimePlayer, NEW queue \in Seq(Inputs)
  PROVE  LET next == Drained(Expired(state), queue) IN
         /\ next \in RuntimePlayer
         /\ next.lastSeq >= state.lastSeq
         /\ next.position - state.position \in (-MaxStep)..MaxStep
         /\ next.position # state.position => next.lastSeq > state.lastSeq
<1> DEFINE expired == Expired(state)
<1>1. /\ expired \in RuntimePlayer
      /\ expired.position = state.position
      /\ expired.lastSeq = state.lastSeq
  BY DEF Expired, RuntimePlayer
<1> HIDE DEF expired
<1>2. CASE Drained(expired, queue) = expired
  BY <1>1, <1>2, BoundsAssumption DEF RuntimePlayer, Positions, expired
<1>3. ASSUME NEW i \in DOMAIN queue, Acceptable(expired, queue[i]),
             Drained(expired, queue) = Moved(expired, queue[i])
      PROVE  LET next == Drained(expired, queue) IN
             /\ next \in RuntimePlayer
             /\ next.lastSeq >= state.lastSeq
             /\ next.position - state.position \in (-MaxStep)..MaxStep
             /\ next.position # state.position => next.lastSeq > state.lastSeq
  <2> DEFINE input == queue[i]
             next == Moved(expired, input)
  <2>1. input \in [seq : Nat, d : Int]
    BY InputsAssumption
  <2>2. input.seq > expired.lastSeq /\ input.d \in (-MaxStep)..MaxStep
    BY <1>3 DEF Acceptable
  <2> HIDE DEF input
  <2>3. expired.position \in Positions
    BY <1>1 DEF RuntimePlayer
  <2>4. /\ Clamp(expired.position + input.d) \in Positions
        /\ Clamp(expired.position + input.d) - expired.position \in (-MaxStep)..MaxStep
    BY <2>1, <2>2, <2>3, BoundsAssumption DEF Clamp, Positions
  <2>5. /\ next \in RuntimePlayer
        /\ next.position = Clamp(expired.position + input.d)
        /\ next.lastSeq = input.seq
    BY <1>1, <2>1, <2>4 DEF Moved, RuntimePlayer
  <2>6. next.lastSeq > state.lastSeq /\ next.lastSeq >= state.lastSeq
    BY <1>1, <2>1, <2>2, <2>5 DEF RuntimePlayer
  <2> QED BY <1>1, <1>3, <2>4, <2>5, <2>6 DEF input
<1> QED BY <1>2, <1>3, AtOnceIsOneMove, DrainedIsAtOnce DEF expired

-----------------------------------------------------------------------------
(* The maps after a tick *)

LEMMA SnapshotType ==
  ASSUME NEW state \in RuntimePlayer
  PROVE  /\ ToPlayerSnapshot(state) \in PlayerSnapshot
         /\ ToPlayerSnapshot(state).position = state.position
         /\ ToPlayerSnapshot(state).lastSeq = state.lastSeq
BY DEF ToPlayerSnapshot, RuntimePlayer, PlayerSnapshot

LEMMA SimulatedStep ==
  ASSUME TypeOK
  PROVE  /\ DOMAIN Simulated = DOMAIN players
         /\ \A p \in DOMAIN players :
              /\ Simulated[p] \in RuntimePlayer
              /\ Simulated[p].lastSeq >= players[p].lastSeq
              /\ Simulated[p].position - players[p].position \in (-MaxStep)..MaxStep
              /\ Simulated[p].position # players[p].position
                   => Simulated[p].lastSeq > players[p].lastSeq
<1>1. DOMAIN Simulated = DOMAIN players
  BY DEF Simulated
<1>2. ASSUME NEW p \in DOMAIN players
      PROVE  /\ players[p] \in RuntimePlayer
             /\ pendingInputs[p] \in Seq(Inputs)
             /\ Simulated[p] = Drained(Expired(players[p]), pendingInputs[p])
  BY <1>2 DEF TypeOK, Simulated
<1> QED BY <1>1, <1>2, DrainedStep

\* Whichever message the tick sends, the baseline it leaves is the snapshot of
\* every player of the session.
LEMMA NextBaselineIsCurrent ==
  ASSUME TypeOK
  PROVE  /\ DOMAIN NextBaseline = DOMAIN Simulated
         /\ \A p \in DOMAIN Simulated : NextBaseline[p] = ToPlayerSnapshot(Simulated[p])
<1> DEFINE current == Snapshots(Simulated)
<1>1. /\ DOMAIN current = DOMAIN Simulated
      /\ \A p \in DOMAIN Simulated : current[p] = ToPlayerSnapshot(Simulated[p])
  BY DEF Snapshots
<1>2. CASE ShouldFull
  BY <1>1, <1>2 DEF NextBaseline
<1>3. CASE ~ShouldFull
  <2>1. DOMAIN previousSnapshots \ Removed(previousSnapshots, current) \subseteq DOMAIN current
    BY DEF Removed
  <2>2. NextBaseline = [p \in DOMAIN current |-> current[p]]
    BY <1>3, <2>1 DEF NextBaseline
  <2> QED BY <1>1, <2>2
<1> QED BY <1>2, <1>3

-----------------------------------------------------------------------------
(* The inductive invariant *)

IInv == TypeOK /\ BaselineIsLastTick

LEMMA InitEstablishes == Init => IInv
<1> SUFFICES ASSUME Init PROVE IInv
  OBVIOUS
<1>1. DOMAIN players = {} /\ DOMAIN pendingInputs = {} /\ DOMAIN previousSnapshots = {}
  BY DEF Init
<1>2. TypeOK
  <2>1. /\ players \in [DOMAIN players -> RuntimePlayer]
        /\ pendingInputs \in [DOMAIN players -> Seq(Inputs)]
        /\ previousSnapshots \in [DOMAIN previousSnapshots -> PlayerSnapshot]
    BY <1>1 DEF Init
  <2>2. tick \in 0..(FullSnapshotEvery - 1)
    BY BoundsAssumption DEF Init
  <2>3. timer \in BOOLEAN
    BY DEF Init
  <2> QED BY <1>1, <2>1, <2>2, <2>3 DEF TypeOK
<1>3. BaselineIsLastTick
  BY <1>1 DEF BaselineIsLastTick
<1> QED BY <1>2, <1>3 DEF IInv

LEMMA AddPlayerPreserves ==
  ASSUME IInv, NEW p \in Players, AddPlayer(p)
  PROVE  IInv'
<1>1. CASE p \in DOMAIN players
  <2>1. /\ players' = [players EXCEPT ![p].connected = TRUE, ![p].silentFor = 0]
        /\ UNCHANGED <<pendingInputs, previousSnapshots, tick, timer>>
    BY <1>1 DEF AddPlayer
  <2>2. players' \in [DOMAIN players -> RuntimePlayer] /\ DOMAIN players' = DOMAIN players
    <3> DEFINE heard == [players[p] EXCEPT !.connected = TRUE, !.silentFor = 0]
    <3>1. players[p] \in RuntimePlayer
      BY <1>1 DEF IInv, TypeOK
    <3>2. heard \in RuntimePlayer
      <4>1. 0 \in 0..(HeartbeatTimeout + 1)
        BY BoundsAssumption
      <4>2. [players[p] EXCEPT !.connected = TRUE] \in RuntimePlayer
        BY <3>1 DEF RuntimePlayer
      <4> QED BY <4>1, <4>2 DEF RuntimePlayer
    <3>3. players' = [players EXCEPT ![p] = heard]
      BY <2>1
    <3> HIDE DEF heard
    <3> QED BY <3>2, <3>3 DEF IInv, TypeOK
  <2>3. \A q \in DOMAIN players : /\ players'[q].position = players[q].position
                                  /\ players'[q].lastSeq = players[q].lastSeq
    BY <2>1 DEF IInv, TypeOK, RuntimePlayer
  <2>4. TypeOK'
    BY <2>1, <2>2 DEF IInv, TypeOK
  <2>5. BaselineIsLastTick'
    BY <2>1, <2>2, <2>3 DEF IInv, BaselineIsLastTick
  <2> QED BY <2>4, <2>5 DEF IInv
<1>2. CASE p \notin DOMAIN players
  <2> DEFINE new == CreateRuntimePlayer(Cardinality(DOMAIN players))
  <2>1. new \in RuntimePlayer
    <3>1. Cardinality(DOMAIN players) \in Nat
      BY PlayersAssumption, FS_Subset, FS_CardinalityType DEF IInv, TypeOK
    <3>2. Cardinality(DOMAIN players) % NumSpawns \in 0..(NumSpawns - 1)
      BY <3>1, SpawnAssumption
    <3>3. SpawnPoints[Cardinality(DOMAIN players) % NumSpawns] \in Positions
      BY <3>2, SpawnAssumption
    <3> QED BY <3>3, BoundsAssumption DEF CreateRuntimePlayer, RuntimePlayer
  <2> HIDE DEF new
  <2>2. /\ players' = Put(players, p, new)
        /\ pendingInputs' = Put(pendingInputs, p, << >>)
        /\ UNCHANGED <<previousSnapshots, tick, timer>>
    BY <1>2 DEF AddPlayer, new
  <2>3. /\ DOMAIN players' = DOMAIN players \cup {p}
        /\ players' \in [DOMAIN players' -> RuntimePlayer]
        /\ \A q \in DOMAIN players : players'[q] = players[q]
    BY <1>2, <2>1, <2>2 DEF Put, IInv, TypeOK
  <2>4. /\ pendingInputs' \in [DOMAIN players' -> Seq(Inputs)]
        /\ \A q \in DOMAIN players' : Len(pendingInputs'[q]) <= QueueLimit
    <3>1. << >> \in Seq(Inputs) /\ Len(<< >>) <= QueueLimit
      BY BoundsAssumption
    <3>2. DOMAIN pendingInputs = DOMAIN players
      BY DEF IInv, TypeOK
    <3>3. \A q \in DOMAIN players' :
            pendingInputs'[q] = IF q = p THEN << >> ELSE pendingInputs[q]
      BY <2>2, <2>3, <3>2 DEF Put
    <3>4. pendingInputs' = [q \in DOMAIN players' |-> pendingInputs'[q]]
      BY <2>2, <2>3, <3>2 DEF Put
    <3>5. \A q \in DOMAIN players' : /\ pendingInputs'[q] \in Seq(Inputs)
                                     /\ Len(pendingInputs'[q]) <= QueueLimit
      BY <2>3, <3>1, <3>3 DEF IInv, TypeOK
    <3> QED BY <3>4, <3>5
  <2>5. TypeOK'
    BY <2>2, <2>3, <2>4 DEF IInv, TypeOK
  <2>6. BaselineIsLastTick'
    BY <1>2, <2>2, <2>3 DEF IInv, BaselineIsLastTick
  <2> QED BY <2>5, <2>6 DEF IInv
<1> QED BY <1>1, <1>2

LEMMA RemovePlayerPreserves ==
  ASSUME IInv, NEW p \in Players, RemovePlayer(p)
  PROVE  IInv'
<1>1. /\ players' = Without(players, p)
      /\ pendingInputs' = Without(pendingInputs, p)
      /\ previousSnapshots' = Without(previousSnapshots, p)
      /\ tick' = tick /\ timer' = timer
  BY DEF RemovePlayer
<1>2. /\ DOMAIN players' = DOMAIN players \ {p}
      /\ DOMAIN previousSnapshots' = DOMAIN previousSnapshots \ {p}
      /\ \A q \in DOMAIN players' : players'[q] = players[q] /\ pendingInputs'[q] = pendingInputs[q]
      /\ \A q \in DOMAIN previousSnapshots' : previousSnapshots'[q] = previousSnapshots[q]
  BY <1>1 DEF Without, IInv, TypeOK
<1>3. /\ players' \in [DOMAIN players' -> RuntimePlayer]
      /\ pendingInputs' \in [DOMAIN players' -> Seq(Inputs)]
      /\ previousSnapshots' \in [DOMAIN previousSnapshots' -> PlayerSnapshot]
  BY <1>1, <1>2 DEF Without, IInv, TypeOK
<1>4. TypeOK'
  BY <1>1, <1>2, <1>3 DEF IInv, TypeOK
<1>5. BaselineIsLastTick'
  BY <1>2 DEF IInv, BaselineIsLastTick
<1> QED BY <1>4, <1>5 DEF IInv

\* What MarkDisconnected, Heartbeat, UpdatePing and Elapse have in common: they
\* write connected, ping and silentFor of players of the session only.
LEMMA MotionlessPreserves ==
  ASSUME IInv,
         players' \in [DOMAIN players -> RuntimePlayer],
         \A q \in DOMAIN players : /\ players'[q].position = players[q].position
                                   /\ players'[q].lastSeq = players[q].lastSeq,
         UNCHANGED <<pendingInputs, previousSnapshots, tick, timer>>
  PROVE  IInv'
<1>1. DOMAIN players' = DOMAIN players
  OBVIOUS
<1>2. TypeOK'
  BY <1>1 DEF IInv, TypeOK
<1>3. BaselineIsLastTick'
  BY <1>1 DEF IInv, BaselineIsLastTick
<1> QED BY <1>2, <1>3 DEF IInv

LEMMA EnqueueInputPreserves ==
  ASSUME IInv, NEW p \in Players, NEW input \in Inputs, EnqueueInput(p, input)
  PROVE  IInv'
<1> DEFINE queue == pendingInputs[p]
           longer == Append(IF Len(queue) >= QueueLimit THEN Tail(queue) ELSE queue, input)
<1>1. p \in DOMAIN players /\ queue \in Seq(Inputs) /\ Len(queue) <= QueueLimit
  BY DEF EnqueueInput, IInv, TypeOK
<1>2. longer \in Seq(Inputs) /\ Len(longer) <= QueueLimit
  BY <1>1, BoundsAssumption
<1>3. /\ pendingInputs' = [pendingInputs EXCEPT ![p] = longer]
      /\ UNCHANGED <<players, previousSnapshots, tick, timer>>
  BY DEF EnqueueInput
<1> HIDE DEF longer
<1>4. TypeOK'
  BY <1>1, <1>2, <1>3 DEF IInv, TypeOK
<1>5. BaselineIsLastTick'
  BY <1>3 DEF IInv, BaselineIsLastTick
<1> QED BY <1>4, <1>5 DEF IInv

LEMMA StepPreserves ==
  ASSUME IInv, Step
  PROVE  IInv'
<1>1. /\ players' = Simulated
      /\ pendingInputs' = [p \in DOMAIN pendingInputs |-> << >>]
      /\ previousSnapshots' = NextBaseline
      /\ tick' = NextTick
      /\ timer' = timer
  BY DEF Step
<1>2. /\ DOMAIN players' = DOMAIN players
      /\ \A p \in DOMAIN players' : players'[p] \in RuntimePlayer
  BY <1>1, SimulatedStep DEF IInv
<1>3. players' = [p \in DOMAIN players' |-> players'[p]]
  BY <1>1 DEF Simulated
<1>4. /\ DOMAIN previousSnapshots' = DOMAIN players'
      /\ \A p \in DOMAIN players' : previousSnapshots'[p] = ToPlayerSnapshot(players'[p])
  BY <1>1, NextBaselineIsCurrent DEF IInv
<1>5. previousSnapshots' = [p \in DOMAIN previousSnapshots' |-> previousSnapshots'[p]]
  BY <1>1 DEF NextBaseline, Snapshots
<1>6. \A p \in DOMAIN players' : /\ previousSnapshots'[p] \in PlayerSnapshot
                                 /\ previousSnapshots'[p].position = players'[p].position
                                 /\ previousSnapshots'[p].lastSeq = players'[p].lastSeq
  BY <1>2, <1>4, SnapshotType
<1>7. /\ pendingInputs' \in [DOMAIN players' -> Seq(Inputs)]
      /\ \A p \in DOMAIN players' : Len(pendingInputs'[p]) <= QueueLimit
  <2>1. << >> \in Seq(Inputs) /\ Len(<< >>) <= QueueLimit
    BY BoundsAssumption
  <2>2. DOMAIN pendingInputs = DOMAIN players'
    BY <1>2 DEF IInv, TypeOK
  <2> QED BY <1>1, <2>1, <2>2
<1>8. tick' \in 0..(FullSnapshotEvery - 1)
  BY <1>1, BoundsAssumption DEF IInv, TypeOK, NextTick
<1>9. TypeOK'
  <2>1. DOMAIN players' \subseteq Players /\ timer' \in BOOLEAN
    BY <1>1, <1>2 DEF IInv, TypeOK
  <2>2. players' \in [DOMAIN players' -> RuntimePlayer]
    BY <1>2, <1>3
  <2>3. previousSnapshots' \in [DOMAIN previousSnapshots' -> PlayerSnapshot]
    BY <1>4, <1>5, <1>6
  <2> QED BY <1>4, <1>7, <1>8, <2>1, <2>2, <2>3 DEF TypeOK
<1>10. BaselineIsLastTick'
  BY <1>4, <1>6 DEF BaselineIsLastTick
<1> QED BY <1>9, <1>10 DEF IInv

LEMMA NextPreserves == IInv /\ [Next]_vars => IInv'
<1> SUFFICES ASSUME IInv, [Next]_vars PROVE IInv'
  OBVIOUS
<1>1. CASE Start \/ Stop
  BY <1>1 DEF Start, Stop, IInv, TypeOK, BaselineIsLastTick
<1>2. CASE Step
  BY <1>2, StepPreserves
<1>3. CASE Elapse
  <2>1. /\ players' = [p \in DOMAIN players |-> Aged(players[p])]
        /\ UNCHANGED <<pendingInputs, previousSnapshots, tick, timer>>
    BY <1>3 DEF Elapse
  <2>2. ASSUME NEW state \in RuntimePlayer
        PROVE  /\ Aged(state) \in RuntimePlayer
               /\ Aged(state).position = state.position
               /\ Aged(state).lastSeq = state.lastSeq
    BY BoundsAssumption DEF Aged, RuntimePlayer
  <2>3. \A q \in DOMAIN players : players[q] \in RuntimePlayer
    BY DEF IInv, TypeOK
  <2>4. /\ players' \in [DOMAIN players -> RuntimePlayer]
        /\ \A q \in DOMAIN players : /\ players'[q].position = players[q].position
                                     /\ players'[q].lastSeq = players[q].lastSeq
    BY <2>1, <2>2, <2>3
  <2> QED BY <2>1, <2>4, MotionlessPreserves
<1>4. ASSUME NEW p \in Players, AddPlayer(p)
      PROVE  IInv'
  BY <1>4, AddPlayerPreserves
<1>5. ASSUME NEW p \in Players, RemovePlayer(p)
      PROVE  IInv'
  BY <1>5, RemovePlayerPreserves
<1>6. ASSUME NEW p \in Players, NEW input \in Inputs, EnqueueInput(p, input)
      PROVE  IInv'
  BY <1>6, EnqueueInputPreserves
<1>7. ASSUME NEW p \in Players, MarkDisconnected(p) \/ Heartbeat(p)
      PROVE  IInv'
  <2>1. players[p] \in RuntimePlayer /\ p \in DOMAIN players
    BY <1>7 DEF MarkDisconnected, Heartbeat, IInv, TypeOK
  <2>2. PICK written \in RuntimePlayer :
          /\ players' = [players EXCEPT ![p] = written]
          /\ written.position = players[p].position
          /\ written.lastSeq = players[p].lastSeq
    <3>1. CASE MarkDisconnected(p)
      <4> DEFINE lost == [players[p] EXCEPT !.connected = FALSE]
      <4>1. lost \in RuntimePlayer /\ lost.position = players[p].position
                                   /\ lost.lastSeq = players[p].lastSeq
        BY <2>1 DEF RuntimePlayer
      <4>2. players' = [players EXCEPT ![p] = lost]
        BY <3>1 DEF MarkDisconnected
      <4> QED BY <4>1, <4>2
    <3>2. CASE Heartbeat(p)
      <4> DEFINE fresh == [players[p] EXCEPT !.silentFor = 0]
                 heard == [fresh EXCEPT !.connected = TRUE]
      <4>1. 0 \in 0..(HeartbeatTimeout + 1)
        BY BoundsAssumption
      <4>2. fresh \in RuntimePlayer /\ fresh.position = players[p].position
                                    /\ fresh.lastSeq = players[p].lastSeq
        BY <2>1, <4>1 DEF RuntimePlayer
      <4> HIDE DEF fresh
      <4>3. heard \in RuntimePlayer /\ heard.position = fresh.position
                                    /\ heard.lastSeq = fresh.lastSeq
        BY <4>2 DEF RuntimePlayer
      <4>4. players' = [players EXCEPT ![p] = heard]
        BY <3>2 DEF Heartbeat, fresh
      <4> QED BY <4>2, <4>3, <4>4
    <3> QED BY <1>7, <3>1, <3>2
  <2>3. /\ players' \in [DOMAIN players -> RuntimePlayer]
        /\ \A q \in DOMAIN players : /\ players'[q].position = players[q].position
                                     /\ players'[q].lastSeq = players[q].lastSeq
    BY <2>1, <2>2 DEF IInv, TypeOK
  <2>4. UNCHANGED <<pendingInputs, previousSnapshots, tick, timer>>
    BY <1>7 DEF MarkDisconnected, Heartbeat
  <2> QED BY <2>3, <2>4, MotionlessPreserves
<1>8. ASSUME NEW p \in Players, NEW rtt \in Rtts, UpdatePing(p, rtt)
      PROVE  IInv'
  <2> DEFINE ping == IF rtt > 0 THEN rtt ELSE 0
             measured == [players[p] EXCEPT !.ping = ping]
  <2>1. ping \in Nat
    BY RttsAssumption
  <2>2. p \in DOMAIN players /\ players[p] \in RuntimePlayer
    BY <1>8 DEF UpdatePing, IInv, TypeOK
  <2>3. players' = [players EXCEPT ![p] = measured]
    BY <1>8 DEF UpdatePing
  <2> HIDE DEF ping
  <2>4. measured \in RuntimePlayer /\ measured.position = players[p].position
                                   /\ measured.lastSeq = players[p].lastSeq
    BY <2>1, <2>2 DEF RuntimePlayer
  <2> HIDE DEF measured
  <2>5. /\ players' \in [DOMAIN players -> RuntimePlayer]
        /\ \A q \in DOMAIN players : /\ players'[q].position = players[q].position
                                     /\ players'[q].lastSeq = players[q].lastSeq
    BY <2>2, <2>3, <2>4 DEF IInv, TypeOK
  <2>6. UNCHANGED <<pendingInputs, previousSnapshots, tick, timer>>
    BY <1>8 DEF UpdatePing
  <2> QED BY <2>5, <2>6, MotionlessPreserves
<1>9. CASE UNCHANGED vars
  BY <1>9 DEF vars, IInv, TypeOK, BaselineIsLastTick
<1> QED BY <1>1, <1>2, <1>3, <1>4, <1>5, <1>6, <1>7, <1>8, <1>9 DEF Next

LEMMA Invariance == Spec => []IInv
<1>1. Init => IInv
  BY InitEstablishes
<1>2. IInv /\ [Next]_vars => IInv'
  BY NextPreserves
<1> QED BY <1>1, <1>2, PTL DEF Spec

-----------------------------------------------------------------------------
(* Theorems *)

\* Type correctness: whatever the lobby, the sockets and the timer call, and in
\* whatever order, the session's maps keep their types, their common keys and
\* the queue limit.
THEOREM TypeCorrect == Spec => []TypeOK
<1>1. IInv => TypeOK
  BY DEF IInv
<1> QED BY Invariance, <1>1, PTL

\* The delta baseline agrees with the live state on everything the simulation
\* computes, for any number of players and any bounds.
THEOREM BaselineSound == Spec => []BaselineIsLastTick
<1>1. IInv => BaselineIsLastTick
  BY DEF IInv
<1> QED BY Invariance, <1>1, PTL

\* What may happen between two ticks.
BetweenSteps ==
  \/ UNCHANGED vars
  \/ Start \/ Stop \/ Elapse
  \/ \E p \in Players :
       \/ AddPlayer(p) \/ RemovePlayer(p) \/ MarkDisconnected(p) \/ Heartbeat(p)
       \/ \E input \in Inputs : EnqueueInput(p, input)
       \/ \E rtt \in Rtts : UpdatePing(p, rtt)

\* Only the tick moves a player or acknowledges an input.
LEMMA OnlyTicksMove ==
  ASSUME IInv, BetweenSteps, NEW p \in DOMAIN players \cap DOMAIN players'
  PROVE  /\ players'[p].lastSeq = players[p].lastSeq
         /\ players'[p].position = players[p].position
<1>1. players[p] \in RuntimePlayer
  BY DEF IInv, TypeOK
<1>2. CASE Elapse
  <2>1. players'[p] = Aged(players[p])
    BY <1>2 DEF Elapse
  <2> QED BY <1>1, <2>1 DEF Aged, RuntimePlayer
<1>3. ASSUME NEW q \in Players,
             AddPlayer(q) \/ MarkDisconnected(q) \/ Heartbeat(q)
               \/ \E rtt \in Rtts : UpdatePing(q, rtt)
      PROVE  /\ players'[p].lastSeq = players[p].lastSeq
             /\ players'[p].position = players[p].position
  <2>1. CASE q # p
    BY <1>3, <2>1 DEF AddPlayer, Put, MarkDisconnected, Heartbeat, UpdatePing
  <2>2. CASE q = p
    <3>1. CASE AddPlayer(p)
      BY <1>1, <3>1 DEF AddPlayer, RuntimePlayer, IInv, TypeOK
    <3>2. CASE MarkDisconnected(p)
      BY <1>1, <3>2 DEF MarkDisconnected, RuntimePlayer, IInv, TypeOK
    <3>3. CASE Heartbeat(p)
      BY <1>1, <3>3 DEF Heartbeat, RuntimePlayer, IInv, TypeOK
    <3>4. ASSUME NEW rtt \in Rtts, UpdatePing(p, rtt)
          PROVE  /\ players'[p].lastSeq = players[p].lastSeq
                 /\ players'[p].position = players[p].position
      BY <1>1, <3>4 DEF UpdatePing, RuntimePlayer, IInv, TypeOK
    <3> QED BY <1>3, <2>2, <3>1, <3>2, <3>3, <3>4
  <2> QED BY <2>1, <2>2
<1>4. ASSUME NEW q \in Players, RemovePlayer(q)
      PROVE  players'[p] = players[p]
  BY <1>4 DEF RemovePlayer, Without
<1>5. \/ UNCHANGED players
      \/ Elapse
      \/ \E q \in Players : RemovePlayer(q)
      \/ \E q \in Players : \/ AddPlayer(q) \/ MarkDisconnected(q) \/ Heartbeat(q)
                            \/ \E rtt \in Rtts : UpdatePing(q, rtt)
  BY DEF BetweenSteps, vars, Start, Stop, EnqueueInput
<1> QED BY <1>2, <1>3, <1>4, <1>5

\* How one action moves a player that is in the session before and after it.
LEMMA OneStepMotion ==
  ASSUME IInv, [Next]_vars, NEW p \in DOMAIN players \cap DOMAIN players'
  PROVE  /\ players'[p].lastSeq >= players[p].lastSeq
         /\ players'[p].position - players[p].position \in (-MaxStep)..MaxStep
         /\ players'[p].position # players[p].position
              => players'[p].lastSeq > players[p].lastSeq
<1>1. /\ players[p].lastSeq \in Nat
      /\ players[p].position \in Int
  BY BoundsAssumption DEF IInv, TypeOK, RuntimePlayer, Positions
<1>2. CASE Step
  BY <1>2, SimulatedStep DEF Step, IInv
<1>3. CASE BetweenSteps
  BY <1>1, <1>3, OnlyTicksMove, BoundsAssumption
<1> QED BY <1>2, <1>3 DEF Next, BetweenSteps

\* No order of joins, inputs, ticks and closes takes a player back to an earlier
\* sequence number while it stays in the session.
THEOREM SequenceMonotone == Spec => SeqNeverFalls
<1>1. IInv /\ [Next]_vars => [\A p \in DOMAIN players \cap DOMAIN players' :
                                players'[p].lastSeq >= players[p].lastSeq]_vars
  BY OneStepMotion
<1> QED BY <1>1, Invariance, PTL DEF Spec, SeqNeverFalls

\* No queue of inputs, however long, moves a player further in one action than
\* one legal input may.
THEOREM OneStepPerTick == Spec => NoTeleport
<1>1. IInv /\ [Next]_vars =>
        [\A p \in DOMAIN players \cap DOMAIN players' :
           players'[p].position - players[p].position \in (-MaxStep)..MaxStep]_vars
  BY OneStepMotion
<1> QED BY <1>1, Invariance, PTL DEF Spec, NoTeleport

\* A player moves only together with a new acknowledged sequence number.
THEOREM MotionAcknowledged == Spec => MovesAreAcknowledged
<1>1. IInv /\ [Next]_vars =>
        [\A p \in DOMAIN players \cap DOMAIN players' :
           players'[p].position # players[p].position
             => players'[p].lastSeq > players[p].lastSeq]_vars
  BY OneStepMotion
<1> QED BY <1>1, Invariance, PTL DEF Spec, MovesAreAcknowledged

-----------------------------------------------------------------------------
(* Distance *)

\* A move of at most one displacement that a further sequence number pays for.
LEMMA OneMoreStep ==
  ASSUME NEW M \in Nat, NEW a \in Nat, NEW b \in Nat, NEW x \in Int, NEW y \in Int,
         x \in (-(a * M))..(a * M), b >= a, y \in (-M)..M, y # 0 => b > a
  PROVE  x + y \in (-(b * M))..(b * M)
<1>1. a * M \in Nat /\ b * M \in Nat
  OBVIOUS
<1>2. PICK c \in Nat : b = a + c
  <2>1. b - a \in Nat /\ b = a + (b - a)
    OBVIOUS
  <2> QED BY <2>1
<1>3. c * M \in Nat
  OBVIOUS
<1>4. b * M = a * M + c * M
  BY <1>2
<1>5. CASE y = 0
  BY <1>1, <1>3, <1>4, <1>5
<1>6. CASE y # 0
  <2>1. c >= 1
    BY <1>2, <1>6
  <2>2. c * M >= M
    <3>1. (c - 1) * M \in Nat /\ c * M = (c - 1) * M + M
      BY <2>1
    <3> QED BY <3>1
  <2> QED BY <1>1, <1>3, <1>4, <2>2
<1> QED BY <1>5, <1>6

LEMMA NewPlayersAtSpawn ==
  ASSUME IInv, [Next]_vars, NEW p \in DOMAIN players' \ DOMAIN players
  PROVE  /\ players'[p].lastSeq = 0
         /\ \E spawn \in DOMAIN SpawnPoints : players'[p].position = SpawnPoints[spawn]
<1>1. PICK q \in Players : AddPlayer(q)
  <2>1. CASE Step
    BY <2>1 DEF Step, Simulated
  <2>2. CASE Elapse
    BY <2>2 DEF Elapse
  <2> QED BY <2>1, <2>2
          DEF Next, vars, Start, Stop, RemovePlayer, Without, MarkDisconnected, Heartbeat,
              EnqueueInput, UpdatePing
<1>2. q = p /\ players' = Put(players, p, CreateRuntimePlayer(Cardinality(DOMAIN players)))
  BY <1>1 DEF AddPlayer, Put
<1>3. players'[p] = CreateRuntimePlayer(Cardinality(DOMAIN players))
  BY <1>2 DEF Put
<1>4. Cardinality(DOMAIN players) \in Nat
  BY PlayersAssumption, FS_Subset, FS_CardinalityType DEF IInv, TypeOK
<1>5. Cardinality(DOMAIN players) % NumSpawns \in DOMAIN SpawnPoints
  BY <1>4, SpawnAssumption
<1> QED BY <1>3, <1>5 DEF CreateRuntimePlayer

\* No flood, replay or reordering of inputs, however long, takes a player further from
\* where it was spawned than the acknowledged sequence number pays for.
THEOREM EveryStepIsPaidFor == Spec => []DistanceIsEarned
<1>1. Init => DistanceIsEarned
  BY DEF Init, DistanceIsEarned
<1>2. IInv /\ IInv' /\ DistanceIsEarned /\ [Next]_vars => DistanceIsEarned'
  <2> SUFFICES ASSUME IInv, IInv', DistanceIsEarned, [Next]_vars, NEW p \in DOMAIN players'
               PROVE  \E spawn \in DOMAIN SpawnPoints :
                        players'[p].position - SpawnPoints[spawn]
                          \in (-(players'[p].lastSeq * MaxStep))..(players'[p].lastSeq * MaxStep)
    BY DEF DistanceIsEarned
  <2>1. \A spawn \in DOMAIN SpawnPoints : SpawnPoints[spawn] \in Int
    BY SpawnAssumption, BoundsAssumption DEF Positions
  <2>2. players'[p].lastSeq \in Nat /\ players'[p].position \in Int
    BY BoundsAssumption DEF IInv, TypeOK, RuntimePlayer, Positions
  <2>3. CASE p \notin DOMAIN players
    <3>1. PICK spawn \in DOMAIN SpawnPoints : players'[p].position = SpawnPoints[spawn]
      BY <2>3, NewPlayersAtSpawn
    <3>2. players'[p].lastSeq * MaxStep = 0
      BY <2>3, NewPlayersAtSpawn, BoundsAssumption
    <3>3. players'[p].position - SpawnPoints[spawn] = 0
      BY <2>1, <2>2, <3>1
    <3> QED BY <3>2, <3>3
  <2>4. CASE p \in DOMAIN players
    <3>1. PICK spawn \in DOMAIN SpawnPoints :
            players[p].position - SpawnPoints[spawn]
              \in (-(players[p].lastSeq * MaxStep))..(players[p].lastSeq * MaxStep)
      BY <2>4 DEF DistanceIsEarned
    <3>2. players[p].lastSeq \in Nat /\ players[p].position \in Int
      <4>1. players[p] \in RuntimePlayer
        BY <2>4 DEF IInv, TypeOK
      <4> QED BY <4>1, BoundsAssumption DEF RuntimePlayer, Positions
    <3>3. /\ players'[p].lastSeq >= players[p].lastSeq
          /\ players'[p].position - players[p].position \in (-MaxStep)..MaxStep
          /\ players'[p].position # players[p].position
               => players'[p].lastSeq > players[p].lastSeq
      BY <2>4, OneStepMotion
    <3> DEFINE x == players[p].position - SpawnPoints[spawn]
               y == players'[p].position - players[p].position
    <3>4. x \in Int /\ y \in Int /\ (y # 0 => players'[p].lastSeq > players[p].lastSeq)
      BY <2>1, <2>2, <3>2, <3>3
    <3>5. x + y = players'[p].position - SpawnPoints[spawn]
      BY <2>1, <2>2, <3>2
    <3> HIDE DEF x, y
    <3>6. x + y \in (-(players'[p].lastSeq * MaxStep))..(players'[p].lastSeq * MaxStep)
      BY <2>2, <3>1, <3>2, <3>3, <3>4, BoundsAssumption, OneMoreStep DEF x, y
    <3> QED BY <3>5, <3>6
  <2> QED BY <2>3, <2>4
<1> QED BY <1>1, <1>2, Invariance, PTL DEF Spec
=============================================================================
