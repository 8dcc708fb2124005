---------------------------- MODULE SnapshotStream ----------------------------
(***************************************************************************)
(* A GameSession and the sockets that watch it.  Each player has at most   *)
(* one registered socket (module Gateway); this module follows what the    *)
(* client behind it has been told: the full snapshots of join_session and  *)
(* request_snapshot, sent between ticks to one socket, and the messages of *)
(* the ticks, broadcast to every socket whose context names the room.      *)
(*                                                                         *)
(* A socket delivers in order what was sent on it, so view[p] is what p's  *)
(* client shows once all that was sent so far has reached it.  The calls   *)
(* of the gateway are reduced to their effect on the session, on the       *)
(* context's roomId and on the view.                                       *)
(***************************************************************************)
EXTENDS GameSession

VARIABLES
  phase,  \* what player p's socket is in the middle of
  view    \* Map playerId -> snapshot, as p's client holds it

streamVars == <<vars, phase, view>>

\* out: no socket, or one that has not joined; joining: ctx.roomId is set and
\* joinSession awaits the presence write; live: joined was sent; closing: the
\* socket is no longer OPEN and its close event is yet to come.
Phases == {"out", "joining", "live", "closing"}

\* The sockets broadcast sends to: ctx.roomId names the room, readyState is OPEN.
Receiving(p) == phase[p] \in {"joining", "live"}

-----------------------------------------------------------------------------
(* The client's side of "snapshot + delta sync" *)

\* A patch overwrites the fields it carries.
Overlay(snapshot, patch) ==
  [f \in DOMAIN snapshot \cup DOMAIN patch |->
     IF f \in DOMAIN patch THEN patch[f] ELSE snapshot[f]]

ApplyDelta(known, delta) ==
  [q \in (DOMAIN known \ delta.removed) \cup DOMAIN delta.changes |->
     IF q \notin DOMAIN delta.changes THEN known[q]
     ELSE IF q \notin DOMAIN known THEN delta.changes[q]
     ELSE Overlay(known[q], delta.changes[q])]

Apply(known, message) ==
  CASE message.type = "snapshot" -> message.players
    [] message.type = "delta"    -> ApplyDelta(known, message)
    [] OTHER                     -> known

-----------------------------------------------------------------------------
StreamInit ==
  /\ Init
  /\ phase = [p \in Players |-> "out"]
  /\ view = [p \in Players |-> << >>]

\* joinSession up to the presence write: getOrCreate has started the session.
\* A repeated join_session on a joined socket leaves it receiving as before.
JoinSession(p) ==
  /\ timer
  /\ phase[p] \in {"out", "joining", "live"}
  /\ AddPlayer(p)
  /\ phase' = [phase EXCEPT ![p] = IF @ = "live" THEN "live" ELSE "joining"]
  /\ UNCHANGED view

\* joinSession after the presence write: joined, then the full snapshot.
SendJoined(p) ==
  /\ phase[p] = "joining"
  /\ phase' = [phase EXCEPT ![p] = "live"]
  /\ view' = [view EXCEPT ![p] = Snapshots(players)]
  /\ UNCHANGED vars

\* request_snapshot; also how the second half of a repeated join ends.
RequestSnapshot(p) ==
  /\ Receiving(p)
  /\ view' = [view EXCEPT ![p] = Snapshots(players)]
  /\ UNCHANGED <<vars, phase>>

\* addPlayer for a player that has no socket in the room: the lobby's start of
\* the game, or a join that was in flight when its socket closed.
AddWithoutSocket(p) ==
  /\ timer
  /\ AddPlayer(p)
  /\ UNCHANGED <<phase, view>>

SocketCloses(p) ==
  /\ Receiving(p)
  /\ phase' = [phase EXCEPT ![p] = "closing"]
  /\ view' = [view EXCEPT ![p] = << >>]
  /\ UNCHANGED vars

\* onClose of a socket that is still registered.
OnClose(p) ==
  /\ phase[p] = "closing"
  /\ MarkDisconnected(p)
  /\ phase' = [phase EXCEPT ![p] = "out"]
  /\ UNCHANGED view

\* A new connection of the player takes the old socket's registration away: the
\* old one's close event finds no context and marks nobody disconnected.
ReplaceSocket(p) ==
  /\ phase[p] # "out"
  /\ phase' = [phase EXCEPT ![p] = "out"]
  /\ view' = [view EXCEPT ![p] = << >>]
  /\ UNCHANGED vars

\* A message of a socket that has joined.  Its context was read before the limiter
\* was asked: by now the socket may have closed or been replaced.  Which players ever
\* had such a socket is not recorded: the messages allowed here are more than the code's.
SocketMessage(p) ==
  /\ \/ Heartbeat(p)
     \/ \E input \in Inputs : EnqueueInput(p, input)
     \/ \E rtt \in Rtts : UpdatePing(p, rtt)
  /\ UNCHANGED <<phase, view>>

\* A tick and the broadcast its 'snapshot' event triggers synchronously.
StepAndBroadcast ==
  /\ Step
  /\ view' = [p \in Players |->
                IF Receiving(p) THEN Apply(view[p], StepMessage) ELSE view[p]]
  /\ UNCHANGED phase

SessionAlone ==
  /\ Start \/ Elapse
  /\ UNCHANGED <<phase, view>>

StreamNext ==
  \/ StepAndBroadcast
  \/ SessionAlone
  \/ \E p \in Players :
       \/ JoinSession(p)
       \/ SendJoined(p)
       \/ RequestSnapshot(p)
       \/ AddWithoutSocket(p)
       \/ SocketCloses(p)
       \/ OnClose(p)
       \/ ReplaceSocket(p)
       \/ SocketMessage(p)

StreamSpec == StreamInit /\ [][StreamNext]_streamVars

\* The step is a firing of the timer: with FullSnapshotEvery > 1 no other changes tick.
Fires == timer /\ tick' = NextTick

\* The interval timer keeps firing.
FairStreamSpec == StreamSpec /\ WF_tick(Fires)

-----------------------------------------------------------------------------
(* Properties *)

\* phase and view have their types; a client that has been sent joined holds
\* whole snapshots.
StreamTypeOK ==
  /\ TypeOK
  /\ phase \in [Players -> Phases]
  /\ DOMAIN view = Players
  /\ \A p \in Players : phase[p] = "live" =>
       /\ DOMAIN view[p] \subseteq DOMAIN players
       /\ view[p] \in [DOMAIN view[p] -> PlayerSnapshot]

\* Although deltas are computed against one baseline for the whole room, and a
\* client starts from a full snapshot taken between two ticks, a joined client
\* never shows a player at a place or with an acknowledged input other than the
\* server's, and it knows every player the last tick knew.
ViewMotionExact ==
  \A p \in Players : phase[p] = "live" =>
    /\ DOMAIN previousSnapshots \subseteq DOMAIN view[p]
    /\ \A q \in DOMAIN view[p] :
         /\ q \in DOMAIN players
         /\ view[p][q].position = players[q].position
         /\ view[p][q].lastSeq = players[q].lastSeq

\* connected and ping may go stale in a view, but never for good: again and again
\* a joined client holds exactly what the last tick recorded.
ViewsResync ==
  \A p \in Players : []<>(phase[p] = "live" => view[p] = previousSnapshots)

\* A view that is wrong about a player's connected or ping was made so by a full
\* snapshot between two ticks: a tick never makes a correct view wrong.  (With
\* FullSnapshotEvery > 1 a step changes tick exactly if it is a tick.)
TicksKeepViewsRight ==
  [][tick' # tick =>
       \A p \in Players : (phase[p] = "live" /\ view[p] = previousSnapshots)
         => view'[p] = previousSnapshots']_streamVars
=============================================================================
