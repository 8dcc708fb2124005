------------------------------ MODULE Shutdown ------------------------------
(***************************************************************************)
(* The gateway through an orderly shutdown (src/server.ts): on SIGTERM or  *)
(* SIGINT the sessions are destroyed and every registered socket is closed,*)
(* then the WebSocket server, the HTTP server and Redis are closed one     *)
(* after the other and the process exits.  It is started again.            *)
(*                                                                         *)
(* The WebSocket server waits for all its connections, registered or not;  *)
(* that and the HTTP server's close are external.  A second signal is left *)
(* out.                                                                    *)
(***************************************************************************)
EXTENDS Gateway

VARIABLES
  phase,  \* how far the shutdown is
  late    \* history: the sockets that were being set up when the signal came

shutdownVars == <<vars, phase, late>>

ShutdownInit == Init /\ phase = "up" /\ late = {}

\* destroyAll: no session is left to show anybody.
DestroyAll == shown' = [r \in Rooms |-> [p \in Players |-> "absent"]]

\* Slip: only the sockets that have joined a room are closed.
OnlyJoined == {s \in sockets : ctx[s].room # NoRoom}

\* The sockets that close() closes.
Registered == sockets

\* The signal: destroyAll, and close up to its first await.  subscribedRooms keeps
\* the rooms whose sessions are gone.
Terminate ==
  /\ phase = "up"
  /\ phase' = "draining"
  /\ late' = {s \in Sockets : stage[s] = "limit"}
  /\ DestroyAll
  /\ transport' = [s \in Sockets |-> IF s \in Registered THEN Closing(s)[s] ELSE transport[s]]
  /\ UNCHANGED <<stage, owner, early, regVars, tokenVars, listening, presence, task>>

\* The last connection is gone: close() resolves, and app.close() is called.
Drained ==
  /\ phase = "draining"
  /\ \A s \in Sockets : transport[s] = "closed"
  /\ phase' = "closing"
  /\ UNCHANGED <<vars, late>>

\* The HTTP server and Redis are closed; process.exit.
Exit ==
  /\ phase = "closing"
  /\ Crash
  /\ phase' = "exited"
  /\ late' = {}

Restart ==
  /\ phase = "exited"
  /\ phase' = "up"
  /\ UNCHANGED <<vars, late>>

\* The process ends at any moment, in the middle of a shutdown too.
Die ==
  /\ phase # "exited"
  /\ Crash
  /\ phase' = "exited"
  /\ late' = {}

\* The server goes on with what it has, and takes connections until the signal.
Serve ==
  /\ phase # "exited"
  /\ \/ \E s \in Sockets :
          \/ HandleConnection(s)
          \/ BufferEarly(s)
          \/ PeerCloses(s)
          \/ CloseEvent(s)
          \/ \E p \in Players : phase = "up" /\ Connect(s, p)
          \/ \E t \in Tasks, message \in Messages : Receive(t, s, message)
     \/ \E t \in Tasks : HandleMessage(t)
     \/ \E r \in Rooms : \/ \E silent \in SUBSET Connected(r) : Tick(r, silent)
                         \/ \E p \in Players : LobbyStarts(r, p)
  /\ UNCHANGED <<phase, late>>

\* Presence keys are Redis' own.
Expire == (\E p \in Players : PresenceExpires(p)) /\ UNCHANGED <<phase, late>>

ShutdownNext ==
  \/ Terminate
  \/ Drained
  \/ Exit
  \/ Restart
  \/ Die
  \/ Serve
  \/ Expire

ShutdownSpec == ShutdownInit /\ [][ShutdownNext]_shutdownVars

\* The gateway's fairness, and the closes that server.ts awaits.
FairShutdownSpec ==
  /\ ShutdownSpec
  /\ Fairness
  /\ WF_phase(Drained)
  /\ WF_phase(phase = "closing" /\ phase' = "exited")

-----------------------------------------------------------------------------
(* Properties *)

\* A shutdown that never ends is held up by a connection whose set-up the signal
\* overtook, so that nobody closed it, and whose peer keeps it open: no socket
\* that was registered, replaced or refused stands in its way, whatever messages
\* and closes were in processing.
ShutdownEnds ==
  <>[](phase = "draining") => <>[](\E s \in late : transport[s] = "open")
=============================================================================
