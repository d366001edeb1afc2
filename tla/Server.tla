-------------------------------- MODULE Server ---------------------------------
(***************************************************************************)
(* The process: its HTTP connections, the registry of SSE streams and the  *)
(* graceful shutdown (src/src/server.ts, common/utils/sse.manager.ts,      *)
(* NotificationController.subscribe and PaymentController.paymentCallback).*)
(*                                                                         *)
(* JavaScript runs one callback at a time; an action is a callback.  What  *)
(* a request does inside belongs to other modules: here it is being served *)
(* and then answered.  server.close() ends idle connections, refuses new   *)
(* ones and calls back when none is left; a connection that was busy may   *)
(* carry another request until its keep-alive time is over.                *)
(***************************************************************************)
EXTENDS Integers, FiniteSets

CONSTANTS
  Conns, Users,
  MaxUses,   \* bound: requests a connection carries
  NoConn

ASSUME ConnAssumption == NoConn \notin Conns /\ MaxUses \in Nat

VARIABLES
  phase,     \* "up", "closing", "closed", and the two ways to end
  conn,      \* of a connection: what it is doing
  owner,     \* of a connection: the user whose token its requests carry
  uses,      \* of a connection: requests so far
  client,    \* SseManager.clients
  jobs,      \* connections whose webhook is answered and still being processed
  stray      \* users who opened a second stream, or a stream after the signal

serverVars == <<phase, conn, owner, uses, client, jobs, stray>>

Streams(u) == {c \in Conns : conn[c] = "stream" /\ owner[c] = u}

\* A new connection, or one that is kept alive, can carry a request.
Ready(c) ==
  /\ conn[c] = "kept" \/ (conn[c] = "none" /\ phase = "up")
  /\ uses[c] < MaxUses

Running == phase \notin {"exited", "forced", "failed"}

-----------------------------------------------------------------------------
ServerInit ==
  /\ phase = "up"
  /\ conn = [c \in Conns |-> "none"]
  /\ owner \in [Conns -> Users]
  /\ uses = [c \in Conns |-> 0]
  /\ client = [u \in Users |-> NoConn]
  /\ jobs = {}
  /\ stray = {}

Request(c) ==
  /\ Running /\ Ready(c)
  /\ conn' = [conn EXCEPT ![c] = "request"]
  /\ uses' = [uses EXCEPT ![c] = @ + 1]
  /\ UNCHANGED <<phase, owner, client, jobs, stray>>

\* The webhook is answered before its work is done.
Answer(c) ==
  /\ Running /\ conn[c] = "request"
  /\ conn' = [conn EXCEPT ![c] = "kept"]
  /\ jobs' \in {jobs, jobs \cup {c}}
  /\ UNCHANGED <<phase, owner, uses, client, stray>>

JobEnds(c) ==
  /\ Running /\ c \in jobs
  /\ jobs' = jobs \ {c}
  /\ UNCHANGED <<phase, conn, owner, uses, client, stray>>

\* addClient overwrites the entry of the user.
Subscribe(c) ==
  /\ Running /\ Ready(c)
  /\ conn' = [conn EXCEPT ![c] = "stream"]
  /\ uses' = [uses EXCEPT ![c] = @ + 1]
  /\ client' = [client EXCEPT ![owner[c]] = c]
  /\ stray' = IF phase # "up" \/ Streams(owner[c]) # {}
              THEN stray \cup {owner[c]} ELSE stray
  /\ UNCHANGED <<phase, owner, jobs>>

\* req.on('close'): removeClient takes the user, not the connection.
StillThere(c) == client              \* faulty: no handler
AllGone(c) == [u \in Users |-> NoConn]  \* faulty: clears the registry
WithoutOwner(c) == [client EXCEPT ![owner[c]] = NoConn]

StreamCloses(c) ==
  /\ Running /\ conn[c] \in {"stream", "ended"}
  /\ conn' = [conn EXCEPT ![c] = "gone"]
  /\ client' = WithoutOwner(c)
  /\ UNCHANGED <<phase, owner, uses, jobs, stray>>

\* keepAliveTimeout, or the client closes.
KeptCloses(c) ==
  /\ Running /\ conn[c] = "kept"
  /\ conn' = [conn EXCEPT ![c] = "gone"]
  /\ UNCHANGED <<phase, owner, uses, client, jobs, stray>>

-----------------------------------------------------------------------------
(* gracefulShutdown.                                                       *)

\* closeAll ends the responses of the registry.
Nobody == {}                         \* faulty: clears without ending them
Registered == {client[u] : u \in Users} \ {NoConn}

\* The first signal or uncaught error: closeAll, then server.close with the
\* idle connections; a second one is ignored.
Signal ==
  /\ phase = "up"
  /\ phase' = "closing"
  /\ conn' = [c \in Conns |->
                IF c \in Registered THEN "ended"
                ELSE IF conn[c] = "kept" THEN "gone" ELSE conn[c]]
  /\ client' = [u \in Users |-> NoConn]
  /\ UNCHANGED <<owner, uses, jobs, stray>>

ServerCloses ==
  /\ phase = "closing"
  /\ \A c \in Conns : conn[c] \in {"none", "gone"}
  /\ phase' = "closed"
  /\ UNCHANGED <<conn, owner, uses, client, jobs, stray>>

\* $disconnect and redis.quit, then process.exit(0), or (1) when one fails.
Exit ==
  /\ phase = "closed"
  /\ phase' \in {"exited", "failed"}
  /\ UNCHANGED <<conn, owner, uses, client, jobs, stray>>

\* The timer is set with the signal and waits for nothing: it may find requests
\* under way, kept connections in use, streams, or the closing half done.  How
\* long it waits (30 seconds, 10 after an uncaught error) is left open.
ServerClosed == phase = "closed"     \* faulty: the timer is set after close
TimeIsUp == phase \in {"closing", "closed"}

ForceExit ==
  /\ TimeIsUp
  /\ phase' = "forced"
  /\ UNCHANGED <<conn, owner, uses, client, jobs, stray>>

ServerNext ==
  \/ \E c \in Conns :
       \/ Request(c) \/ Answer(c) \/ JobEnds(c) \/ Subscribe(c)
       \/ StreamCloses(c) \/ KeptCloses(c)
  \/ Signal \/ ServerCloses \/ Exit \/ ForceExit

ServerSpec == ServerInit /\ [][ServerNext]_serverVars

\* Handlers answer, idle and ended connections close, callbacks and timers
\* run.  No client ever has to close its stream.
Fairness ==
  /\ \A c \in Conns : WF_serverVars(Answer(c)) /\ WF_serverVars(KeptCloses(c))
  /\ \A c \in Conns : WF_serverVars(conn[c] = "ended" /\ StreamCloses(c))
  /\ WF_serverVars(ServerCloses) /\ WF_serverVars(Exit) /\ WF_serverVars(ForceExit)

-----------------------------------------------------------------------------
(* Properties.                                                             *)

\* Connections are in one of their states, and the registry, whatever streams
\* of a user replaced or outlived each other, names open streams of that user:
\* sendMessage never writes to a closed response.
TypeOK ==
  /\ phase \in {"up", "closing", "closed", "exited", "forced", "failed"}
  /\ conn \in [Conns -> {"none", "request", "kept", "stream", "ended", "gone"}]
  /\ owner \in [Conns -> Users]
  /\ uses \in [Conns -> 0..MaxUses]
  /\ client \in [Users -> Conns \cup {NoConn}]
  /\ \A u \in Users : client[u] \in Streams(u) \cup {NoConn}
  /\ jobs \subseteq Conns
  /\ stray \subseteq Users

\* What the signal leaves open are streams of users who opened one beside
\* another or after it: closeAll reaches all others (server.ts:44,
\* sse.manager.ts:32-47), so that no other stream keeps the server from closing
\* until the timer ends the process.
OnlyStraysOutlive ==
  phase # "up" => \A c \in Conns : conn[c] = "stream" => owner[c] \in stray

\* Once signalled, the process ends, whatever streams stay open (the timer of
\* server.ts:71-75).
ShutdownEnds == phase = "closing" ~> ~ Running

\* A user with an open stream is in the registry and receives notifications, as
\* long as he has not opened a second one: a user who reconnects after the old
\* stream has closed is never forgotten, whatever other users open and close
\* (notification.controller.ts:34-36).
ListenersAreKnown ==
  phase = "up" => \A u \in Users \ stray : Streams(u) # {} => client[u] # NoConn
=============================================================================
