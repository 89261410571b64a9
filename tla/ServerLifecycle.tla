--------------------------- MODULE ServerLifecycle --------------------------
(***************************************************************************)
(* A serving server: the accept loop, one task per accepted transport that *)
(* takes it through handshake and attach and then serves the connection,   *)
(* the set of connections to close on shutdown, the registry of recovery   *)
(* connections that a resume looks up, and the shutdown itself.            *)
(*                                                                         *)
(* Each accepted transport is named; a new connection has the name of its  *)
(* first transport.  What a connection does while it is open is left to    *)
(* Session.tla and Streams.tla: here it closes at some point.              *)
(***************************************************************************)
EXTENDS Naturals, FiniteSets

CONSTANTS
  Conn,      \* transports that are accepted
  NoConn,    \* none of them
  Recovery   \* ServerRecoveryOptions::enable

ASSUME ServerAssumption ==
  /\ NoConn \notin Conn
  /\ Recovery \in BOOLEAN

VARIABLES
  loop,            \* serve_with_accept: "accept", "stop", "join", "returned"
  stopped,         \* Lifecycle::conns is None
  tracked,         \* Lifecycle::conns
  closers,         \* connections that a task spawned by the shutdown closes
  task,            \* task[c]: progress of handle_conn
  conn,            \* conn[c]: "none", "pending", "open" or "closed"
  recovery_conns,  \* the registry that a resume looks up
  target,          \* target[c]: the connection that transport c resumes
  connected,       \* history: connections for which on_connect succeeded
  disconnected,    \* history: connections for which on_disconnect ran
  resumed          \* history: connections that were given another transport

serving == << loop, stopped, tracked, closers >>
history == << connected, disconnected, resumed >>
vars == << serving, task, conn, recovery_conns, target, history >>

Init ==
  /\ loop = "accept"
  /\ stopped = FALSE
  /\ tracked = {}
  /\ closers = {}
  /\ task = [c \in Conn |-> "none"]
  /\ conn = [c \in Conn |-> "none"]
  /\ recovery_conns = {}
  /\ target = [c \in Conn |-> NoConn]
  /\ connected = {}
  /\ disconnected = {}
  /\ resumed = {}

-----------------------------------------------------------------------------
(* serve_with_accept.  A failed accept is retried and changes nothing.     *)

Accept(c) ==
  /\ loop = "accept" /\ task[c] = "none"
  /\ task' = [task EXCEPT ![c] = "handshake"]
  /\ conn' = [conn EXCEPT ![c] = "pending"]
  /\ UNCHANGED << serving, recovery_conns, target, history >>

\* The shutdown signal ends the accept loop.
Signal ==
  /\ loop = "accept"
  /\ loop' = "stop"
  /\ UNCHANGED << stopped, tracked, closers, task, conn, recovery_conns, target, history >>

ToClose == tracked

\* Lifecycle::stop, and a task for each connection to close.
Stop ==
  /\ loop = "stop"
  /\ loop' = "join"
  /\ stopped' = TRUE
  /\ tracked' = {}
  /\ closers' = ToClose
  /\ UNCHANGED << task, conn, recovery_conns, target, history >>

\* Mutant: only the tasks that close connections are waited for.
AllJoinedClosers == closers = {}

AllJoined == closers = {} /\ \A c \in Conn : task[c] \in {"none", "done"}

\* Every task has ended, and serve_with_shutdown returns.
Return ==
  /\ loop = "join" /\ AllJoined
  /\ loop' = "returned"
  /\ UNCHANGED << stopped, tracked, closers, task, conn, recovery_conns, target, history >>

-----------------------------------------------------------------------------
(* handle_conn: handshake and attach.                                      *)

\* Attached::Refused: close_now.
Refuse(c) ==
  /\ task' = [task EXCEPT ![c] = "done"]
  /\ conn' = [conn EXCEPT ![c] = "closed"]

\* handshake_step fails, passes the deadline, or ...
HandshakeFails(c) ==
  /\ task[c] \in {"handshake", "attach"}
  /\ Refuse(c)
  /\ UNCHANGED << serving, recovery_conns, target, history >>

\* ... sees the shutdown, which it checks first.
HandshakeStopped(c) ==
  /\ task[c] \in {"handshake", "attach"} /\ stopped
  /\ Refuse(c)
  /\ UNCHANGED << serving, recovery_conns, target, history >>

\* v2 starts the connection, v3 reads the attach request.
HandshakeDone(c, version) ==
  /\ task[c] = "handshake" /\ ~stopped /\ (version = 3 => Recovery)
  /\ task' = [task EXCEPT ![c] = IF version = 3 THEN "attach" ELSE "connect"]
  /\ UNCHANGED << serving, conn, recovery_conns, target, history >>

\* attach_new registers the connection, then answers.
AttachNew(c) ==
  /\ task[c] = "attach" /\ ~stopped
  /\ recovery_conns' = recovery_conns \cup {c}
  /\ task' = [task EXCEPT ![c] = "respond"]
  /\ UNCHANGED << serving, conn, target, history >>

\* Mutant: attach_new leaves the entry of a connection that did not start.
UnregisterNever(c) == recovery_conns

Unregister(c) == recovery_conns \ {c}

RespondNew(c) ==
  /\ task[c] = "respond" /\ target[c] = NoConn
  /\ \/ task' = [task EXCEPT ![c] = "connect"] /\ UNCHANGED << conn, recovery_conns >>
     \/ Refuse(c) /\ recovery_conns' = Unregister(c)
  /\ UNCHANGED << serving, target, history >>

\* The registered connection has its recovery state, which it is given when it
\* starts, and is not closed.
Resumable(d) == d \in recovery_conns /\ conn[d] = "open"

AttachResume(c, d) ==
  /\ task[c] = "attach" /\ ~stopped /\ d # c
  /\ IF Resumable(d)
     THEN /\ task' = [task EXCEPT ![c] = "respond"]
          /\ target' = [target EXCEPT ![c] = d]
          /\ UNCHANGED conn
     ELSE Refuse(c) /\ UNCHANGED target
  /\ UNCHANGED << serving, recovery_conns, history >>

\* The answer, then attach_transport_parts, which does nothing on a connection
\* that has closed since.
RespondResume(c) ==
  /\ task[c] = "respond" /\ target[c] # NoConn
  /\ Refuse(c)
  /\ resumed' \in {resumed, IF conn[target[c]] = "closed" THEN resumed
                            ELSE resumed \cup {target[c]}}
  /\ UNCHANGED << serving, recovery_conns, target, connected, disconnected >>

\* Server::start: on_connect may refuse.
Start(c) ==
  /\ task[c] = "connect"
  /\ \/ /\ task' = [task EXCEPT ![c] = "track"]
        /\ conn' = [conn EXCEPT ![c] = "open"]
        /\ connected' = connected \cup {c}
        /\ UNCHANGED recovery_conns
     \/ /\ Refuse(c)
        /\ recovery_conns' = Unregister(c)
        /\ UNCHANGED connected
  /\ UNCHANGED << serving, target, disconnected, resumed >>

-----------------------------------------------------------------------------
(* handle_conn: the connection is served until it closes.                  *)

\* mark_closed; on_closed removes the connection from the registry.
Closed(c) ==
  /\ conn' = [conn EXCEPT ![c] = "closed"]
  /\ recovery_conns' = IF conn[c] = "closed" THEN recovery_conns ELSE recovery_conns \ {c}

\* Mutant: a connection is served although the shutdown has begun.
AfterTrackServes == "serve"

\* Lifecycle::track returns false once shutdown has begun; the task then closes
\* the connection itself.
AfterTrack == IF stopped THEN "close" ELSE "serve"

TrackedWith(c) == IF stopped THEN tracked ELSE tracked \cup {c}

Track(c) ==
  /\ task[c] = "track"
  /\ tracked' = TrackedWith(c)
  /\ task' = [task EXCEPT ![c] = AfterTrack]
  /\ UNCHANGED << loop, stopped, closers, conn, recovery_conns, target, history >>

TaskCloses(c) ==
  /\ task[c] = "close"
  /\ Closed(c)
  /\ task' = [task EXCEPT ![c] = "serve"]
  /\ UNCHANGED << serving, target, history >>

\* A task spawned by the shutdown.
CloserCloses(c) ==
  /\ c \in closers
  /\ Closed(c)
  /\ closers' = closers \ {c}
  /\ UNCHANGED << loop, stopped, tracked, task, target, history >>

\* The connection closes by itself: its peer, a failure, detached_ttl.
ConnCloses(c) ==
  /\ conn[c] = "open"
  /\ Closed(c)
  /\ UNCHANGED << serving, task, target, history >>

\* wait_closed returns.
Untrack(c) ==
  /\ task[c] = "serve" /\ conn[c] = "closed"
  /\ tracked' = tracked \ {c}
  /\ task' = [task EXCEPT ![c] = "disconnect"]
  /\ UNCHANGED << loop, stopped, closers, conn, recovery_conns, target, history >>

OnDisconnect(c) ==
  /\ task[c] = "disconnect"
  /\ disconnected' = disconnected \cup {c}
  /\ task' = [task EXCEPT ![c] = "done"]
  /\ UNCHANGED << serving, conn, recovery_conns, target, connected, resumed >>

-----------------------------------------------------------------------------
\* What a task does next once the server shuts down; the peer may keep a
\* handshake waiting, and it may keep its connection open.
Goes(c) ==
  \/ HandshakeStopped(c) \/ RespondNew(c) \/ RespondResume(c) \/ Start(c)
  \/ Track(c) \/ TaskCloses(c) \/ Untrack(c) \/ OnDisconnect(c)

Next ==
  \/ Signal \/ Stop \/ Return
  \/ \E c \in Conn :
       \/ Accept(c) \/ HandshakeFails(c) \/ HandshakeDone(c, 2) \/ HandshakeDone(c, 3)
       \/ AttachNew(c) \/ (\E d \in Conn : AttachResume(c, d))
       \/ Goes(c) \/ CloserCloses(c) \/ ConnCloses(c)

Spec == Init /\ [][Next]_vars

\* Nobody but the peers and the signal may wait for ever: close() is bounded by
\* CLOSE_FLUSH_TIMEOUT, and the attach answers fit the socket's buffer.
FairSpec ==
  /\ Spec
  /\ WF_vars(Stop) /\ WF_vars(Return)
  /\ \A c \in Conn : WF_vars(Goes(c)) /\ WF_vars(CloserCloses(c))

-----------------------------------------------------------------------------
(* Properties.                                                             *)

TaskPc == {"none", "handshake", "attach", "respond", "connect", "track", "close", "serve",
           "disconnect", "done"}

\* Types; a connection whose shutdown has begun is not tracked (Lifecycle).
TypeOK ==
  /\ loop \in {"accept", "stop", "join", "returned"}
  /\ stopped \in BOOLEAN
  /\ tracked \subseteq Conn /\ (stopped => tracked = {})
  /\ closers \subseteq Conn
  /\ task \in [Conn -> TaskPc]
  /\ conn \in [Conn -> {"none", "pending", "open", "closed"}]
  /\ recovery_conns \subseteq Conn
  /\ target \in [Conn -> Conn \cup {NoConn}]
  /\ connected \subseteq Conn
  /\ disconnected \subseteq Conn
  /\ resumed \subseteq Conn

\* "It returns once every connection has closed and its on_disconnect callback
\* has run" (serve_with_shutdown), also for a connection that finished its
\* handshake while the shutdown began.
ReturnsAfterAll ==
  loop = "returned" => /\ \A c \in connected : conn[c] = "closed" /\ c \in disconnected
                       /\ recovery_conns = {}

\* The registry holds no connection that has closed or that never started, so a
\* resume finds a live connection or is refused (attach_new, on_closed); and a
\* transport is moved only to a connection that has started, never to one that
\* attach_new has registered and not started yet (attach_resume).
RegistryIsLive ==
  /\ \A c \in recovery_conns : task[c] # "done" /\ conn[c] # "closed"
  /\ resumed \subseteq connected

\* Shutting down ends: no connection is left that nobody closes.
ShutdownEnds == loop = "stop" ~> loop = "returned"
=============================================================================
