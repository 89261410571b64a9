-------------------------- MODULE ConnectionProofs --------------------------
(***************************************************************************)
(* Proofs about connections and what holds and closes them.                *)
(*                                                                         *)
(* ServerLifecycle, for any set of transports: the registry holds live     *)
(* connections only, a shutdown leaves no connection that nobody closes,   *)
(* and serve_with_shutdown returns after all of them.                      *)
(*                                                                         *)
(* ReaderHandover, for any number of frames and transports: at a resume    *)
(* nothing counted is undelivered and no reader meets a gap, whatever the  *)
(* runtime; each frame is delivered once when the runtime has one thread.  *)
(*                                                                         *)
(* PlainConnection, for any senders and queue: a clean close writes what   *)
(* was queued before it, in order, and nothing behind its end.             *)
(*                                                                         *)
(* Ownership, for any tasks: one task of a context at a time; the drop of  *)
(* the last handle closes, and a closed connection lets go of itself.      *)
(***************************************************************************)
EXTENDS ServerLifecycle, ReaderHandover, Ownership, SequenceTheorems, TLAPS

-----------------------------------------------------------------------------
(* The server's lifecycle.                                                 *)

\* Up to on_connect, and while the connection is served.
Opening == {"handshake", "attach", "respond", "connect"}
Served == {"track", "close", "serve"}

\* A connection against the task that serves it.
ConnFollowsTask(c) ==
  /\ task[c] = "none" => conn[c] = "none" /\ c \notin connected
  /\ task[c] \in Opening => conn[c] = "pending" /\ c \notin connected
  /\ task[c] \in Served => conn[c] \in {"open", "closed"} /\ c \in connected
  /\ task[c] = "disconnect" => conn[c] = "closed" /\ c \in connected
  /\ task[c] = "done" => conn[c] = "closed" /\ (c \in connected => c \in disconnected)

\* The registry and the targets of resumes.
Registered(c) ==
  /\ task[c] \in {"none", "handshake", "attach"} => target[c] = NoConn
  /\ target[c] # NoConn => target[c] \in connected
  /\ c \in recovery_conns =>
       /\ task[c] \in {"respond", "connect"} \cup Served
       /\ task[c] = "respond" => target[c] = NoConn
       /\ conn[c] # "closed"

\* Who closes a served connection once the shutdown has begun: it is tracked until
\* then, and then it has closed or a task of the shutdown will close it.
Watched(c) ==
  /\ c \in tracked => task[c] = "serve"
  /\ task[c] = "close" => stopped
  /\ c \in closers => task[c] \in {"serve", "disconnect", "done"}
  /\ task[c] = "serve" => IF stopped THEN conn[c] = "closed" \/ c \in closers
                          ELSE c \in tracked

\* The shutdown goes through its phases, and returns when every task has ended.
Phases ==
  /\ stopped <=> loop \in {"join", "returned"}
  /\ loop = "returned" => \A c \in Conn : task[c] \in {"none", "done"}

Inv ==
  /\ TypeOK
  /\ Phases
  /\ \A c \in Conn : ConnFollowsTask(c) /\ Registered(c) /\ Watched(c)
  /\ resumed \subseteq connected

-----------------------------------------------------------------------------
LEMMA InvInit == Init => Inv
  BY DEF Init, Inv, TypeOK, TaskPc, Phases, ConnFollowsTask, Registered, Watched, Opening, Served

\* The accept loop and the shutdown.
LEMMA ServeStep ==
  ASSUME Inv, Signal \/ Stop \/ Return \/ \E c \in Conn : Accept(c)
  PROVE  Inv'
  <1>1. CASE Signal
    BY <1>1 DEF Signal, Inv, TypeOK, TaskPc, Phases, ConnFollowsTask, Registered, Watched, history
  <1>2. CASE Stop
    BY <1>2 DEF Stop, ToClose, Inv, TypeOK, TaskPc, Phases, ConnFollowsTask, Registered, Watched,
                history
  <1>3. CASE Return
    BY <1>3 DEF Return, AllJoined, Inv, TypeOK, TaskPc, Phases, ConnFollowsTask, Registered,
                Watched, history
  <1>4. ASSUME NEW c \in Conn, Accept(c) PROVE Inv'
    <2>1. /\ \A d \in Conn : d # c => task'[d] = task[d] /\ conn'[d] = conn[d]
          /\ task'[c] = "handshake" /\ conn'[c] = "pending" /\ task[c] = "none"
      BY <1>4 DEF Accept, Inv, TypeOK
    <2>2. TypeOK' /\ Phases'
      BY <1>4 DEF Accept, Inv, TypeOK, TaskPc, Phases, serving, history
    <2>3. QED
      BY <1>4, <2>1, <2>2 DEF Accept, Inv, ConnFollowsTask, Registered, Watched, Opening, Served,
                              serving, history
  <1>5. QED
    BY <1>1, <1>2, <1>3, <1>4

\* Refusing a transport that is not registered.
LEMMA RefuseStep ==
  ASSUME Inv, NEW c \in Conn, task[c] \in Opening, Refuse(c), c \notin recovery_conns',
         recovery_conns' \in {recovery_conns, recovery_conns \ {c}},
         target' = target, resumed' \subseteq connected, resumed' \subseteq Conn,
         UNCHANGED << serving, connected, disconnected >>
  PROVE  Inv'
  <1>1. /\ \A d \in Conn : d # c => task'[d] = task[d] /\ conn'[d] = conn[d]
        /\ task'[c] = "done" /\ conn'[c] = "closed"
    BY DEF Refuse, Inv, TypeOK
  <1>2. TypeOK' /\ Phases'
    <2>1. task' \in [Conn -> TaskPc] /\ conn' \in [Conn -> {"none", "pending", "open", "closed"}]
      BY DEF Refuse, Inv, TypeOK, TaskPc
    <2>2. TypeOK'
      BY <2>1 DEF Inv, TypeOK, serving
    <2>3. Phases'
      BY <1>1 DEF Inv, Phases, serving
    <2>4. QED
      BY <2>2, <2>3
  <1>3. \A d \in Conn : ConnFollowsTask(d)'
    BY <1>1 DEF Inv, ConnFollowsTask, Opening, Served
  <1>4. \A d \in Conn : Registered(d)'
    BY <1>1 DEF Inv, Registered, Opening, Served
  <1>5. \A d \in Conn : Watched(d)'
    BY <1>1 DEF Inv, Watched, Opening, serving
  <1>6. QED
    BY <1>2, <1>3, <1>4, <1>5 DEF Inv

\* Up to on_connect.
LEMMA OpeningStep ==
  ASSUME Inv, NEW c \in Conn,
         \/ HandshakeFails(c) \/ HandshakeStopped(c)
         \/ HandshakeDone(c, 2) \/ HandshakeDone(c, 3)
         \/ AttachNew(c) \/ (\E d \in Conn : AttachResume(c, d))
         \/ RespondNew(c) \/ RespondResume(c) \/ Start(c)
  PROVE  Inv'
  <1>1. CASE HandshakeFails(c) \/ HandshakeStopped(c)
    <2>1. task[c] \in {"handshake", "attach"} /\ c \notin recovery_conns
      BY <1>1 DEF HandshakeFails, HandshakeStopped, Inv, Registered, Served
    <2>2. QED
      BY <1>1, <2>1, RefuseStep DEF HandshakeFails, HandshakeStopped, Inv, TypeOK, history, Opening
  <1>2. CASE HandshakeDone(c, 2) \/ HandshakeDone(c, 3)
    <2>1. PICK pc \in {"attach", "connect"} : task' = [task EXCEPT ![c] = pc]
      BY <1>2 DEF HandshakeDone
    <2>2. /\ task[c] = "handshake" /\ task'[c] = pc
          /\ \A d \in Conn : d # c => task'[d] = task[d]
          /\ UNCHANGED << serving, conn, recovery_conns, target, history >>
      BY <1>2, <2>1 DEF HandshakeDone, Inv, TypeOK
    <2>3. TypeOK' /\ Phases'
      BY <2>1, <2>2 DEF Inv, TypeOK, TaskPc, Phases, serving, history
    <2>4. QED
      BY <2>2, <2>3 DEF Inv, ConnFollowsTask, Registered, Watched, Opening, Served, serving,
                        history
  <1>3. CASE AttachNew(c)
    <2>1. /\ task[c] = "attach" /\ task'[c] = "respond"
          /\ \A d \in Conn : d # c => task'[d] = task[d]
          /\ UNCHANGED << serving, conn, target, history >>
          /\ recovery_conns' = recovery_conns \cup {c}
      BY <1>3 DEF AttachNew, Inv, TypeOK
    <2>2. TypeOK' /\ Phases'
      BY <1>3, <2>1 DEF AttachNew, Inv, TypeOK, TaskPc, Phases, serving, history
    <2>3. QED
      BY <2>1, <2>2 DEF Inv, ConnFollowsTask, Registered, Watched, Opening, Served, serving,
                        history
  <1>4. ASSUME NEW d \in Conn, AttachResume(c, d) PROVE Inv'
    <2>1. task[c] = "attach" /\ UNCHANGED << serving, recovery_conns, history >>
          /\ c \notin recovery_conns
      BY <1>4 DEF AttachResume, Inv, Registered, Served
    <2>2. CASE Resumable(d)
      <3>1. /\ task'[c] = "respond" /\ target'[c] = d /\ UNCHANGED conn
            /\ \A e \in Conn : e # c => task'[e] = task[e] /\ target'[e] = target[e]
        BY <1>4, <2>2 DEF AttachResume, Inv, TypeOK
      <3>2. d \in connected
        BY <2>2 DEF Resumable, Inv, TypeOK, TaskPc, ConnFollowsTask, Opening, Served
      <3>3. TypeOK' /\ Phases'
        BY <1>4, <2>1, <2>2, <3>1
           DEF AttachResume, Inv, TypeOK, TaskPc, Phases, serving, history
      <3>4. QED
        BY <2>1, <3>1, <3>2, <3>3
           DEF Inv, ConnFollowsTask, Registered, Watched, Opening, Served, serving, history
    <2>3. CASE ~Resumable(d)
      BY <1>4, <2>1, <2>3, RefuseStep DEF AttachResume, Inv, TypeOK, history, Opening
    <2>4. QED
      BY <2>2, <2>3
  <1>5. CASE RespondNew(c)
    <2>1. task[c] = "respond" /\ target[c] = NoConn /\ UNCHANGED << serving, target, history >>
      BY <1>5 DEF RespondNew
    <2>2. CASE task' = [task EXCEPT ![c] = "connect"] /\ UNCHANGED << conn, recovery_conns >>
      <3>1. task'[c] = "connect" /\ \A d \in Conn : d # c => task'[d] = task[d]
        BY <2>2 DEF Inv, TypeOK
      <3>2. TypeOK' /\ Phases'
        BY <2>1, <2>2, <3>1 DEF Inv, TypeOK, TaskPc, Phases, serving, history
      <3>3. QED
        BY <2>1, <2>2, <3>1, <3>2
           DEF Inv, ConnFollowsTask, Registered, Watched, Opening, Served, serving, history
    <2>3. CASE Refuse(c) /\ recovery_conns' = Unregister(c)
      BY <2>1, <2>3, RefuseStep DEF Unregister, Inv, TypeOK, history, Opening
    <2>4. QED
      BY <1>5, <2>2, <2>3 DEF RespondNew
  <1>6. CASE RespondResume(c)
    <2>1. /\ task[c] = "respond" /\ target[c] # NoConn
          /\ Refuse(c)
          /\ UNCHANGED << serving, recovery_conns, target, connected, disconnected >>
      BY <1>6 DEF RespondResume
    <2>2. c \notin recovery_conns /\ target[c] \in connected
      BY <2>1 DEF Inv, Registered
    <2>3. resumed' \subseteq connected
      BY <1>6, <2>2 DEF RespondResume, Inv
    <2>4. QED
      BY <2>1, <2>2, <2>3, RefuseStep DEF Inv, TypeOK, Opening
  <1>7. CASE Start(c)
    <2>1. task[c] = "connect" /\ UNCHANGED << serving, target, disconnected, resumed >>
      BY <1>7 DEF Start
    <2>2. CASE /\ task' = [task EXCEPT ![c] = "track"]
               /\ conn' = [conn EXCEPT ![c] = "open"]
               /\ connected' = connected \cup {c}
               /\ UNCHANGED recovery_conns
      <3>1. /\ task'[c] = "track" /\ conn'[c] = "open"
            /\ \A d \in Conn : d # c => task'[d] = task[d] /\ conn'[d] = conn[d]
        BY <2>2 DEF Inv, TypeOK
      <3>2. TypeOK' /\ Phases'
        BY <2>1, <2>2, <3>1 DEF Inv, TypeOK, TaskPc, Phases, serving
      <3>3. QED
        BY <2>1, <2>2, <3>1, <3>2
           DEF Inv, ConnFollowsTask, Registered, Watched, Opening, Served, serving
    <2>3. CASE Refuse(c) /\ recovery_conns' = Unregister(c) /\ UNCHANGED connected
      BY <2>1, <2>3, RefuseStep DEF Unregister, Inv, TypeOK, Opening
    <2>4. QED
      BY <1>7, <2>2, <2>3 DEF Start
  <1>8. QED
    BY <1>1, <1>2, <1>3, <1>4, <1>5, <1>6, <1>7

\* The connection is served until it closes.
LEMMA ServedStep ==
  ASSUME Inv, NEW c \in Conn,
         \/ Track(c) \/ TaskCloses(c) \/ CloserCloses(c) \/ ConnCloses(c)
         \/ Untrack(c) \/ OnDisconnect(c)
  PROVE  Inv'
  <1>1. CASE Track(c)
    <2>1. /\ task[c] = "track" /\ task'[c] = AfterTrack
          /\ tracked' = TrackedWith(c)
          /\ \A d \in Conn : d # c => task'[d] = task[d]
          /\ UNCHANGED << loop, stopped, closers, conn, recovery_conns, target, history >>
      BY <1>1 DEF Track, Inv, TypeOK
    <2>2. TypeOK' /\ Phases'
      BY <1>1, <2>1 DEF Track, AfterTrack, TrackedWith, Inv, TypeOK, TaskPc, Phases, history
    <2>3. QED
      BY <2>1, <2>2 DEF AfterTrack, TrackedWith, Inv, ConnFollowsTask, Registered, Watched,
                        Opening, Served, history, Phases
  <1>2. ASSUME Closed(c) PROVE /\ conn'[c] = "closed" /\ c \notin recovery_conns'
                               /\ \A d \in Conn : d # c => conn'[d] = conn[d]
                               /\ recovery_conns' \in {recovery_conns, recovery_conns \ {c}}
                               /\ conn' \in [Conn -> {"none", "pending", "open", "closed"}]
    BY <1>2 DEF Closed, Inv, TypeOK, Registered
  <1>3. CASE TaskCloses(c)
    <2>1. /\ task[c] = "close" /\ task'[c] = "serve" /\ Closed(c)
          /\ \A d \in Conn : d # c => task'[d] = task[d]
          /\ UNCHANGED << serving, target, history >>
      BY <1>3 DEF TaskCloses, Inv, TypeOK
    <2>2. TypeOK' /\ Phases'
      BY <1>2, <1>3, <2>1 DEF TaskCloses, Inv, TypeOK, TaskPc, Phases, serving, history
    <2>3. QED
      BY <1>2, <2>1, <2>2
         DEF Inv, ConnFollowsTask, Registered, Watched, Opening, Served, serving, history
  <1>4. CASE CloserCloses(c)
    <2>1. /\ c \in closers /\ Closed(c) /\ closers' = closers \ {c}
          /\ UNCHANGED << loop, stopped, tracked, task, target, history >>
          /\ task[c] \in {"serve", "disconnect", "done"}
      BY <1>4 DEF CloserCloses, Inv, Watched
    <2>2. TypeOK' /\ Phases'
      BY <1>2, <2>1 DEF Inv, TypeOK, Phases, history
    <2>3. QED
      BY <1>2, <2>1, <2>2 DEF Inv, ConnFollowsTask, Registered, Watched, Opening, Served, history
  <1>5. CASE ConnCloses(c)
    <2>1. conn[c] = "open" /\ Closed(c) /\ UNCHANGED << serving, task, target, history >>
      BY <1>5 DEF ConnCloses
    <2>2. task[c] \in Served
      BY <2>1 DEF Inv, TypeOK, TaskPc, ConnFollowsTask, Opening, Served
    <2>3. TypeOK' /\ Phases'
      BY <1>2, <2>1 DEF Inv, TypeOK, Phases, serving, history
    <2>4. QED
      BY <1>2, <2>1, <2>2, <2>3
         DEF Inv, ConnFollowsTask, Registered, Watched, Opening, Served, serving, history
  <1>6. CASE Untrack(c)
    <2>1. /\ task[c] = "serve" /\ conn[c] = "closed" /\ task'[c] = "disconnect"
          /\ tracked' = tracked \ {c}
          /\ \A d \in Conn : d # c => task'[d] = task[d]
          /\ UNCHANGED << loop, stopped, closers, conn, recovery_conns, target, history >>
      BY <1>6 DEF Untrack, Inv, TypeOK
    <2>2. TypeOK' /\ Phases'
      BY <1>6, <2>1 DEF Untrack, Inv, TypeOK, TaskPc, Phases, history
    <2>3. QED
      BY <2>1, <2>2 DEF Inv, ConnFollowsTask, Registered, Watched, Opening, Served, history
  <1>7. CASE OnDisconnect(c)
    <2>1. /\ task[c] = "disconnect" /\ task'[c] = "done"
          /\ disconnected' = disconnected \cup {c}
          /\ \A d \in Conn : d # c => task'[d] = task[d]
          /\ UNCHANGED << serving, conn, recovery_conns, target, connected, resumed >>
      BY <1>7 DEF OnDisconnect, Inv, TypeOK
    <2>2. TypeOK' /\ Phases'
      BY <1>7, <2>1 DEF OnDisconnect, Inv, TypeOK, TaskPc, Phases, serving
    <2>3. QED
      BY <2>1, <2>2 DEF Inv, ConnFollowsTask, Registered, Watched, Opening, Served, serving
  <1>8. QED
    BY <1>1, <1>3, <1>4, <1>5, <1>6, <1>7

LEMMA InvStep == Inv /\ [Next]_vars => Inv'
  <1> SUFFICES ASSUME Inv, [Next]_vars PROVE Inv'
    OBVIOUS
  <1>1. CASE UNCHANGED vars
    BY <1>1 DEF vars, serving, history, Inv, TypeOK, Phases, ConnFollowsTask, Registered, Watched
  <1>2. CASE Next
    BY <1>2, ServeStep, OpeningStep, ServedStep DEF Next, Goes
  <1>3. QED
    BY <1>1, <1>2

LEMMA InvAlways == Spec => []Inv
  BY InvInit, InvStep, PTL DEF Spec

-----------------------------------------------------------------------------
\* serve_with_shutdown returns once every connection has closed, its
\* on_disconnect has run and the registry is empty; also for a connection that
\* finished its handshake while the shutdown began.
THEOREM ShutdownReturnsAfterAll == Spec => []ReturnsAfterAll
  <1>1. Inv => ReturnsAfterAll
    <2> SUFFICES ASSUME Inv, loop = "returned"
                 PROVE  /\ \A c \in connected : conn[c] = "closed" /\ c \in disconnected
                        /\ recovery_conns = {}
      BY DEF ReturnsAfterAll
    <2>1. \A c \in Conn : task[c] \in {"none", "done"}
      BY DEF Inv, Phases
    <2>2. connected \subseteq Conn /\ recovery_conns \subseteq Conn
      BY DEF Inv, TypeOK
    <2>3. QED
      BY <2>1, <2>2 DEF Inv, ConnFollowsTask, Registered, Served
  <1>2. QED
    BY <1>1, InvAlways, PTL

\* The registry holds no connection that has closed or never started, and a
\* transport is moved only to a connection that has started (attach_new,
\* attach_resume, on_closed).
THEOREM RegistryAlwaysLive == Spec => []RegistryIsLive
  <1>1. Inv => RegistryIsLive
    BY DEF Inv, TypeOK, Registered, Served, RegistryIsLive
  <1>2. QED
    BY <1>1, InvAlways, PTL

\* Once the shutdown has begun, a connection that its task waits for has closed or
\* a task of the shutdown is about to close it: none is left to its peer.
NoneLeftOpen ==
  stopped => \A c \in Conn : task[c] = "serve" => conn[c] = "closed" \/ c \in closers

\* Lifecycle::track and Lifecycle::stop between them miss no connection: the one
\* that is tracked too late is closed by its own task.
THEOREM ShutdownClosesAll == Spec => []NoneLeftOpen
  <1>1. Inv => NoneLeftOpen
    BY DEF Inv, Watched, NoneLeftOpen
  <1>2. QED
    BY <1>1, InvAlways, PTL

-----------------------------------------------------------------------------
(* The hand-over between reader tasks.                                     *)

\* What was reported to the peer has been counted, and a generation is left.
ReportedCounted == reported.open => transport_gen < MaxGen /\ reported.seq <= last_recv_seq

\* How far the reader of generation g is: its copy of last_recv_seq is never
\* ahead, and the next frame on its transport is never beyond the one it wants.
Follows(g) ==
  /\ reader[g].last <= last_recv_seq
  /\ reader[g].pc = "start" => next[g] <= last_recv_seq + 1
  /\ reader[g].pc = "read" => next[g] <= reader[g].last + 1
  /\ reader[g].pc \in {"accept", "note"} => next[g] = reader[g].last + 1 /\ next[g] <= Frames
  /\ reader[g].pc = "note" => \E i \in 1 .. Len(delivered) : delivered[i] = next[g]
  /\ reader[g].pc # "gap"

Counting ==
  /\ HandoverTypeOK
  /\ ReportedCounted
  /\ \A g \in Gen : Follows(g)
  /\ CountedIsDelivered

LEMMA ReaderTypes == NoReader \in ReaderSet /\ NewReader \in ReaderSet
<1>1. NoReader \in ReaderSet
  BY HandoverAssumption DEF NoReader, ReaderSet
<1>2. NewReader \in ReaderSet
  BY <1>1 DEF NewReader, ReaderSet
<1> QED
  BY <1>1, <1>2

LEMMA InitCounts == HandoverInit => Counting
<1> SUFFICES ASSUME HandoverInit PROVE Counting
  OBVIOUS
<1> USE HandoverAssumption DEF HandoverInit
<1>1. HandoverTypeOK
  <2>1. reader \in [Gen -> ReaderSet]
    BY ReaderTypes
  <2>2. next \in [Gen -> 1 .. Frames + 1] /\ transport_gen \in Gen /\ delivered \in Seq(1 .. Frames)
    BY DEF Gen
  <2>3. reported \in [open : BOOLEAN, seq : 0 .. Frames]
    BY DEF NotReported
  <2> QED
    BY <2>1, <2>2, <2>3 DEF HandoverTypeOK
<1>2. ReportedCounted
  BY DEF ReportedCounted, NotReported
<1>3. \A g \in Gen : Follows(g)
  BY DEF Follows, Gen, NoReader, NewReader
<1>4. CountedIsDelivered
  BY DEF CountedIsDelivered
<1> QED
  BY <1>1, <1>2, <1>3, <1>4 DEF Counting

\* Every step of a reader keeps the other readers and the count in place.
LEMMA NextCounts == Counting /\ [HandoverNext]_handoverVars => Counting'
<1> SUFFICES ASSUME Counting, [HandoverNext]_handoverVars PROVE Counting'
  OBVIOUS
<1> USE HandoverAssumption
<1>0. /\ HandoverTypeOK /\ ReportedCounted /\ CountedIsDelivered /\ \A g \in Gen : Follows(g)
      /\ last_recv_seq \in Nat /\ transport_gen \in Nat /\ MaxGen \in Nat /\ Frames \in Nat
      /\ \A g \in Gen : reader[g].last \in Nat /\ next[g] \in Nat
  <2>1. HandoverTypeOK
    BY DEF Counting
  <2>2. \A g \in Gen : reader[g].last \in Nat /\ next[g] \in Nat
    BY <2>1 DEF HandoverTypeOK, ReaderSet
  <2> QED
    BY <2>1, <2>2 DEF Counting, HandoverTypeOK, Gen
<1>1. CASE Report
  <2>1. HandoverTypeOK'
    BY <1>0, <1>1 DEF Report, HandoverTypeOK
  <2>2. ReportedCounted'
    BY <1>0, <1>1 DEF Report, ReportedCounted
  <2>3. (\A g \in Gen : Follows(g))'
    BY <1>0, <1>1 DEF Report, Follows
  <2>4. CountedIsDelivered'
    BY <1>0, <1>1 DEF Report, CountedIsDelivered
  <2> QED
    BY <2>1, <2>2, <2>3, <2>4 DEF Counting
<1>2. CASE Attach
  <2> DEFINE g1 == transport_gen + 1
  <2>0. /\ reported.open /\ reported.seq <= last_recv_seq /\ reported.seq \in 0 .. Frames
        /\ g1 \in Gen /\ transport_gen \in Gen /\ g1 # transport_gen
    BY <1>0, <1>2 DEF Attach, ReportedCounted, HandoverTypeOK, Gen
  <2>a. PICK running \in BOOLEAN :
          reader' = [reader EXCEPT
            ![transport_gen] = IF running THEN [@ EXCEPT !.aborted = TRUE] ELSE NoReader,
            ![g1] = NewReader]
    BY <1>2 DEF Attach
  <2>b. /\ reader'[g1] = NewReader
        /\ \A g \in Gen \ {g1} :
             \/ reader'[g] = NoReader
             \/ reader'[g] = [reader[g] EXCEPT !.aborted = TRUE]
             \/ reader'[g] = reader[g]
    BY <2>0, <2>a DEF HandoverTypeOK, Counting
  <2>c. reader' \in [Gen -> ReaderSet]
    <3>1. reader \in [Gen -> ReaderSet]
      BY <1>0 DEF HandoverTypeOK
    <3>2. [reader[transport_gen] EXCEPT !.aborted = TRUE] \in ReaderSet
      BY <3>1, <2>0 DEF ReaderSet
    <3> QED
      BY <3>1, <3>2, <2>0, <2>a, ReaderTypes
  <2>d. /\ next' \in [Gen -> 1 .. Frames + 1]
        /\ next'[g1] = reported.seq + 1 /\ \A g \in Gen \ {g1} : next'[g] = next[g]
    BY <1>0, <1>2, <2>0 DEF Attach, HandoverTypeOK
  <2>1. HandoverTypeOK'
    <3>1. reported' \in [open : BOOLEAN, seq : 0 .. Frames]
      BY <1>2 DEF Attach, NotReported
    <3> QED
      BY <1>0, <1>2, <2>0, <2>c, <2>d, <3>1 DEF Attach, HandoverTypeOK
  <2>2. ReportedCounted'
    BY <1>2 DEF Attach, ReportedCounted, NotReported
  <2>3. (\A g \in Gen : Follows(g))'
    <3>1. SUFFICES ASSUME NEW g \in Gen PROVE Follows(g)'
      OBVIOUS
    <3>2. last_recv_seq' = last_recv_seq /\ delivered' = delivered
      BY <1>2 DEF Attach
    <3>3. CASE g = g1
      <4>1. reader'[g].pc = "start" /\ reader'[g].last = 0 /\ next'[g] = reported.seq + 1
        BY <3>3, <2>b, <2>d DEF NewReader, NoReader
      <4> QED
        BY <4>1, <3>2, <2>0, <1>0 DEF Follows
    <3>4. CASE g # g1 /\ reader'[g] = NoReader
      <4>1. reader'[g].pc = "none" /\ reader'[g].last = 0
        BY <3>4 DEF NoReader
      <4> QED
        BY <4>1, <3>2, <1>0 DEF Follows
    <3>5. CASE g # g1 /\ reader'[g] # NoReader
      <4>1. reader'[g].pc = reader[g].pc /\ reader'[g].last = reader[g].last /\ next'[g] = next[g]
        BY ZenonT(60), <3>5, <2>b, <2>d, <1>0 DEF HandoverTypeOK, ReaderSet
      <4>2. Follows(g)
        BY <1>0
      <4> QED
        BY <4>1, <4>2, <3>2 DEF Follows
    <3> QED
      BY <3>3, <3>4, <3>5
  <2>4. CountedIsDelivered'
    BY <1>0, <1>2 DEF Attach, CountedIsDelivered
  <2> QED
    BY <2>1, <2>2, <2>3, <2>4 DEF Counting
<1>3. ASSUME NEW h \in Gen, ReaderStart(h) PROVE Counting'
  <2>1. HandoverTypeOK'
    BY ZenonT(60), <1>0, <1>3 DEF ReaderStart, HandoverTypeOK, ReaderSet
  <2>2. ReportedCounted'
    BY <1>0, <1>3 DEF ReaderStart, ReportedCounted
  <2>3. (\A g \in Gen : Follows(g))'
    <3>1. SUFFICES ASSUME NEW g \in Gen PROVE Follows(g)'
      OBVIOUS
    <3>2. Follows(g) /\ Follows(h)
      BY <1>0
    <3> QED
      BY <1>0, <1>3, <3>2 DEF ReaderStart, Follows, HandoverTypeOK, ReaderSet
  <2>4. CountedIsDelivered'
    BY <1>0, <1>3 DEF ReaderStart, CountedIsDelivered
  <2> QED
    BY <2>1, <2>2, <2>3, <2>4 DEF Counting
<1>4. ASSUME NEW h \in Gen, ReaderRead(h) PROVE Counting'
  <2>0. Follows(h) /\ reader[h].pc = "read" /\ next[h] <= Frames
    BY <1>0, <1>4 DEF ReaderRead
  <2>a. reader[h].last \in Nat /\ next[h] \in Nat /\ next[h] <= reader[h].last + 1
    BY <1>0, <2>0 DEF Follows
  <2>b. \/ /\ next' = [next EXCEPT ![h] = @ + 1] /\ next[h] <= reader[h].last
           /\ reader' = reader
        \/ /\ reader' = [reader EXCEPT ![h].pc = "accept"] /\ next' = next
           /\ next[h] = reader[h].last + 1
    BY <1>4, <2>a DEF ReaderRead
  <2>c. /\ last_recv_seq' = last_recv_seq /\ transport_gen' = transport_gen
        /\ reported' = reported /\ delivered' = delivered
    BY <1>4 DEF ReaderRead
  <2>1. HandoverTypeOK'
    <3>1. reader' \in [Gen -> ReaderSet]
      <4>1. reader \in [Gen -> ReaderSet]
        BY <1>0 DEF HandoverTypeOK
      <4>2. [reader[h] EXCEPT !.pc = "accept"] \in ReaderSet
        BY <4>1 DEF ReaderSet
      <4> QED
        BY <2>b, <4>1, <4>2
    <3>2. next' \in [Gen -> 1 .. Frames + 1]
      BY SMTT(40), <1>0, <2>0, <2>b DEF HandoverTypeOK
    <3> QED
      BY <1>0, <2>c, <3>1, <3>2 DEF HandoverTypeOK
  <2>2. ReportedCounted'
    BY <1>0, <1>4 DEF ReaderRead, ReportedCounted
  <2>3. (\A g \in Gen : Follows(g))'
    <3>1. SUFFICES ASSUME NEW g \in Gen PROVE Follows(g)'
      OBVIOUS
    <3>2. Follows(g)
      BY <1>0
    <3>3. CASE g # h
      <4>1. reader'[g] = reader[g] /\ next'[g] = next[g]
        BY <1>0, <2>b, <3>3 DEF HandoverTypeOK
      <4> QED
        BY <2>c, <3>2, <4>1 DEF Follows
    <3>4. CASE g = h /\ next[h] <= reader[h].last
      <4>1. next'[h] = next[h] + 1 /\ reader' = reader
        BY <1>0, <2>a, <2>b, <3>4 DEF HandoverTypeOK
      <4> QED
        BY <1>0, <2>0, <2>a, <2>c, <3>4, <4>1 DEF Follows
    <3>5. CASE g = h /\ ~(next[h] <= reader[h].last)
      <4>1. /\ reader'[h].pc = "accept" /\ reader'[h].last = reader[h].last
            /\ next'[h] = next[h] /\ next[h] = reader[h].last + 1
        BY <1>0, <2>b, <3>5 DEF HandoverTypeOK, ReaderSet
      <4> QED
        BY <1>0, <2>0, <2>c, <3>5, <4>1 DEF Follows
    <3> QED
      BY <3>3, <3>4, <3>5
  <2>4. CountedIsDelivered'
    BY <1>0, <1>4 DEF ReaderRead, CountedIsDelivered
  <2> QED
    BY <2>1, <2>2, <2>3, <2>4 DEF Counting
<1>5. ASSUME NEW h \in Gen, ReaderAccept(h) PROVE Counting'
  <2>0. /\ Follows(h) /\ reader[h].pc = "accept" /\ next[h] \in 1 .. Frames
        /\ delivered \in Seq(1 .. Frames) /\ delivered' = Append(delivered, next[h])
    BY <1>0, <1>5 DEF ReaderAccept, Follows, HandoverTypeOK
  <2>a. /\ delivered' \in Seq(1 .. Frames) /\ Len(delivered') = Len(delivered) + 1
        /\ delivered'[Len(delivered) + 1] = next[h] /\ Len(delivered) \in Nat
        /\ \A i \in 1 .. Len(delivered) : delivered'[i] = delivered[i]
    BY <2>0
  <2>b. \A seq : (\E i \in 1 .. Len(delivered) : delivered[i] = seq) =>
                 (\E i \in 1 .. Len(delivered') : delivered'[i] = seq)
    BY <2>a
  <2>c. \E i \in 1 .. Len(delivered') : delivered'[i] = next[h]
    BY <2>a
  <2>1. HandoverTypeOK'
    BY ZenonT(60), <1>0, <1>5, <2>a DEF ReaderAccept, HandoverTypeOK, ReaderSet
  <2>2. ReportedCounted'
    BY <1>0, <1>5 DEF ReaderAccept, ReportedCounted
  <2>3. (\A g \in Gen : Follows(g))'
    <3>1. SUFFICES ASSUME NEW g \in Gen PROVE Follows(g)'
      OBVIOUS
    <3>2. Follows(g)
      BY <1>0
    <3>3. /\ last_recv_seq' = last_recv_seq /\ next' = next
          /\ reader'[g].last = reader[g].last
          /\ IF g = h THEN reader'[g].pc = "note" ELSE reader'[g].pc = reader[g].pc
      BY <1>0, <1>5 DEF ReaderAccept, HandoverTypeOK, ReaderSet
    <3> QED
      BY <2>0, <2>b, <2>c, <3>2, <3>3 DEF Follows
  <2>4. CountedIsDelivered'
    <3>1. last_recv_seq' = last_recv_seq
      BY <1>5 DEF ReaderAccept
    <3> QED
      BY <1>0, <3>1, <2>b DEF CountedIsDelivered
  <2> QED
    BY <2>1, <2>2, <2>3, <2>4 DEF Counting
<1>6. ASSUME NEW h \in Gen, ReaderNote(h) PROVE Counting'
  <2>0. /\ Follows(h) /\ reader[h].pc = "note" /\ next[h] \in 1 .. Frames
        /\ next[h] = reader[h].last + 1 /\ reader[h].last <= last_recv_seq
        /\ delivered' = delivered
        /\ \E i \in 1 .. Len(delivered) : delivered[i] = next[h]
    BY <1>0, <1>6 DEF ReaderNote, Follows, HandoverTypeOK
  <2>a. /\ last_recv_seq' \in {last_recv_seq, next[h]} /\ last_recv_seq' >= last_recv_seq
        /\ last_recv_seq' >= next[h] /\ last_recv_seq' <= last_recv_seq + 1
        /\ last_recv_seq' # last_recv_seq => last_recv_seq' = next[h]
    BY SMTT(40), <1>0, <1>6, <2>0 DEF ReaderNote
  <2>1. HandoverTypeOK'
    BY SMTT(40), <1>0, <1>6, <2>0, <2>a DEF ReaderNote, HandoverTypeOK, ReaderSet
  <2>2. ReportedCounted'
    BY <1>0, <1>6, <2>0, <2>a DEF ReaderNote, ReportedCounted, HandoverTypeOK
  <2>3. (\A g \in Gen : Follows(g))'
    <3>1. SUFFICES ASSUME NEW g \in Gen PROVE Follows(g)'
      OBVIOUS
    <3>2. Follows(g)
      BY <1>0
    <3>3. CASE g = h
      <4>1. reader'[g].pc = "read" /\ reader'[g].last = next[h] /\ next'[g] = next[h] + 1
        BY <1>0, <1>6, <3>3 DEF ReaderNote, HandoverTypeOK, ReaderSet
      <4> QED
        BY <4>1, <2>0, <2>a DEF Follows
    <3>4. CASE g # h
      <4>1. reader'[g] = reader[g] /\ next'[g] = next[g]
        BY <1>0, <1>6, <3>4 DEF ReaderNote, HandoverTypeOK, ReaderSet
      <4>2. last_recv_seq' \in Nat
        BY <1>0, <2>0, <2>a
      <4> QED
        BY SMTT(40), <1>0, <4>1, <4>2, <2>0, <2>a, <3>2 DEF Follows
    <3> QED
      BY <3>3, <3>4
  <2>4. CountedIsDelivered'
    BY <1>0, <2>0, <2>a DEF CountedIsDelivered
  <2> QED
    BY <2>1, <2>2, <2>3, <2>4 DEF Counting
<1>7. ASSUME NEW h \in Gen, ReaderStop(h) PROVE Counting'
  <2>0. reader' = [reader EXCEPT ![h] = NoReader]
    BY <1>7 DEF ReaderStop
  <2>1. HandoverTypeOK'
    BY <1>0, <1>7 DEF ReaderStop, HandoverTypeOK, NoReader, ReaderSet
  <2>2. ReportedCounted'
    BY <1>0, <1>7 DEF ReaderStop, ReportedCounted
  <2>3. (\A g \in Gen : Follows(g))'
    <3>1. SUFFICES ASSUME NEW g \in Gen PROVE Follows(g)'
      OBVIOUS
    <3>2. Follows(g)
      BY <1>0
    <3> QED
      BY <1>0, <1>7, <3>2 DEF ReaderStop, Follows, HandoverTypeOK, NoReader
  <2>4. CountedIsDelivered'
    BY <1>0, <1>7 DEF ReaderStop, CountedIsDelivered
  <2> QED
    BY <2>1, <2>2, <2>3, <2>4 DEF Counting
<1>8. CASE UNCHANGED handoverVars
  BY <1>0, <1>8 DEF handoverVars, Counting, HandoverTypeOK, ReportedCounted, Follows, CountedIsDelivered
<1> QED
  BY <1>1, <1>2, <1>3, <1>4, <1>5, <1>6, <1>7, <1>8 DEF HandoverNext, ReaderStep

\* Whatever the runtime, a hand-over loses nothing: every frame that
\* last_recv_seq counts was delivered, and no reader meets a sequence gap.
THEOREM HandoverLosesNothing == HandoverSpec => [](HandoverTypeOK /\ CountedIsDelivered /\ NoGap)
<1>1. Counting => HandoverTypeOK /\ CountedIsDelivered /\ NoGap
  BY DEF Counting, Follows, NoGap
<1> QED
  BY <1>1, InitCounts, NextCounts, PTL DEF HandoverSpec

-----------------------------------------------------------------------------
(* One thread.                                                             *)

\* The reader of the current generation is the only one, its copy of
\* last_recv_seq is exact, and delivered is one frame ahead of it only between
\* accept_frame and note_received.
Noting == \E g \in Gen : reader[g].pc = "note"

Alone ==
  /\ \A g \in Gen : reader[g].pc # "none" => g = transport_gen
  /\ \A g \in Gen : reader[g].pc \in {"read", "accept", "note"} => reader[g].last = last_recv_seq
  /\ Len(delivered) = IF Noting THEN last_recv_seq + 1 ELSE last_recv_seq
  /\ DeliveredOnce

LEMMA InitAlone == HandoverInit => Alone
<1> SUFFICES ASSUME HandoverInit PROVE Alone
  OBVIOUS
<1>1. \A g \in Gen : reader[g].pc = IF g = 1 THEN "start" ELSE "none"
  BY DEF HandoverInit, NoReader, NewReader
<1>2. transport_gen = 1 /\ last_recv_seq = 0 /\ delivered = << >> /\ Len(delivered) = 0
  BY DEF HandoverInit
<1> QED
  BY <1>1, <1>2 DEF Alone, Noting, DeliveredOnce

LEMMA NextAlone ==
  ASSUME ~MultiThread, Counting, Alone, [HandoverNext]_handoverVars
  PROVE  Alone'
<1> USE HandoverAssumption
<1>0. /\ HandoverTypeOK /\ \A g \in Gen : Follows(g)
      /\ last_recv_seq \in Nat /\ transport_gen \in Nat /\ delivered \in Seq(1 .. Frames)
      /\ Len(delivered) \in Nat /\ reader \in [Gen -> ReaderSet] /\ next \in [Gen -> 1 .. Frames + 1]
      /\ \A g \in Gen : reader[g].last \in Nat /\ next[g] \in Nat
  <2>1. HandoverTypeOK
    BY DEF Counting
  <2>2. \A g \in Gen : reader[g].last \in Nat /\ next[g] \in Nat
    BY <2>1 DEF HandoverTypeOK, ReaderSet
  <2> QED
    BY <2>1, <2>2 DEF Counting, HandoverTypeOK, Gen
<1>1. CASE Report
  BY <1>1 DEF Report, Alone, Noting, DeliveredOnce
<1>2. CASE Attach
  <2> DEFINE g1 == transport_gen + 1
  <2>1. ~Noting
    BY <1>2 DEF Attach, OthersRun, Noting
  <2>2. reader' = [reader EXCEPT ![transport_gen] = NoReader, ![g1] = NewReader]
    BY <1>2 DEF Attach
  <2>3. /\ transport_gen' = g1 /\ last_recv_seq' = last_recv_seq /\ delivered' = delivered
        /\ transport_gen \in Gen
    BY <1>0, <1>2 DEF Attach, HandoverTypeOK
  <2>4. \A g \in Gen : reader'[g].pc = IF g = g1 THEN "start" ELSE "none"
    <3>1. SUFFICES ASSUME NEW g \in Gen
                   PROVE  reader'[g].pc = IF g = g1 THEN "start" ELSE "none"
      OBVIOUS
    <3>2. NoReader.pc = "none" /\ NewReader.pc = "start"
      BY DEF NoReader, NewReader
    <3>3. g # transport_gen => reader[g].pc = "none"
      BY DEF Alone
    <3> QED
      BY <1>0, <2>2, <2>3, <3>2, <3>3
  <2>5. ~Noting'
    BY <2>4 DEF Noting
  <2> QED
    BY <2>1, <2>3, <2>4, <2>5 DEF Alone, DeliveredOnce
<1>3. ASSUME NEW h \in Gen, ReaderStart(h) PROVE Alone'
  <2>1. /\ last_recv_seq' = last_recv_seq /\ delivered' = delivered
        /\ transport_gen' = transport_gen /\ reader[h].pc = "start"
    BY <1>3 DEF ReaderStart
  <2>2. \A g \in Gen : /\ reader'[g].pc = IF g = h THEN "read" ELSE reader[g].pc
                       /\ reader'[g].last = IF g = h THEN last_recv_seq ELSE reader[g].last
    BY <1>0, <1>3 DEF ReaderStart, ReaderSet
  <2>3. Noting' <=> Noting
    BY <2>1, <2>2 DEF Noting
  <2> QED
    BY <2>1, <2>2, <2>3 DEF Alone, DeliveredOnce
<1>4. ASSUME NEW h \in Gen, ReaderRead(h) PROVE Alone'
  <2>1. /\ last_recv_seq' = last_recv_seq /\ delivered' = delivered
        /\ transport_gen' = transport_gen /\ reader[h].pc = "read"
    BY <1>4 DEF ReaderRead
  <2>2. \A g \in Gen : /\ IF g = h THEN reader'[g].pc \in {"read", "accept", "gap"}
                                     ELSE reader'[g].pc = reader[g].pc
                       /\ reader'[g].last = reader[g].last
    BY <1>0, <1>4 DEF ReaderRead, ReaderSet
  <2>3. Noting' <=> Noting
    BY <2>1, <2>2 DEF Noting
  <2>4. \A g \in Gen : reader[g].pc # "none" => g = transport_gen
    BY DEF Alone
  <2>5. \A g \in Gen : reader[g].pc \in {"read", "accept", "note"} => reader[g].last = last_recv_seq
    BY DEF Alone
  <2>6. /\ (\A g \in Gen : reader[g].pc # "none" => g = transport_gen)'
        /\ (\A g \in Gen : reader[g].pc \in {"read", "accept", "note"} =>
                           reader[g].last = last_recv_seq)'
    BY <2>1, <2>2, <2>4, <2>5
  <2> QED
    BY <2>1, <2>3, <2>6 DEF Alone, DeliveredOnce
<1>5. ASSUME NEW h \in Gen, ReaderAccept(h) PROVE Alone'
  <2>1. /\ last_recv_seq' = last_recv_seq /\ delivered' = Append(delivered, next[h])
        /\ transport_gen' = transport_gen /\ reader[h].pc = "accept"
    BY <1>5 DEF ReaderAccept
  <2>2. \A g \in Gen : /\ reader'[g].pc = IF g = h THEN "note" ELSE reader[g].pc
                       /\ reader'[g].last = reader[g].last
    BY <1>0, <1>5 DEF ReaderAccept, ReaderSet
  <2>3. h = transport_gen /\ ~Noting
    BY <2>1 DEF Alone, Noting
  <2>4. Noting'
    BY <2>2 DEF Noting
  <2>5. next[h] = last_recv_seq + 1 /\ Len(delivered) = last_recv_seq
    BY <1>0, <2>1, <2>3 DEF Follows, Alone
  <2>6. Len(delivered') = last_recv_seq + 1 /\ \A i \in 1 .. Len(delivered') : delivered'[i] = i
    BY <1>0, <2>1, <2>5 DEF Alone, DeliveredOnce
  <2> QED
    BY <2>1, <2>2, <2>4, <2>6 DEF Alone, DeliveredOnce
<1>6. ASSUME NEW h \in Gen, ReaderNote(h) PROVE Alone'
  <2>1. /\ delivered' = delivered /\ transport_gen' = transport_gen /\ reader[h].pc = "note"
    BY <1>6 DEF ReaderNote
  <2>2. \A g \in Gen : /\ reader'[g].pc = IF g = h THEN "read" ELSE reader[g].pc
                       /\ reader'[g].last = IF g = h THEN next[h] ELSE reader[g].last
    BY <1>0, <1>6 DEF ReaderNote, ReaderSet
  <2>3. Noting /\ h = transport_gen /\ \A g \in Gen \ {h} : reader[g].pc = "none"
    BY <2>1 DEF Alone, Noting
  <2>4. next[h] = last_recv_seq + 1 /\ Len(delivered) = last_recv_seq + 1
    BY <1>0, <2>1, <2>3 DEF Follows, Alone
  <2>5. last_recv_seq' = next[h]
    BY <1>0, <1>6, <2>4 DEF ReaderNote
  <2>6. ~Noting'
    BY <2>2, <2>3 DEF Noting
  <2> QED
    BY <2>1, <2>2, <2>3, <2>4, <2>5, <2>6 DEF Alone, DeliveredOnce
<1>7. ASSUME NEW h \in Gen, ReaderStop(h) PROVE Alone'
  <2>1. /\ last_recv_seq' = last_recv_seq /\ delivered' = delivered
        /\ transport_gen' = transport_gen /\ reader[h].pc # "note"
    BY <1>7 DEF ReaderStop
  <2>2. \A g \in Gen : IF g = h THEN reader'[g].pc = "none" ELSE reader'[g] = reader[g]
    BY <1>0, <1>7 DEF ReaderStop, NoReader
  <2>3. Noting' <=> Noting
    BY <2>1, <2>2 DEF Noting
  <2> QED
    BY <2>1, <2>2, <2>3 DEF Alone, DeliveredOnce
<1>8. CASE UNCHANGED handoverVars
  BY <1>8 DEF handoverVars, Alone, Noting, DeliveredOnce
<1> QED
  BY <1>1, <1>2, <1>3, <1>4, <1>5, <1>6, <1>7, <1>8 DEF HandoverNext, ReaderStep

\* On one thread a replay after any number of hand-overs delivers each frame
\* once and in order; with several threads TLC finds a duplicate.
THEOREM HandoverDeliversOnce ==
  ASSUME ~MultiThread
  PROVE  HandoverSpec => []DeliveredOnce
<1>1. HandoverInit => Counting /\ Alone
  BY InitCounts, InitAlone
<1>2. Counting /\ Alone /\ [HandoverNext]_handoverVars => (Counting /\ Alone)'
  BY NextCounts, NextAlone
<1>3. Alone => DeliveredOnce
  BY DEF Alone
<1> QED
  BY <1>1, <1>2, <1>3, PTL DEF HandoverSpec

-----------------------------------------------------------------------------
(* A plain connection.                                                     *)

\* The frames on their way, in the order in which the peer would read them.
InHand == IF writer.pc = "write" THEN << writer.frame >> ELSE << >>
Line == wire \o buffered \o InHand \o outbound

\* On a line q of frames, marker and end, where task t has sent s[t].sent frames: they
\* are numbered from 1, in order and once, and none is beyond what was sent.
Numbered(q, s) ==
  \A t \in Sender, n \in 1 .. MaxSends, i \in 1 .. Len(q) :
    q[i] = << t, n >> =>
      /\ n <= s[t].sent
      /\ \A m \in 1 .. n - 1 : \E j \in 1 .. i - 1 : q[j] = << t, m >>
      /\ \A j \in 1 .. i - 1 : q[j] # q[i]

\* One marker or end at most, behind the first b[t] frames of every t.
Stops == {Marker, End}
Bounded(q, b) ==
  \A i \in 1 .. Len(q) :
    q[i] \in Stops =>
      /\ \A t \in Sender : \A n \in 1 .. b[t] : \E j \in 1 .. i - 1 : q[j] = << t, n >>
      /\ \A j \in 1 .. Len(q) : q[j] \in Stops => i = j

NoStop(q) == \A i \in 1 .. Len(q) : q[i] \notin Stops

\* Whatever was sent is on the line.
OnLine(q, s) ==
  \A t \in Sender : \A n \in 1 .. s[t].sent : \E i \in 1 .. Len(q) : q[i] = << t, n >>

EndIsLast == \A i \in 1 .. Len(wire) : wire[i] = End => i = Len(wire) /\ writer.pc = "ended"

LineInv ==
  /\ Numbered(Line, sender) /\ Bounded(Line, before) /\ EndIsLast
  /\ ~closing \/ closer \in {"none", "marker"} => NoStop(Line)
  /\ writer.pc = "ended" => outbound = << >> /\ buffered = << >>
  /\ writer.pc = "write" => writer.frame # None
  /\ writer.pc # "ended" => OnLine(Line, sender)
  /\ closed => writer.pc = "ended"
  /\ closer # "none" => closing
  /\ \A t \in Sender : before[t] <= sender[t].sent
  /\ \A t \in Sender : sender[t].pc = "queue" => sender[t].sent < MaxSends

PlainInv == PlainTypeOK /\ LineInv

-----------------------------------------------------------------------------
Item == Frame \cup Stops

LEMMA LineType ==
  ASSUME PlainInv
  PROVE  /\ Line \in Seq(Item) /\ wire \in Seq(Item) /\ buffered \in Seq(Item)
         /\ outbound \in Seq(Item) /\ InHand \in Seq(Item)
         /\ wire \o buffered \in Seq(Item) /\ wire \o buffered \o InHand \in Seq(Item)
  <1>1. /\ wire \in Seq(Item) /\ buffered \in Seq(Item) /\ outbound \in Seq(Item)
    BY SeqMonotonic, Zenon DEF PlainInv, LineInv, PlainTypeOK, Item, Stops
  <1>2. InHand \in Seq(Item)
    <2>1. writer.pc = "write" => writer.frame \in Item
      BY DEF PlainInv, LineInv, PlainTypeOK, Item, Stops
    <2>2. QED
      BY <2>1 DEF InHand
  <1>3. QED
    BY <1>1, <1>2, ConcatProperties DEF Line

\* What is written is the front of the line.
LEMMA WireIsFront ==
  ASSUME PlainInv
  PROVE  /\ Len(wire) \in 0 .. Len(Line) /\ Len(Line) \in Nat
         /\ \A i \in 1 .. Len(wire) : wire[i] = Line[i]
         /\ Len(wire \o buffered) \in 0 .. Len(Line)
         /\ \A i \in 1 .. Len(wire \o buffered) : (wire \o buffered)[i] = Line[i]
  <1> DEFINE w == wire \o buffered
             h == w \o InHand
  <1>1. /\ Len(wire) \in Nat /\ Len(buffered) \in Nat /\ Len(InHand) \in Nat /\ Len(outbound) \in Nat
        /\ Len(w) = Len(wire) + Len(buffered)
        /\ Len(h) = Len(w) + Len(InHand) /\ Len(h) \in Nat
        /\ Len(Line) = Len(h) + Len(outbound)
    BY LineType, ConcatProperties, LenProperties DEF Line
  <1>2. /\ \A i \in 1 .. Len(wire) : w[i] = wire[i]
        /\ \A i \in 1 .. Len(w) : h[i] = w[i]
        /\ \A i \in 1 .. Len(h) : Line[i] = h[i]
    <2>1. \A i \in 1 .. Len(wire) : (wire \o buffered)[i] = wire[i]
      BY LineType, ConcatProperties
    <2>2. \A i \in 1 .. Len(w) : (w \o InHand)[i] = w[i]
      BY LineType, ConcatProperties
    <2>3. \A i \in 1 .. Len(h) : (h \o outbound)[i] = h[i]
      BY LineType, ConcatProperties
    <2>4. QED
      BY <2>1, <2>2, <2>3 DEF Line
  <1> HIDE DEF w, h
  <1>3. QED
    <2>1. Len(wire) \in 0 .. Len(w) /\ Len(w) \in 0 .. Len(h) /\ Len(h) \in 0 .. Len(Line)
      BY <1>1
    <2>2. \A i \in 1 .. Len(w) : i \in 1 .. Len(h) /\ w[i] = Line[i]
      BY <1>2, <2>1
    <2>3. \A i \in 1 .. Len(wire) : wire[i] = Line[i]
      BY <1>2, <2>1, <2>2
    <2>4. QED
      BY <1>1, <2>1, <2>2, <2>3 DEF w

\* A line that is cut.
LEMMA CutLine ==
  ASSUME NEW r, Len(r) \in Nat, NEW q, Len(q) \in 0 .. Len(r), \A i \in 1 .. Len(q) : q[i] = r[i],
         NEW s, NEW b
  PROVE  /\ Numbered(r, s) => Numbered(q, s)
         /\ Bounded(r, b) => Bounded(q, b)
         /\ NoStop(r) => NoStop(q)
  <1>1. \A i \in 1 .. Len(q) : i \in 1 .. Len(r) /\ \A j \in 1 .. i - 1 : q[j] = r[j]
    OBVIOUS
  <1>2. ASSUME Numbered(r, s) PROVE Numbered(q, s)
    <2> SUFFICES ASSUME NEW t \in Sender, NEW n \in 1 .. MaxSends, NEW i \in 1 .. Len(q),
                        q[i] = << t, n >>
                 PROVE  /\ n <= s[t].sent
                        /\ \A m \in 1 .. n - 1 : \E j \in 1 .. i - 1 : q[j] = << t, m >>
                        /\ \A j \in 1 .. i - 1 : q[j] # q[i]
      BY DEF Numbered
    <2>1. r[i] = << t, n >> /\ i \in 1 .. Len(r)
      BY <1>1
    <2>2. /\ n <= s[t].sent
          /\ \A m \in 1 .. n - 1 : \E j \in 1 .. i - 1 : r[j] = << t, m >>
          /\ \A j \in 1 .. i - 1 : r[j] # r[i]
      BY <1>2, <2>1, Zenon DEF Numbered
    <2>3. QED
      BY <2>1, <2>2, <1>1
  <1>3. ASSUME Bounded(r, b) PROVE Bounded(q, b)
    <2> SUFFICES ASSUME NEW i \in 1 .. Len(q), q[i] \in Stops
                 PROVE  /\ \A t \in Sender : \A n \in 1 .. b[t] :
                             \E j \in 1 .. i - 1 : q[j] = << t, n >>
                        /\ \A j \in 1 .. Len(q) : q[j] \in Stops => i = j
      BY DEF Bounded
    <2>1. r[i] \in Stops /\ i \in 1 .. Len(r)
      BY <1>1
    <2>2. /\ \A t \in Sender : \A n \in 1 .. b[t] : \E j \in 1 .. i - 1 : r[j] = << t, n >>
          /\ \A j \in 1 .. Len(r) : r[j] \in Stops => i = j
      BY <1>3, <2>1, Zenon DEF Bounded
    <2>3. QED
      BY <2>1, <2>2, <1>1
  <1>4. QED
    BY <1>1, <1>2, <1>3 DEF NoStop

\* q is r and one thing more; a task sends the next of its frames.
Continues(q, r) ==
  Len(r) \in Nat /\ Len(q) = Len(r) + 1 /\ \A i \in 1 .. Len(r) : q[i] = r[i]
Sends(t, f, s, z) ==
  /\ \A u \in Sender : s[u].sent \in Nat /\ (u # t => z[u].sent = s[u].sent)
  /\ z[t].sent = s[t].sent + 1
  /\ f = << t, s[t].sent + 1 >>

\* A line that grows by the next frame of a task.
LEMMA GrowFrame ==
  ASSUME NEW r, NEW q, NEW s, NEW z, NEW t \in Sender,
         Continues(q, r), Sends(t, q[Len(q)], s, z), Numbered(r, s), OnLine(r, s)
  PROVE  Numbered(q, z) /\ OnLine(q, z)
  <1>0. \A v \in Sender : \A n \in 1 .. MaxSends : \A i \in 1 .. Len(r) :
          r[i] = << v, n >> =>
            /\ n <= s[v].sent
            /\ \A m \in 1 .. n - 1 : \E j \in 1 .. i - 1 : r[j] = << v, m >>
            /\ \A j \in 1 .. i - 1 : r[j] # << v, n >>
    BY Zenon DEF Numbered
  <1>1. ASSUME NEW u \in Sender, NEW n \in 1 .. MaxSends, NEW i \in 1 .. Len(q), q[i] = << u, n >>
        PROVE  /\ n <= z[u].sent
               /\ \A m \in 1 .. n - 1 : \E j \in 1 .. i - 1 : q[j] = << u, m >>
               /\ \A j \in 1 .. i - 1 : q[j] # q[i]
    <2>1. CASE i <= Len(r)
      <3>1. i \in 1 .. Len(r)
        BY <2>1 DEF Continues
      <3>2. r[i] = << u, n >>
        BY <1>1, <3>1, Zenon DEF Continues
      <3>3. /\ n <= s[u].sent
            /\ \A m \in 1 .. n - 1 : \E j \in 1 .. i - 1 : r[j] = << u, m >>
            /\ \A j \in 1 .. i - 1 : r[j] # << u, n >>
        BY <1>0, <3>1, <3>2, Zenon
      <3>4. \A j \in 1 .. i - 1 : q[j] = r[j]
        BY <3>1 DEF Continues
      <3>5. s[u].sent <= z[u].sent /\ s[u].sent \in Nat /\ z[u].sent \in Nat
        <4>1. s[u].sent \in Nat /\ (z[u].sent = s[u].sent \/ z[u].sent = s[u].sent + 1)
          BY Zenon DEF Sends
        <4>2. QED
          BY <4>1
      <3>6. n <= z[u].sent
        BY <3>3, <3>5
      <3>7. QED
        BY <1>1, <3>3, <3>4, <3>6, Zenon
    <2>2. CASE i = Len(r) + 1
      <3>1. u = t /\ n = s[t].sent + 1 /\ i - 1 = Len(r)
        BY <1>1, <2>2 DEF Continues, Sends
      <3>2. \A m \in 1 .. n - 1 : \E j \in 1 .. Len(r) : r[j] = << t, m >>
        <4>1. n - 1 = s[t].sent
          BY <3>1 DEF Sends
        <4>2. QED
          BY <4>1, Zenon DEF OnLine
      <3>3. ASSUME NEW j \in 1 .. Len(r) PROVE r[j] # << t, n >>
        <4> SUFFICES ASSUME r[j] = << t, n >> PROVE FALSE
          OBVIOUS
        <4>1. n <= s[t].sent
          BY <1>0, <3>1, Zenon
        <4>2. QED
          BY <4>1, <3>1 DEF Sends
      <3>4. /\ \A m \in 1 .. n - 1 : \E j \in 1 .. i - 1 : q[j] = << u, m >>
            /\ \A j \in 1 .. i - 1 : q[j] # << u, n >>
        <4>1. \A j \in 1 .. i - 1 : q[j] = r[j] /\ r[j] # << u, n >>
          BY <3>1, <3>3 DEF Continues
        <4>2. \A m \in 1 .. n - 1 : \E j \in 1 .. i - 1 : r[j] = << u, m >>
          BY <3>1, <3>2
        <4>3. QED
          BY <4>1, <4>2, Zenon
      <3>5. QED
        <4>1. n <= z[u].sent
          BY <3>1 DEF Sends
        <4>2. QED
          BY <1>1, <3>4, <4>1, Zenon
    <2>3. QED
      <3>1. i \in 1 .. Len(r) \/ i = Len(r) + 1
        BY DEF Continues
      <3>2. QED
        <4>1. Len(r) \in Nat
          BY DEF Continues
        <4>2. i <= Len(r) \/ i = Len(r) + 1
          BY <3>1, <4>1
        <4>3. QED
          BY <2>1, <2>2, <4>2, Zenon
  <1>2. ASSUME NEW u \in Sender, NEW n \in 1 .. z[u].sent
        PROVE  \E i \in 1 .. Len(q) : q[i] = << u, n >>
    <2>1. CASE n \in 1 .. s[u].sent
      <3>1. PICK i \in 1 .. Len(r) : r[i] = << u, n >>
        BY <2>1 DEF OnLine
      <3>2. QED
        BY <3>1 DEF Continues
    <2>2. CASE n \notin 1 .. s[u].sent
      <3>1. u = t /\ n = s[t].sent + 1
        BY <2>2 DEF Sends
      <3>2. q[Len(q)] = << u, n >> /\ Len(q) \in 1 .. Len(q)
        BY <3>1 DEF Sends, Continues
      <3>3. QED
        BY <3>2
    <2>3. QED
      BY <2>1, <2>2
  <1>3. QED
    BY <1>1, <1>2 DEF Numbered, OnLine

\* A line that grows keeps its marker, and may get its first.
LEMMA GrowStop ==
  ASSUME NEW r, NEW q, NEW s, NEW b, Continues(q, r)
  PROVE  /\ q[Len(q)] \notin Stops /\ Bounded(r, b) => Bounded(q, b)
         /\ q[Len(q)] \notin Stops /\ NoStop(r) => NoStop(q)
         /\ q[Len(q)] \in Stops /\ Numbered(r, s) => Numbered(q, s)
         /\ OnLine(r, s) => OnLine(q, s)
         /\ /\ NoStop(r) /\ OnLine(r, s)
            /\ \A t \in Sender : b[t] \in Nat /\ s[t].sent \in Nat /\ b[t] <= s[t].sent
            => Bounded(q, b)
  <1>0. \A i \in 1 .. Len(q) : (i \in 1 .. Len(r) /\ q[i] = r[i]) \/ i = Len(q)
    BY DEF Continues
  <1>10. \A i \in 1 .. Len(r) : i \in 1 .. Len(q) /\ q[i] = r[i] /\ \A j \in 1 .. i - 1 : q[j] = r[j]
    BY DEF Continues
  <1>1. ASSUME q[Len(q)] \notin Stops, Bounded(r, b) PROVE Bounded(q, b)
    <2> SUFFICES ASSUME NEW i \in 1 .. Len(q), q[i] \in Stops
                 PROVE  /\ \A t \in Sender : \A n \in 1 .. b[t] :
                             \E j \in 1 .. i - 1 : q[j] = << t, n >>
                        /\ \A j \in 1 .. Len(q) : q[j] \in Stops => i = j
      BY DEF Bounded
    <2>1. i \in 1 .. Len(r) /\ r[i] \in Stops
      BY <1>0, <1>1
    <2>2. /\ \A t \in Sender : \A n \in 1 .. b[t] : \E j \in 1 .. i - 1 : r[j] = << t, n >>
          /\ \A j \in 1 .. Len(r) : r[j] \in Stops => i = j
      BY <1>1, <2>1, Zenon DEF Bounded
    <2>3. \A j \in 1 .. Len(q) : q[j] \in Stops => i = j
      BY <1>0, <1>1, <2>2, Zenon
    <2>4. QED
      BY <1>10, <2>1, <2>2, <2>3, Zenon
  <1>2. ASSUME q[Len(q)] \notin Stops, NoStop(r) PROVE NoStop(q)
    BY <1>0, <1>2 DEF NoStop
  <1>3. ASSUME q[Len(q)] \in Stops, Numbered(r, s) PROVE Numbered(q, s)
    <2> SUFFICES ASSUME NEW t \in Sender, NEW n \in 1 .. MaxSends, NEW i \in 1 .. Len(q),
                        q[i] = << t, n >>
                 PROVE  /\ n <= s[t].sent
                        /\ \A m \in 1 .. n - 1 : \E j \in 1 .. i - 1 : q[j] = << t, m >>
                        /\ \A j \in 1 .. i - 1 : q[j] # q[i]
      BY DEF Numbered
    <2>1. i # Len(q)
      BY <1>3 DEF Stops, Marker, End
    <2>2. i \in 1 .. Len(r) /\ r[i] = << t, n >>
      BY <1>0, <2>1
    <2>3. /\ n <= s[t].sent
          /\ \A m \in 1 .. n - 1 : \E j \in 1 .. i - 1 : r[j] = << t, m >>
          /\ \A j \in 1 .. i - 1 : r[j] # << t, n >>
      <3>1. \A v \in Sender : \A k \in 1 .. MaxSends : \A h \in 1 .. Len(r) :
              r[h] = << v, k >> =>
                /\ k <= s[v].sent
                /\ \A m \in 1 .. k - 1 : \E j \in 1 .. h - 1 : r[j] = << v, m >>
                /\ \A j \in 1 .. h - 1 : r[j] # << v, k >>
        BY <1>3, Zenon DEF Numbered
      <3>2. QED
        BY <3>1, <2>2, Zenon
    <2>4. QED
      BY <1>10, <2>2, <2>3, Zenon
  <1>4. ASSUME OnLine(r, s) PROVE OnLine(q, s)
    BY <1>4, <1>10, Zenon DEF OnLine
  <1>5. ASSUME NoStop(r), OnLine(r, s),
               \A t \in Sender : b[t] \in Nat /\ s[t].sent \in Nat /\ b[t] <= s[t].sent
        PROVE  Bounded(q, b)
    <2> SUFFICES ASSUME NEW i \in 1 .. Len(q), q[i] \in Stops
                 PROVE  /\ \A t \in Sender : \A n \in 1 .. b[t] :
                             \E j \in 1 .. i - 1 : q[j] = << t, n >>
                        /\ \A j \in 1 .. Len(q) : q[j] \in Stops => i = j
      BY DEF Bounded
    <2>1. i = Len(q) /\ \A j \in 1 .. Len(q) : q[j] \in Stops => i = j
      BY <1>0, <1>5 DEF NoStop
    <2>2. \A t \in Sender : \A n \in 1 .. b[t] : n \in 1 .. s[t].sent
      BY <1>5
    <2>3. \A t \in Sender : \A n \in 1 .. b[t] : \E j \in 1 .. Len(r) : q[j] = << t, n >>
      BY <1>5, <1>10, <2>2, Zenon DEF OnLine
    <2>4. i - 1 = Len(r)
      BY <2>1 DEF Continues
    <2>5. QED
      BY <2>1, <2>3, <2>4
  <1>6. QED
    BY <1>1, <1>2, <1>3, <1>4, <1>5

\* What a line says of its senders depends on how much they have sent.
LEMMA SameSent ==
  ASSUME NEW q, NEW s, NEW z, \A t \in Sender : z[t].sent = s[t].sent
  PROVE  /\ Numbered(q, s) => Numbered(q, z)
         /\ OnLine(q, s) => OnLine(q, z)
  <1>1. ASSUME Numbered(q, s) PROVE Numbered(q, z)
    BY <1>1, Zenon DEF Numbered
  <1>2. ASSUME OnLine(q, s) PROVE OnLine(q, z)
    BY <1>2 DEF OnLine
  <1>3. QED
    BY <1>1, <1>2

-----------------------------------------------------------------------------
\* Types, one variable at a time.
LEMMA OutboundStep ==
  ASSUME PlainInv, PlainNext
  PROVE  outbound' \in Seq(Frame \cup {Marker}) /\ Len(outbound') <= QueueSize
  <1> DEFINE X == Frame \cup {Marker}
  <1>1. \/ outbound' = outbound \/ outbound' = << >>
        \/ Len(outbound) < QueueSize /\ \E f \in X : outbound' = Append(outbound, f)
        \/ outbound # << >> /\ outbound' = Tail(outbound)
    <2>1. CASE Close \/ CloseNow \/ CloseQueues \/ CloseDropped \/ CloseReturns
      BY <2>1 DEF Close, CloseNow, CloseQueues, CloseDropped, CloseReturns, MarkClosed
    <2>2. CASE PeerCloses \/ ReaderEnds \/ ReaderDrained \/ ReaderFails
      BY <2>2 DEF PeerCloses, ReaderEnds, ReaderDrained, ReaderFails, MarkClosed
    <2>3. CASE WriterStep
      BY <2>3 DEF WriterStep, WriterTakes, WriterWrites, WriterFlushes, WriterShutsDown, WriterFails,
                  ShutdownFails, MarkClosed
    <2>4. ASSUME NEW t \in Sender, SendChecks(t) \/ SendFails(t) PROVE outbound' = outbound
      BY <2>4 DEF SendChecks, SendFails
    <2>5. ASSUME NEW t \in Sender, SendQueues(t)
          PROVE  Len(outbound) < QueueSize /\ \E f \in X : outbound' = Append(outbound, f)
      <3>1. << t, sender[t].sent + 1 >> \in X
        BY <2>5, PlainConnectionAssumption DEF SendQueues, PlainInv, LineInv, PlainTypeOK, Frame
      <3>2. QED
        BY <2>5, <3>1 DEF SendQueues
    <2>6. QED
      BY <2>1, <2>2, <2>3, <2>4, <2>5 DEF PlainNext, SendStep
  <1> HIDE DEF X
  <1>2. outbound \in Seq(X) /\ Len(outbound) <= QueueSize
    BY DEF PlainInv, PlainTypeOK, X
  <1>3. QED
    <2> SUFFICES outbound' \in Seq(X) /\ Len(outbound') <= QueueSize
      BY DEF X
    <2>1. ASSUME NEW f \in X, outbound' = Append(outbound, f), Len(outbound) < QueueSize
          PROVE  outbound' \in Seq(X) /\ Len(outbound') <= QueueSize
      BY <1>2, <2>1, PlainConnectionAssumption
    <2>2. CASE outbound # << >> /\ outbound' = Tail(outbound)
      BY <1>2, <2>2, PlainConnectionAssumption
    <2>3. CASE outbound' = << >>
      BY <2>3, PlainConnectionAssumption
    <2>4. QED
      BY <1>1, <1>2, <2>1, <2>2, <2>3

LEMMA WriterTypeStep ==
  ASSUME PlainInv, PlainNext
  PROVE  /\ writer' \in [pc : {"wait", "write", "flush", "ended"}, frame : Frame \cup {Marker, None}]
         /\ buffered' \in Seq(Frame) /\ wire' \in Seq(Frame \cup {End})
  <1> DEFINE Pc == {"wait", "write", "flush", "ended"}
             X == Frame \cup {Marker, None}
             Y == Frame \cup {End}
  <1>1. /\ writer = [pc |-> writer.pc, frame |-> writer.frame]
        /\ writer.pc \in Pc /\ writer.frame \in X /\ buffered \in Seq(Frame) /\ wire \in Seq(Y)
        /\ outbound # << >> => Head(outbound) \in X
    BY DEF PlainInv, PlainTypeOK
  <1>2. /\ \E p \in Pc, f \in X : writer' = [pc |-> p, frame |-> f]
        /\ \/ buffered' = buffered \/ buffered' = << >>
           \/ writer.frame \in Frame /\ buffered' = Append(buffered, writer.frame)
        /\ \/ wire' = wire \/ wire' = wire \o buffered
           \/ wire' = Append(wire \o buffered, End)
    <2>1. CASE Close \/ CloseNow \/ CloseQueues \/ CloseDropped \/ CloseReturns
      BY <1>1, <2>1 DEF Close, CloseNow, CloseQueues, CloseDropped, CloseReturns, MarkClosed
    <2>2. CASE PeerCloses \/ ReaderEnds \/ ReaderDrained \/ ReaderFails
      BY <1>1, <2>2 DEF PeerCloses, ReaderEnds, ReaderDrained, ReaderFails, MarkClosed
    <2>3. CASE WriterTakes \/ WriterWrites
      BY <1>1, <2>3 DEF WriterTakes, WriterWrites, PlainInv, LineInv
    <2>4. CASE WriterFlushes \/ WriterShutsDown \/ WriterFails \/ ShutdownFails
      BY <1>1, <2>4 DEF WriterFlushes, WriterShutsDown, WriterFails, ShutdownFails, MarkClosed
    <2>5. ASSUME NEW t \in Sender, SendStep(t)
          PROVE  writer' = writer /\ buffered' = buffered /\ wire' = wire
      BY <2>5 DEF SendStep, SendChecks, SendQueues, SendFails
    <2>6. QED
      BY <1>1, <2>1, <2>2, <2>3, <2>4, <2>5 DEF PlainNext, WriterStep
  <1> HIDE DEF Pc, X
  <1>3. writer' \in [pc : Pc, frame : X]
    <2>1. PICK p \in Pc, f \in X : writer' = [pc |-> p, frame |-> f]
      BY <1>2
    <2>2. QED
      BY <2>1
  <1>4. buffered' \in Seq(Frame)
    <2>1. writer.frame \in Frame => Append(buffered, writer.frame) \in Seq(Frame)
      BY <1>1
    <2>2. << >> \in Seq(Frame)
      OBVIOUS
    <2>3. QED
      BY <1>1, <1>2, <2>1, <2>2, Zenon
  <1>5. wire \o buffered \in Seq(Y) /\ Append(wire \o buffered, End) \in Seq(Y)
    <2>1. buffered \in Seq(Y) /\ End \in Y
      BY <1>1, SeqMonotonic
    <2> HIDE DEF Y
    <2>2. QED
      BY <1>1, <2>1
  <1>6. wire' \in Seq(Y)
    BY <1>1, <1>2, <1>5, Zenon
  <1>7. QED
    BY <1>3, <1>4, <1>6 DEF Pc, X

LEMMA PlainTypeStep ==
  ASSUME PlainInv, PlainNext
  PROVE  PlainTypeOK'
  <1> DEFINE S == [pc : {"idle", "queue", "failed"}, sent : 0 .. MaxSends]
  <1>1. sender' \in [Sender -> S]
    <2>1. sender \in [Sender -> S]
      BY DEF PlainInv, PlainTypeOK
    <2>2. \/ sender' = sender
          \/ \E t \in Sender : \E x \in S : sender' = [sender EXCEPT ![t] = x]
      <3>1. CASE Close \/ CloseNow \/ CloseQueues \/ CloseDropped \/ CloseReturns
        BY <3>1 DEF Close, CloseNow, CloseQueues, CloseDropped, CloseReturns
      <3>2. CASE PeerCloses \/ ReaderEnds \/ ReaderDrained \/ ReaderFails
        BY <3>2 DEF PeerCloses, ReaderEnds, ReaderDrained, ReaderFails
      <3>3. CASE WriterStep
        BY <3>3 DEF WriterStep, WriterTakes, WriterWrites, WriterFlushes, WriterShutsDown, WriterFails,
                    ShutdownFails
      <3>4. ASSUME NEW t \in Sender, SendStep(t)
            PROVE  \E x \in S : sender' = [sender EXCEPT ![t] = x]
        <4>1. CASE SendChecks(t)
          <5>1. PICK p \in {"queue", "failed"} : sender' = [sender EXCEPT ![t].pc = p]
            BY <4>1 DEF SendChecks
          <5>2. [sender[t] EXCEPT !.pc = p] = [pc |-> p, sent |-> sender[t].sent]
            BY <2>1
          <5>4. sender' = [sender EXCEPT ![t] = [pc |-> p, sent |-> sender[t].sent]]
            BY <5>1, <5>2
          <5>3. QED
            BY <2>1, <5>4
        <4>2. CASE SendQueues(t)
          <5>1. sender[t].sent + 1 \in 0 .. MaxSends
            BY <2>1, <4>2, PlainConnectionAssumption DEF SendQueues, PlainInv, LineInv
          <5>2. sender' = [sender EXCEPT ![t] = [pc |-> "idle", sent |-> sender[t].sent + 1]]
            BY <4>2 DEF SendQueues
          <5>3. QED
            BY <5>1, <5>2
        <4>3. CASE SendFails(t)
          <5>1. sender' = [sender EXCEPT ![t] = [pc |-> "failed", sent |-> sender[t].sent]]
            <6>1. [sender[t] EXCEPT !.pc = "failed"] = [pc |-> "failed", sent |-> sender[t].sent]
              BY <2>1
            <6>2. QED
              BY <4>3, <6>1 DEF SendFails
          <5>2. QED
            BY <2>1, <5>1
        <4>4. QED
          BY <3>4, <4>1, <4>2, <4>3 DEF SendStep
      <3>5. QED
        BY <3>1, <3>2, <3>3, <3>4 DEF PlainNext
    <2> HIDE DEF S
    <2>3. QED
      BY <2>1, <2>2
  <1>2. before' \in [Sender -> 0 .. MaxSends] /\ closing' \in BOOLEAN
    <2>1. \/ UNCHANGED << before, closing >>
          \/ BeginClosing
      <3>1. CASE Close \/ CloseNow \/ CloseQueues \/ CloseDropped \/ CloseReturns
        BY <3>1 DEF Close, CloseNow, CloseQueues, CloseDropped, CloseReturns, MarkClosed, flags
      <3>2. CASE PeerCloses \/ ReaderEnds \/ ReaderDrained \/ ReaderFails
        BY <3>2 DEF PeerCloses, ReaderEnds, ReaderDrained, ReaderFails, flags
      <3>3. CASE WriterStep
        BY <3>3 DEF WriterStep, WriterTakes, WriterWrites, WriterFlushes, WriterShutsDown, WriterFails,
                    ShutdownFails, flags
      <3>4. ASSUME NEW t \in Sender, SendStep(t) PROVE UNCHANGED << before, closing >>
        BY <3>4 DEF SendStep, SendChecks, SendQueues, SendFails, flags
      <3>5. QED
        BY <3>1, <3>2, <3>3, <3>4 DEF PlainNext
    <2>2. QED
      BY <2>1 DEF PlainInv, PlainTypeOK, BeginClosing
  <1>3. /\ closed' \in BOOLEAN
        /\ closer' \in Flushing \cup {"none", "dropped", "done"}
        /\ peer' \in {"open", "closed", "draining", "read"}
    <2> USE DEF PlainInv, PlainTypeOK, flags
    <2>1. CASE Close \/ CloseNow \/ CloseQueues \/ CloseDropped \/ CloseReturns
      BY <2>1 DEF Close, CloseNow, CloseQueues, CloseDropped, CloseReturns, MarkClosed, Flushing
    <2>2. CASE PeerCloses \/ ReaderEnds \/ ReaderDrained \/ ReaderFails
      BY <2>2 DEF PeerCloses, ReaderEnds, ReaderDrained, ReaderFails, MarkClosed
    <2>3. CASE WriterStep
      BY <2>3 DEF WriterStep, WriterTakes, WriterWrites, WriterFlushes, WriterShutsDown, WriterFails,
                  ShutdownFails, MarkClosed, Flushing
    <2>4. ASSUME NEW t \in Sender, SendStep(t) PROVE UNCHANGED << closed, closer, peer >>
      BY <2>4 DEF SendStep, SendChecks, SendQueues, SendFails
    <2>5. QED
      BY <2>1, <2>2, <2>3, <2>4 DEF PlainNext
  <1>4. QED
    BY <1>1, <1>2, <1>3, OutboundStep, WriterTypeStep DEF PlainTypeOK

-----------------------------------------------------------------------------
\* The line, action by action.  Frames are no marker and no end.
LEMMA FramesAreNoStops == \A f \in Frame : f \notin Stops /\ f # None
  BY DEF Frame, Stops, Marker, End, None

\* A line that stays.
LEMMA LineKept ==
  ASSUME PlainInv, Line' = Line, \A t \in Sender : sender'[t].sent = sender[t].sent,
         before' = before \/ NoStop(Line)
  PROVE  /\ Numbered(Line', sender') /\ Bounded(Line', before')
         /\ OnLine(Line, sender) => OnLine(Line', sender')
  <1>1. Numbered(Line, sender) /\ Bounded(Line, before)
    BY DEF PlainInv, LineInv
  <1>2. Numbered(Line, sender') /\ (OnLine(Line, sender) => OnLine(Line, sender'))
    BY <1>1, SameSent
  <1>3. Bounded(Line, before')
    BY <1>1 DEF Bounded, NoStop
  <1>4. QED
    BY <1>2, <1>3

\* Closing, calls that come and go, and the peer: nothing moves.
LEMMA NothingMoves ==
  ASSUME PlainInv, UNCHANGED << outbound, writer, buffered, wire, closed >>,
         \A t \in Sender : sender'[t].sent = sender[t].sent,
         \A t \in Sender : sender'[t].pc = "queue" => sender[t].sent < MaxSends,
         closing => closing',
         closer' = closer \/ (closer \in Flushing /\ closer' = "dropped" /\ closing)
           \/ (~closing /\ closer' = "marker"),
         closer' # "none" => closing',
         before' = before \/ (~closing /\ before' = [t \in Sender |-> sender[t].sent])
  PROVE  LineInv'
  <1>1. Line' = Line
    BY DEF Line, InHand
  <1>2. before' = before \/ NoStop(Line)
    BY DEF PlainInv, LineInv
  <1>3. /\ Numbered(Line', sender') /\ Bounded(Line', before')
        /\ OnLine(Line, sender) => OnLine(Line', sender')
    BY <1>1, <1>2, LineKept
  <1>4. \A t \in Sender : before'[t] <= sender'[t].sent
    BY DEF PlainInv, LineInv, PlainTypeOK
  <1>5. QED
    BY <1>1, <1>3, <1>4 DEF PlainInv, LineInv, EndIsLast, Flushing, NoStop

\* The writer takes, writes and flushes: the line stays.
LEMMA WriterMoves ==
  ASSUME PlainInv, WriterTakes \/ WriterWrites \/ WriterFlushes
  PROVE  LineInv'
  <1>1. Line' = Line
    <2>1. CASE WriterTakes
      <3>1. InHand = << >> /\ InHand' = << Head(outbound) >> /\ outbound' = Tail(outbound)
            /\ wire' = wire /\ buffered' = buffered /\ outbound # << >>
        BY <2>1 DEF WriterTakes, InHand
      <3>2. wire \o buffered \in Seq(Item) /\ outbound \in Seq(Item)
        BY LineType
      <3>3. /\ << Head(outbound) >> \in Seq(Item) /\ Tail(outbound) \in Seq(Item) /\ << >> \in Seq(Item)
            /\ << Head(outbound) >> \o Tail(outbound) = outbound /\ << >> \o outbound = outbound
        BY <3>1, <3>2
      <3>4. (wire \o buffered) \o << Head(outbound) >> \o Tail(outbound) = (wire \o buffered) \o outbound
        <4>1. (wire \o buffered) \o << Head(outbound) >> \o Tail(outbound) =
                (wire \o buffered) \o (<< Head(outbound) >> \o Tail(outbound))
          <5>1. \A x, y, z \in Seq(Item) : (x \o y) \o z = x \o (y \o z)
            BY ConcatAssociative
          <5> DEFINE x == wire \o buffered
                     y == << Head(outbound) >>
                     z == Tail(outbound)
          <5>2. x \in Seq(Item) /\ y \in Seq(Item) /\ z \in Seq(Item)
            BY <3>2, <3>3
          <5> HIDE DEF x, y, z
          <5>3. (x \o y) \o z = x \o (y \o z)
            BY <5>1, <5>2, Zenon
          <5>4. QED
            BY <5>3 DEF x, y, z
        <4>2. QED
          BY <3>3, <4>1
      <3>5. (wire \o buffered) \o << >> \o outbound = (wire \o buffered) \o outbound
        BY <3>2
      <3>6. QED
        BY <3>1, <3>4, <3>5 DEF Line
    <2>2. CASE WriterWrites
      <3>1. /\ InHand = << writer.frame >> /\ writer.frame \in Item
            /\ buffered' = Append(buffered, writer.frame) /\ wire' = wire
        BY <2>2, PlainInv DEF WriterWrites, InHand, PlainInv, LineInv, PlainTypeOK, Item, Stops
      <3>2. wire \in Seq(Item) /\ buffered \in Seq(Item) /\ outbound \in Seq(Item)
        BY LineType
      <3>3. wire \o buffered' = (wire \o buffered) \o InHand
        BY <3>1, <3>2
      <3>4. InHand' \o outbound' = outbound /\ InHand' \in Seq(Item) /\ outbound' \in Seq(Item)
        <4>1. CASE outbound = << >>
          BY <2>2, <4>1 DEF WriterWrites, InHand
        <4>2. CASE outbound # << >>
          <5>1. InHand' = << Head(outbound) >> /\ outbound' = Tail(outbound)
            BY <2>2, <4>2 DEF WriterWrites, InHand, PlainInv, PlainTypeOK
          <5>2. QED
            BY <3>2, <4>2, <5>1
        <4>3. QED
          BY <4>1, <4>2
      <3>5. wire \o buffered' \in Seq(Item)
        BY <3>1, <3>2
      <3>6. wire \o buffered' \o InHand' \o outbound' = wire \o buffered' \o outbound
        <4>1. \A x, y, z \in Seq(Item) : (x \o y) \o z = x \o (y \o z)
          BY ConcatAssociative
        <4>2. QED
          BY <3>4, <3>5, <4>1, Zenon
      <3>7. QED
        <4>1. Line' = wire \o buffered' \o InHand' \o outbound'
          BY <3>1 DEF Line
        <4>2. Line = wire \o buffered' \o outbound
          BY <3>3 DEF Line
        <4>3. QED
          BY <3>6, <4>1, <4>2, Zenon
    <2>3. CASE WriterFlushes
      <3>1. /\ InHand = << >> /\ InHand' = << >> /\ outbound' = outbound
            /\ wire' = wire \o buffered /\ buffered' = << >>
        BY <2>3 DEF WriterFlushes, InHand
      <3>2. QED
        BY <3>1, LineType DEF Line
    <2>4. QED
      BY <2>1, <2>2, <2>3
  <1>2. sender' = sender /\ UNCHANGED << before, closing, closed, closer >>
        /\ writer.pc # "ended" /\ writer'.pc # "ended"
    BY DEF WriterTakes, WriterWrites, WriterFlushes, flags, PlainInv, PlainTypeOK
  <1>3. /\ Numbered(Line', sender') /\ Bounded(Line', before')
        /\ OnLine(Line, sender) => OnLine(Line', sender')
    BY <1>1, <1>2, LineKept
  <1>4. EndIsLast'
    <2>1. \A i \in 1 .. Len(wire) : wire[i] # End
      BY <1>2 DEF PlainInv, LineInv, EndIsLast
    <2>2. wire' = wire \/ wire' = wire \o buffered
      BY DEF WriterTakes, WriterWrites, WriterFlushes
    <2>3. \A i \in 1 .. Len(wire') : wire'[i] # End
      <3>1. wire \in Seq(Frame \cup {End}) /\ buffered \in Seq(Frame)
        BY DEF PlainInv, PlainTypeOK
      <3>2. CASE wire' = wire \o buffered
        BY <2>1, <3>1, <3>2, FramesAreNoStops, ConcatProperties DEF Stops
      <3>3. CASE wire' = wire
        BY <2>1, <3>3
      <3>4. QED
        BY <2>2, <3>2, <3>3
    <2>4. QED
      BY <2>3 DEF EndIsLast
  <1>5. writer'.pc = "write" => writer'.frame # None
    <2>1. outbound # << >> => Head(outbound) \in Frame \cup {Marker}
      BY DEF PlainInv, PlainTypeOK
    <2>2. \A f \in Frame \cup {Marker} : f # None
      BY FramesAreNoStops DEF Marker, None
    <2>3. writer'.pc = "write" => outbound # << >> /\ writer'.frame = Head(outbound)
      BY DEF WriterTakes, WriterWrites, WriterFlushes, PlainInv, PlainTypeOK
    <2>4. QED
      BY <2>1, <2>2, <2>3
  <1>6. QED
    BY <1>1, <1>2, <1>3, <1>4, <1>5 DEF PlainInv, LineInv, NoStop

\* The line grows by one thing behind it.
LEMMA LineContinues ==
  ASSUME PlainInv, NEW f \in Item, outbound' = Append(outbound, f),
         UNCHANGED << writer, buffered, wire >>
  PROVE  Continues(Line', Line) /\ Line'[Len(Line')] = f
  <1>1. InHand' = InHand
    BY DEF InHand
  <1>2. outbound \in Seq(Item) /\ wire \o buffered \o InHand \in Seq(Item) /\ Line \in Seq(Item)
    BY LineType
  <1>3. wire \o buffered \o InHand \o Append(outbound, f) = Append(Line, f)
    BY <1>2 DEF Line
  <1>4. Line' = Append(Line, f)
    BY <1>1, <1>3 DEF Line
  <1>5. Len(Append(Line, f)) = Len(Line) + 1 /\ Len(Line) \in Nat
        /\ (\A i \in 1 .. Len(Line) : Append(Line, f)[i] = Line[i])
        /\ Append(Line, f)[Len(Line) + 1] = f
    BY <1>2
  <1>6. QED
    BY <1>4, <1>5, Zenon DEF Continues

LEMMA SendQueuesMoves ==
  ASSUME PlainInv, NEW t \in Sender, SendQueues(t)
  PROVE  LineInv'
  <1> DEFINE f == << t, sender[t].sent + 1 >>
  <1>1. f \in Frame
    BY PlainConnectionAssumption DEF SendQueues, PlainInv, LineInv, PlainTypeOK, Frame
  <1>2. f \in Item /\ f \notin Stops
    BY <1>1, FramesAreNoStops DEF Item
  <1>3. Continues(Line', Line) /\ Line'[Len(Line')] = f
    BY <1>2, LineContinues DEF SendQueues
  <1>4. Sends(t, f, sender, sender')
    BY DEF SendQueues, PlainInv, PlainTypeOK, Sends
  <1> HIDE DEF f
  <1>5. Numbered(Line, sender) /\ Bounded(Line, before) /\ OnLine(Line, sender)
    BY DEF SendQueues, PlainInv, LineInv
  <1>6. Numbered(Line', sender') /\ OnLine(Line', sender')
    BY <1>3, <1>4, <1>5, GrowFrame, Zenon
  <1>7. Bounded(Line', before) /\ (NoStop(Line) => NoStop(Line'))
    BY <1>2, <1>3, <1>5, GrowStop, Zenon
  <1>8. /\ UNCHANGED << writer, buffered, wire, closing, closed, closer, before >>
        /\ writer.pc # "ended"
    BY DEF SendQueues, flags
  <1>9. \A u \in Sender : /\ before[u] <= sender'[u].sent
                          /\ sender'[u].pc = "queue" => sender'[u].sent < MaxSends
    BY DEF SendQueues, PlainInv, LineInv, PlainTypeOK
  <1>10. QED
    BY <1>6, <1>7, <1>8, <1>9 DEF PlainInv, LineInv, EndIsLast

LEMMA CloseQueuesMoves ==
  ASSUME PlainInv, CloseQueues
  PROVE  LineInv'
  <1>1. Marker \in Item /\ Marker \in Stops
    BY DEF Item, Stops
  <1>2. Continues(Line', Line) /\ Line'[Len(Line')] = Marker
    BY <1>1, LineContinues DEF CloseQueues
  <1>3. /\ Numbered(Line, sender) /\ NoStop(Line) /\ OnLine(Line, sender)
        /\ \A t \in Sender : before[t] \in Nat /\ sender[t].sent \in Nat /\ before[t] <= sender[t].sent
    BY DEF CloseQueues, PlainInv, LineInv, PlainTypeOK
  <1>4. Numbered(Line', sender) /\ OnLine(Line', sender) /\ Bounded(Line', before)
    BY <1>1, <1>2, <1>3, GrowStop, Zenon
  <1>5. /\ UNCHANGED << sender, writer, buffered, wire, closing, closed, before >>
        /\ writer.pc # "ended" /\ closer = "marker" /\ closer' = "written"
    BY DEF CloseQueues, flags
  <1>6. QED
    BY <1>4, <1>5 DEF PlainInv, LineInv, EndIsLast

\* The marker is reached: the end takes its place, and what was behind it is lost.
LEMMA ShutDownMoves ==
  ASSUME PlainInv, WriterShutsDown
  PROVE  LineInv'
  <1> DEFINE w == wire \o buffered
  <1>1. /\ writer.pc = "write" /\ writer.frame = Marker /\ InHand = << Marker >>
        /\ wire' = Append(w, End) /\ buffered' = << >> /\ outbound' = << >> /\ InHand' = << >>
        /\ writer'.pc = "ended" /\ UNCHANGED << sender, before, closing, closed >>
        /\ closer' = IF closer = "written" THEN "waiting" ELSE closer
    BY DEF WriterShutsDown, InHand, flags
  <1>2. w \in Seq(Item) /\ outbound \in Seq(Item) /\ Len(w) \in Nat /\ End \in Item /\ Marker \in Item
    BY LineType, LenProperties DEF Item, Stops
  <1> HIDE DEF w
  <1>3. Line[Len(w) + 1] = Marker /\ Len(w) + 1 \in 1 .. Len(Line)
    <2>1. Line = (w \o << Marker >>) \o outbound
      BY <1>1 DEF Line, w
    <2>2. QED
      BY <1>2, <2>1
  <1>4. Len(w) \in 0 .. Len(Line) /\ \A i \in 1 .. Len(w) : w[i] = Line[i]
    BY WireIsFront DEF w
  <1>5. Line' = Append(w, End)
    <2>1. Append(w, End) \in Seq(Item)
      BY <1>2
    <2>2. Line' = Append(w, End) \o << >> \o << >> \o << >>
      BY <1>1 DEF Line
    <2>3. QED
      BY <2>1, <2>2
  <1>6. Continues(Line', w) /\ Line'[Len(Line')] = End
    BY <1>2, <1>5 DEF Continues
  <1>7. Numbered(Line, sender) /\ Bounded(Line, before)
    BY DEF PlainInv, LineInv
  <1>8. Numbered(w, sender)
    BY <1>3, <1>4, <1>7, CutLine
  <1>9. Numbered(Line', sender)
    BY <1>6, <1>8, GrowStop DEF Stops
  <1>10. /\ NoStop(w)
         /\ \A t \in Sender : \A n \in 1 .. before[t] : \E j \in 1 .. Len(w) : w[j] = << t, n >>
    <2>1. ASSUME NEW m \in 1 .. Len(Line), Line[m] \in Stops
          PROVE  /\ \A j \in 1 .. Len(Line) : Line[j] \in Stops => m = j
                 /\ \A t \in Sender : \A n \in 1 .. before[t] :
                      \E j \in 1 .. m - 1 : Line[j] = << t, n >>
      BY <1>7, <2>1, Zenon DEF Bounded
    <2>2. Len(w) + 1 - 1 = Len(w) /\ \A j \in 1 .. Len(w) : j # Len(w) + 1 /\ j \in 1 .. Len(Line)
      BY <1>2, <1>3
    <2>3. Line[Len(w) + 1] \in Stops
      BY <1>3 DEF Stops
    <2>4. NoStop(w)
      <3>1. \A j \in 1 .. Len(Line) : Line[j] \in Stops => Len(w) + 1 = j
        BY <1>3, <2>1, <2>3
      <3>2. QED
        BY <1>4, <2>2, <3>1 DEF NoStop
    <2>5. \A t \in Sender : \A n \in 1 .. before[t] : \E j \in 1 .. Len(w) : Line[j] = << t, n >>
      <3>1. PICK m \in 1 .. Len(Line) : m = Len(w) + 1
        BY <1>3
      <3>2. \A t \in Sender : \A n \in 1 .. before[t] : \E j \in 1 .. m - 1 : Line[j] = << t, n >>
        BY <2>1, <2>3, <3>1, Zenon
      <3>3. m - 1 = Len(w)
        BY <1>2, <3>1
      <3>4. QED
        BY <3>2, <3>3, Zenon
    <2>6. QED
      BY <1>4, <2>4, <2>5, Zenon
  <1>11. Bounded(Line', before)
    <2> SUFFICES ASSUME NEW i \in 1 .. Len(Line'), Line'[i] \in Stops
                 PROVE  /\ \A t \in Sender : \A n \in 1 .. before[t] :
                             \E j \in 1 .. i - 1 : Line'[j] = << t, n >>
                        /\ \A j \in 1 .. Len(Line') : Line'[j] \in Stops => i = j
      BY Zenon DEF Bounded
    <2>1. \A j \in 1 .. Len(Line') : Line'[j] \in Stops => j = Len(w) + 1
      BY <1>6, <1>10 DEF Continues, NoStop
    <2>2. i - 1 = Len(w)
      BY <1>2, <2>1
    <2>3. \A j \in 1 .. Len(w) : Line'[j] = w[j]
      BY <1>6 DEF Continues
    <2>4. QED
      BY <1>10, <2>1, <2>2, <2>3
  <1>12. EndIsLast'
    <2>1. \A i \in 1 .. Len(w) : w[i] # End
      BY <1>10 DEF NoStop, Stops
    <2>2. QED
      BY <1>1, <1>2, <2>1 DEF EndIsLast
  <1>13. closer' = "none" \/ closer' = "marker" \/ ~closing' => FALSE
    BY <1>1, <1>3 DEF PlainInv, LineInv, NoStop, Stops
  <1>14. QED
    BY <1>1, <1>9, <1>11, <1>12, <1>13 DEF PlainInv, LineInv

\* The writer ends otherwise: what it has not flushed is lost.
LEMMA WriterEnds ==
  ASSUME PlainInv,
         writer'.pc = "ended", outbound' = << >>, buffered' = << >>,
         UNCHANGED << wire, sender, before, closing >>,
         closer' = closer \/ (closer' = "done" /\ closer \in Flushing)
  PROVE  LineInv'
  <1>1. Line' = wire
    <2>1. InHand' = << >>
      BY DEF InHand
    <2>2. Line' = wire \o << >> \o << >> \o << >>
      BY <2>1 DEF Line
    <2>3. QED
      BY <2>2, LineType
  <1>2. Numbered(Line, sender) /\ Bounded(Line, before)
    BY DEF PlainInv, LineInv
  <1>3. Len(wire) \in 0 .. Len(Line) /\ Len(Line) \in Nat /\ \A i \in 1 .. Len(wire) : wire[i] = Line[i]
    BY WireIsFront
  <1>4. Numbered(wire, sender) /\ Bounded(wire, before) /\ (NoStop(Line) => NoStop(wire))
    BY <1>2, <1>3, CutLine
  <1>5. QED
    BY <1>1, <1>4 DEF LineInv, PlainInv, EndIsLast, Flushing

LEMMA PlainInitInv == PlainInit => PlainInv
  <1> SUFFICES ASSUME PlainInit PROVE PlainInv
    OBVIOUS
  <1>1. PlainTypeOK
    <2>1. outbound \in Seq(Frame \cup {Marker}) /\ Len(outbound) <= QueueSize
          /\ buffered \in Seq(Frame) /\ wire \in Seq(Frame \cup {End})
      BY PlainConnectionAssumption DEF PlainInit
    <2>2. 0 \in 0 .. MaxSends
      BY PlainConnectionAssumption
    <2>3. QED
      BY <2>1, <2>2 DEF PlainInit, PlainTypeOK
  <1>2. Line = << >>
    BY DEF PlainInit, Line, InHand
  <1>3. LineInv
    BY <1>2 DEF PlainInit, LineInv, Numbered, Bounded, EndIsLast, NoStop, OnLine
  <1>4. QED
    BY <1>1, <1>3 DEF PlainInv

LEMMA LineStep ==
  ASSUME PlainInv, PlainNext
  PROVE  LineInv'
  <1>1. ASSUME MarkClosed, UNCHANGED << wire, sender, before, closing >>,
               closer' = closer \/ (closer' = "done" /\ closer \in Flushing)
        PROVE  LineInv'
    BY <1>1, WriterEnds DEF MarkClosed
  <1>2. CASE CloseNow \/ CloseReturns \/ ReaderDrained \/ ReaderFails \/ WriterFails
    BY <1>1, <1>2 DEF CloseNow, CloseReturns, ReaderDrained, ReaderFails, WriterFails
  <1>3. CASE ReaderEnds /\ closing
    BY <1>1, <1>3 DEF ReaderEnds, BeginClosing
  <1>4. CASE ShutdownFails
    BY <1>4, WriterEnds DEF ShutdownFails, flags
  <1>5. CASE Close \/ CloseDropped \/ PeerCloses \/ (ReaderEnds /\ ~closing)
    <2>1. /\ UNCHANGED << outbound, writer, buffered, wire, closed, sender >>
          /\ closing => closing'
          /\ \/ closer' = closer
             \/ closer \in Flushing /\ closer' = "dropped" /\ closing
             \/ ~closing /\ closer' = "marker"
          /\ closer' # "none" => closing'
          /\ before' = before \/ (~closing /\ before' = [t \in Sender |-> sender[t].sent])
      BY <1>5 DEF Close, CloseDropped, PeerCloses, ReaderEnds, BeginClosing, flags, Flushing, PlainInv,
                  LineInv
    <2>2. \A t \in Sender : /\ sender'[t].sent = sender[t].sent
                            /\ sender'[t].pc = "queue" => sender[t].sent < MaxSends
      BY <2>1 DEF PlainInv, LineInv
    <2>3. QED
      BY <2>1, <2>2, NothingMoves
  <1>6. CASE CloseQueues
    BY <1>6, CloseQueuesMoves
  <1>7. CASE WriterTakes \/ WriterWrites \/ WriterFlushes
    BY <1>7, WriterMoves
  <1>8. CASE WriterShutsDown
    BY <1>8, ShutDownMoves
  <1>9. ASSUME NEW t \in Sender, SendStep(t) PROVE LineInv'
    <2>1. CASE SendQueues(t)
      BY <2>1, SendQueuesMoves
    <2>2. CASE SendChecks(t) \/ SendFails(t)
      <3>1. /\ UNCHANGED << outbound, writer, buffered, wire, closed, closing, closer, before >>
            /\ closer' # "none" => closing'
        BY <2>2 DEF SendChecks, SendFails, flags, PlainInv, LineInv
      <3>2. /\ \A u \in Sender : sender'[u].sent = sender[u].sent
            /\ \A u \in Sender : sender'[u].pc = "queue" => sender[u].sent < MaxSends
        <4>1. \A u \in Sender : sender'[u].sent = sender[u].sent
          <5>1. PICK p : sender' = [sender EXCEPT ![t].pc = p]
            BY <2>2 DEF SendChecks, SendFails
          <5>2. QED
            BY <5>1 DEF PlainInv, PlainTypeOK
        <4>2. \A u \in Sender : sender'[u].pc = "queue" => sender[u].sent < MaxSends
          <5> SUFFICES ASSUME NEW u \in Sender, sender'[u].pc = "queue" PROVE sender[u].sent < MaxSends
            OBVIOUS
          <5>1. CASE u = t
            <6>1. CASE SendChecks(t)
              BY <5>1, <6>1 DEF SendChecks
            <6>2. CASE SendFails(t)
              BY <5>1, <6>2 DEF SendFails, PlainInv, PlainTypeOK
            <6>3. QED
              BY <2>2, <6>1, <6>2
          <5>2. CASE u # t
            BY <2>2, <5>2 DEF SendChecks, SendFails, PlainInv, LineInv, PlainTypeOK
          <5>3. QED
            BY <5>1, <5>2
        <4>3. QED
          BY <4>1, <4>2
      <3>3. QED
        BY <3>1, <3>2, NothingMoves
    <2>3. QED
      BY <1>9, <2>1, <2>2 DEF SendStep
  <1>10. QED
    BY <1>2, <1>3, <1>4, <1>5, <1>6, <1>7, <1>8, <1>9 DEF PlainNext, WriterStep

LEMMA PlainStep ==
  ASSUME PlainInv, [PlainNext]_plainVars
  PROVE  PlainInv'
  <1>1. CASE UNCHANGED plainVars
    <2>1. PlainTypeOK'
      BY <1>1 DEF plainVars, flags, PlainInv, PlainTypeOK
    <2>2. /\ UNCHANGED << outbound, writer, buffered, wire, closed, sender, closing, closer, before >>
          /\ closer' # "none" => closing'
      BY <1>1 DEF plainVars, flags, PlainInv, LineInv
    <2>3. \A t \in Sender : /\ sender'[t].sent = sender[t].sent
                            /\ sender'[t].pc = "queue" => sender[t].sent < MaxSends
      BY <2>2 DEF PlainInv, LineInv
    <2>4. LineInv'
      BY <2>2, <2>3, NothingMoves
    <2>5. QED
      BY <2>1, <2>4 DEF PlainInv
  <1>2. CASE PlainNext
    BY <1>2, PlainTypeStep, LineStep DEF PlainInv
  <1>3. QED
    BY <1>1, <1>2

\* What the wire holds is the front of the line, and the end of it closes the line.
LEMMA PlainInvClean == PlainInv => CleanCloseWrites
  <1> SUFFICES ASSUME PlainInv PROVE CleanCloseWrites
    OBVIOUS
  <1>1. Numbered(Line, sender) /\ Bounded(Line, before) /\ EndIsLast
    BY DEF PlainInv, LineInv
  <1>2. Len(wire) \in 0 .. Len(Line) /\ Len(Line) \in Nat /\ \A i \in 1 .. Len(wire) : wire[i] = Line[i]
    BY WireIsFront
  <1>3. Numbered(wire, sender) /\ Bounded(wire, before)
    BY <1>1, <1>2, CutLine
  <1>4. \A t \in Sender, n \in 1 .. MaxSends, i \in 1 .. Len(wire) :
          wire[i] = << t, n >> =>
            /\ \A m \in 1 .. n - 1 : \E j \in 1 .. i - 1 : wire[j] = << t, m >>
            /\ \A j \in 1 .. i - 1 : wire[j] # wire[i]
    BY <1>3, Zenon DEF Numbered
  <1>5. Ended => \A t \in Sender : \A n \in 1 .. before[t] : Readable(<< t, n >>)
    <2>1. ASSUME NEW i \in 1 .. Len(wire), wire[i] = End, NEW t \in Sender, NEW n \in 1 .. before[t]
          PROVE  Readable(<< t, n >>)
      <3>1. \E j \in 1 .. i - 1 : wire[j] = << t, n >>
        BY <1>3, <2>1, Zenon DEF Bounded, Stops
      <3>2. \A j \in 1 .. i - 1 : j \in 1 .. Len(wire)
        BY <1>2
      <3>3. QED
        BY <3>1, <3>2, Zenon DEF Readable
    <2>2. QED
      BY <2>1 DEF Ended, Readable
  <1>6. QED
    BY <1>1, <1>4, <1>5 DEF CleanCloseWrites, EndIsLast

\* The peer of a v2 connection reads each task's frames in order and once, and with
\* the end of the stream all that were queued when close began, whatever fails.
THEOREM CleanClose == PlainSpec => []CleanCloseWrites
  <1>1. PlainSpec => []PlainInv
    BY PlainInitInv, PlainStep, PTL DEF PlainSpec
  <1>2. QED
    BY <1>1, PlainInvClean, PTL

-----------------------------------------------------------------------------
(* Who holds a connection.                                                 *)

\* Who a handle belongs to, and what keeps the connection in memory until it closes.
OwnerInv ==
  /\ \A t \in Sender : t \in handles => t \in streams
  /\ "handler" \in handles => handler = "gate"
  /\ \A i \in Task : i \in handles => tasks[i] = "run"
  /\ table \subseteq decoding
  /\ closed <=> ~default
  /\ closed => table = {}
  /\ ~closed => "default" \in table

\* Who closes: a call of close borrows the connection, or is the background one.
CloserInv ==
  /\ dropper # "none" => handles = {}
  /\ handles = {} => closed \/ dropper # "none"
  /\ dropper = "closing" => closer \in Flushing
  /\ closer \in Flushing => "conn" \in handles \/ dropper = "closing"
-----------------------------------------------------------------------------
\* A step of the owners is a step of the connection or none.
LEMMA OwnIsPlain ==
  ASSUME OwnNext
  PROVE  [PlainNext]_plainVars
  <1> SUFFICES PlainNext \/ UNCHANGED plainVars
    OBVIOUS
  <1>1. ASSUME NEW h, Release(h) PROVE PlainNext \/ UNCHANGED plainVars
    BY <1>1, Zenon DEF Release, PlainNext
  <1>2. CASE AppCloses \/ AppDropsClose \/ CloseContinues \/ AppReturns
    BY <1>2, Zenon DEF AppCloses, AppDropsClose, CloseContinues, AppReturns, ConnectionSteps, PlainNext
  <1>3. CASE ConnectionSteps(PeerCloses \/ ReaderEnds \/ ReaderDrained \/ ReaderFails \/ WriterStep)
    BY <1>3, Zenon DEF ConnectionSteps, PlainNext
  <1>4. ASSUME NEW t \in Sender, AppSends(t) \/ NewStream(t) PROVE PlainNext \/ UNCHANGED plainVars
    BY <1>4, Zenon DEF AppSends, NewStream, ConnectionSteps, PlainNext
  <1>5. ASSUME NEW h \in handles, DropHandle(h) PROVE PlainNext \/ UNCHANGED plainVars
    BY <1>1, <1>5, Zenon DEF DropHandle
  <1>6. ASSUME NEW s \in decoding, DecodeEnds(s) PROVE UNCHANGED plainVars
    BY <1>6, Zenon DEF DecodeEnds
  <1>7. CASE DropperCloses \/ DropperReturns
    BY <1>7, Zenon DEF DropperCloses, DropperReturns, PlainNext
  <1>8. CASE TaskHandle \/ TaskBusy
    BY <1>1, <1>8, Zenon DEF TaskHandle, TaskBusy
  <1>9. ASSUME NEW i \in Task, TaskStarts(i) \/ TaskEnds(i) \/ TaskClears(i)
        PROVE PlainNext \/ UNCHANGED plainVars
    BY <1>1, <1>9, Zenon DEF TaskStarts, TaskEnds, TaskClears
  <1>10. QED
    BY <1>2, <1>3, <1>4, <1>5, <1>6, <1>7, <1>8, <1>9, Zenon DEF OwnNext

\* What a step does to the variables that the gate of new_task reads.
LEMMA OneTaskStep ==
  ASSUME OneTask, tasks \in [Task -> {"none", "run", "guard"}], [OwnNext]_allVars
  PROVE  OneTask' /\ tasks' \in [Task -> {"none", "run", "guard"}]
  <1>1. CASE UNCHANGED << active, tasks >>
    BY <1>1 DEF OneTask
  <1>2. ASSUME NEW i \in Task, TaskStarts(i)
        PROVE  OneTask' /\ tasks' \in [Task -> {"none", "run", "guard"}]
    BY <1>2 DEF TaskStarts, OneTask
  <1>3. ASSUME NEW i \in Task, TaskEnds(i)
        PROVE  OneTask' /\ tasks' \in [Task -> {"none", "run", "guard"}]
    BY <1>3 DEF TaskEnds, OneTask
  <1>4. ASSUME NEW i \in Task, TaskClears(i)
        PROVE  OneTask' /\ tasks' \in [Task -> {"none", "run", "guard"}]
    BY <1>4 DEF TaskClears, OneTask
  <1>5. UNCHANGED << active, tasks >> \/ \E i \in Task : TaskStarts(i) \/ TaskEnds(i) \/ TaskClears(i)
    <2>1. CASE AppCloses \/ AppDropsClose \/ CloseContinues \/ AppReturns
      BY <2>1, Zenon DEF AppCloses, AppDropsClose, CloseContinues, AppReturns, ConnectionSteps
    <2>2. CASE ConnectionSteps(PeerCloses \/ ReaderEnds \/ ReaderDrained \/ ReaderFails \/ WriterStep)
      BY <2>2, Zenon DEF ConnectionSteps
    <2>3. ASSUME NEW t \in Sender, AppSends(t) \/ NewStream(t) PROVE UNCHANGED << active, tasks >>
      BY <2>3, Zenon DEF AppSends, NewStream, ConnectionSteps
    <2>4. ASSUME NEW h \in handles, DropHandle(h) PROVE UNCHANGED << active, tasks >>
      BY <2>4, Zenon DEF DropHandle
    <2>5. ASSUME NEW s \in decoding, DecodeEnds(s) PROVE UNCHANGED << active, tasks >>
      BY <2>5, Zenon DEF DecodeEnds
    <2>6. CASE DropperCloses \/ DropperReturns \/ TaskHandle \/ TaskBusy
      BY <2>6, Zenon DEF DropperCloses, DropperReturns, TaskHandle, TaskBusy
    <2>7. CASE UNCHANGED allVars
      BY <2>7 DEF allVars, ownVars
    <2>8. QED
      BY <2>1, <2>2, <2>3, <2>4, <2>5, <2>6, <2>7, Zenon DEF OwnNext
  <1>6. QED
    BY <1>1, <1>2, <1>3, <1>4, <1>5, Zenon

-----------------------------------------------------------------------------
OwnInv == PlainInv /\ OwnTypeOK /\ OwnerInv /\ CloserInv

\* What the steps of the connection do to closing and to the call of close.
LEMMA PlainEffects ==
  ASSUME PlainInv
  PROVE  /\ Close => closed' = closed /\ closer' = "marker"
         /\ CloseNow => closed' = TRUE /\ closer' = closer
         /\ CloseDropped => closed' = closed /\ closer' \notin Flushing
         /\ CloseQueues => closed' = closed /\ closer \in Flushing /\ closer' \in Flushing
         /\ CloseReturns => closed' = TRUE /\ closer' \notin Flushing
         /\ PeerCloses \/ ReaderEnds \/ ReaderDrained \/ ReaderFails \/ WriterStep =>
              closed' \in {closed, TRUE} /\ (closer \in Flushing <=> closer' \in Flushing)
         /\ \A t \in Sender : SendStep(t) => closed' = closed /\ closer' = closer
  <1>1. ASSUME PeerCloses \/ ReaderEnds \/ ReaderDrained \/ ReaderFails
        PROVE  closed' \in {closed, TRUE} /\ closer' = closer
    BY <1>1 DEF PeerCloses, ReaderEnds, ReaderDrained, ReaderFails, MarkClosed, flags
  <1>2. ASSUME WriterStep
        PROVE  closed' \in {closed, TRUE} /\ (closer \in Flushing <=> closer' \in Flushing)
    BY <1>2 DEF WriterStep, WriterTakes, WriterWrites, WriterFlushes, WriterShutsDown, WriterFails,
                ShutdownFails, MarkClosed, flags, Flushing
  <1>3. ASSUME NEW t \in Sender, SendStep(t) PROVE closed' = closed /\ closer' = closer
    BY <1>3 DEF SendStep, SendChecks, SendQueues, SendFails, flags
  <1>4. QED
    BY <1>1, <1>2, <1>3
    DEF Close, CloseNow, CloseDropped, CloseQueues, CloseReturns, MarkClosed, flags, Flushing

\* What closing does to the stream table and the default stream.
LEMMA TableStep ==
  ASSUME OwnInv, PlainTypeOK', closed' \in {closed, TRUE}, CloseAllStreams
  PROVE  /\ default' \in BOOLEAN /\ table' \subseteq table
         /\ (closed <=> ~default)' /\ (closed => table = {})' /\ (~closed => "default" \in table)'
  <1>1. /\ closed \in BOOLEAN /\ closed' \in BOOLEAN /\ default \in BOOLEAN /\ default' \in BOOLEAN
        /\ table' = IF closed' /\ ~closed THEN {} ELSE table
        /\ default' = (default /\ (closed' => closed))
    BY DEF OwnInv, OwnTypeOK, PlainTypeOK, CloseAllStreams
  <1>2. (closed <=> ~default)' /\ (closed => table = {})' /\ (~closed => "default" \in table)'
    BY <1>1 DEF OwnInv, OwnerInv
  <1>3. QED
    BY <1>1, <1>2

\* A step that closes at most, with the handles as they are.
LEMMA HandlesKept ==
  ASSUME OwnInv, PlainTypeOK', closed' \in {closed, TRUE}, CloseAllStreams,
         UNCHANGED << handles, streams, handler, tasks >>, active' \in BOOLEAN,
         decoding' \subseteq decoding, table' \subseteq decoding',
         dropper' \in {"none", "spawned", "closing"},
         dropper' # "none" => handles = {},
         handles = {} => closed' \/ dropper' # "none",
         dropper' = "closing" => closer' \in Flushing,
         closer' \in Flushing => "conn" \in handles \/ dropper' = "closing"
  PROVE  OwnTypeOK' /\ OwnerInv' /\ CloserInv'
  <1>1. /\ default' \in BOOLEAN /\ table' \subseteq table
        /\ (closed <=> ~default)' /\ (closed => table = {})' /\ (~closed => "default" \in table)'
    BY TableStep
  <1>2. OwnTypeOK'
    BY <1>1 DEF OwnInv, OwnTypeOK
  <1>4. OwnerInv'
    BY <1>1 DEF OwnInv, OwnerInv
  <1>5. CloserInv'
    BY DEF CloserInv
  <1>6. QED
    BY <1>2, <1>4, <1>5

\* A handle that is released.
LEMMA ReleaseStep ==
  ASSUME OwnInv, NEW h \in handles, Release(h), PlainTypeOK', h = "conn" => closer \notin Flushing
  PROVE  /\ handles' = handles \ {h} /\ CloseAllStreams
         /\ closed' \in {closed, TRUE} /\ closer' = closer
         /\ dropper' \in {"none", "spawned"} /\ dropper = "none"
         /\ dropper' # "none" => handles' = {}
         /\ handles' = {} => closed' \/ dropper' # "none"
         /\ closer' \in Flushing => "conn" \in handles'
  <1>1. dropper = "none"
    BY DEF OwnInv, CloserInv
  <1>2. closed' \in {closed, TRUE} /\ closer' = closer
    BY PlainEffects DEF Release, plainVars, flags, OwnInv
  <1>3. /\ handles' = handles \ {h} /\ CloseAllStreams
        /\ \/ handles' # {} /\ dropper' = dropper
           \/ handles' = {} /\ dropper' = "spawned"
           \/ handles' = {} /\ dropper' = dropper /\ closed'
    <2>1. CloseNow => closed'
      BY PlainEffects DEF OwnInv
    <2>2. UNCHANGED plainVars => closed' = closed
      BY DEF plainVars, flags
    <2>3. CASE handles # {h}
      BY <2>3 DEF Release
    <2>4. CASE handles = {h}
      BY <2>1, <2>2, <2>4 DEF Release
    <2>5. QED
      BY <2>3, <2>4
  <1>4. closer \in Flushing => "conn" \in handles /\ h # "conn"
    BY <1>1 DEF OwnInv, CloserInv
  <1>5. QED
    BY <1>1, <1>2, <1>3, <1>4

LEMMA OwnInvInit == OwnInit => OwnInv
  <1> SUFFICES ASSUME OwnInit PROVE OwnInv
    OBVIOUS
  <1>1. PlainInv /\ PlainTypeOK
    BY PlainInitInv DEF OwnInit, PlainInv
  <1>2. closer = "none" /\ closed = FALSE
    BY DEF OwnInit, PlainInit
  <1>3. OwnTypeOK
    BY <1>1 DEF OwnInit, OwnTypeOK
  <1>4. OwnerInv
    BY <1>2, OwnershipAssumption DEF OwnInit, OwnerInv
  <1>5. CloserInv
    BY <1>2 DEF OwnInit, CloserInv, Flushing
  <1>6. QED
    BY <1>1, <1>3, <1>4, <1>5 DEF OwnInv

\* What a caller, a sender or the connection itself does leaves the handles.
LEMMA ConnectionOwn ==
  ASSUME OwnInv, PlainTypeOK', CloseAllStreams,
         UNCHANGED << handles, streams, decoding, dropper, handler, active, tasks >>,
         closed' \in {closed, TRUE},
         \/ closer' \in Flushing <=> closer \in Flushing
         \/ closer' \in Flushing /\ "conn" \in handles
         \/ closer' \notin Flushing /\ dropper # "closing"
  PROVE  OwnTypeOK' /\ OwnerInv' /\ CloserInv'
  <1>1. /\ active' \in BOOLEAN /\ decoding' \subseteq decoding /\ closed \in BOOLEAN
        /\ dropper' \in {"none", "spawned", "closing"}
    BY DEF OwnInv, OwnTypeOK, PlainTypeOK
  <1>2. table' \subseteq decoding'
    BY DEF CloseAllStreams, OwnInv, OwnerInv
  <1>3. /\ dropper' # "none" => handles = {}
        /\ handles = {} => closed' \/ dropper' # "none"
        /\ dropper' = "closing" => closer' \in Flushing
        /\ closer' \in Flushing => "conn" \in handles \/ dropper' = "closing"
    BY <1>1 DEF OwnInv, CloserInv
  <1>4. QED
    BY <1>1, <1>2, <1>3, HandlesKept

LEMMA CallersOwn ==
  ASSUME OwnInv, PlainTypeOK',
         AppCloses \/ AppDropsClose \/ CloseContinues \/ AppReturns
         \/ ConnectionSteps(PeerCloses \/ ReaderEnds \/ ReaderDrained \/ ReaderFails \/ WriterStep)
  PROVE  OwnTypeOK' /\ OwnerInv' /\ CloserInv'
  <1>0. PlainInv
    BY DEF OwnInv
  <1>1. CASE AppCloses
    <2>1. closed' \in {closed, TRUE} /\ (closer' = closer \/ (closer' = "marker" /\ "conn" \in handles))
      BY <1>0, <1>1, PlainEffects DEF AppCloses, ConnectionSteps
    <2>2. QED
      BY <1>1, <2>1, ConnectionOwn DEF AppCloses, ConnectionSteps, Flushing
  <1>2. CASE AppDropsClose
    BY <1>0, <1>2, PlainEffects, ConnectionOwn DEF AppDropsClose, ConnectionSteps
  <1>3. CASE CloseContinues
    BY <1>0, <1>3, PlainEffects, ConnectionOwn DEF CloseContinues, ConnectionSteps
  <1>4. CASE AppReturns
    BY <1>0, <1>4, PlainEffects, ConnectionOwn DEF AppReturns, ConnectionSteps
  <1>5. CASE ConnectionSteps(PeerCloses \/ ReaderEnds \/ ReaderDrained \/ ReaderFails \/ WriterStep)
    BY <1>0, <1>5, PlainEffects, ConnectionOwn DEF ConnectionSteps
  <1>6. QED
    BY <1>1, <1>2, <1>3, <1>4, <1>5

LEMMA SenderOwn ==
  ASSUME OwnInv, PlainTypeOK', NEW t \in Sender, AppSends(t)
  PROVE  OwnTypeOK' /\ OwnerInv' /\ CloserInv'
  BY PlainEffects, ConnectionOwn DEF AppSends, ConnectionSteps, OwnInv

\* The background close.
LEMMA DropperOwn ==
  ASSUME OwnInv, PlainTypeOK', DropperCloses \/ DropperReturns
  PROVE  OwnTypeOK' /\ OwnerInv' /\ CloserInv'
  <1>0. PlainInv /\ closed \in BOOLEAN
    BY DEF OwnInv, PlainInv, PlainTypeOK
  <1>1. /\ UNCHANGED << handles, streams, decoding, handler, active, tasks >> /\ CloseAllStreams
        /\ dropper # "none"
    BY DEF DropperCloses, DropperReturns
  <1>2. handles = {}
    BY <1>1 DEF OwnInv, CloserInv
  <1>3. \/ closed' = closed /\ closer' = "marker" /\ dropper' = "closing"
        \/ closed' = TRUE /\ closer' \notin Flushing /\ dropper' = "none"
    <2>1. CASE DropperReturns
      BY <1>0, <2>1, PlainEffects DEF DropperReturns
    <2>2. CASE DropperCloses
      <3>1. closer \notin Flushing
        BY <1>2, <2>2 DEF OwnInv, CloserInv, DropperCloses
      <3>2. CASE Close /\ dropper' = "closing"
        BY <1>0, <3>2, PlainEffects
      <3>3. CASE closing /\ CloseNow /\ dropper' = "none"
        BY <1>0, <3>1, <3>3, PlainEffects
      <3>4. CASE closed /\ closing /\ UNCHANGED plainVars /\ dropper' = "none"
        BY <1>0, <3>1, <3>4 DEF plainVars, flags
      <3>5. QED
        BY <2>2, <3>2, <3>3, <3>4 DEF DropperCloses
    <2>3. QED
      BY <2>1, <2>2
  <1>4. "marker" \in Flushing
    BY DEF Flushing
  <1>5. active' \in BOOLEAN /\ decoding' \subseteq decoding /\ table' \subseteq decoding'
    BY <1>1 DEF CloseAllStreams, OwnInv, OwnerInv, OwnTypeOK
  <1>6. QED
    BY <1>0, <1>1, <1>2, <1>3, <1>4, <1>5, HandlesKept

\* Streams are opened and end; tasks get their handle, start and end.
LEMMA StreamsOwn ==
  ASSUME OwnInv, PlainTypeOK',
         (\E t \in Sender : NewStream(t)) \/ (\E s \in decoding : DecodeEnds(s))
  PROVE  OwnTypeOK' /\ OwnerInv' /\ CloserInv'
  <1>1. UNCHANGED << closed, closer, default, dropper, handler, active, tasks >>
    BY DEF NewStream, DecodeEnds, plainVars, flags
  <1>2. CASE \E t \in Sender : NewStream(t)
    <2>1. PICK t \in Sender : NewStream(t)
      BY <1>2
    <2>2. /\ "conn" \in handles /\ streams' = streams \cup {t} /\ handles' = handles \cup {t}
          /\ table' = IF closed THEN table ELSE table \cup {t}
          /\ decoding' = IF closed THEN decoding ELSE decoding \cup {t}
      BY <2>1 DEF NewStream
    <2>3. OwnTypeOK'
      BY <1>1, <2>2 DEF OwnInv, OwnTypeOK
    <2>4. OwnerInv'
      BY <1>1, <2>2, OwnershipAssumption DEF OwnInv, OwnerInv
    <2>5. CloserInv'
      BY <1>1, <2>2 DEF OwnInv, CloserInv
    <2>6. QED
      BY <2>3, <2>4, <2>5
  <1>3. CASE \E s \in decoding : DecodeEnds(s)
    <2>1. PICK s \in decoding : DecodeEnds(s)
      BY <1>3
    <2>2. s \notin table /\ decoding' = decoding \ {s} /\ UNCHANGED << handles, streams, table >>
      BY <2>1 DEF DecodeEnds
    <2>3. OwnTypeOK' /\ OwnerInv' /\ CloserInv'
      BY <1>1, <2>2 DEF OwnInv, OwnTypeOK, OwnerInv, CloserInv
    <2>4. QED
      BY <2>3
  <1>4. QED
    BY <1>2, <1>3

LEMMA TasksOwn ==
  ASSUME OwnInv, PlainTypeOK',
         TaskHandle \/ \E i \in Task : TaskStarts(i) \/ TaskClears(i)
  PROVE  OwnTypeOK' /\ OwnerInv' /\ CloserInv'
  <1>1. UNCHANGED << closed, closer, default, dropper, streams, table, decoding >>
    BY DEF TaskHandle, TaskStarts, TaskClears, plainVars, flags
  <1>2. CASE TaskHandle
    <2>1. /\ handler' = "gate" /\ UNCHANGED << active, tasks >>
          /\ handles' = IF handles = {} THEN {} ELSE handles \cup {"handler"}
      BY <1>2 DEF TaskHandle
    <2>2. OwnTypeOK' /\ CloserInv'
      BY <1>1, <2>1 DEF OwnInv, OwnTypeOK, CloserInv
    <2>3. OwnerInv'
      BY <1>1, <2>1, OwnershipAssumption DEF OwnInv, OwnerInv
    <2>4. QED
      BY <2>2, <2>3
  <1>3. ASSUME NEW i \in Task, TaskStarts(i) PROVE OwnTypeOK' /\ OwnerInv' /\ CloserInv'
    <2>1. /\ active' = TRUE /\ tasks' = [tasks EXCEPT ![i] = "run"] /\ handler' = "idle"
          /\ handles' = IF "handler" \in handles THEN (handles \ {"handler"}) \cup {i} ELSE handles
      BY <1>3 DEF TaskStarts
    <2>2. OwnTypeOK'
      BY <1>1, <2>1 DEF OwnInv, OwnTypeOK
    <2>3. OwnerInv'
      BY <1>1, <2>1, OwnershipAssumption DEF OwnInv, OwnerInv, OwnTypeOK
    <2>4. CloserInv'
      BY <1>1, <2>1 DEF OwnInv, CloserInv
    <2>5. QED
      BY <2>2, <2>3, <2>4
  <1>4. ASSUME NEW i \in Task, TaskClears(i) PROVE OwnTypeOK' /\ OwnerInv' /\ CloserInv'
    <2>1. /\ active' = FALSE /\ tasks' = [tasks EXCEPT ![i] = "none"] /\ UNCHANGED << handler, handles >>
          /\ tasks[i] = "guard"
      BY <1>4 DEF TaskClears
    <2>2. OwnTypeOK' /\ CloserInv'
      BY <1>1, <2>1 DEF OwnInv, OwnTypeOK, CloserInv
    <2>3. OwnerInv'
      BY <1>1, <2>1 DEF OwnInv, OwnerInv, OwnTypeOK
    <2>4. QED
      BY <2>2, <2>3
  <1>5. QED
    BY <1>2, <1>3, <1>4

\* Handles are released: by their holder, by a task that may not start, by one that ends.
LEMMA ReleaseOwn ==
  ASSUME OwnInv, PlainTypeOK', NEW h \in handles, Release(h), h = "conn" => closer \notin Flushing,
         UNCHANGED << streams, decoding, active >>,
         handler' \in {"idle", "gate"}, tasks' \in [Task -> {"none", "run", "guard"}],
         handler' = handler \/ h = "handler",
         \A i \in Task : tasks'[i] = tasks[i] \/ h = i
  PROVE  OwnTypeOK' /\ OwnerInv' /\ CloserInv'
  <1>1. /\ handles' = handles \ {h} /\ CloseAllStreams
        /\ closed' \in {closed, TRUE} /\ closer' = closer
        /\ dropper' \in {"none", "spawned"} /\ dropper = "none"
        /\ dropper' # "none" => handles' = {}
        /\ handles' = {} => closed' \/ dropper' # "none"
        /\ closer' \in Flushing => "conn" \in handles'
    BY ReleaseStep
  <1>2. /\ default' \in BOOLEAN /\ table' \subseteq table
        /\ (closed <=> ~default)' /\ (closed => table = {})' /\ (~closed => "default" \in table)'
    BY <1>1, TableStep
  <1>3. OwnTypeOK'
    BY <1>1, <1>2 DEF OwnInv, OwnTypeOK
  <1>4. table' \subseteq decoding'
    BY <1>2 DEF OwnInv, OwnerInv
  <1>5. OwnerInv'
    <2>1. /\ \A t \in Sender : t \in handles' => t \in streams'
          /\ \A i \in Task : i \in handles' => tasks'[i] = "run"
      BY <1>1 DEF OwnInv, OwnerInv
    <2>2. "handler" \in handles' => handler' = "gate"
      BY <1>1 DEF OwnInv, OwnerInv
    <2>3. QED
      BY <1>2, <1>4, <2>1, <2>2 DEF OwnerInv
  <1>6. CloserInv'
    BY <1>1 DEF CloserInv
  <1>7. QED
    BY <1>3, <1>5, <1>6

LEMMA ReleasesOwn ==
  ASSUME OwnInv, PlainTypeOK',
         (\E h \in handles : DropHandle(h)) \/ TaskBusy \/ (\E i \in Task : TaskEnds(i))
  PROVE  OwnTypeOK' /\ OwnerInv' /\ CloserInv'
  <1>0. tasks \in [Task -> {"none", "run", "guard"}] /\ handler \in {"idle", "gate"}
        /\ "conn" \notin Task /\ "handler" \notin Task
    BY OwnershipAssumption DEF OwnInv, OwnTypeOK
  <1>1. ASSUME NEW h \in handles, DropHandle(h) PROVE OwnTypeOK' /\ OwnerInv' /\ CloserInv'
    BY <1>0, <1>1, ReleaseOwn DEF DropHandle
  <1>2. CASE TaskBusy
    <2>1. CASE "handler" \in handles
      BY <1>0, <1>2, <2>1, ReleaseOwn DEF TaskBusy
    <2>2. CASE "handler" \notin handles
      <3>1. /\ UNCHANGED << closed, closer, handles, dropper, table, default, active, streams,
                          decoding, tasks >>
            /\ handler' = "idle"
        BY <1>2, <2>2 DEF TaskBusy, plainVars, flags
      <3>2. QED
        BY <2>2, <3>1 DEF OwnInv, OwnTypeOK, OwnerInv, CloserInv
    <2>3. QED
      BY <2>1, <2>2
  <1>3. ASSUME NEW i \in Task, TaskEnds(i) PROVE OwnTypeOK' /\ OwnerInv' /\ CloserInv'
    <2>1. tasks' = [tasks EXCEPT ![i] = "guard"] /\ UNCHANGED << streams, decoding, handler, active >>
      BY <1>3 DEF TaskEnds
    <2>2. tasks' \in [Task -> {"none", "run", "guard"}] /\ \A j \in Task : tasks'[j] = tasks[j] \/ i = j
      BY <1>0, <2>1
    <2>3. CASE i \in handles
      BY <1>0, <1>3, <2>1, <2>2, <2>3, ReleaseOwn DEF TaskEnds
    <2>4. CASE i \notin handles
      <3>1. UNCHANGED << closed, closer, handles, dropper, table, default >>
        BY <1>3, <2>4 DEF TaskEnds, plainVars, flags
      <3>2. OwnTypeOK' /\ CloserInv'
        BY <2>1, <2>2, <3>1 DEF OwnInv, OwnTypeOK, CloserInv
      <3>3. OwnerInv'
        BY <2>1, <2>2, <2>4, <3>1 DEF OwnInv, OwnerInv
      <3>4. QED
        BY <3>2, <3>3
    <2>5. QED
      BY <2>3, <2>4
  <1>4. QED
    BY <1>1, <1>2, <1>3

LEMMA OwnStep ==
  ASSUME OwnInv, [OwnNext]_allVars
  PROVE  OwnInv'
  <1>1. PlainInv'
    <2>1. [PlainNext]_plainVars
      BY OwnIsPlain DEF allVars
    <2>2. QED
      BY <2>1, PlainStep DEF OwnInv
  <1>2. PlainTypeOK'
    BY <1>1 DEF PlainInv
  <1>3. CASE UNCHANGED allVars
    <2>1. UNCHANGED << closed, closer, handles, streams, table, default, decoding, dropper, handler,
                       active, tasks >>
      BY <1>3 DEF allVars, plainVars, flags, ownVars
    <2>2. OwnTypeOK' /\ OwnerInv' /\ CloserInv'
      BY <1>2, <2>1 DEF OwnInv, OwnTypeOK, OwnerInv, CloserInv
    <2>3. QED
      BY <1>1, <2>2 DEF OwnInv
  <1>4. CASE OwnNext
    <2>1. OwnTypeOK' /\ OwnerInv' /\ CloserInv'
      BY <1>2, <1>4, CallersOwn, SenderOwn, DropperOwn, StreamsOwn, TasksOwn, ReleasesOwn DEF OwnNext
    <2>2. QED
      BY <1>1, <2>1 DEF OwnInv
  <1>5. QED
    BY <1>3, <1>4

LEMMA OwnAlways == OwnSpec => []OwnInv
  BY OwnInvInit, OwnStep, PTL DEF OwnSpec

\* At most one task of a context runs, and the gate of new_task is shut exactly as long
\* as it does: the handle that a task gets, and its future, do not change that.
THEOREM OneTaskRuns == OwnSpec => []OneTask
  <1> DEFINE I == OneTask /\ tasks \in [Task -> {"none", "run", "guard"}]
  <1>1. OwnInit => I
    BY DEF OwnInit, OneTask
  <1>2. I /\ [OwnNext]_allVars => I'
    BY OneTaskStep
  <1>3. QED
    BY <1>1, <1>2, PTL DEF OwnSpec

\* An owned connection that closes loses no frame that was queued before, whoever
\* closes it and whatever is dropped meanwhile.
THEOREM OwnedCleanClose == OwnSpec => [](OwnTypeOK /\ CleanCloseWrites)
  <1>1. OwnInv => OwnTypeOK /\ CleanCloseWrites
    BY PlainInvClean DEF OwnInv
  <1>2. QED
    BY <1>1, OwnAlways, PTL

\* The drop of the last handle is never lost: a connection that nobody holds is closed,
\* or its background close is on its way; and a closed one has given up what refers
\* to it, its writer included.
UnownedCloses ==
  handles = {} => closed \/ dropper = "spawned" \/ (dropper = "closing" /\ closer \in Flushing)
ClosedLetsGo == closed => writer.pc = "ended" /\ outbound = << >> /\ table = {} /\ ~default

THEOREM LastDropCloses == OwnSpec => [](UnownedCloses /\ ClosedLetsGo)
  <1>1. OwnInv => UnownedCloses
    BY DEF OwnInv, OwnTypeOK, CloserInv, UnownedCloses
  <1>2. OwnInv => ClosedLetsGo
    BY DEF OwnInv, PlainInv, LineInv, OwnerInv, ClosedLetsGo
  <1>3. QED
    BY <1>1, <1>2, OwnAlways, PTL

=============================================================================
