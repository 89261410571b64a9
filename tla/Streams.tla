------------------------------ MODULE Streams -------------------------------
(***************************************************************************)
(* The logical streams of one connection: the client opens streams, sends  *)
(* on them and closes them with FIN; on the server the reader task routes  *)
(* every frame to its stream, a decode task per stream hands the messages  *)
(* on, and the application closes streams or the connection.  Only         *)
(* clients call new_stream, so the server never opens a stream itself.     *)
(*                                                                         *)
(* The tasks run on several threads: one access to the shared maps or      *)
(* queues is one step.  The transport delivers frames once and in order    *)
(* (Session.tla shows that for v3).  An inbox stands for a stream's inbox  *)
(* and for its handler queue, which are filled alike (inbox_q, handler_q). *)
(***************************************************************************)
EXTENDS Naturals, Sequences, FiniteSets

CONSTANTS
  Stream,       \* stream IDs; 0 is the default stream
  MaxMessages,  \* bound: messages the client sends on each stream
  QueueSize,    \* stream_queue_size
  Kinds         \* Kinds[n]: may message n be "good", or "bad", which fails to decode?

ASSUME StreamsAssumption ==
  /\ Stream \subseteq Nat
  /\ MaxMessages \in Nat
  /\ QueueSize \in Nat \ {0}
  /\ Kinds \in [1 .. MaxMessages -> SUBSET {"good", "bad"}]

VARIABLES
  opener,        \* client: opener[s] is the state of its stream s
  sender,        \* client: the message whose sender holds send_lock of s
  wire,          \* frames between the two
  closing,       \* client: its close() has begun
  sent,          \* history: messages put on the wire, per stream
  reader,        \* server: the reader task
  contexts,      \* server: stream_contexts, the registered streams
  default_stream,       \* server: is the default stream kept?
  closed_peer_streams,  \* server: IDs reserved until the client's FIN
  incoming,      \* server: incoming[s], frames waiting to be decoded
  inbox,         \* server: inbox[s], messages waiting for the application
  decode,        \* server: the decode task of stream s
  closer,        \* server: the application's close() of stream s
  closed,        \* server: StreamInner::closed
  conn,          \* server: the connection, "open", "closed" or "released"
  registered,    \* history: how often stream s was registered
  on_new,        \* history: the streams that on_new_stream has run for
  on_close,      \* history: how often on_close_stream ran for s
  delivered,     \* history: messages put into the inbox of s
  ended          \* history: the streams that their FIN released

client == << opener, sender, closing, sent >>
maps == << contexts, default_stream, closed_peer_streams >>
queues == << incoming, inbox, delivered >>
tasks == << reader, decode, closer >>
state == << closed, conn, registered, on_new, on_close, ended >>
server == << maps, queues, tasks, state >>
vars == << client, wire, server >>

None == [type |-> "none", s |-> 0, kind |-> "good", n |-> 0]
Data(s, kind, n) == [type |-> "data", s |-> s, kind |-> kind, n |-> n]
Fin(s) == [type |-> "fin", s |-> s, kind |-> "good", n |-> 0]
Eof == [None EXCEPT !.type = "eof"]

Init ==
  /\ opener = [s \in Stream |-> IF s = 0 THEN "open" ELSE "new"]
  /\ sender = [s \in Stream |-> None]
  /\ wire = << >>
  /\ closing = FALSE
  /\ sent = [s \in Stream |-> << >>]
  /\ reader = [pc |-> "read", frame |-> None, todo |-> {}, aborted |-> FALSE]
  /\ contexts = {}
  /\ default_stream = FALSE
  /\ closed_peer_streams = {}
  /\ incoming = [s \in Stream |-> << >>]
  /\ inbox = [s \in Stream |-> << >>]
  /\ decode = [s \in Stream |-> [pc |-> "none", frame |-> None]]
  /\ closer = [s \in Stream |-> "idle"]
  /\ closed = [s \in Stream |-> FALSE]
  /\ conn = "open"
  /\ registered = [s \in Stream |-> 0]
  /\ on_new = {}
  /\ on_close = [s \in Stream |-> 0]
  /\ delivered = [s \in Stream |-> << >>]
  /\ ended = {}

-----------------------------------------------------------------------------
(* The client.                                                             *)

\* new_stream.
NewStream(s) ==
  /\ opener[s] = "new"
  /\ opener' = [opener EXCEPT ![s] = "open"]
  /\ UNCHANGED << sender, closing, sent, wire, server >>

\* send_boxed takes send_lock and finds the stream open; otherwise it fails.
SendBegin(s, kind) ==
  /\ opener[s] = "open" /\ sender[s] = None /\ Len(sent[s]) < MaxMessages
  /\ kind \in Kinds[Len(sent[s]) + 1]
  /\ sender' = [sender EXCEPT ![s] = Data(s, kind, Len(sent[s]) + 1)]
  /\ UNCHANGED << opener, closing, sent, wire, server >>

\* enqueue_frame, and the lock is released.  It fails once a close has begun.
SendFrame(s) ==
  /\ sender[s] # None
  /\ sender' = [sender EXCEPT ![s] = None]
  /\ IF closing
     THEN UNCHANGED << wire, sent >>
     ELSE /\ wire' = Append(wire, sender[s])
          /\ sent' = [sent EXCEPT ![s] = Append(@, sender[s])]
  /\ UNCHANGED << opener, closing, server >>

\* Stream::close: FIN is started, except on stream 0, which is only removed.
CloseStream(s) ==
  /\ opener[s] = "open"
  /\ opener' = [opener EXCEPT ![s] = IF s = 0 THEN "closed" ELSE "fin"]
  /\ UNCHANGED << sender, closing, sent, wire, server >>

\* Mutant: send_fin does not wait for send_lock.
FinMayStartUnlocked(s) == opener[s] = "fin"

\* send_fin may take send_lock.
FinMayStart(s) == opener[s] = "fin" /\ sender[s] = None

\* send_fin, then the stream is removed.
SendFin(s) ==
  /\ FinMayStart(s)
  /\ wire' = IF closing THEN wire ELSE Append(wire, Fin(s))
  /\ opener' = [opener EXCEPT ![s] = "closed"]
  /\ UNCHANGED << sender, closing, sent, server >>

\* Connection::close: the frames queued before it are written, then the end.
CloseConnection ==
  /\ ~closing
  /\ closing' = TRUE
  /\ wire' = Append(wire, Eof)
  /\ UNCHANGED << opener, sender, sent, server >>

-----------------------------------------------------------------------------
(* Releasing a stream on the server.                                       *)

\* remove_stream: whoever takes the entry closes the stream, and runs the
\* callback if it calls notify_close.
RemoveStream(s, notifies) ==
  IF s \in contexts
  THEN /\ contexts' = contexts \ {s}
       /\ closed' = [closed EXCEPT ![s] = TRUE]
       /\ on_close' = [on_close EXCEPT ![s] = IF notifies THEN @ + 1 ELSE @]
  ELSE UNCHANGED << contexts, closed, on_close >>

\* remove_peer_stream is remove_stream after two steps of its own: is the
\* stream registered, and reserve its ID.
AfterCheck(s) == IF s # 0 /\ s \in contexts THEN "reserve" ELSE "remove"

\* Mutant: the ID is not reserved.
ReserveNothing(s) == UNCHANGED closed_peer_streams

Reserve(s) == closed_peer_streams' = closed_peer_streams \cup {s}

\* Stream::close by the application, once per stream that it was given.
AppClose(s) ==
  /\ closer[s] = "idle" /\ s \in on_new
  /\ closer' = [closer EXCEPT ![s] = AfterCheck(s)]
  /\ UNCHANGED << client, wire, maps, queues, reader, decode, state >>

AppReserve(s) ==
  /\ closer[s] = "reserve"
  /\ Reserve(s)
  /\ closer' = [closer EXCEPT ![s] = "remove"]
  /\ UNCHANGED << client, wire, contexts, default_stream, queues, reader, decode, state >>

AppRemove(s) ==
  /\ closer[s] = "remove"
  /\ RemoveStream(s, TRUE)
  /\ closer' = [closer EXCEPT ![s] = "done"]
  /\ UNCHANGED << client, wire, default_stream, closed_peer_streams, queues, reader, decode,
                  conn, registered, on_new, ended >>

\* recv, or the handler task: what was delivered before the stream closed is
\* still taken.
AppTake(s) ==
  /\ inbox[s] # << >>
  /\ inbox' = [inbox EXCEPT ![s] = Tail(@)]
  /\ UNCHANGED << client, wire, maps, incoming, delivered, tasks, state >>

\* mark_closed by the server itself: shutdown, a failed write.  The reader is
\* aborted at its next await.
MarkClosed ==
  /\ conn = "open"
  /\ conn' = "closed"
  /\ reader' = [reader EXCEPT !.aborted = TRUE]
  /\ UNCHANGED << client, wire, maps, queues, decode, closer, closed, registered, on_new,
                  on_close, ended >>

\* close_all_streams takes the map, so no stream is released twice.
CloseAllStreams ==
  /\ conn = "closed"
  /\ conn' = "released"
  /\ contexts' = {}
  /\ default_stream' = FALSE
  /\ closed' = [s \in Stream |-> closed[s] \/ s \in contexts]
  /\ on_close' = [s \in Stream |-> IF s \in contexts THEN on_close[s] + 1 ELSE on_close[s]]
  /\ UNCHANGED << client, wire, closed_peer_streams, queues, tasks, registered, on_new,
                  ended >>

-----------------------------------------------------------------------------
(* The server's reader task: accept_frame and close_by_peer.               *)

\* lookup_stream_ctx: a default stream is found even after it was removed.
Found(s) == (s = 0 /\ default_stream) \/ s \in contexts

\* Is the receiver of incoming[s] still there?
Decoding(s) == decode[s].pc \notin {"none", "ended"}

GoTo(pc) == reader' = [reader EXCEPT !.pc = pc]
ReadNext == reader' = [reader EXCEPT !.pc = "read", !.frame = None]
readerOnly == << client, maps, queues, decode, closer, state >>

ReadFrame ==
  LET frame == Head(wire) IN
  /\ reader.pc = "read" /\ ~reader.aborted /\ wire # << >>
  /\ wire' = Tail(wire)
  /\ reader' = [reader EXCEPT
       !.pc = CASE frame.type = "data" -> "lookup"
                [] frame.type = "fin" -> "unreserve"
                [] frame.type = "eof" -> "drain",
       !.frame = frame,
       !.todo = IF frame = Eof THEN contexts ELSE {}]
  /\ UNCHANGED readerOnly

\* The abort takes effect while the reader awaits: a frame, or room in a queue.
ReaderAborted ==
  /\ reader.pc \in {"read", "queue", "drain"} /\ reader.aborted
  /\ GoTo("ended")
  /\ UNCHANGED << wire, readerOnly >>

\* A FIN: its ID need not stay reserved, ...
FinUnreserve ==
  /\ reader.pc = "unreserve"
  /\ closed_peer_streams' = closed_peer_streams \ {reader.frame.s}
  /\ GoTo("fin")
  /\ UNCHANGED << client, wire, contexts, default_stream, queues, decode, closer, state >>

\* ... and it is queued if the stream is there.
FinLookup ==
  /\ reader.pc = "fin"
  /\ IF Found(reader.frame.s) THEN GoTo("queue") ELSE ReadNext
  /\ UNCHANGED << wire, readerOnly >>

\* inbound_stream.
Lookup ==
  /\ reader.pc = "lookup"
  /\ IF Found(reader.frame.s) THEN GoTo("queue") ELSE GoTo("reserved")
  /\ UNCHANGED << wire, readerOnly >>

CheckReserved ==
  /\ reader.pc = "reserved"
  /\ IF reader.frame.s \in closed_peer_streams THEN ReadNext ELSE GoTo("make")
  /\ UNCHANGED << wire, readerOnly >>

\* Mutant: make_stream does not look whether the connection has closed.
MayRegisterClosed(s) == s \notin contexts

\* Checked under the lock of the map.
MayRegister(s) == conn = "open" /\ s \notin contexts

\* make_stream; a stream that cannot be made is a closed one, which fails with
\* Error::Closed and ends the reader.
MakeStream ==
  LET s == reader.frame.s IN
  /\ reader.pc = "make"
  /\ IF MayRegister(s)
     THEN /\ contexts' = contexts \cup {s}
          /\ default_stream' = (default_stream \/ s = 0)
          /\ registered' = [registered EXCEPT ![s] = @ + 1]
          /\ closed' = [closed EXCEPT ![s] = FALSE]
          /\ decode' = [decode EXCEPT ![s].pc = "run"]
          /\ GoTo("announce")
     ELSE /\ GoTo("ended")
          /\ UNCHANGED << contexts, default_stream, registered, closed, decode >>
  /\ UNCHANGED << client, wire, closed_peer_streams, queues, closer, conn, on_new, on_close,
                  ended >>

\* on_new_stream, before the first frame of the stream is queued.
Announce ==
  /\ reader.pc = "announce"
  /\ on_new' = on_new \cup {reader.frame.s}
  /\ GoTo("queue")
  /\ UNCHANGED << client, wire, maps, queues, decode, closer, closed, conn, registered,
                  on_close, ended >>

\* incoming_tx.send, which waits for room; a FIN is sent as an empty payload.
QueueFrame ==
  LET s == reader.frame.s IN
  /\ reader.pc = "queue" /\ Decoding(s) /\ Len(incoming[s]) < QueueSize
  /\ incoming' = [incoming EXCEPT ![s] = Append(@, reader.frame)]
  /\ ReadNext
  /\ UNCHANGED << client, wire, maps, inbox, delivered, decode, closer, state >>

\* The stream was closed after the lookup: the frame is dropped, or the
\* connection was closed.
QueueFails ==
  /\ reader.pc = "queue" /\ ~Decoding(reader.frame.s)
  /\ IF conn # "open" /\ reader.frame.type = "data" THEN GoTo("ended") ELSE ReadNext
  /\ UNCHANGED << wire, readerOnly >>

\* close_by_peer: a FIN for every stream there is, ...
DrainQueue(s) ==
  /\ reader.pc = "drain" /\ s \in reader.todo
  /\ IF Decoding(s)
     THEN /\ Len(incoming[s]) < QueueSize
          /\ incoming' = [incoming EXCEPT ![s] = Append(@, Fin(s))]
     ELSE UNCHANGED incoming
  /\ reader' = [reader EXCEPT !.todo = @ \ {s}]
  /\ UNCHANGED << client, wire, maps, inbox, delivered, decode, closer, state >>

\* Mutant: close_by_peer does not wait for the streams.
StreamsDoneEarly == reader.todo = {}

\* Only the reader registers streams, so those that close_by_peer still waits
\* for are the ones registered.
StreamsDone == reader.todo = {} /\ contexts = {}

\* ... wait until they are closed, and close the connection.
Drained ==
  /\ reader.pc = "drain" /\ StreamsDone
  /\ GoTo("ended")
  /\ conn' = IF conn = "open" THEN "closed" ELSE conn
  /\ UNCHANGED << client, wire, maps, queues, decode, closer, closed, registered, on_new,
                  on_close, ended >>

\* CLOSE_FLUSH_TIMEOUT.
DrainTimeout ==
  /\ reader.pc = "drain"
  /\ GoTo("timeout")
  /\ conn' = IF conn = "open" THEN "closed" ELSE conn
  /\ UNCHANGED << client, wire, maps, queues, decode, closer, closed, registered, on_new,
                  on_close, ended >>

-----------------------------------------------------------------------------
(* The decode task of a stream on the server.                              *)

decodeOnly == << client, wire, maps, inbox, delivered, reader, closer, state >>

\* The task ends, and with it the receiver of its queue.
DecodeEnds(s) ==
  /\ decode' = [decode EXCEPT ![s] = [pc |-> "ended", frame |-> None]]
  /\ incoming' = [incoming EXCEPT ![s] = << >>]

DecodeTake(s) ==
  LET frame == Head(incoming[s]) IN
  /\ decode[s].pc = "run" /\ incoming[s] # << >>
  /\ incoming' = [incoming EXCEPT ![s] = Tail(@)]
  /\ decode' = [decode EXCEPT ![s] =
       [pc |-> CASE frame.type = "fin" -> "release"
                 [] frame.kind = "bad" -> "error"
                 [] OTHER -> "dispatch",
        frame |-> frame]]
  /\ UNCHANGED decodeOnly

\* select! may also see that the stream has closed.
DecodeStop(s) ==
  /\ decode[s].pc = "run" /\ closed[s]
  /\ DecodeEnds(s)
  /\ UNCHANGED decodeOnly

\* Mutant: inbox_q waits for room only.
InboxRefusesNever(s) == FALSE

\* inbox_q gives up once the stream has closed.
InboxRefuses(s) == closed[s]

\* dispatch_raw.
Dispatch(s) ==
  /\ decode[s].pc = "dispatch"
  /\ \/ /\ InboxRefuses(s)
        /\ UNCHANGED << inbox, delivered >>
     \/ /\ ~InboxRefuses(s) /\ Len(inbox[s]) < QueueSize
        /\ inbox' = [inbox EXCEPT ![s] = Append(@, decode[s].frame)]
        /\ delivered' = [delivered EXCEPT ![s] = Append(@, decode[s].frame)]
  /\ decode' = [decode EXCEPT ![s] = [pc |-> "run", frame |-> None]]
  /\ UNCHANGED << client, wire, maps, incoming, reader, closer, state >>

\* The FIN releases the stream.
DecodeFin(s) ==
  /\ decode[s].pc = "release"
  /\ RemoveStream(s, TRUE)
  /\ ended' = IF s \in contexts THEN ended \cup {s} ELSE ended
  /\ DecodeEnds(s)
  /\ UNCHANGED << client, wire, default_stream, closed_peer_streams, inbox, delivered, reader,
                  closer, conn, registered, on_new >>

\* protocol_error: the error reply has been queued or refused, then
\* remove_peer_stream.  Until then the task waits in "error", for send_lock and for
\* room in the outbound queue, and the end of the stream does not end that wait.
DecodeError(s) ==
  /\ decode[s].pc = "error"
  /\ decode' = [decode EXCEPT ![s].pc = AfterCheck(s)]
  /\ UNCHANGED << incoming, decodeOnly >>

DecodeReserve(s) ==
  /\ decode[s].pc = "reserve"
  /\ Reserve(s)
  /\ decode' = [decode EXCEPT ![s].pc = "remove"]
  /\ UNCHANGED << client, wire, contexts, default_stream, queues, reader, closer, state >>

DecodeRemove(s) ==
  /\ decode[s].pc = "remove"
  /\ RemoveStream(s, FALSE)
  /\ DecodeEnds(s)
  /\ UNCHANGED << client, wire, default_stream, closed_peer_streams, inbox, delivered, reader,
                  closer, conn, registered, on_new, ended >>

-----------------------------------------------------------------------------
ClientStep(s) ==
  \/ NewStream(s) \/ SendFrame(s) \/ CloseStream(s) \/ SendFin(s)
  \/ \E kind \in {"good", "bad"} : SendBegin(s, kind)

ReaderStep ==
  \/ ReadFrame \/ ReaderAborted \/ FinUnreserve \/ FinLookup
  \/ Lookup \/ CheckReserved \/ MakeStream \/ Announce \/ QueueFrame \/ QueueFails
  \/ (\E s \in Stream : DrainQueue(s)) \/ Drained

DecodeStep(s) ==
  \/ DecodeTake(s) \/ DecodeStop(s) \/ Dispatch(s) \/ DecodeFin(s)
  \/ DecodeError(s) \/ DecodeReserve(s) \/ DecodeRemove(s)

AppStep(s) == AppReserve(s) \/ AppRemove(s)

Next ==
  \/ CloseConnection \/ MarkClosed \/ CloseAllStreams
  \/ ReaderStep \/ DrainTimeout
  \/ \E s \in Stream :
       ClientStep(s) \/ AppClose(s) \/ AppTake(s) \/ AppStep(s) \/ DecodeStep(s)

Spec == Init /\ [][Next]_vars

\* An error reply may wait for as long as the connection is open: its transport
\* may take nothing.
Unblocked(s) == decode[s].pc = "error" => conn # "open"

\* Tasks that can go on do; calls of the applications need not come, and a
\* message may stay in its inbox for ever.
FairSpec ==
  /\ Spec
  /\ WF_vars(ReaderStep) /\ WF_vars(CloseAllStreams)
  /\ \A s \in Stream : WF_vars(Unblocked(s) /\ DecodeStep(s)) /\ WF_vars(AppStep(s))

-----------------------------------------------------------------------------
(* Properties.                                                             *)

Frame == [type : {"none", "data", "fin", "eof"}, s : Nat, kind : {"good", "bad"}, n : Nat]

\* Types; on_close_stream runs once at most for a stream, whoever releases it
\* (remove_stream).
TypeOK ==
  /\ opener \in [Stream -> {"new", "open", "fin", "closed"}]
  /\ sender \in [Stream -> Frame]
  /\ wire \in Seq(Frame)
  /\ reader \in [pc : {"read", "unreserve", "fin", "lookup", "reserved", "make", "announce", "queue",
                       "drain", "ended", "timeout"},
                 frame : Frame, todo : SUBSET Stream, aborted : BOOLEAN]
  /\ contexts \subseteq Stream
  /\ closed_peer_streams \subseteq Stream
  /\ incoming \in [Stream -> Seq(Frame)]
  /\ inbox \in [Stream -> Seq(Frame)]
  /\ decode \in [Stream -> [pc : {"none", "run", "dispatch", "release", "error", "reserve",
                                  "remove", "ended"}, frame : Frame]]
  /\ closer \in [Stream -> {"idle", "reserve", "remove", "done"}]
  /\ closed \in [Stream -> BOOLEAN]
  /\ conn \in {"open", "closed", "released"}
  /\ registered \in [Stream -> Nat]
  /\ on_new \subseteq Stream
  /\ on_close \in [Stream -> 0 .. 1]

\* A stream is registered once at most, also when frames come after the
\* application has released it: "later frames on it are dropped instead of
\* opening the stream again" (remove_peer_stream).
NotReopened == \A s \in Stream : registered[s] <= 1

\* The messages of a stream are delivered in the order they were sent, and a
\* FIN releases the stream only after every message sent before it: none is
\* cut off, by a concurrent send on the client (send_lock) or by frames that
\* still wait to be decoded (queue_fin).
FinComesLast ==
  \A s \in Stream :
    /\ Len(delivered[s]) <= Len(sent[s])
    /\ \A i \in 1 .. Len(delivered[s]) : delivered[s][i] = sent[s][i]
    /\ s \in ended => delivered[s] = sent[s]

\* A clean close by the peer closes the connection only after the frames
\* received before it are delivered, unless it times out (close_by_peer) or the
\* stream was closed here, by the application or by a message it cannot decode.
DrainDelivers ==
  conn # "open" /\ ~reader.aborted /\ reader.pc = "ended" =>
    \A s \in Stream :
      \/ delivered[s] = sent[s]
      \/ closer[s] # "idle"
      \/ \E i \in 1 .. Len(sent[s]) : sent[s][i].kind = "bad"

\* The inbox of a stream that has closed stalls nobody: the reader, waiting for room
\* in the stream's queue, goes on ("closing_stream_with_full_inbox_does_not_stall_
\* connection", regression_test.rs), unless the decode task has yet to get rid of an
\* error reply, which a blocked transport may keep it from (protocol_error).
ClosedStreamStallsNobody ==
  \A s \in Stream :
    reader.pc = "queue" /\ reader.frame.s = s /\ closed[s] ~>
      \/ ~(reader.pc = "queue" /\ reader.frame.s = s)
      \/ decode[s].pc = "error"

\* Once the connection is closed its tasks end, so that it can be freed: no
\* stream is registered behind the back of close_all_streams (make_stream).
TasksEnd ==
  conn # "open" ~> /\ contexts = {}
                   /\ reader.pc \in {"ended", "timeout"}
                   /\ \A s \in Stream : ~Decoding(s)

\* A reserved ID is released by the peer's FIN: "the ID stays reserved until the
\* peer's FIN" (remove_peer_stream).
ReservedUntilFin ==
  \A s \in closed_peer_streams :
    \/ opener[s] # "closed" \/ closing
    \/ \E i \in 1 .. Len(wire) : wire[i] = Fin(s)
    \/ reader.frame = Fin(s)

\* "Run a callback when a stream is closed" (Server::on_close_stream): once the
\* tasks of a released stream have ended, the callback has run.
CloseCallbackRuns ==
  \A s \in Stream :
    closed[s] /\ decode[s].pc = "ended" /\ closer[s] \in {"idle", "done"} => on_close[s] = 1

\* The callback for a new stream comes before the one for its end (get_stream_ctx
\* runs it after the stream is registered).
NewBeforeClose == \A s \in Stream : on_close[s] > 0 => s \in on_new
=============================================================================
