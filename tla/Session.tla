------------------------------ MODULE Session -------------------------------
(***************************************************************************)
(* A recovery (protocol v3) connection between a client and a server: both *)
(* endpoints' reader and writer tasks, the client's reconnect loop, the    *)
(* server's resume handlers, and transports that fail at any moment.       *)
(*                                                                         *)
(* An action is the code between two await points, and aborting a reader   *)
(* task takes effect at once, as on a current_thread runtime; the          *)
(* multi-threaded hand-over is ReaderHandover.tla.  The writer applies     *)
(* queued commands before an ACK, a replayed frame or the held one, but    *)
(* flush_and_wait selects between a command and a new frame in any order.  *)
(*                                                                         *)
(* Left out: PING frames, which change no state at the receiver, the       *)
(* flushing of buffered writes (a buffered frame is a frame on the wire    *)
(* that a failure may still lose), and the split of a connection into      *)
(* streams: delivery means that accept_frame queued the frame.             *)
(***************************************************************************)
EXTENDS Replay

CONSTANTS
  Outgoing,        \* per endpoint, the sizes of the messages it will send
  MaxReplayBytes,  \* per endpoint, max_replay_bytes
  Closers,         \* the endpoints whose application calls close
  AckEvery,        \* ack_every, negotiated
  MaxTransport,    \* bound: transports dialed in all
  MaxBreaks        \* bound: transports that fail on their own

Endpoint == {"client", "server"}
Transport == 1 .. MaxTransport
Message == UNION {1 .. Len(Outgoing[e]) : e \in Endpoint}
Peer(e) == IF e = "client" THEN "server" ELSE "client"

ASSUME SessionAssumption ==
  /\ Outgoing \in [Endpoint -> Seq(Nat)]
  /\ MaxReplayBytes \in [Endpoint -> Nat]
  /\ Closers \subseteq Endpoint
  /\ AckEvery \in Nat
  /\ MaxTransport \in Nat \ {0}
  /\ MaxBreaks \in Nat

VARIABLES
  sent,        \* messages the application handed to send
  outbound,    \* the outbound channel: message numbers and the close marker
  closer,      \* progress of the application's close
  conn,        \* ConnectionInner: generation, attached, next_send_seq, flags
  replay,      \* the replay buffer
  recv,        \* RecoveryStateFields and the ACK schedule
  writer,      \* RecoveryWriter
  writer_cmd,  \* the writer's command channel
  reader,      \* the current reader task
  wire,        \* wire[t][e]: frames on transport t on their way to e
  dead,        \* transports that failed
  dialed,      \* how many transports the client dialed
  loop,        \* the client's reconnect loop
  handler,     \* handler[t]: the server task that serves transport t
  accepted,    \* history: messages numbered so far, in order
  delivered    \* history: messages accept_frame queued, in order

appVars == << sent, outbound, closer >>
endVars == << conn, replay, recv >>
taskVars == << writer, writer_cmd, reader >>
netVars == << wire, dead, dialed, loop, handler >>
history == << accepted, delivered >>
vars == << appVars, endVars, taskVars, netVars, history >>

\* The close marker in the outbound channel, and "no message", "no transport".
CloseMarker == 0
None == 0

Frame(type, seq, msg) == [type |-> type, seq |-> seq, msg |-> msg]
AttachCmd(gen, t, resume_seq) ==
  [type |-> "attach", gen |-> gen, writer |-> t, resume_seq |-> resume_seq]
DetachCmd(gen) == [type |-> "detach", gen |-> gen, writer |-> None, resume_seq |-> 0]

NoFrame == Frame("none", 0, None)
NoReader == [pc |-> "none", gen |-> 0, t |-> None, last |-> 0, frame |-> NoFrame]
NewReader(gen, t) == [NoReader EXCEPT !.pc = "start", !.gen = gen, !.t = t]
NoWriter ==
  [running |-> FALSE, writer |-> None, gen |-> 0, last_sent_seq |-> 0,
   resume |-> << >>, held |-> None]
NewWriter == [NoWriter EXCEPT !.running = TRUE]

\* Both sides have finished the handshake on transport 1.  The client has
\* started; the server has written its attach response and starts next.
Init ==
  /\ sent = [e \in Endpoint |-> 0]
  /\ outbound = [e \in Endpoint |-> << >>]
  /\ closer = [e \in Endpoint |-> "idle"]
  /\ conn = [e \in Endpoint |->
       [transport_gen |-> IF e = "client" THEN 1 ELSE 0,
        transport_attached |-> e = "client", next_send_seq |-> 0,
        closing |-> FALSE, closed |-> FALSE]]
  /\ replay = [e \in Endpoint |-> EmptyReplay]
  /\ recv = [e \in Endpoint |->
       [last_recv_seq |-> 0, last_ack_sent |-> 0, ack_pending |-> 0,
        ack_due |-> FALSE, ack_due_at |-> FALSE]]
  /\ writer = [e \in Endpoint |-> IF e = "client" THEN NewWriter ELSE NoWriter]
  /\ writer_cmd = [e \in Endpoint |-> IF e = "client" THEN << AttachCmd(1, 1, 0) >> ELSE << >>]
  /\ reader = [e \in Endpoint |-> IF e = "client" THEN NewReader(1, 1) ELSE NoReader]
  /\ wire = [t \in Transport |-> [e \in Endpoint |-> << >>]]
  /\ dead = [t \in Transport |-> FALSE]
  /\ dialed = 1
  /\ loop = [pc |-> "idle", t |-> None]
  /\ handler = [t \in Transport |-> [pc |-> IF t = 1 THEN "attach" ELSE "none", seq |-> 0]]
  /\ accepted = [e \in Endpoint |-> << >>]
  /\ delivered = [e \in Endpoint |-> << >>]

-----------------------------------------------------------------------------
(* Transports.                                                             *)

InHandshake(e, t) ==
  \/ e = "client" /\ loop.pc = "wait" /\ loop.t = t
  \/ e = "server" /\ handler[t].pc # "none"

HoldsRead(e, t) == InHandshake(e, t) \/ (reader[e].pc # "none" /\ reader[e].t = t)

HoldsWrite(e, t) ==
  \/ InHandshake(e, t)
  \/ /\ writer[e].running
     /\ \/ writer[e].writer = t
        \/ \E i \in 1 .. Len(writer_cmd[e]) : writer_cmd[e][i].writer = t

\* A write by e fails, or is buffered and lost.
Broken(e, t) == dead[t] \/ ~HoldsRead(Peer(e), t)

\* e has read everything and the transport failed or the peer hung up.
Eof(e, t) == wire[t][e] = << >> /\ (dead[t] \/ ~HoldsWrite(Peer(e), t))

Written(e, t, frame) ==
  IF Broken(e, t) THEN wire ELSE [wire EXCEPT ![t][Peer(e)] = Append(@, frame)]

\* A transport fails and loses the tail of what is in flight either way.
Break(t) ==
  /\ t <= dialed /\ ~dead[t]
  /\ Cardinality({u \in Transport : dead[u]}) < MaxBreaks
  /\ dead' = [dead EXCEPT ![t] = TRUE]
  /\ \E kept \in [Endpoint -> 0 .. Len(wire[t]["client"]) + Len(wire[t]["server"])] :
       /\ \A e \in Endpoint : kept[e] <= Len(wire[t][e])
       /\ wire' = [wire EXCEPT ![t] = [e \in Endpoint |-> SubSeq(wire[t][e], 1, kept[e])]]
  /\ UNCHANGED << appVars, endVars, taskVars, dialed, loop, handler, history >>

-----------------------------------------------------------------------------
(* The connection: closing, attaching and detaching.                       *)

\* mark_closed: both tasks are aborted.
MarkClosed(e) ==
  /\ conn' = [conn EXCEPT ![e].closed = TRUE, ![e].transport_attached = FALSE]
  /\ writer' = [writer EXCEPT ![e] = NoWriter]
  /\ reader' = [reader EXCEPT ![e] = NoReader]

\* attach_transport_parts: the current reader is aborted and replaced.
AttachTransport(e, t, resume_seq) ==
  LET gen == conn[e].transport_gen + 1
  IN  IF conn[e].closed
      THEN UNCHANGED << conn, writer_cmd, reader >>
      ELSE /\ conn' = [conn EXCEPT ![e].transport_gen = gen, ![e].transport_attached = TRUE]
           /\ writer_cmd' = [writer_cmd EXCEPT ![e] = Append(@, AttachCmd(gen, t, resume_seq))]
           /\ reader' = [reader EXCEPT ![e] = NewReader(gen, t)]

Detaches(e, gen) == ~conn[e].closed /\ conn[e].transport_gen = gen

\* Mutant: the client does not start its reconnect loop.
DetachWithoutLoop(e, gen) ==
  IF Detaches(e, gen)
  THEN /\ conn' = [conn EXCEPT ![e].transport_gen = gen + 1, ![e].transport_attached = FALSE]
       /\ writer_cmd' = [writer_cmd EXCEPT ![e] = Append(@, DetachCmd(gen))]
       /\ UNCHANGED loop
  ELSE UNCHANGED << conn, writer_cmd, loop >>

\* detach_transport, but for the reader: only the first of the two tasks that
\* see a generation fail does it.  The client starts its reconnect loop unless
\* it runs; the server's expiry is ServerExpire.
DetachTransport(e, gen) ==
  IF Detaches(e, gen)
  THEN /\ conn' = [conn EXCEPT ![e].transport_gen = gen + 1, ![e].transport_attached = FALSE]
       /\ writer_cmd' = [writer_cmd EXCEPT ![e] = Append(@, DetachCmd(gen))]
       /\ loop' = IF e = "client" /\ loop.pc = "idle" THEN [loop EXCEPT !.pc = "dial"] ELSE loop
  ELSE UNCHANGED << conn, writer_cmd, loop >>

-----------------------------------------------------------------------------
(* The application.                                                        *)

\* enqueue_frame; a send after close began, or to a closed connection, fails.
Send(e) ==
  /\ sent[e] < Len(Outgoing[e])
  /\ ~conn[e].closing /\ writer[e].running
  /\ sent' = [sent EXCEPT ![e] = @ + 1]
  /\ outbound' = [outbound EXCEPT ![e] = Append(@, sent[e] + 1)]
  /\ UNCHANGED << closer, endVars, taskVars, netVars, history >>

\* close: the marker goes behind the frames queued so far.
Close(e) ==
  /\ e \in Closers /\ conn[e].transport_gen > 0
  /\ ~conn[e].closing /\ ~conn[e].closed
  /\ conn' = [conn EXCEPT ![e].closing = TRUE]
  /\ outbound' = [outbound EXCEPT ![e] = Append(@, CloseMarker)]
  /\ closer' = [closer EXCEPT ![e] = "writing"]
  /\ UNCHANGED << sent, replay, recv, taskVars, netVars, history >>

\* A close while another one, or a close by the peer, is in progress.
CloseAgain(e) ==
  /\ e \in Closers /\ conn[e].closing /\ ~conn[e].closed
  /\ closer' = [closer EXCEPT ![e] = "again"]
  /\ MarkClosed(e)
  /\ UNCHANGED << sent, outbound, replay, recv, writer_cmd, netVars, history >>

\* The writer stopped without writing CLOSE: close_gracefully returns.
CloseStopped(e) ==
  /\ closer[e] = "stopped" /\ ~conn[e].closed
  /\ MarkClosed(e)
  /\ UNCHANGED << appVars, replay, recv, writer_cmd, netVars, history >>

\* CLOSE_FLUSH_TIMEOUT ends close_gracefully.
CloseTimeout(e) ==
  /\ closer[e] \in {"writing", "waiting"} /\ ~conn[e].closed
  /\ closer' = [closer EXCEPT ![e] = "timeout"]
  /\ MarkClosed(e)
  /\ UNCHANGED << sent, outbound, replay, recv, writer_cmd, netVars, history >>

-----------------------------------------------------------------------------
(* The writer task.                                                        *)

\* Mutant: the larger of the two.
ResumeFromMax(e, resume_seq) ==
  IF resume_seq > conn[e].next_send_seq THEN resume_seq ELSE conn[e].next_send_seq

\* The peer cannot have received more than was sent.
ResumeFrom(e, resume_seq) ==
  IF resume_seq < conn[e].next_send_seq THEN resume_seq ELSE conn[e].next_send_seq

\* Mutant: prepare_resume acknowledges and replays nothing.
NothingToReplay(buf, from) == << >>

\* The frames a resume replays, after the buffer acknowledged those up to from.
FramesToReplay(buf, from) == SnapshotFrom(buf, from)

\* apply: attach a new transport, or drop the current one.
WriterApply(e) ==
  LET cmd  == Head(writer_cmd[e])
      from == ResumeFrom(e, cmd.resume_seq)
  IN  /\ writer[e].running /\ writer_cmd[e] # << >>
      /\ writer_cmd' = [writer_cmd EXCEPT ![e] = Tail(@)]
      /\ IF cmd.type = "attach"
         THEN /\ replay' = [replay EXCEPT ![e] = Ack(@, from)]
              /\ writer' = [writer EXCEPT ![e].writer = cmd.writer, ![e].gen = cmd.gen,
                                          ![e].last_sent_seq = from,
                                          ![e].resume = FramesToReplay(replay'[e], from)]
         ELSE /\ writer' = [writer EXCEPT ![e].writer = IF cmd.gen = writer[e].gen
                                                        THEN None ELSE @]
              /\ UNCHANGED replay
      /\ UNCHANGED << appVars, conn, recv, reader, netVars, history >>

\* take_pending_ack; the delay of a scheduled ACK may pass at any time.
WriterAck(e) ==
  LET r    == recv[e]
      take == r.last_ack_sent < r.last_recv_seq
  IN  /\ writer[e].running /\ writer[e].writer # None /\ writer_cmd[e] = << >>
      /\ r.ack_due \/ r.ack_due_at
      /\ recv' = [recv EXCEPT ![e] =
           [r EXCEPT !.ack_due = FALSE, !.ack_due_at = FALSE,
                     !.last_ack_sent = IF take THEN r.last_recv_seq ELSE @,
                     !.ack_pending = IF take THEN 0 ELSE @]]
      /\ wire' = IF take
                 THEN Written(e, writer[e].writer, Frame("ack", r.last_recv_seq, None))
                 ELSE wire
      /\ UNCHANGED << appVars, conn, replay, taskVars, dead, dialed, loop, handler, history >>

\* A frame left to replay, unless it was acknowledged meanwhile.
WriterResume(e) ==
  LET w     == writer[e]
      frame == Head(w.resume)
      write == frame.seq > w.last_sent_seq /\ frame.seq > replay[e].last_acked
  IN  /\ w.running /\ w.writer # None /\ writer_cmd[e] = << >>
      /\ w.resume # << >>
      /\ writer' = [writer EXCEPT ![e].resume = Tail(@),
                                  ![e].last_sent_seq = IF write THEN frame.seq ELSE @]
      /\ wire' = IF write
                 THEN Written(e, w.writer, Frame("data", frame.seq, frame.msg))
                 ELSE wire
      /\ UNCHANGED << appVars, endVars, writer_cmd, reader, dead, dialed, loop, handler, history >>

\* The next frame to stage: the held one, else the head of the channel.
TakeFrame(e, msg) ==
  \/ /\ writer[e].held # None /\ msg = writer[e].held
     /\ UNCHANGED outbound
  \/ /\ writer[e].held = None /\ outbound[e] # << >> /\ msg = Head(outbound[e])
     /\ outbound' = [outbound EXCEPT ![e] = Tail(@)]

Outcome(e, msg) ==
  StageOutcome(replay[e], conn[e].next_send_seq + 1, Outgoing[e][msg], MaxReplayBytes[e])

\* stage, but for holding the frame: a kept frame takes the next number.
StageFrame(e, msg) ==
  LET seq == conn[e].next_send_seq + 1
  IN  IF Outcome(e, msg) = "kept"
      THEN /\ replay' = [replay EXCEPT ![e] = Keep(@, FrameRecord(seq, msg, Outgoing[e][msg]))]
           /\ conn' = [conn EXCEPT ![e].next_send_seq = seq]
           /\ accepted' = [accepted EXCEPT ![e] = Append(@, msg)]
      ELSE UNCHANGED << replay, conn, accepted >>

Held(e, msg) == IF Outcome(e, msg) = "full" THEN msg ELSE None

\* Mutant: live frames do not wait for the frames to replay.
MayWriteLiveEarly(w, cmds) == w.running /\ w.writer # None

\* A live frame goes after the frames to replay, and the held one is tried
\* again only after the commands.
MayWriteLive(w, cmds) ==
  /\ w.running /\ w.writer # None /\ w.resume = << >>
  /\ w.held # None => cmds = << >>

\* write_live: stage a frame and write it.
WriterLive(e) ==
  LET w   == writer[e]
      seq == conn[e].next_send_seq + 1
  IN  /\ MayWriteLive(w, writer_cmd[e])
      /\ \E msg \in 1 .. Len(Outgoing[e]) :
           LET write == Outcome(e, msg) = "kept" /\ seq > w.last_sent_seq
           IN  /\ TakeFrame(e, msg)
               /\ StageFrame(e, msg)
               /\ writer' = [writer EXCEPT ![e].held = Held(e, msg),
                                           ![e].last_sent_seq = IF write THEN seq ELSE @]
               /\ wire' = IF write THEN Written(e, w.writer, Frame("data", seq, msg)) ELSE wire
      /\ UNCHANGED << sent, closer, recv, writer_cmd, reader, dead, dialed, loop, handler,
                      delivered >>

\* wait_detached: a frame is staged for the resume, once no command is left.
WriterStage(e) ==
  /\ writer[e].running /\ writer[e].writer = None /\ writer_cmd[e] = << >>
  /\ writer[e].held = None
  /\ \E msg \in 1 .. Len(Outgoing[e]) :
       /\ TakeFrame(e, msg)
       /\ StageFrame(e, msg)
       /\ writer' = [writer EXCEPT ![e].held = Held(e, msg)]
  /\ UNCHANGED << sent, closer, recv, writer_cmd, reader, netVars, delivered >>

\* Mutant: CLOSE overtakes the frames to replay.
MayWriteCloseEarly(w, cmds) ==
  w.running /\ w.held = None /\ (w.writer = None => cmds = << >>)

\* The close marker is taken behind the held frame and the frames to replay;
\* while detached, behind the commands.
MayWriteClose(w, cmds) ==
  /\ w.running /\ w.held = None
  /\ IF w.writer # None THEN w.resume = << >> ELSE cmds = << >>

\* finish_on_close: write CLOSE after everything else and stop.  On a broken
\* transport the write may fail, or be buffered and lost.
WriterClose(e) ==
  LET w == writer[e]
  IN  /\ MayWriteClose(w, writer_cmd[e])
      /\ outbound[e] # << >> /\ Head(outbound[e]) = CloseMarker
      /\ outbound' = [outbound EXCEPT ![e] = Tail(@)]
      /\ \/ /\ w.writer # None
            /\ wire' = Written(e, w.writer, Frame("close", 0, None))
            /\ closer' = [closer EXCEPT ![e] = "waiting"]
         \/ /\ w.writer # None => Broken(e, w.writer)
            /\ closer' = [closer EXCEPT ![e] = "stopped"]
            /\ UNCHANGED wire
      /\ writer' = [writer EXCEPT ![e] = NoWriter]
      /\ UNCHANGED << sent, endVars, writer_cmd, reader, dead, dialed, loop, handler, history >>

\* wait_detached with a held frame and a close begun: stop.
WriterStop(e) ==
  /\ writer[e].running /\ writer[e].writer = None /\ writer_cmd[e] = << >>
  /\ writer[e].held # None /\ conn[e].closing
  /\ writer' = [writer EXCEPT ![e] = NoWriter]
  /\ closer' = [closer EXCEPT ![e] = IF @ = "writing" THEN "stopped" ELSE @]
  /\ UNCHANGED << sent, outbound, endVars, writer_cmd, reader, netVars, history >>

\* A write or a flush fails: detach, and abort the reader.
WriterFail(e) ==
  LET w == writer[e]
  IN  /\ w.running /\ w.writer # None /\ Broken(e, w.writer)
      /\ writer' = [writer EXCEPT ![e].writer = None]
      /\ reader' = IF Detaches(e, w.gen) /\ reader[e].gen = w.gen
                   THEN [reader EXCEPT ![e] = NoReader] ELSE reader
      /\ DetachTransport(e, w.gen)
      /\ UNCHANGED << appVars, replay, recv, wire, dead, dialed, handler, history >>

-----------------------------------------------------------------------------
(* The reader task.                                                        *)

\* Mutant: below ack_every no ACK is scheduled.
NoteReceivedNoTimer(r, seq) ==
  IF seq <= r.last_recv_seq
  THEN [r EXCEPT !.ack_due = @ \/ r.last_ack_sent < r.last_recv_seq]
  ELSE [r EXCEPT !.last_recv_seq = seq, !.ack_pending = @ + 1,
                 !.ack_due = @ \/ r.ack_pending + 1 >= AckEvery]

\* note_received; ack_delay is positive (normalized).
NoteReceived(r, seq) ==
  IF seq <= r.last_recv_seq
  THEN [r EXCEPT !.ack_due = @ \/ r.last_ack_sent < r.last_recv_seq]
  ELSE LET due == AckEvery <= 1 \/ r.ack_pending + 1 >= AckEvery
       IN  [r EXCEPT !.last_recv_seq = seq, !.ack_pending = @ + 1,
                     !.ack_due = @ \/ due, !.ack_due_at = ~due]

\* Mutant: a new reader counts from zero.
ReaderStartAtZero(e) ==
  /\ reader[e].pc = "start"
  /\ reader' = [reader EXCEPT ![e].pc = "read", ![e].last = 0]
  /\ UNCHANGED << appVars, endVars, writer, writer_cmd, netVars, history >>

\* The reader task runs for the first time and copies last_recv_seq.
ReaderStart(e) ==
  /\ reader[e].pc = "start"
  /\ reader' = [reader EXCEPT ![e].pc = "read", ![e].last = recv[e].last_recv_seq]
  /\ UNCHANGED << appVars, endVars, writer, writer_cmd, netVars, history >>

\* The reader task reads a frame of the given type.
Reads(e, type) ==
  LET queue == wire[reader[e].t][e]
  IN  /\ reader[e].pc = "read" /\ queue # << >> /\ Head(queue).type = type
      /\ wire' = [wire EXCEPT ![reader[e].t][e] = Tail(@)]

ReadAck(e) ==
  /\ Reads(e, "ack")
  /\ replay' = [replay EXCEPT ![e] = Ack(@, Head(wire[reader[e].t][e]).seq)]
  /\ UNCHANGED << appVars, conn, recv, taskVars, dead, dialed, loop, handler, history >>

\* handle_recovery_data_frame up to accept_frame: a duplicate is dropped, and a
\* sequence gap closes the connection.
ReadData(e) ==
  LET frame == Head(wire[reader[e].t][e])
      last  == reader[e].last
  IN  /\ Reads(e, "data")
      /\ IF frame.seq <= last
         THEN /\ recv' = [recv EXCEPT ![e] = NoteReceived(@, frame.seq)]
              /\ UNCHANGED << conn, writer, reader >>
         ELSE /\ IF frame.seq = last + 1
                 THEN /\ reader' = [reader EXCEPT ![e].pc = "accept", ![e].frame = frame]
                      /\ UNCHANGED << conn, writer >>
                 ELSE MarkClosed(e)
              /\ UNCHANGED recv
      /\ UNCHANGED << appVars, replay, writer_cmd, dead, dialed, loop, handler, history >>

\* accept_frame has room in the stream's queue; the frame is delivered and noted.
ReaderAccept(e) ==
  LET frame == reader[e].frame
  IN  /\ reader[e].pc = "accept"
      /\ delivered' = [delivered EXCEPT ![e] = Append(@, frame.msg)]
      /\ recv' = [recv EXCEPT ![e] = NoteReceived(@, frame.seq)]
      /\ reader' = [reader EXCEPT ![e].pc = "read", ![e].last = frame.seq,
                                  ![e].frame = NoFrame]
      /\ UNCHANGED << appVars, conn, replay, writer, writer_cmd, netVars, accepted >>

\* close_by_peer: the frames received before CLOSE are drained first, unless a
\* close is in progress here too.
ReadClose(e) ==
  /\ Reads(e, "close")
  /\ IF conn[e].closing
     THEN MarkClosed(e)
     ELSE /\ conn' = [conn EXCEPT ![e].closing = TRUE]
          /\ reader' = [reader EXCEPT ![e].pc = "drain"]
          /\ UNCHANGED writer
  /\ UNCHANGED << appVars, replay, recv, writer_cmd, dead, dialed, loop, handler, history >>

\* The streams delivered their frames, or CLOSE_FLUSH_TIMEOUT passed.
ReaderDrained(e) ==
  /\ reader[e].pc = "drain"
  /\ MarkClosed(e)
  /\ UNCHANGED << appVars, replay, recv, writer_cmd, netVars, history >>

\* The transport ends.  While closing, that is the peer closing its side.
ReaderFail(e) ==
  /\ reader[e].pc = "read" /\ Eof(e, reader[e].t)
  /\ IF conn[e].closing
     THEN MarkClosed(e) /\ UNCHANGED << writer_cmd, loop >>
     ELSE /\ DetachTransport(e, reader[e].gen)
          /\ reader' = [reader EXCEPT ![e] = NoReader]
          /\ UNCHANGED writer
  /\ UNCHANGED << appVars, replay, recv, wire, dead, dialed, handler, history >>

-----------------------------------------------------------------------------
(* Resuming: the client's reconnect loop and the server's handlers.        *)

\* Dial, finish the handshake and send the resume request.
LoopDial ==
  LET t == dialed + 1
  IN  /\ loop.pc = "dial" /\ ~conn["client"].closed /\ t \in Transport
      /\ dialed' = t
      /\ loop' = [pc |-> "wait", t |-> t]
      /\ handler' = [handler EXCEPT ![t].pc = "request"]
      /\ wire' = [wire EXCEPT ![t]["server"] =
           << Frame("resume", recv["client"].last_recv_seq, None) >>]
      /\ UNCHANGED << appVars, endVars, taskVars, dead, history >>

LoopQuit ==
  /\ loop.pc = "dial" /\ conn["client"].closed
  /\ loop' = [loop EXCEPT !.pc = "idle"]
  /\ UNCHANGED << appVars, endVars, taskVars, wire, dead, dialed, handler, history >>

\* The attach response arrives: attach the transport, or close for good.
LoopResponse ==
  LET t        == loop.t
      response == Head(wire[t]["client"])
  IN  /\ loop.pc = "wait" /\ wire[t]["client"] # << >>
      /\ wire' = [wire EXCEPT ![t]["client"] = Tail(@)]
      /\ loop' = [pc |-> "idle", t |-> None]
      /\ IF response.type = "attach_ok"
         THEN AttachTransport("client", t, response.seq) /\ UNCHANGED writer
         ELSE MarkClosed("client") /\ UNCHANGED writer_cmd
      /\ UNCHANGED << appVars, replay, recv, dead, dialed, handler, history >>

\* The attempt fails and is retried after the backoff.
LoopFail ==
  /\ loop.pc = "wait" /\ Eof("client", loop.t)
  /\ loop' = [pc |-> "dial", t |-> None]
  /\ UNCHANGED << appVars, endVars, taskVars, wire, dead, dialed, handler, history >>

\* Mutant: a closed connection is not refused.
RefusesUnstarted == conn["server"].transport_gen = 0

RefusesResume == conn["server"].closed \/ conn["server"].transport_gen = 0

\* attach_resume up to the response: a connection that is closed, or whose
\* first transport has not started yet, is refused.
ServerResume(t) ==
  LET request == Head(wire[t]["server"])
      refuse  == RefusesResume
      answer  == IF refuse THEN Frame("reject", 0, None)
                 ELSE Frame("attach_ok", recv["server"].last_recv_seq, None)
      rest    == [wire EXCEPT ![t]["server"] = Tail(@)]
  IN  /\ handler[t].pc = "request" /\ wire[t]["server"] # << >>
      /\ handler' = [handler EXCEPT ![t] =
           [pc |-> IF refuse THEN "none" ELSE "attach", seq |-> request.seq]]
      /\ wire' = IF Broken("server", t) THEN rest
                 ELSE [rest EXCEPT ![t]["client"] = Append(@, answer)]
      /\ UNCHANGED << appVars, endVars, taskVars, dead, dialed, loop, history >>

\* The response is written: start the connection on its first transport, or
\* attach the transport to it.
ServerAttach(t) ==
  /\ handler[t].pc = "attach"
  /\ handler' = [handler EXCEPT ![t] = [pc |-> "none", seq |-> 0]]
  /\ AttachTransport("server", t, handler[t].seq)
  /\ writer' = IF conn["server"].transport_gen = 0
               THEN [writer EXCEPT !["server"] = NewWriter] ELSE writer
  /\ UNCHANGED << appVars, replay, recv, wire, dead, dialed, loop, history >>

\* The request does not arrive, the response cannot be written, or on_connect
\* refuses the new connection.
ServerRefuse(t) ==
  /\ \/ handler[t].pc = "request" /\ Eof("server", t)
     \/ handler[t].pc = "attach" /\ Broken("server", t)
     \/ handler[t].pc = "attach" /\ conn["server"].transport_gen = 0
  /\ handler' = [handler EXCEPT ![t] = [pc |-> "none", seq |-> 0]]
  /\ UNCHANGED << appVars, endVars, taskVars, wire, dead, dialed, loop, history >>

\* detached_ttl passes while no transport is attached.
ServerExpire ==
  /\ conn["server"].transport_gen > 0
  /\ ~conn["server"].transport_attached /\ ~conn["server"].closed
  /\ MarkClosed("server")
  /\ UNCHANGED << appVars, replay, recv, writer_cmd, netVars, history >>

-----------------------------------------------------------------------------
WriterStep(e) ==
  \/ WriterApply(e) \/ WriterAck(e) \/ WriterResume(e) \/ WriterLive(e)
  \/ WriterStage(e) \/ WriterClose(e) \/ WriterStop(e) \/ WriterFail(e)

ReaderStep(e) ==
  \/ ReaderStart(e) \/ ReadAck(e) \/ ReadData(e) \/ ReaderAccept(e)
  \/ ReadClose(e) \/ ReaderDrained(e) \/ ReaderFail(e)

LoopStep == LoopDial \/ LoopQuit \/ LoopResponse \/ LoopFail

HandlerStep(t) == ServerResume(t) \/ ServerAttach(t) \/ ServerRefuse(t)

CloseStep(e) == CloseStopped(e) \/ CloseTimeout(e)

Next ==
  \/ \E e \in Endpoint :
       \/ Send(e) \/ Close(e) \/ CloseAgain(e)
       \/ CloseStep(e) \/ WriterStep(e) \/ ReaderStep(e)
  \/ LoopStep
  \/ \E t \in Transport : HandlerStep(t) \/ Break(t)
  \/ ServerExpire

Spec == Init /\ [][Next]_vars

\* Every task that can run runs, timers fire, and the application takes the
\* frames queued for it.  Nothing obliges the application to send or close, or
\* a transport to fail.
Fairness ==
  /\ \A e \in Endpoint :
       WF_vars(WriterStep(e)) /\ WF_vars(ReaderStep(e)) /\ WF_vars(CloseStep(e))
  /\ WF_vars(LoopStep)
  /\ \A t \in Transport : WF_vars(HandlerStep(t))
  /\ WF_vars(ServerExpire)

FairSpec == Spec /\ Fairness

-----------------------------------------------------------------------------
(* Properties.                                                             *)

FrameType == {"none", "data", "ack", "close", "resume", "attach_ok", "reject"}
FrameSet == [type : FrameType, seq : Nat, msg : Message \cup {None}]
RecordSet == [seq : Nat, msg : Message, size : Nat]
CmdSet ==
  [type : {"attach", "detach"}, gen : Nat, writer : Transport \cup {None}, resume_seq : Nat]
ConnSet ==
  [transport_gen : Nat, transport_attached : BOOLEAN, next_send_seq : Nat,
   closing : BOOLEAN, closed : BOOLEAN]
ReplaySet == [used_bytes : Int, replay_queue : Seq(RecordSet), last_acked : Nat]
RecvSet ==
  [last_recv_seq : Nat, last_ack_sent : Nat, ack_pending : Nat,
   ack_due : BOOLEAN, ack_due_at : BOOLEAN]
WriterSet ==
  [running : BOOLEAN, writer : Transport \cup {None}, gen : Nat, last_sent_seq : Nat,
   resume : Seq(RecordSet), held : Message \cup {None}]
ReaderSet ==
  [pc : {"none", "start", "read", "accept", "drain"}, gen : Nat,
   t : Transport \cup {None}, last : Nat, frame : FrameSet]
LoopSet == [pc : {"idle", "dial", "wait"}, t : Transport \cup {None}]
HandlerSet == [pc : {"none", "request", "attach"}, seq : Nat]
CloserSet == {"idle", "writing", "waiting", "stopped", "timeout", "again"}

TypeOK ==
  /\ sent \in [Endpoint -> Nat]
  /\ outbound \in [Endpoint -> Seq(Message \cup {CloseMarker})]
  /\ closer \in [Endpoint -> CloserSet]
  /\ conn \in [Endpoint -> ConnSet]
  /\ replay \in [Endpoint -> ReplaySet]
  /\ recv \in [Endpoint -> RecvSet]
  /\ writer \in [Endpoint -> WriterSet]
  /\ writer_cmd \in [Endpoint -> Seq(CmdSet)]
  /\ reader \in [Endpoint -> ReaderSet]
  /\ wire \in [Transport -> [Endpoint -> Seq(FrameSet)]]
  /\ dead \in [Transport -> BOOLEAN]
  /\ dialed \in Transport
  /\ loop \in LoopSet
  /\ handler \in [Transport -> HandlerSet]
  /\ accepted \in [Endpoint -> Seq(Message)]
  /\ delivered \in [Endpoint -> Seq(Message \cup {None})]

IsPrefixOf(s, t) == Len(s) <= Len(t) /\ \A i \in 1 .. Len(s) : s[i] = t[i]

\* What an endpoint delivers is, message by message, what its peer numbered: no
\* message twice, out of order or invented, over any number of reconnects
\* (handle_recovery_data_frame drops what it has, prepare_resume replays the rest).
DeliveredInOrder == \A e \in Endpoint : IsPrefixOf(delivered[e], accepted[Peer(e)])

\* A frame that the peer has not received is still in the replay buffer: it is
\* freed only by an ACK or a resume that the peer sent after receiving it.
NothingFreedEarly ==
  \A e \in Endpoint :
    \A seq \in recv[Peer(e)].last_recv_seq + 1 .. conn[e].next_send_seq :
      \E i \in 1 .. Len(replay[e].replay_queue) : replay[e].replay_queue[i].seq = seq

\* A reader never meets a gap: the next data frame on its transport is the next
\* one in sequence, or one it has already.  A gap would close the connection.
NoSequenceGap ==
  \A e \in Endpoint :
    LET queue == wire[reader[e].t][e]
    IN  reader[e].pc = "read" /\ queue # << >> /\ Head(queue).type = "data" =>
          Head(queue).seq <= reader[e].last + 1

\* Received frames that are not acknowledged yet have an ACK due or scheduled.
AckIsScheduled ==
  \A e \in Endpoint :
    recv[e].last_ack_sent < recv[e].last_recv_seq => recv[e].ack_due \/ recv[e].ack_due_at

\* CLOSE comes after everything: when it is read, all that the peer ever
\* numbered has been delivered here.
CloseComesLast ==
  [][\A e \in Endpoint : ReadClose(e) => delivered[e] = accepted[Peer(e)]]_vars

\* A client without a transport gets a new one or closes; it is never left
\* detached with no reconnect loop.
ClientReattaches ==
  ~conn["client"].transport_attached ~>
    conn["client"].transport_attached \/ conn["client"].closed

\* A message whose send succeeded is delivered, unless an endpoint closes.
AcceptedIsDelivered ==
  \A e \in Endpoint : \A n \in 1 .. Len(Outgoing[e]) :
    Len(accepted[e]) >= n ~>
      \/ Len(delivered[Peer(e)]) >= n
      \/ conn[e].closed \/ conn[Peer(e)].closed

\* A frame held for room is released while both endpoints stay open: "A frame
\* that does not fit in the replay buffer yet ... wait until an ACK frees room"
\* (RecoveryWriter::held).
HeldIsReleased ==
  \A e \in Endpoint :
    writer[e].held # None ~>
      writer[e].held = None \/ conn[e].closed \/ conn[Peer(e)].closed

\* Where no application calls close, the end of one endpoint is the end of the other:
\* when detached_ttl has passed at the server, the client's next resume is refused
\* (attach_resume), and the server of a client that was refused stays detached until
\* detached_ttl ends it.  Neither dials or waits for ever.
BothClose ==
  \A e \in Endpoint :
    conn[Peer(e)].closed /\ conn[e].transport_gen > 0 ~> conn[e].closed

\* close writes what was queued before it: when each application closes at most
\* once, neither close times out and no transport fails, an endpoint that is
\* closed has no message left in its channel.
CloseWritesQueued ==
  \A e \in Endpoint :
    /\ conn[e].closed /\ closer[e] \in {"writing", "waiting"}
    /\ closer[Peer(e)] \in {"idle", "writing", "waiting"}
    /\ conn["server"].transport_gen > 0 /\ \A t \in Transport : ~dead[t]
    => \A i \in 1 .. Len(outbound[e]) : outbound[e][i] = CloseMarker

\* A peer told that nothing more follows releases the connection: it drains its
\* streams and closes, and does not go back to being a detached connection.
PeerCloseReleases ==
  \A e \in Endpoint :
    conn[e].closing /\ closer[e] = "idle" /\ closer[Peer(e)] = "waiting" =>
      conn[e].closed \/ reader[e].pc = "drain"

\* The session implements the abstract channel.
Channel == INSTANCE ReliableChannel WITH open <- [e \in Endpoint |-> ~conn[e].closed]
ImplementsChannel == Channel!Spec
=============================================================================
