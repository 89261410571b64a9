----------------------------- MODULE WriterLoop -----------------------------
(***************************************************************************)
(* The v3 writer task of one endpoint (RecoveryWriter) with all that wakes *)
(* it: the bounded queue of frames, the commands of attach and detach, and *)
(* send_notify, which stores at most one permit.  Senders queue and then   *)
(* signal; the reader task frees room or notes a due ACK and then signals; *)
(* close queues its marker and then signals.  Each of these is two steps.  *)
(* The replay buffer is the one of ReplayBuffer, driven step by step.      *)
(*                                                                         *)
(* The last of MaxTransports works; the others may fail at any moment.  An *)
(* ACK that is due later, and the PING at the end of a heartbeat interval, *)
(* are only the sleep that may end: Heartbeat.tla has their times.         *)
(***************************************************************************)
EXTENDS ReplayBuffer

CONSTANTS
  Sender,         \* the tasks that call enqueue_frame
  Work(_),        \* the sizes of the frames of each, in order
  QueueSize,      \* capacity of the outbound channel
  MaxTransports,  \* bound: transports attached
  MaxReceived     \* bound: received frames for which an ACK becomes due

ASSUME WriterLoopAssumption ==
  /\ \A t \in Sender : Work(t) \in Seq(Sizes)
  /\ QueueSize \in Nat \ {0} /\ MaxTransports \in Nat \ {0} /\ MaxReceived \in Nat

VARIABLES
  send,       \* where each of these is in its current call, and which call it is
  outbound,   \* the queue: calls, and the close marker
  holder,     \* the call whose frame is held
  writer,     \* where the task is, and its locals
  cmds,       \* writer_cmd_tx: the transports to attach and to detach
  permit,     \* does send_notify hold a permit?
  transport,  \* transport_gen and transport_attached
  reader,     \* the reader task: must it signal, is an ACK due, frames received
  peer,       \* the peer: the last frame it received and the last one it acknowledged
  closing, closed,  \* the flags of the connection
  closer      \* how far close has got, and what the writer told it

conn == << transport, closing, closed >>
loopVars == << send, outbound, holder, writer, cmds, permit, conn, reader, peer, closer, vars >>

Marker == "close"
Nobody == "nobody"

\* start_with_config: the writer is spawned and the first transport attached.
LoopInit ==
  /\ Init
  /\ send = [t \in Sender |-> [pc |-> "queue", n |-> 1]]
  /\ outbound = << >>
  /\ holder = Nobody
  /\ writer = [pc |-> "top", gen |-> 0, last_sent |-> 0, dirty |-> FALSE, seq |-> 0]
  /\ cmds = << [op |-> "attach", gen |-> 1, seq |-> 0] >>
  /\ permit = TRUE
  /\ transport = [gen |-> 1, attached |-> TRUE]
  /\ reader = [signal |-> FALSE, due |-> FALSE, received |-> 0]
  /\ peer = [has |-> 0, acked |-> 0]
  /\ closing = FALSE /\ closed = FALSE
  /\ closer = [pc |-> "none", written |-> "unknown"]

-----------------------------------------------------------------------------
(* Ends of the writer and of the connection.                               *)

\* The task is gone, and with it its channels and the frames in them.
WriterEnds ==
  /\ writer' = [pc |-> "ended", gen |-> 0, last_sent |-> 0, dirty |-> FALSE, seq |-> 0]
  /\ outbound' = << >>
  /\ cmds' = << >>
  /\ holder' = Nobody

\* mark_closed aborts the writer.
MarkClosed ==
  /\ closed' = TRUE
  /\ transport' = [transport EXCEPT !.attached = FALSE]
  /\ WriterEnds

\* detach_transport, for the current transport or a replaced one.
Detached(gen) == transport' = [transport EXCEPT !.attached = @ /\ transport.gen # gen]

-----------------------------------------------------------------------------
(* Senders: enqueue_frame, past its closing check.                         *)

Elsewhere == UNCHANGED << holder, writer, cmds, conn, reader, peer, closer, vars >>

SendQueues(t) ==
  /\ send[t].pc = "queue" /\ send[t].n <= Len(Work(t))
  /\ writer.pc # "ended" /\ Len(outbound) < QueueSize
  /\ outbound' = Append(outbound, t)
  /\ send' = [send EXCEPT ![t].pc = "signal"]
  /\ UNCHANGED permit /\ Elsewhere

\* The call returns; an error ends the task.
Return(t, outcome) ==
  [send EXCEPT ![t] = IF outcome = "ok" THEN [pc |-> "queue", n |-> @.n + 1]
                                        ELSE [@ EXCEPT !.pc = "failed"]]

\* queued_tx.send; the call returns when it has signalled.
Answered(t, outcome) ==
  IF send[t].pc = "wait" THEN Return(t, outcome) ELSE [send EXCEPT ![t].pc = outcome]

\* signal_send; the call then waits for queued_rx, unless it is answered already.
SendSignals(t) ==
  /\ send[t].pc \in {"signal", "ok", "error"}
  /\ permit' = TRUE
  /\ send' = IF send[t].pc = "signal" THEN [send EXCEPT ![t].pc = "wait"]
                                      ELSE Return(t, send[t].pc)
  /\ UNCHANGED outbound /\ Elsewhere

\* The writer, and with it the receiver or queued_tx, is gone.
SendFails(t) ==
  /\ send[t].pc \in {"queue", "wait"} /\ send[t].n <= Len(Work(t)) /\ writer.pc = "ended"
  /\ send' = Return(t, "error")
  /\ UNCHANGED << outbound, permit >> /\ Elsewhere

-----------------------------------------------------------------------------
(* The reader and the peer.                                                *)

\* The peer receives what is flushed, and perhaps more of it.
PeerReads ==
  /\ transport.attached /\ writer.gen = transport.gen
  /\ \E n \in peer.has + 1 .. writer.last_sent : peer' = [peer EXCEPT !.has = n]
  /\ UNCHANGED << send, outbound, holder, writer, cmds, permit, conn, reader, closer, vars >>

PeerReadsAll == PeerReads /\ peer'.has = writer.last_sent /\ ~writer.dirty

\* The peer acknowledges what it has, once (take_pending_ack).  An ACK is sent and
\* arrives in one step: on the current transport it frees room
\* (handle_control_frame)...
ReaderAcks ==
  /\ transport.attached /\ ~reader.signal
  /\ peer.acked < peer.has
  /\ peer' = [peer EXCEPT !.acked = peer.has]
  /\ AckOf(peer.has)
  /\ reader' = [reader EXCEPT !.signal = TRUE]
  /\ UNCHANGED << send, outbound, holder, writer, cmds, permit, conn, closer >>

\* ...and on one that is lost, or replaced here but not yet by the peer's writer,
\* it is lost too, and no other is sent for these frames.
AckGetsLost ==
  /\ ~transport.attached \/ transport.gen > 1
  /\ peer.acked < peer.has
  /\ peer' = [peer EXCEPT !.acked = peer.has]
  /\ UNCHANGED << send, outbound, holder, writer, cmds, permit, conn, reader, closer, vars >>

\* handle_recovery_data_frame: note_received makes an ACK due...
ReaderReceives ==
  /\ transport.attached /\ ~reader.signal /\ reader.received < MaxReceived
  /\ reader' = [signal |-> TRUE, due |-> TRUE, received |-> reader.received + 1]
  /\ UNCHANGED << send, outbound, holder, writer, cmds, permit, conn, peer, closer, vars >>

\* Mutant: the reader frees room and does not say so.
ReaderSignalsNobody ==
  /\ reader.signal
  /\ reader' = [reader EXCEPT !.signal = FALSE]
  /\ UNCHANGED << permit, send, outbound, holder, writer, cmds, conn, peer, closer, vars >>

\* ...and then the writer is signalled.  No await lies between, so a reader
\* that is aborted meanwhile still does this.
ReaderSignals ==
  /\ reader.signal
  /\ reader' = [reader EXCEPT !.signal = FALSE]
  /\ permit' = TRUE
  /\ UNCHANGED << send, outbound, holder, writer, cmds, conn, peer, closer, vars >>

\* The reader ends: detach_transport, or mark_closed if close is under way.
\* A transport fails, or the peer has read CLOSE and closes its side.
ReaderEnds ==
  /\ transport.attached
  /\ \/ transport.gen < MaxTransports
     \/ closer.written = "yes"
  /\ IF closing
     THEN MarkClosed
     ELSE /\ Detached(transport.gen)
          /\ cmds' = Append(cmds, [op |-> "detach", gen |-> transport.gen, seq |-> 0])
          /\ UNCHANGED << outbound, holder, writer, closed >>
  /\ UNCHANGED << send, permit, closing, reader, peer, closer, vars >>

\* attach_transport_parts, by a reconnect or, at the server, also while the old
\* transport is attached.  The peer read last_recv_seq before the hand-over, and
\* may have received more since (attach_resume).
Attach ==
  /\ ~closed /\ transport.gen < MaxTransports
  /\ transport' = [gen |-> transport.gen + 1, attached |-> TRUE]
  /\ \E seq \in 0 .. peer.has :
       cmds' = Append(cmds, [op |-> "attach", gen |-> transport.gen + 1, seq |-> seq])
  /\ permit' = TRUE
  /\ UNCHANGED << send, outbound, holder, writer, closing, closed, reader, peer, closer, vars >>

-----------------------------------------------------------------------------
(* close and close_gracefully.                                             *)

Close ==
  /\ ~closing
  /\ closing' = TRUE
  /\ closer' = [closer EXCEPT !.pc = "marker"]
  /\ UNCHANGED << send, outbound, holder, writer, cmds, permit, transport, closed, reader,
                  peer, vars >>

CloseQueues ==
  /\ closer.pc = "marker" /\ writer.pc # "ended" /\ Len(outbound) < QueueSize
  /\ outbound' = Append(outbound, Marker)
  /\ closer' = [closer EXCEPT !.pc = "signal"]
  /\ UNCHANGED << send, holder, writer, cmds, permit, conn, reader, peer, vars >>

CloseSignals ==
  /\ closer.pc = "signal"
  /\ permit' = TRUE
  /\ closer' = [closer EXCEPT !.pc = "written"]
  /\ UNCHANGED << send, outbound, holder, writer, cmds, conn, reader, peer, vars >>

\* The marker could not be queued or written, or the connection is closed.
CloseReturns ==
  /\ \/ closer.pc = "marker" /\ writer.pc = "ended"
     \/ /\ closer.pc = "written"
        /\ closer.written = "no" \/ (closer.written = "unknown" /\ writer.pc = "ended") \/ closed
  /\ closer' = [closer EXCEPT !.pc = "done"]
  /\ MarkClosed
  /\ UNCHANGED << send, permit, closing, reader, peer, vars >>

\* CLOSE_FLUSH_TIMEOUT.
CloseTimesOut ==
  /\ closer.pc \in {"marker", "written"}
  /\ closer' = [closer EXCEPT !.pc = "done"]
  /\ MarkClosed
  /\ UNCHANGED << send, permit, closing, reader, peer, vars >>

-----------------------------------------------------------------------------
(* The writer task.                                                        *)

At(where) == pc = "run" /\ writer.pc = where
HasTransport == writer.gen # 0

\* Unchanged by what the writer does on its own.
others == << permit, conn, reader, peer, closer >>

\* apply, a Detach: only the current transport is given up.
ApplyDetach ==
  /\ cmds # << >> /\ Head(cmds).op = "detach"
  /\ writer' = [writer EXCEPT !.pc = "top", !.gen = IF Head(cmds).gen = @ THEN 0 ELSE @]
  /\ cmds' = Tail(cmds)
  /\ UNCHANGED << send, outbound, holder, others, vars >>

\* apply, an Attach: prepare_resume acknowledges what the peer has, which is never
\* more than was sent...
ApplyAttach ==
  /\ cmds # << >> /\ Head(cmds).op = "attach"
  /\ ResumeAckOf(Head(cmds).seq)
  /\ UNCHANGED << send, outbound, holder, writer, cmds, others >>

\* ...and copies the rest; then the transport is written to.
ApplySnapshot ==
  /\ writer.pc # "ended" /\ ResumeSnapshot
  /\ writer' = [pc |-> "top", gen |-> Head(cmds).gen, last_sent |-> resume_seq,
                dirty |-> FALSE, seq |-> 0]
  /\ cmds' = Tail(cmds)
  /\ UNCHANGED << send, outbound, holder, others >>

\* step, with a transport: the commands first, then write_next.
StepApplies == At("top") /\ HasTransport /\ (ApplyDetach \/ ApplyAttach)

Writing == At("top") /\ HasTransport /\ cmds = << >>

\* write_next: a due ACK goes first.
NextAck ==
  /\ Writing /\ reader.due
  /\ reader' = [reader EXCEPT !.due = FALSE]
  /\ writer' = [writer EXCEPT !.pc = "write", !.seq = 0]
  /\ UNCHANGED << send, outbound, holder, cmds, permit, conn, peer, closer, vars >>

\* A frame to replay, unless it was sent or acknowledged since.
NextReplay ==
  /\ Writing /\ ~reader.due
  /\ ResumeNext
  /\ LET seq == Head(resume).seq
     IN  writer' = IF seq > writer.last_sent /\ seq > buf.last_acked
                   THEN [writer EXCEPT !.pc = "write", !.seq = seq]
                   ELSE [writer EXCEPT !.pc = "top"]
  /\ UNCHANGED << send, outbound, holder, cmds, others >>

\* stage, and what its caller does next: a kept frame is written if a transport
\* is attached, a held one waits.
StageAnd(t, whenFull) ==
  LET size    == Work(t)[send[t].n]
      seq     == next_send_seq + 1
      outcome == StageOutcome(buf, seq, size, MaxBytes)
  IN  /\ Stage(size)
      /\ send' = CASE outcome = "kept" -> Answered(t, "ok")
                   [] outcome = "full" -> send
                   [] OTHER            -> Answered(t, "error")
      /\ holder' = IF outcome = "full" THEN t ELSE Nobody
      /\ writer' = CASE outcome = "kept" /\ HasTransport /\ seq > writer.last_sent ->
                          [writer EXCEPT !.pc = "write", !.seq = seq]
                     [] outcome = "full" -> [writer EXCEPT !.pc = whenFull]
                     [] OTHER            -> [writer EXCEPT !.pc = "top"]
      /\ UNCHANGED << cmds, others >>

\* The held frame is tried again; else the next one is taken.
NextHeld ==
  /\ Writing /\ ~reader.due /\ resume = << >> /\ held # 0
  /\ StageAnd(holder, "flush")
  /\ UNCHANGED outbound

TakeFrame(whenFull) ==
  /\ held = 0 /\ outbound # << >> /\ Head(outbound) # Marker
  /\ StageAnd(Head(outbound), whenFull)
  /\ outbound' = Tail(outbound)

\* finish_on_close with a transport: CLOSE is written and the transport shut down.
TakeMarker ==
  /\ held = 0 /\ outbound # << >> /\ Head(outbound) = Marker /\ HasTransport
  /\ writer' = [writer EXCEPT !.pc = "shutdown"]
  /\ outbound' = Tail(outbound)
  /\ UNCHANGED << send, holder, cmds, others, vars >>

NextLive == Writing /\ ~reader.due /\ resume = << >> /\ (TakeFrame("flush") \/ TakeMarker)

NextNothing ==
  /\ Writing /\ ~reader.due /\ resume = << >> /\ held = 0 /\ outbound = << >>
  /\ writer' = [writer EXCEPT !.pc = "flush"]
  /\ UNCHANGED << send, outbound, holder, cmds, others, vars >>

\* write and write_record.
Writes ==
  /\ At("write")
  /\ writer' = [writer EXCEPT !.pc = "top", !.dirty = TRUE, !.seq = 0,
                              !.last_sent = IF writer.seq > 0 THEN writer.seq ELSE @]
  /\ UNCHANGED << send, outbound, holder, cmds, others, vars >>

Flushes ==
  /\ At("flush")
  /\ writer' = [writer EXCEPT !.pc = "wait", !.dirty = FALSE]
  /\ UNCHANGED << send, outbound, holder, cmds, others, vars >>

\* A write or a flush fails: detach, which queues a Detach if the transport was
\* the current one.
WriteFails ==
  /\ At("write") \/ (At("flush") /\ writer.dirty)
  /\ writer.gen < MaxTransports
  /\ Detached(writer.gen)
  /\ cmds' = IF transport.attached /\ transport.gen = writer.gen
             THEN Append(cmds, [op |-> "detach", gen |-> writer.gen, seq |-> 0]) ELSE cmds
  /\ writer' = [writer EXCEPT !.pc = "top", !.gen = 0]
  /\ UNCHANGED << send, outbound, holder, permit, closing, closed, reader, peer, closer, vars >>

ShutsDown ==
  /\ At("shutdown")
  /\ \/ closer' = [closer EXCEPT !.written = "yes"]
     \/ writer.gen < MaxTransports /\ closer' = [closer EXCEPT !.written = "no"]
  /\ WriterEnds
  /\ UNCHANGED << send, permit, conn, reader, peer, vars >>

\* Mutant: the wait does not look at send_notify.
WaitNotifiedNever == FALSE /\ UNCHANGED loopVars

\* flush_and_wait: one of what is ready.
WaitNotified ==
  /\ At("wait") /\ permit
  /\ permit' = FALSE
  /\ writer' = [writer EXCEPT !.pc = "top"]
  /\ UNCHANGED << send, outbound, holder, cmds, conn, reader, peer, closer, vars >>

WaitCommand == At("wait") /\ (ApplyDetach \/ ApplyAttach)

WaitFrame == At("wait") /\ (TakeFrame("top") \/ TakeMarker)

\* The sleep ends: for an ACK, or with a PING.
WaitSleep ==
  /\ At("wait")
  /\ \E where \in {"top", "write"} : writer' = [writer EXCEPT !.pc = where, !.seq = 0]
  /\ UNCHANGED << send, outbound, holder, cmds, others, vars >>

\* wait_detached: commands before frames, frames only while none is held.
DetachedCommand == At("top") /\ ~HasTransport /\ (ApplyDetach \/ ApplyAttach)

DetachedFrame ==
  /\ At("top") /\ ~HasTransport /\ cmds = << >>
  /\ TakeFrame("top")

DetachedMarker ==
  /\ At("top") /\ ~HasTransport /\ cmds = << >>
  /\ held = 0 /\ outbound # << >> /\ Head(outbound) = Marker
  /\ closer' = [closer EXCEPT !.written = "no"]
  /\ WriterEnds
  /\ UNCHANGED << send, permit, conn, reader, peer, vars >>

\* Mutant: the signal is taken and closing not looked at.
DetachedNotifiedStays ==
  /\ At("top") /\ ~HasTransport /\ cmds = << >> /\ held # 0 /\ permit
  /\ permit' = FALSE
  /\ UNCHANGED << writer, outbound, holder, send, cmds, conn, reader, peer, closer, vars >>

\* With a frame held, a signal stops the writer if close is under way.
DetachedNotified ==
  /\ At("top") /\ ~HasTransport /\ cmds = << >> /\ held # 0 /\ permit
  /\ permit' = FALSE
  /\ IF closing THEN WriterEnds ELSE UNCHANGED << writer, outbound, holder, cmds >>
  /\ UNCHANGED << send, conn, reader, peer, closer, vars >>

\* What the task does when it is scheduled and the transport is ready.
WriterStep ==
  \/ ApplySnapshot \/ StepApplies
  \/ NextAck \/ NextReplay \/ NextHeld \/ NextLive \/ NextNothing
  \/ Writes \/ Flushes \/ ShutsDown
  \/ WaitNotified \/ WaitCommand \/ WaitFrame
  \/ DetachedCommand \/ DetachedFrame \/ DetachedMarker \/ DetachedNotified

SendStep(t) == SendQueues(t) \/ SendSignals(t) \/ SendFails(t)

LoopNext ==
  \/ \E t \in Sender : SendStep(t)
  \/ PeerReads \/ AckGetsLost
  \/ ReaderAcks \/ ReaderReceives \/ ReaderSignals \/ ReaderEnds \/ Attach
  \/ Close \/ CloseQueues \/ CloseSignals \/ CloseReturns \/ CloseTimesOut
  \/ WriterStep \/ WriteFails \/ WaitSleep

LoopSpec == LoopInit /\ [][LoopNext]_loopVars

\* The runtime runs what is ready.  A peer reads what is flushed and acknowledges
\* it once; the ACK may get lost.  Nobody need send, close, fail or reconnect, and
\* no sleep and no timeout need end: waiting for one of these is not being woken.
FairLoopSpec ==
  /\ LoopSpec
  /\ WF_loopVars(WriterStep)
  /\ \A t \in Sender : WF_loopVars(SendStep(t))
  /\ SF_loopVars(PeerReadsAll)
  /\ WF_loopVars(ReaderAcks) /\ WF_loopVars(ReaderSignals)
  /\ WF_loopVars(CloseQueues \/ CloseSignals \/ CloseReturns)

-----------------------------------------------------------------------------
(* Properties.                                                             *)

LoopTypeOK ==
  /\ TypeOK
  /\ \A t \in Sender :
       /\ send[t].pc \in {"queue", "signal", "ok", "error", "wait", "failed"}
       /\ send[t].n \in 1 .. Len(Work(t)) + 1
  /\ outbound \in Seq(Sender \cup {Marker}) /\ Len(outbound) <= QueueSize
  /\ holder \in Sender \cup {Nobody}
  /\ writer \in [pc : {"top", "write", "flush", "wait", "shutdown", "ended"},
                 gen : 0 .. MaxTransports, last_sent : 0 .. MaxFrames, dirty : BOOLEAN,
                 seq : 0 .. MaxFrames]
  /\ cmds \in Seq([op : {"attach", "detach"}, gen : 1 .. MaxTransports, seq : 0 .. MaxFrames])
  /\ {permit, closing, closed} \subseteq BOOLEAN
  /\ transport \in [gen : 0 .. MaxTransports, attached : BOOLEAN]
  /\ reader \in [signal : BOOLEAN, due : BOOLEAN, received : 0 .. MaxReceived]
  /\ peer \in [has : 0 .. MaxFrames, acked : 0 .. MaxFrames]
  /\ closer \in [pc : {"none", "marker", "signal", "written", "done"},
                 written : {"unknown", "yes", "no"}]

\* Whatever is staged while detached and acknowledged while replaying, the peer
\* has every frame between the last one written to the transport and the one
\* being written: "live frames take later sequence numbers" (write_next), and the
\* peer closes the connection when a number is skipped.
WritesInSequence ==
  writer.pc = "write" /\ writer.seq > 0 =>
    \A n \in writer.last_sent + 1 .. writer.seq - 1 : n <= buf.last_acked

\* No ACK is left to come that could free room: the peer has acknowledged every
\* frame there is, and an ACK of those kept went down with an old transport.
LastAckLost == buf.last_acked < peer.acked /\ peer.acked = next_send_seq

\* A frame waits in the buffer's way or in no way: a call of send returns, woken
\* by ACKs and signals alone, unless the buffer is full ("A held frame leaves
\* nothing to write until an ACK frees room") and no transport is attached or the
\* last ACK got lost, which is not sent again (note_received).
SendReturns ==
  \A t \in Sender :
    send[t].pc # "failed" /\ send[t].n <= Len(Work(t)) ~>
      \/ send[t].pc = "failed" \/ send[t].n > Len(Work(t))
      \/ held # 0 /\ (~transport.attached \/ LastAckLost)

\* A due ACK is written without waiting for the ACK delay or the heartbeat,
\* although signals merge in one permit and any wait may take it.
DueAckIsWritten ==
  reader.due ~> ~reader.due \/ ~transport.attached \/ writer.pc = "ended"

DetachedHolding == held # 0 /\ ~HasTransport /\ ~transport.attached

\* With a frame held and no transport, the signal of close stops the writer: "stop,
\* so close does not wait for it" (wait_detached).
CloseStopsWriter ==
  closer.pc = "signal" /\ DetachedHolding ~> writer.pc = "ended" \/ transport.attached

\* The same when the transport is lost after the signal of close.
CloseStopsWriterAlways ==
  closer.pc = "written" /\ DetachedHolding ~> writer.pc = "ended" \/ transport.attached
=============================================================================
