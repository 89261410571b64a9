--------------------------- MODULE PlainConnection --------------------------
(***************************************************************************)
(* One end of a v2 connection: the tasks that send, the bounded outbound   *)
(* queue, the writer that flushes once per batch, close with its marker,   *)
(* and the reader as far as it ends the connection.  The transport may     *)
(* block or fail; the peer may close first.  Ownership.tla adds who holds  *)
(* the connection.                                                         *)
(***************************************************************************)
EXTENDS Naturals, Sequences

CONSTANTS
  Sender,      \* the tasks that call send
  MaxSends,    \* bound: calls of each
  QueueSize    \* capacity of the outbound channel

ASSUME PlainConnectionAssumption == MaxSends \in Nat /\ QueueSize \in Nat \ {0}

VARIABLES
  sender,    \* what each task is doing, and how many frames it has sent
  outbound,  \* the channel to the writer
  writer,    \* the writer task: where it is, and the frame it has taken
  buffered,  \* frames written and not flushed
  wire,      \* frames flushed, and the end of the stream
  closing, closed,   \* the flags of the connection
  closer,    \* how far close has got
  peer,      \* has the peer closed its side?
  before     \* history: the frames each task had sent when closing was set

flags == << closing, closed >>
plainVars == << sender, outbound, writer, buffered, wire, flags, closer, peer, before >>

Frame == Sender \X (1 .. MaxSends)

\* Not frames: the close marker of the queue, the end of the stream, and nothing.
Marker == << "close", 0 >>
End == << "end", 0 >>
None == << "none", 0 >>

PlainInit ==
  /\ sender = [t \in Sender |-> [pc |-> "idle", sent |-> 0]]
  /\ outbound = << >>
  /\ writer = [pc |-> "wait", frame |-> None]
  /\ buffered = << >>
  /\ wire = << >>
  /\ closing = FALSE
  /\ closed = FALSE
  /\ closer = "none"
  /\ peer = "open"
  /\ before = [t \in Sender |-> 0]

-----------------------------------------------------------------------------
(* Closing.                                                                *)

\* Mutant: the writer is left alone, to end by itself.
MarkClosedKeepsWriter == closed' = TRUE /\ UNCHANGED << writer, outbound, buffered >>

\* mark_closed: the writer is aborted, and the channel goes with it.
MarkClosed ==
  /\ closed' = TRUE
  /\ writer' = [pc |-> "ended", frame |-> None]
  /\ outbound' = << >>
  /\ buffered' = << >>

\* closing is set, by close or by the reader that finds the end of the stream.
BeginClosing ==
  /\ closing' = TRUE
  /\ before' = IF closing THEN before ELSE [t \in Sender |-> sender[t].sent]

\* close, the first call: close_gracefully begins.
Close ==
  /\ ~closing
  /\ BeginClosing
  /\ closer' = "marker"
  /\ UNCHANGED << sender, outbound, writer, buffered, wire, closed, peer >>

\* close_now, and close when closing is set already: it closes at once.
CloseNow ==
  /\ ~closed
  /\ MarkClosed
  /\ UNCHANGED << sender, wire, closing, closer, peer, before >>

\* Mutant: the marker overtakes what is queued.
CloseQueuesFirst ==
  /\ closer = "marker" /\ writer.pc # "ended" /\ Len(outbound) < QueueSize
  /\ outbound' = << Marker >> \o outbound
  /\ closer' = "written"
  /\ UNCHANGED << sender, writer, buffered, wire, flags, peer, before >>

\* The marker waits for room like any frame.
CloseQueues ==
  /\ closer = "marker" /\ writer.pc # "ended" /\ Len(outbound) < QueueSize
  /\ outbound' = Append(outbound, Marker)
  /\ closer' = "written"
  /\ UNCHANGED << sender, writer, buffered, wire, flags, peer, before >>

Flushing == {"marker", "written", "waiting"}

\* The caller drops the future of close: nothing of it happens any more.
CloseDropped ==
  /\ closer \in Flushing
  /\ closer' = "dropped"
  /\ UNCHANGED << sender, outbound, writer, buffered, wire, flags, peer, before >>

\* close_gracefully ends: the writer is gone or failed, or the connection is
\* closed, or CLOSE_FLUSH_TIMEOUT has passed.
CloseReturns ==
  /\ closer \in Flushing
  /\ closer' = "done"
  /\ MarkClosed
  /\ UNCHANGED << sender, wire, closing, peer, before >>

\* The peer closes its side, at the end of what it reads or at any time.
PeerCloses ==
  /\ peer = "open"
  /\ peer' = "closed"
  /\ UNCHANGED << sender, outbound, writer, buffered, wire, flags, closer, before >>

\* The reader finds the end: close_by_peer, which delivers what was received
\* before it closes, unless close is under way here.
ReaderEnds ==
  /\ peer = "closed" /\ ~closed
  /\ IF closing
     THEN MarkClosed /\ peer' = "read"
     ELSE peer' = "draining" /\ UNCHANGED << closed, writer, outbound, buffered >>
  /\ BeginClosing
  /\ UNCHANGED << sender, wire, closer >>

\* What was received is delivered, or CLOSE_FLUSH_TIMEOUT has passed.
ReaderDrained ==
  /\ peer = "draining" /\ ~closed
  /\ MarkClosed
  /\ peer' = "read"
  /\ UNCHANGED << sender, wire, closing, closer, before >>

\* A read fails, or what was read is not acceptable.
ReaderFails ==
  /\ peer \in {"open", "closed"} /\ ~closed
  /\ MarkClosed
  /\ UNCHANGED << sender, wire, closing, closer, peer, before >>

-----------------------------------------------------------------------------
(* Sending: enqueue_frame.                                                 *)

SendChecks(t) ==
  /\ sender[t].pc = "idle" /\ sender[t].sent < MaxSends
  /\ sender' = [sender EXCEPT ![t].pc = IF closing THEN "failed" ELSE "queue"]
  /\ UNCHANGED << outbound, writer, buffered, wire, flags, closer, peer, before >>

\* There is room; send returns.
SendQueues(t) ==
  /\ sender[t].pc = "queue" /\ writer.pc # "ended" /\ Len(outbound) < QueueSize
  /\ outbound' = Append(outbound, << t, sender[t].sent + 1 >>)
  /\ sender' = [sender EXCEPT ![t] = [pc |-> "idle", sent |-> @.sent + 1]]
  /\ UNCHANGED << writer, buffered, wire, flags, closer, peer, before >>

\* The receiver is gone: Error::Closed.
SendFails(t) ==
  /\ sender[t].pc = "queue" /\ writer.pc = "ended"
  /\ sender' = [sender EXCEPT ![t].pc = "failed"]
  /\ UNCHANGED << outbound, writer, buffered, wire, flags, closer, peer, before >>

-----------------------------------------------------------------------------
(* The writer.                                                             *)

WriterTakes ==
  /\ writer.pc = "wait" /\ outbound # << >>
  /\ writer' = [pc |-> "write", frame |-> Head(outbound)]
  /\ outbound' = Tail(outbound)
  /\ UNCHANGED << sender, buffered, wire, flags, closer, peer, before >>

\* A frame is written, and the next one taken if there is one.
WriterWrites ==
  /\ writer.pc = "write" /\ writer.frame # Marker
  /\ buffered' = Append(buffered, writer.frame)
  /\ IF outbound = << >>
     THEN writer' = [pc |-> "flush", frame |-> None] /\ UNCHANGED outbound
     ELSE writer' = [writer EXCEPT !.frame = Head(outbound)] /\ outbound' = Tail(outbound)
  /\ UNCHANGED << sender, wire, flags, closer, peer, before >>

WriterFlushes ==
  /\ writer.pc = "flush"
  /\ wire' = wire \o buffered
  /\ buffered' = << >>
  /\ writer' = [pc |-> "wait", frame |-> None]
  /\ UNCHANGED << sender, outbound, flags, closer, peer, before >>

\* The marker: shutdown flushes and ends the stream, and the writer with it.
WriterShutsDown ==
  /\ writer.pc = "write" /\ writer.frame = Marker
  /\ wire' = Append(wire \o buffered, End)
  /\ buffered' = << >>
  /\ writer' = [pc |-> "ended", frame |-> None]
  /\ outbound' = << >>
  /\ closer' = IF closer = "written" THEN "waiting" ELSE closer
  /\ UNCHANGED << sender, flags, peer, before >>

\* A write or a flush fails.
WriterFails ==
  /\ writer.pc \in {"write", "flush"} /\ writer.frame # Marker
  /\ MarkClosed
  /\ UNCHANGED << sender, wire, closing, closer, peer, before >>

\* shutdown fails: close is told, and the writer ends.
ShutdownFails ==
  /\ writer.pc = "write" /\ writer.frame = Marker
  /\ writer' = [pc |-> "ended", frame |-> None]
  /\ outbound' = << >>
  /\ buffered' = << >>
  /\ UNCHANGED << sender, wire, flags, closer, peer, before >>

WriterStep ==
  WriterTakes \/ WriterWrites \/ WriterFlushes \/ WriterShutsDown \/ WriterFails \/ ShutdownFails

SendStep(t) == SendChecks(t) \/ SendQueues(t) \/ SendFails(t)

PlainNext ==
  \/ Close \/ CloseNow \/ CloseQueues \/ CloseDropped \/ CloseReturns
  \/ PeerCloses \/ ReaderEnds \/ ReaderDrained \/ ReaderFails
  \/ WriterStep
  \/ \E t \in Sender : SendStep(t)

PlainSpec == PlainInit /\ [][PlainNext]_plainVars

\* The runtime runs what is ready, and timers fire; the transport may block the
\* writer for ever, and the application need not send, nor the peer close.
FairPlainSpec ==
  /\ PlainSpec
  /\ WF_plainVars(CloseReturns)
  /\ \A t \in Sender : WF_plainVars(SendQueues(t) \/ SendFails(t))

-----------------------------------------------------------------------------
(* Properties.                                                             *)

\* Types.
PlainTypeOK ==
  /\ sender \in [Sender -> [pc : {"idle", "queue", "failed"}, sent : 0 .. MaxSends]]
  /\ outbound \in Seq(Frame \cup {Marker}) /\ Len(outbound) <= QueueSize
  /\ writer \in [pc : {"wait", "write", "flush", "ended"}, frame : Frame \cup {Marker, None}]
  /\ buffered \in Seq(Frame)
  /\ wire \in Seq(Frame \cup {End})
  /\ closing \in BOOLEAN /\ closed \in BOOLEAN /\ before \in [Sender -> 0 .. MaxSends]
  /\ closer \in Flushing \cup {"none", "dropped", "done"}
  /\ peer \in {"open", "closed", "draining", "read"}

\* The peer can read a frame.
Readable(f) == \E i \in 1 .. Len(wire) : wire[i] = f

Ended == Readable(End)

\* The peer reads each task's frames once and in order, all that were queued when
\* close began before the end of the stream, and nothing behind it: "The messages
\* already queued by `send` are delivered first" (ConnectionInner::close).
CleanCloseWrites ==
  /\ \A i \in 1 .. Len(wire) : wire[i] = End => i = Len(wire)
  /\ \A t \in Sender, n \in 1 .. MaxSends, i \in 1 .. Len(wire) :
       wire[i] = << t, n >> =>
         /\ \A m \in 1 .. n - 1 : \E j \in 1 .. i - 1 : wire[j] = << t, m >>
         /\ \A j \in 1 .. i - 1 : wire[j] # wire[i]
  /\ Ended => \A t \in Sender : \A n \in 1 .. before[t] : Readable(<< t, n >>)

\* A send that succeeds is written before the end of the stream, since "Sends fail
\* with Error::Closed once close has begun" (ConnectionInner::close).
SentIsWritten == Ended => \A t \in Sender : \A n \in 1 .. sender[t].sent : Readable(<< t, n >>)

\* A task blocked on the full queue returns once close has begun, although the
\* transport blocks the writer (mark_closed aborts it), unless that call of close
\* is abandoned by its caller.
BlockedSendReturns ==
  \A t \in Sender :
    closer \in Flushing /\ sender[t].pc = "queue" ~> sender[t].pc # "queue" \/ closer = "dropped"
=============================================================================
