--------------------------- MODULE ReaderHandover ---------------------------
(***************************************************************************)
(* The hand-over from one reader task to the next when a resume replaces   *)
(* the transport of an endpoint, at the granularity of a multi-threaded    *)
(* runtime.  Session.tla takes the current_thread view, in which aborting  *)
(* a reader takes effect at once; here AbortHandle::abort only stops a     *)
(* task at its next await, so a reader that another thread is running goes *)
(* on with the frames it can read without waiting.                         *)
(*                                                                         *)
(* The peer is the sender of frames 1 .. Frames: on each transport it      *)
(* writes the frames after the last one the endpoint reported, in order,   *)
(* so a transport is known by the next frame it carries.                   *)
(***************************************************************************)
EXTENDS Naturals, Sequences

CONSTANTS
  Frames,       \* bound: frames the peer sends
  MaxGen,       \* bound: transports in all
  MultiThread   \* does the runtime run tasks in parallel?

ASSUME HandoverAssumption ==
  /\ Frames \in Nat
  /\ MaxGen \in Nat \ {0}
  /\ MultiThread \in BOOLEAN

Gen == 1 .. MaxGen

VARIABLES
  last_recv_seq,  \* RecoveryStateFields::last_recv_seq
  transport_gen,  \* the generation attached last
  reported,       \* resume: what the attach response reported, and to whom
  reader,         \* reader[g]: the task that reads transport g
  next,           \* next[g]: the next frame on transport g
  delivered       \* history: frames accept_frame queued, in order

handoverVars == << last_recv_seq, transport_gen, reported, reader, next, delivered >>

NoReader == [pc |-> "none", last |-> 0, aborted |-> FALSE]
NewReader == [NoReader EXCEPT !.pc = "start"]
NotReported == [open |-> FALSE, seq |-> 0]

HandoverInit ==
  /\ last_recv_seq = 0
  /\ transport_gen = 1
  /\ reported = NotReported
  /\ reader = [g \in Gen |-> IF g = 1 THEN NewReader ELSE NoReader]
  /\ next = [g \in Gen |-> 1]
  /\ delivered = << >>

\* Another task may run: on one thread, only while no reader is between
\* accept_frame and note_received, where it does not await.
OthersRun == MultiThread \/ \A g \in Gen : reader[g].pc # "note"

\* attach_resume, or resume_client_transport: a new transport is dialed and the
\* peer learns last_recv_seq.
Report ==
  /\ OthersRun
  /\ transport_gen < MaxGen /\ ~reported.open
  /\ reported' = [open |-> TRUE, seq |-> last_recv_seq]
  /\ UNCHANGED << last_recv_seq, transport_gen, reader, next, delivered >>

\* attach_transport_parts: abort the current reader and spawn the next.  The
\* aborted task is gone at once unless a thread is running it.
Attach ==
  /\ OthersRun /\ reported.open
  /\ transport_gen' = transport_gen + 1
  /\ reported' = NotReported
  /\ next' = [next EXCEPT ![transport_gen + 1] = reported.seq + 1]
  /\ \E running \in BOOLEAN :
       /\ running => MultiThread /\ reader[transport_gen].pc # "none"
       /\ reader' = [reader EXCEPT
            ![transport_gen] = IF running THEN [@ EXCEPT !.aborted = TRUE] ELSE NoReader,
            ![transport_gen + 1] = NewReader]
  /\ UNCHANGED << last_recv_seq, delivered >>

\* The task runs for the first time and copies last_recv_seq.
ReaderStart(g) ==
  /\ reader[g].pc = "start"
  /\ reader' = [reader EXCEPT ![g].pc = "read", ![g].last = last_recv_seq]
  /\ UNCHANGED << last_recv_seq, transport_gen, reported, next, delivered >>

\* A frame the reader has already is dropped, the next one goes to accept_frame,
\* and a gap closes the connection.
ReaderRead(g) ==
  /\ reader[g].pc = "read" /\ next[g] <= Frames
  /\ IF next[g] <= reader[g].last
     THEN /\ next' = [next EXCEPT ![g] = @ + 1]
          /\ UNCHANGED reader
     ELSE /\ reader' = [reader EXCEPT
               ![g].pc = IF next[g] = reader[g].last + 1 THEN "accept" ELSE "gap"]
          /\ UNCHANGED next
  /\ UNCHANGED << last_recv_seq, transport_gen, reported, delivered >>

\* Mutant: the frame is noted as received before accept_frame queues it.
ReaderAcceptNotesFirst(g) ==
  /\ reader[g].pc = "accept"
  /\ last_recv_seq' = IF next[g] > last_recv_seq THEN next[g] ELSE last_recv_seq
  /\ reader' = [reader EXCEPT ![g].pc = "note"]
  /\ UNCHANGED << transport_gen, reported, next, delivered >>

\* accept_frame queues the frame on its stream.
ReaderAccept(g) ==
  /\ reader[g].pc = "accept"
  /\ delivered' = Append(delivered, next[g])
  /\ reader' = [reader EXCEPT ![g].pc = "note"]
  /\ UNCHANGED << last_recv_seq, transport_gen, reported, next >>

\* note_received, which never lowers last_recv_seq.
ReaderNote(g) ==
  /\ reader[g].pc = "note"
  /\ last_recv_seq' = IF next[g] > last_recv_seq THEN next[g] ELSE last_recv_seq
  /\ reader' = [reader EXCEPT ![g].pc = "read", ![g].last = next[g]]
  /\ next' = [next EXCEPT ![g] = @ + 1]
  /\ UNCHANGED << transport_gen, reported, delivered >>

\* An aborted reader stops where it awaits: for a frame, or for room in the
\* stream's queue.
ReaderStop(g) ==
  /\ reader[g].aborted /\ reader[g].pc # "note"
  /\ reader' = [reader EXCEPT ![g] = NoReader]
  /\ UNCHANGED << last_recv_seq, transport_gen, reported, next, delivered >>

ReaderStep(g) ==
  ReaderStart(g) \/ ReaderRead(g) \/ ReaderAccept(g) \/ ReaderNote(g) \/ ReaderStop(g)

HandoverNext == Report \/ Attach \/ \E g \in Gen : ReaderStep(g)

HandoverSpec == HandoverInit /\ [][HandoverNext]_handoverVars

-----------------------------------------------------------------------------
ReaderSet ==
  [pc : {"none", "start", "read", "accept", "note", "gap"}, last : 0 .. Frames,
   aborted : BOOLEAN]

HandoverTypeOK ==
  /\ last_recv_seq \in 0 .. Frames
  /\ transport_gen \in Gen
  /\ reported \in [open : BOOLEAN, seq : 0 .. Frames]
  /\ reader \in [Gen -> ReaderSet]
  /\ next \in [Gen -> 1 .. Frames + 1]
  /\ delivered \in Seq(1 .. Frames)

\* Each frame is delivered once and in order: "duplicate replay is not
\* redelivered" (DEVELOP.md).  The reader drops duplicates by its own copy of
\* last_recv_seq ("Only this task advances the last received sequence number").
DeliveredOnce == \A i \in 1 .. Len(delivered) : delivered[i] = i

\* What last_recv_seq counts was delivered.  It is what the endpoint ACKs and
\* reports on a resume, and the peer frees those frames: one counted and not
\* delivered would be lost, even when an aborted reader stops half-way.
CountedIsDelivered ==
  \A seq \in 1 .. last_recv_seq : \E i \in 1 .. Len(delivered) : delivered[i] = seq

\* No reader meets a sequence gap, which would close the connection: the first
\* frame replayed to it was reported before it copied last_recv_seq.
NoGap == \A g \in Gen : reader[g].pc # "gap"
=============================================================================
