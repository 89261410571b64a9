---------------------------- MODULE ReplayBuffer ----------------------------
(***************************************************************************)
(* The replay buffer as the two tasks of an endpoint use it: the writer    *)
(* task stages frames (RecoveryWriter::stage) and prepares a resume        *)
(* (RecoveryState::prepare_resume, two critical sections), the reader task *)
(* applies the peer's cumulative ACKs at any point between them.           *)
(* WriterLoop.tla is the writer task that drives it.                       *)
(***************************************************************************)
EXTENDS Replay

CONSTANTS
  MaxBytes,    \* max_replay_bytes; normalized() makes it positive
  Sizes,       \* the frame sizes the application sends
  MaxFrames    \* bound: how many frames are numbered

ASSUME ReplayBufferAssumption ==
  /\ MaxBytes \in Nat \ {0}
  /\ Sizes \subseteq Nat \ {0}
  /\ MaxFrames \in Nat

VARIABLES
  buf,            \* the buffer
  next_send_seq,  \* the last sequence number taken
  held,           \* size of the frame waiting for room, 0 if none
  pc,             \* writer task: "run", or "resume" between the two sections
  resume_seq,     \* the number a resume starts after
  resume          \* the frames the writer has to replay

vars == << buf, next_send_seq, held, pc, resume_seq, resume >>

Init ==
  /\ buf = EmptyReplay
  /\ next_send_seq = 0
  /\ held = 0
  /\ pc = "run"
  /\ resume_seq = 0
  /\ resume = << >>

\* Mutant: the number is taken before the buffer is asked.
StageFrameTakesNumber(size) ==
  LET seq     == next_send_seq + 1
      outcome == StageOutcome(buf, seq, size, MaxBytes)
  IN  /\ buf' = IF outcome = "kept" THEN Keep(buf, FrameRecord(seq, seq, size)) ELSE buf
      /\ next_send_seq' = seq
      /\ held' = IF outcome = "full" THEN size ELSE 0

\* The number is taken only when the frame is kept; a frame that does not fit
\* is held, and one that can never fit fails its sender.
StageFrame(size) ==
  LET seq     == next_send_seq + 1
      outcome == StageOutcome(buf, seq, size, MaxBytes)
  IN  /\ buf' = IF outcome = "kept" THEN Keep(buf, FrameRecord(seq, seq, size)) ELSE buf
      /\ next_send_seq' = IF outcome = "kept" THEN seq ELSE next_send_seq
      /\ held' = IF outcome = "full" THEN size ELSE 0

Stage(size) ==
  /\ pc = "run" /\ next_send_seq < MaxFrames
  /\ StageFrame(size)
  /\ UNCHANGED << pc, resume_seq, resume >>

\* A new frame is taken only while none is held.
StageNew == held = 0 /\ \E size \in Sizes : Stage(size)

StageHeld == held # 0 /\ Stage(held)

\* The reader task applies an ACK.
AckOf(last_seq) ==
  /\ buf' = Ack(buf, last_seq)
  /\ UNCHANGED << next_send_seq, held, pc, resume_seq, resume >>

\* The peer acknowledges only numbers it received, and may repeat an old one.
AckReceived == \E last_seq \in 0 .. next_send_seq : AckOf(last_seq)

\* prepare_resume, first section: acknowledge what the peer has.
ResumeAckOf(last_seq) ==
  /\ pc = "run"
  /\ buf' = Ack(buf, last_seq)
  /\ resume_seq' = last_seq
  /\ pc' = "resume"
  /\ UNCHANGED << next_send_seq, held, resume >>

ResumeAck == \E last_seq \in 0 .. next_send_seq : ResumeAckOf(last_seq)

\* Mutant: the snapshot starts one frame late.
ResumeSnapshotLate ==
  /\ pc = "resume"
  /\ resume' = SnapshotFrom(buf, resume_seq + 1)
  /\ pc' = "run"
  /\ UNCHANGED << buf, next_send_seq, held, resume_seq >>

\* prepare_resume, second section: copy the frames after it.
ResumeSnapshot ==
  /\ pc = "resume"
  /\ resume' = SnapshotFrom(buf, resume_seq)
  /\ pc' = "run"
  /\ UNCHANGED << buf, next_send_seq, held, resume_seq >>

\* The writer takes the next frame to replay.
ResumeNext ==
  /\ pc = "run" /\ resume # << >>
  /\ resume' = Tail(resume)
  /\ UNCHANGED << buf, next_send_seq, held, pc, resume_seq >>

Next == StageNew \/ StageHeld \/ AckReceived \/ ResumeAck \/ ResumeSnapshot \/ ResumeNext

Spec == Init /\ [][Next]_vars

-----------------------------------------------------------------------------
Record == [seq : 1 .. MaxFrames, msg : 1 .. MaxFrames, size : Sizes]

TypeOK ==
  /\ buf \in [used_bytes : Int, replay_queue : Seq(Record), last_acked : 0 .. MaxFrames]
  /\ next_send_seq \in 0 .. MaxFrames
  /\ held \in Sizes \cup {0}
  /\ pc \in {"run", "resume"}
  /\ resume_seq \in 0 .. MaxFrames
  /\ resume \in Seq(Record)

\* The byte counter, raised by stage and lowered by ack in different tasks, is
\* always the sum of the kept frames and never above the limit, so room is
\* neither lost nor given twice (replay.rs stage, ack).
Accounting ==
  /\ buf.used_bytes = SizeOfFirst(buf.replay_queue, Len(buf.replay_queue))
  /\ buf.used_bytes <= MaxBytes

\* The buffer holds exactly the frames after the last acknowledged one, in
\* order and without a hole, up to the last number taken: an unacknowledged
\* frame is never dropped and an acknowledged one never kept.
KeepsUnacked ==
  /\ buf.last_acked + Len(buf.replay_queue) = next_send_seq
  /\ \A i \in 1 .. Len(buf.replay_queue) : buf.replay_queue[i].seq = buf.last_acked + i
=============================================================================
