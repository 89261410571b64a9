------------------------------- MODULE Replay -------------------------------
(***************************************************************************)
(* The replay buffer of src/replay.rs as operators on a value: the frames  *)
(* kept until the peer acknowledges them, their size in bytes and the last *)
(* acknowledged sequence number.  ReplayBuffer.tla makes a state machine   *)
(* of it; Session.tla keeps one per endpoint.  Each operator is one        *)
(* critical section of the buffer's mutex.                                 *)
(***************************************************************************)
EXTENDS Integers, Sequences, FiniteSets

\* A kept frame.  The stream, flags and payload of FrameRecord are one
\* message; size counts the frame header too.
FrameRecord(seq, msg, size) == [seq |-> seq, msg |-> msg, size |-> size]

\* ReplayBuffer::new
EmptyReplay == [used_bytes |-> 0, replay_queue |-> << >>, last_acked |-> 0]

\* How many records at the front of q have a sequence number up to n.
Leading(q, n) == Cardinality({i \in 1 .. Len(q) : \A j \in 1 .. i : q[j].seq <= n})

\* The queue without the records up to n, popped from its front.
After(q, n) == SubSeq(q, Leading(q, n) + 1, Len(q))

\* The bytes of the first k records of q, each named by its record and its
\* offset in it, and their number.
Bytes(q, k) == UNION {{i} \X (1 .. q[i].size) : i \in 1 .. k}
SizeOfFirst(q, k) == Cardinality(Bytes(q, k))

\* What stage does with a frame of the given size under sequence number seq.
\* Room is checked first, then that the number is not acknowledged yet and is
\* above the last kept one.  A max_bytes of zero or less means no limit.
StageOutcome(buf, seq, size, max_bytes) ==
  CASE max_bytes > 0 /\ buf.used_bytes + size > max_bytes ->
         IF size <= max_bytes THEN "full" ELSE "too_large"
    [] OTHER ->
         IF \/ seq <= buf.last_acked
            \/ /\ buf.replay_queue # << >>
               /\ seq <= buf.replay_queue[Len(buf.replay_queue)].seq
         THEN "invalid" ELSE "kept"

\* The buffer after a record is kept.
Keep(buf, record) ==
  [buf EXCEPT !.replay_queue = Append(@, record), !.used_bytes = @ + record.size]

\* ack: a number that is zero or already acknowledged changes nothing.
Ack(buf, last_seq) ==
  IF last_seq = 0 \/ last_seq <= buf.last_acked
  THEN buf
  ELSE [ used_bytes   |-> buf.used_bytes
                            - SizeOfFirst(buf.replay_queue, Leading(buf.replay_queue, last_seq)),
         replay_queue |-> After(buf.replay_queue, last_seq),
         last_acked   |-> last_seq ]

\* snapshot_from: the kept frames after last_seq.
SnapshotFrom(buf, last_seq) == After(buf.replay_queue, last_seq)
=============================================================================
