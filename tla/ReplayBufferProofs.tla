------------------------- MODULE ReplayBufferProofs -------------------------
(***************************************************************************)
(* The replay buffer keeps its promises for every limit and every set of   *)
(* frame sizes, and the writer task with all that wakes it uses it as      *)
(* these promises require.                                                 *)
(***************************************************************************)
EXTENDS WriterLoop, ReplayProofs

\* A held frame is one that fits in an empty buffer and has a number left.
HeldFits == held # 0 => held <= MaxBytes /\ next_send_seq < MaxFrames

IInv == TypeOK /\ Accounting /\ KeepsUnacked /\ HeldFits

LEMMA RecordSize == \A r \in Record : r.size \in Nat
  BY ReplayBufferAssumption DEF Record

LEMMA BufferType ==
  ASSUME TypeOK
  PROVE  buf \in Buffer(Record) /\ next_send_seq \in Nat
  BY ReplayBufferAssumption DEF TypeOK, Buffer

\* Acknowledging a number that was taken keeps the buffer exact.
LEMMA AckExact ==
  ASSUME TypeOK, Accounting, KeepsUnacked, NEW n \in 0 .. next_send_seq
  PROVE  LET b == Ack(buf, n)
         IN  /\ b \in [used_bytes : Int, replay_queue : Seq(Record), last_acked : 0 .. MaxFrames]
             /\ b.used_bytes = SizeOfFirst(b.replay_queue, Len(b.replay_queue))
             /\ b.used_bytes <= MaxBytes
             /\ b.last_acked + Len(b.replay_queue) = next_send_seq
             /\ \A i \in 1 .. Len(b.replay_queue) : b.replay_queue[i].seq = b.last_acked + i
<1> DEFINE q == buf.replay_queue
           b == Ack(buf, n)
<1>1. /\ q \in Seq(Record) /\ buf.used_bytes \in Int /\ buf.last_acked \in Nat
      /\ next_send_seq \in Nat /\ n \in Nat /\ Len(q) \in Nat /\ n <= MaxFrames
      /\ MaxFrames \in Nat /\ MaxBytes \in Nat
  BY ReplayBufferAssumption DEF TypeOK
<1>2. CASE n = 0 \/ n <= buf.last_acked
  <2>1. b = buf
    BY <1>2 DEF Ack
  <2> QED
    BY <2>1 DEF TypeOK, Accounting, KeepsUnacked
<1>3. CASE ~(n = 0 \/ n <= buf.last_acked)
  <2>1. b = [used_bytes |-> buf.used_bytes - SizeOfFirst(q, Leading(q, n)),
             replay_queue |-> After(q, n), last_acked |-> n]
    BY <1>3 DEF Ack
  <2>2. n \in buf.last_acked .. buf.last_acked + Len(q)
    BY <1>1, <1>3 DEF KeepsUnacked
  <2>3. \A i \in 1 .. Len(q) : q[i].seq = buf.last_acked + i
    BY DEF KeepsUnacked
  <2>4. /\ Len(After(q, n)) = buf.last_acked + Len(q) - n
        /\ \A i \in 1 .. Len(After(q, n)) : After(q, n)[i].seq = n + i
    <3> HIDE DEF q
    <3>1. buf.last_acked \in Nat /\ q \in Seq(Record)
      BY <1>1
    <3> QED
      BY ZenonT(60), <3>1, <2>2, <2>3, AfterContiguous
  <2>5. After(q, n) \in Seq(Record)
    BY <1>1, AfterType
  <2>6. SizeOfFirst(q, Len(q))
          = SizeOfFirst(q, Leading(q, n)) + SizeOfFirst(After(q, n), Len(After(q, n)))
    BY <1>1, RecordSize, SizeOfAfter
  <2>7. SizeOfFirst(q, Leading(q, n)) \in Nat
    <3>1. Leading(q, n) \in 0 .. Len(q)
      BY <1>1, LeadingType
    <3>2. \A i \in 1 .. Len(q) : q[i].size \in Nat
      BY <1>1, RecordSize
    <3>3. Leading(q, n) \in Nat /\ \A i \in 1 .. Leading(q, n) : q[i].size \in Nat
      BY <1>1, <3>1, <3>2
    <3> QED
      BY <3>3, BytesFinite
  <2>8. SizeOfFirst(After(q, n), Len(After(q, n))) \in Nat
    <3>1. \A i \in 1 .. Len(After(q, n)) : After(q, n)[i].size \in Nat
      BY <2>5, RecordSize
    <3>2. Len(After(q, n)) \in Nat
      BY <2>5
    <3> QED
      BY <3>1, <3>2, BytesFinite
  <2>9. buf.used_bytes = SizeOfFirst(q, Len(q)) /\ buf.used_bytes <= MaxBytes
    BY DEF Accounting
  <2>10. /\ b.used_bytes = SizeOfFirst(After(q, n), Len(After(q, n)))
         /\ b.used_bytes <= MaxBytes /\ b.used_bytes \in Int
    <3> DEFINE x == SizeOfFirst(q, Leading(q, n))
               y == SizeOfFirst(After(q, n), Len(After(q, n)))
    <3>1. buf.used_bytes = x + y /\ x \in Nat /\ y \in Nat /\ b.used_bytes = buf.used_bytes - x
      BY <2>1, <2>6, <2>7, <2>8, <2>9
    <3> HIDE DEF x, y, b
    <3>2. b.used_bytes = y /\ b.used_bytes <= MaxBytes /\ b.used_bytes \in Int
      BY <1>1, <2>9, <3>1
    <3> QED
      BY <3>2 DEF y
  <2>11. b.replay_queue = After(q, n) /\ b.last_acked = n
    BY <2>1
  <2>12. b.last_acked + Len(b.replay_queue) = next_send_seq
    <3>1. buf.last_acked + Len(q) = next_send_seq
      BY DEF KeepsUnacked
    <3>2. b.last_acked + Len(b.replay_queue) = n + (buf.last_acked + Len(q) - n)
      BY <2>4, <2>11
    <3>3. n \in Nat /\ buf.last_acked \in Nat /\ Len(q) \in Nat
      BY <1>1
    <3>4. n + (buf.last_acked + Len(q) - n) = buf.last_acked + Len(q)
      BY <3>3
    <3> QED
      BY <3>1, <3>2, <3>4
  <2>13. b \in [used_bytes : Int, replay_queue : Seq(Record), last_acked : 0 .. MaxFrames]
    BY <1>1, <2>1, <2>5, <2>10
  <2> QED
    BY <2>4, <2>10, <2>11, <2>12, <2>13
<1> QED
  BY <1>2, <1>3

\* Staging a frame keeps the buffer exact, whatever its outcome.
LEMMA StageExact ==
  ASSUME IInv, NEW size \in Sizes, Stage(size)
  PROVE  IInv'
<1> DEFINE seq == next_send_seq + 1
           r == FrameRecord(seq, seq, size)
           q == buf.replay_queue
           outcome == StageOutcome(buf, seq, size, MaxBytes)
<1>1. /\ q \in Seq(Record) /\ buf.used_bytes \in Int /\ buf.last_acked \in 0 .. MaxFrames
      /\ next_send_seq \in Nat /\ Len(q) \in Nat /\ MaxFrames \in Nat
      /\ MaxBytes \in Nat \ {0} /\ size \in Nat /\ seq \in 1 .. MaxFrames
      /\ next_send_seq < MaxFrames
  BY ReplayBufferAssumption DEF IInv, TypeOK, Stage
<1>2. /\ buf' = IF outcome = "kept" THEN Keep(buf, r) ELSE buf
      /\ next_send_seq' = IF outcome = "kept" THEN seq ELSE next_send_seq
      /\ held' = IF outcome = "full" THEN size ELSE 0
      /\ UNCHANGED << pc, resume_seq, resume >>
  BY DEF Stage, StageFrame
<1>3. CASE outcome = "kept"
  <2>1. buf.used_bytes + size <= MaxBytes
    BY <1>1, <1>3 DEF StageOutcome
  <2>2. r \in Record /\ r.seq = seq /\ r.size = size
    BY <1>1 DEF Record, FrameRecord
  <2>3. /\ buf'.replay_queue = Append(q, r)
        /\ buf'.used_bytes = buf.used_bytes + size
        /\ buf'.last_acked = buf.last_acked
        /\ buf' \in [used_bytes : Int, replay_queue : Seq(Record), last_acked : 0 .. MaxFrames]
    <3>1. buf' = [buf EXCEPT !.replay_queue = Append(q, r), !.used_bytes = buf.used_bytes + size]
      BY <1>2, <1>3, <2>2 DEF Keep
    <3>2. Append(q, r) \in Seq(Record) /\ buf.used_bytes + size \in Int
      BY <1>1, <2>2, AppendProperties
    <3>3. buf \in [used_bytes : Int, replay_queue : Seq(Record), last_acked : 0 .. MaxFrames]
      BY DEF IInv, TypeOK
    <3> QED
      BY <3>1, <3>2, <3>3
  <2>4. /\ Len(Append(q, r)) = Len(q) + 1
        /\ \A i \in 1 .. Len(q) : Append(q, r)[i] = q[i]
        /\ Append(q, r)[Len(q) + 1] = r
    BY <1>1, <2>2, AppendProperties
  <2>5. SizeOfFirst(Append(q, r), Len(q) + 1) = SizeOfFirst(q, Len(q)) + size
    BY <1>1, <2>2, RecordSize, SizeOfAppend
  <2>6. Accounting'
    BY <2>1, <2>3, <2>4, <2>5 DEF IInv, Accounting
  <2>7. KeepsUnacked'
    <3>1. buf.last_acked + Len(q) = next_send_seq
      BY DEF IInv, KeepsUnacked
    <3>2. \A i \in 1 .. Len(q) : q[i].seq = buf.last_acked + i
      BY DEF IInv, KeepsUnacked
    <3>3. ASSUME NEW i \in 1 .. Len(q) + 1
          PROVE  Append(q, r)[i].seq = buf.last_acked + i
      <4>1. CASE i \in 1 .. Len(q)
        BY <2>4, <3>2, <4>1
      <4>2. CASE i = Len(q) + 1
        <5>1. Append(q, r)[i].seq = seq
          BY <2>2, <2>4, <4>2
        <5>2. buf.last_acked \in Nat /\ Len(q) \in Nat /\ next_send_seq \in Nat
          BY <1>1
        <5>3. seq = buf.last_acked + i
          BY <3>1, <4>2, <5>2
        <5> QED
          BY <5>1, <5>3
      <4> QED
        BY <1>1, <4>1, <4>2
    <3>4. next_send_seq' = seq
      BY <1>2, <1>3
    <3>5. buf.last_acked + (Len(q) + 1) = seq
      BY <1>1, <3>1
    <3> QED
      BY <2>3, <2>4, <3>3, <3>4, <3>5 DEF KeepsUnacked
  <2>8. TypeOK'
    BY <1>1, <1>2, <1>3, <2>3 DEF IInv, TypeOK
  <2>9. HeldFits'
    BY <1>2, <1>3 DEF HeldFits
  <2> QED
    BY <2>6, <2>7, <2>8, <2>9 DEF IInv
<1>4. CASE outcome # "kept"
  <2>1. buf' = buf /\ next_send_seq' = next_send_seq
    BY <1>2, <1>4
  <2>2. outcome = "full" => size <= MaxBytes
    BY <1>1 DEF StageOutcome
  <2>3. HeldFits'
    BY <1>1, <1>2, <2>1, <2>2 DEF HeldFits
  <2>4. TypeOK'
    BY <1>1, <1>2, <2>1 DEF IInv, TypeOK
  <2> QED
    BY <2>1, <2>3, <2>4 DEF IInv, Accounting, KeepsUnacked
<1> QED
  BY <1>3, <1>4

LEMMA BufferInit ==
  ASSUME Init
  PROVE  IInv
<1>1. Bytes(<< >>, 0) = {}
  BY DEF Bytes
<1>2. SizeOfFirst(<< >>, 0) = 0
  BY <1>1, FS_EmptySet DEF SizeOfFirst
<1> QED
  BY <1>2, ReplayBufferAssumption
  DEF Init, IInv, TypeOK, Accounting, KeepsUnacked, HeldFits, EmptyReplay

\* Every step of the buffer keeps it exact.
LEMMA BufferStep ==
  ASSUME IInv, [Next]_vars
  PROVE  IInv'
<1>1. CASE StageNew
  BY <1>1, StageExact DEF StageNew
<1>2. CASE StageHeld
  <2>1. held \in Sizes
    BY <1>2 DEF StageHeld, IInv, TypeOK
  <2> QED
    BY <1>2, <2>1, StageExact DEF StageHeld
<1>3. CASE AckReceived
  <2>1. PICK n \in 0 .. next_send_seq : buf' = Ack(buf, n)
    BY <1>3 DEF AckReceived, AckOf
  <2>2. UNCHANGED << next_send_seq, held, pc, resume_seq, resume >>
    BY <1>3 DEF AckReceived, AckOf
  <2> QED
    BY <2>1, <2>2, AckExact DEF IInv, TypeOK, Accounting, KeepsUnacked, HeldFits
<1>4. CASE ResumeAck
  <2>1. PICK n \in 0 .. next_send_seq : buf' = Ack(buf, n) /\ resume_seq' = n
    BY <1>4 DEF ResumeAck, ResumeAckOf
  <2>2. UNCHANGED << next_send_seq, held, resume >> /\ pc' = "resume"
    BY <1>4 DEF ResumeAck, ResumeAckOf
  <2>3. n \in 0 .. MaxFrames
    BY ReplayBufferAssumption DEF IInv, TypeOK
  <2> QED
    BY <2>1, <2>2, <2>3, AckExact DEF IInv, TypeOK, Accounting, KeepsUnacked, HeldFits
<1>5. CASE ResumeSnapshot
  <2>1. SnapshotFrom(buf, resume_seq) \in Seq(Record)
    BY AfterType DEF SnapshotFrom, IInv, TypeOK
  <2> QED
    BY <1>5, <2>1 DEF ResumeSnapshot, IInv, TypeOK, Accounting, KeepsUnacked, HeldFits
<1>6. CASE ResumeNext
  <2>1. Tail(resume) \in Seq(Record)
    BY <1>6 DEF ResumeNext, IInv, TypeOK
  <2> QED
    BY <1>6, <2>1 DEF ResumeNext, IInv, TypeOK, Accounting, KeepsUnacked, HeldFits
<1>7. CASE UNCHANGED vars
  BY <1>7 DEF vars, IInv, TypeOK, Accounting, KeepsUnacked, HeldFits
<1> QED
  BY <1>1, <1>2, <1>3, <1>4, <1>5, <1>6, <1>7 DEF Next

\* The byte counter is exact and within the limit, and the buffer holds exactly
\* the unacknowledged frames, whatever the limit, the sizes and the interleaving
\* of the writer's and the reader's critical sections.
THEOREM ReplayBufferExact == Spec => [](TypeOK /\ Accounting /\ KeepsUnacked)
<1>1. Init => IInv
  BY BufferInit
<1>2. IInv /\ [Next]_vars => IInv'
  BY BufferStep
<1>3. IInv => TypeOK /\ Accounting /\ KeepsUnacked
  BY DEF IInv
<1> QED
  BY <1>1, <1>2, <1>3, PTL DEF Spec

-----------------------------------------------------------------------------
(* The writer task drives the buffer as its specification says.            *)

SendPc == {"queue", "signal", "ok", "error", "wait", "failed"}
WriterPc == {"top", "write", "flush", "wait", "shutdown", "ended"}

\* A call that is queued or held: it has not been answered.
Waiting(t) ==
  t \in Sender /\ send[t].pc \in {"signal", "wait"} /\ send[t].n \in 1 .. Len(Work(t))

\* Only numbers that were taken are written, received, reported and replayed; a
\* resume that has begun is the first command.
Numbers ==
  /\ peer \in [has : 0 .. next_send_seq, acked : 0 .. next_send_seq]
  /\ resume_seq \in 0 .. next_send_seq
  /\ resume \in Seq({r \in Record : r.seq <= next_send_seq})
  /\ cmds \in Seq([op : {"attach", "detach"}, gen : Nat, seq : 0 .. next_send_seq])
  /\ pc = "resume" /\ writer.pc # "ended" => cmds # << >>
  /\ writer \in [pc : WriterPc, gen : Nat, last_sent : 0 .. next_send_seq, dirty : BOOLEAN,
                 seq : 0 .. next_send_seq]
  /\ transport \in [gen : Nat, attached : BOOLEAN]

\* A call is queued once, or its frame is held, and it waits.
Calls ==
  /\ send \in [Sender -> [pc : SendPc, n : Nat \ {0}]]
  /\ outbound \in Seq(Sender \cup {Marker})
  /\ writer.pc = "ended" => outbound = << >>
  /\ \A i \in 1 .. Len(outbound) : outbound[i] # Marker =>
       /\ Waiting(outbound[i])
       /\ \A j \in 1 .. Len(outbound) : outbound[j] = outbound[i] => j = i
  /\ held # 0 /\ writer.pc # "ended" =>
       /\ Waiting(holder) /\ holder # Marker
       /\ held = Work(holder)[send[holder].n]
       /\ \A i \in 1 .. Len(outbound) : outbound[i] # holder

LoopInv == IInv /\ Numbers /\ Calls

LEMMA CallsKept ==
  ASSUME Calls, UNCHANGED << send, outbound, holder, held >>,
         writer.pc = "ended" <=> writer'.pc = "ended"
  PROVE  Calls'
  BY DEF Calls, Waiting

LEMMA CallsEnd ==
  ASSUME Calls, UNCHANGED send, outbound' = << >>, writer'.pc = "ended"
  PROVE  Calls'
  BY DEF Calls

\* The numbers stay taken when more are.
LEMMA MoreTaken ==
  ASSUME Numbers, TypeOK, TypeOK', next_send_seq <= next_send_seq',
         UNCHANGED << peer, resume_seq, resume, cmds, transport >>, pc' = "run",
         writer' \in [pc : WriterPc, gen : Nat, last_sent : 0 .. next_send_seq', dirty : BOOLEAN,
                      seq : 0 .. next_send_seq']
  PROVE  Numbers'
<1>1. next_send_seq \in Nat /\ next_send_seq' \in Nat
  BY ReplayBufferAssumption DEF TypeOK
<1>2. 0 .. next_send_seq \subseteq 0 .. next_send_seq'
  BY <1>1
<1>3. cmds' \in Seq([op : {"attach", "detach"}, gen : Nat, seq : 0 .. next_send_seq'])
  <2> DEFINE Cmd == [op : {"attach", "detach"}, gen : Nat, seq : 0 .. next_send_seq]
             CmdNext == [op : {"attach", "detach"}, gen : Nat, seq : 0 .. next_send_seq']
  <2>1. Cmd \subseteq CmdNext
    BY <1>2
  <2>2. cmds \in Seq(Cmd) /\ cmds' = cmds
    BY DEF Numbers
  <2> HIDE DEF Cmd, CmdNext
  <2>3. cmds' \in Seq(CmdNext)
    BY <2>1, <2>2
  <2> QED
    BY <2>3 DEF CmdNext
<1>4. {r \in Record : r.seq <= next_send_seq} \subseteq {r \in Record : r.seq <= next_send_seq'}
  BY <1>1 DEF Record
<1>5. resume' \in Seq({r \in Record : r.seq <= next_send_seq'})
  BY <1>4 DEF Numbers
<1> QED
  BY <1>2, <1>3, <1>5 DEF Numbers, Record

\* What staging leaves of the queue: the calls other than the staged one.
LEMMA StageAndStep ==
  ASSUME LoopInv, NEW t, NEW whenFull \in {"flush", "top"}, StageAnd(t, whenFull),
         writer.pc # "ended", Waiting(t), t # Marker,
         held = 0 \/ held = Work(t)[send[t].n],
         outbound' \in Seq(Sender \cup {Marker}),
         \A i \in 1 .. Len(outbound') : outbound'[i] # Marker =>
           /\ Waiting(outbound'[i]) /\ outbound'[i] # t
           /\ \A j \in 1 .. Len(outbound') : outbound'[j] = outbound'[i] => j = i
  PROVE  Next /\ Numbers' /\ Calls'
<1> DEFINE size == Work(t)[send[t].n]
           seq == next_send_seq + 1
           outcome == StageOutcome(buf, seq, size, MaxBytes)
<1>1. size \in Sizes /\ size # 0
  BY WriterLoopAssumption, ReplayBufferAssumption DEF Waiting
<1>2. Stage(size)
  BY DEF StageAnd
<1>3. Next
  BY <1>1, <1>2 DEF Next, StageNew, StageHeld
<1>4. IInv'
  BY <1>3, BufferStep DEF LoopInv
<1>5. /\ next_send_seq \in Nat
      /\ next_send_seq' = IF outcome = "kept" THEN seq ELSE next_send_seq
      /\ held' = IF outcome = "full" THEN size ELSE 0
      /\ UNCHANGED << resume_seq, resume >> /\ pc' = "run"
  BY <1>2, ReplayBufferAssumption DEF Stage, StageFrame, LoopInv, IInv, TypeOK
<1>6. Numbers'
  <2>1. writer' \in [pc : WriterPc, gen : Nat, last_sent : 0 .. next_send_seq', dirty : BOOLEAN,
                     seq : 0 .. next_send_seq']
    <3>1. writer \in [pc : WriterPc, gen : Nat, last_sent : 0 .. next_send_seq', dirty : BOOLEAN,
                      seq : 0 .. next_send_seq']
      BY <1>5 DEF LoopInv, Numbers
    <3>2. writer' = CASE outcome = "kept" /\ HasTransport /\ seq > writer.last_sent ->
                           [writer EXCEPT !.pc = "write", !.seq = seq]
                      [] outcome = "full" -> [writer EXCEPT !.pc = whenFull]
                      [] OTHER            -> [writer EXCEPT !.pc = "top"]
      BY DEF StageAnd
    <3> HIDE DEF outcome
    <3>3. CASE outcome = "kept"
      <4>1. seq \in 0 .. next_send_seq'
        BY <1>5, <3>3
      <4>2. writer' \in {[writer EXCEPT !.pc = "write", !.seq = seq], [writer EXCEPT !.pc = "top"]}
        BY <3>2, <3>3
      <4> QED
        BY <3>1, <4>1, <4>2 DEF WriterPc
    <3>4. CASE outcome # "kept"
      <4>1. writer' \in {[writer EXCEPT !.pc = whenFull], [writer EXCEPT !.pc = "top"]}
        BY <3>2, <3>4
      <4> QED
        BY <3>1, <4>1 DEF WriterPc
    <3> QED
      BY <3>3, <3>4
  <2>2. next_send_seq <= next_send_seq'
    BY <1>5
  <2>3. UNCHANGED << peer, resume_seq, resume, cmds, transport >>
    BY <1>5 DEF StageAnd, others, conn
  <2> QED
    BY <1>4, <1>5, <2>1, <2>2, <2>3, MoreTaken DEF LoopInv, IInv
<1>7. Calls'
  <2>1. /\ send \in [Sender -> [pc : SendPc, n : Nat \ {0}]]
        /\ t \in Sender
    BY DEF LoopInv, Calls, Waiting
  <2>2. /\ send' \in [Sender -> [pc : SendPc, n : Nat \ {0}]]
        /\ \A u \in Sender \ {t} : send'[u] = send[u]
        /\ outcome = "full" => send' = send
    <3>1. send' = CASE outcome = "kept" -> Answered(t, "ok")
                    [] outcome = "full" -> send
                    [] OTHER            -> Answered(t, "error")
      BY DEF StageAnd
    <3>2. ASSUME NEW o \in {"ok", "error"}
          PROVE  /\ Answered(t, o) \in [Sender -> [pc : SendPc, n : Nat \ {0}]]
                 /\ \A u \in Sender \ {t} : Answered(t, o)[u] = send[u]
      BY <2>1, <3>2 DEF Answered, Return, SendPc
    <3> HIDE DEF outcome
    <3> QED
      BY <2>1, <3>1, <3>2
  <2>3. \A i \in 1 .. Len(outbound') : outbound'[i] # Marker =>
          /\ Waiting(outbound[i])' /\ outbound'[i] # t
    BY <2>2 DEF Waiting
  <2>4. holder' = IF outcome = "full" THEN t ELSE "nobody"
    BY DEF StageAnd, Nobody
  <2>5. held' # 0 => /\ Waiting(holder)' /\ holder' # Marker
                     /\ held' = Work(holder')[send'[holder'].n]
                     /\ \A i \in 1 .. Len(outbound') : outbound'[i] # holder'
    <3> HIDE DEF outcome
    <3>1. held' # 0 => outcome = "full" /\ holder' = t /\ send' = send /\ held' = Work(t)[send[t].n]
      BY <1>5, <2>2, <2>4
    <3> QED
      BY <2>3, <3>1 DEF Waiting
  <2>6. writer'.pc # "ended"
    <3>1. writer'.pc \in {"write", "top", whenFull}
      BY DEF StageAnd, LoopInv, Numbers
    <3> QED
      BY <3>1
  <2> QED
    BY <2>2, <2>3, <2>5, <2>6 DEF Calls
<1> QED
  BY <1>3, <1>6, <1>7

LEMMA TakeFrameStep ==
  ASSUME LoopInv, NEW whenFull \in {"flush", "top"}, TakeFrame(whenFull), writer.pc # "ended"
  PROVE  Next /\ Numbers' /\ Calls'
<1> DEFINE t == Head(outbound)
<1>1. /\ outbound \in Seq(Sender \cup {Marker}) /\ outbound # << >> /\ t # Marker
      /\ held = 0 /\ outbound' = Tail(outbound) /\ StageAnd(t, whenFull)
  BY DEF TakeFrame, LoopInv, Calls
<1>2. /\ t = outbound[1] /\ Len(outbound) \in Nat /\ Len(outbound) >= 1
      /\ outbound' \in Seq(Sender \cup {Marker}) /\ Len(outbound') = Len(outbound) - 1
      /\ \A i \in 1 .. Len(outbound') : outbound'[i] = outbound[i + 1]
  BY <1>1
<1>3. \A i \in 1 .. Len(outbound) : outbound[i] # Marker =>
        /\ Waiting(outbound[i])
        /\ \A j \in 1 .. Len(outbound) : outbound[j] = outbound[i] => j = i
  BY DEF LoopInv, Calls
<1>4. Waiting(t)
  BY <1>1, <1>2, <1>3
<1>5. ASSUME NEW i \in 1 .. Len(outbound'), outbound'[i] # Marker
      PROVE  /\ Waiting(outbound'[i]) /\ outbound'[i] # t
             /\ \A j \in 1 .. Len(outbound') : outbound'[j] = outbound'[i] => j = i
  <2>1. i + 1 \in 1 .. Len(outbound) /\ outbound'[i] = outbound[i + 1] /\ i + 1 # 1
    BY <1>2
  <2>2. Waiting(outbound'[i]) /\ outbound'[i] # t
    BY <1>2, <1>3, <1>5, <2>1
  <2>3. ASSUME NEW j \in 1 .. Len(outbound'), outbound'[j] = outbound'[i]
        PROVE  j = i
    <3>1. j + 1 \in 1 .. Len(outbound) /\ outbound'[j] = outbound[j + 1]
      BY <1>2
    <3>2. j + 1 = i + 1
      BY <1>3, <1>5, <2>1, <2>3, <3>1
    <3> QED
      BY <1>2, <3>2
  <2> QED
    BY <2>2, <2>3
<1>6. \A i \in 1 .. Len(outbound') : outbound'[i] # Marker =>
        /\ Waiting(outbound'[i]) /\ outbound'[i] # t
        /\ \A j \in 1 .. Len(outbound') : outbound'[j] = outbound'[i] => j = i
  BY <1>5
<1>7. /\ outbound' \in Seq(Sender \cup {Marker})
      /\ StageAnd(t, whenFull)
      /\ t # Marker
      /\ held = 0 \/ held = Work(t)[send[t].n]
  BY <1>1, <1>2
<1> HIDE DEF t
<1> QED
  BY ZenonT(60), <1>4, <1>6, <1>7, StageAndStep

\* What leaves the buffer and the numbers alone.
LEMMA NumbersKept ==
  ASSUME Numbers, UNCHANGED << vars, peer, cmds, writer, transport >>
  PROVE  Numbers'
  BY DEF Numbers, vars

LEMMA WriterEndsStep ==
  ASSUME LoopInv, WriterEnds, UNCHANGED << send, peer, vars >>,
         transport' \in [gen : Nat, attached : BOOLEAN]
  PROVE  Numbers' /\ Calls'
<1>1. Calls'
  BY CallsEnd DEF LoopInv, WriterEnds
<1>2. 0 \in 0 .. next_send_seq
  BY ReplayBufferAssumption DEF LoopInv, IInv, TypeOK
<1>3. Numbers'
  BY <1>2 DEF LoopInv, Numbers, WriterEnds, vars, WriterPc
<1> QED
  BY <1>1, <1>3

\* The senders touch the queue and their calls only.
LEMMA SendStepKeeps ==
  ASSUME LoopInv, NEW t \in Sender, SendStep(t)
  PROVE  UNCHANGED vars /\ Numbers' /\ Calls'
<1>1. UNCHANGED << holder, writer, cmds, conn, reader, peer, closer, vars >>
  BY DEF SendStep, SendQueues, SendSignals, SendFails, Elsewhere
<1>2. Numbers'
  BY <1>1, NumbersKept DEF LoopInv, conn
<1>3. /\ send \in [Sender -> [pc : SendPc, n : Nat \ {0}]]
      /\ outbound \in Seq(Sender \cup {Marker})
      /\ held' = held /\ holder' = holder /\ writer' = writer
  BY <1>1 DEF LoopInv, Calls, vars
<1>4. CASE SendQueues(t)
  <2>1. /\ send[t].pc = "queue" /\ send[t].n <= Len(Work(t)) /\ writer.pc # "ended"
        /\ outbound' = Append(outbound, t)
        /\ send' = [send EXCEPT ![t].pc = "signal"]
    BY <1>4 DEF SendQueues
  <2>2. /\ Len(outbound) \in Nat /\ Len(outbound') = Len(outbound) + 1
        /\ outbound' \in Seq(Sender \cup {Marker}) /\ outbound'[Len(outbound) + 1] = t
        /\ \A i \in 1 .. Len(outbound) : outbound'[i] = outbound[i]
    BY <1>3, <2>1
  <2>3. /\ send' \in [Sender -> [pc : SendPc, n : Nat \ {0}]]
        /\ \A u \in Sender \ {t} : send'[u] = send[u]
        /\ send'[t] = [pc |-> "signal", n |-> send[t].n]
    BY <1>3, <2>1 DEF SendPc
  <2>4. \A u : Waiting(u) => u # t
    BY <2>1 DEF Waiting
  <2>5. \A i \in 1 .. Len(outbound) : outbound[i] # Marker =>
          Waiting(outbound[i]) /\ outbound[i] # t
    BY <2>4 DEF LoopInv, Calls
  <2>6. \A u \in Sender \ {t} : Waiting(u) => send'[u].pc \in {"signal", "wait"}
                                              /\ send'[u].n \in 1 .. Len(Work(u))
    BY <2>3 DEF Waiting
  <2>7. send'[t].pc \in {"signal", "wait"} /\ send'[t].n \in 1 .. Len(Work(t))
    <3>1. send[t].n \in Nat \ {0} /\ Len(Work(t)) \in Nat
      BY <1>3, WriterLoopAssumption
    <3> QED
      BY <2>1, <2>3, <3>1
  <2>8. ASSUME NEW i \in 1 .. Len(outbound'), outbound'[i] # Marker
        PROVE  /\ Waiting(outbound[i])'
               /\ \A j \in 1 .. Len(outbound') : outbound'[j] = outbound'[i] => j = i
    <3>1. CASE i = Len(outbound) + 1
      <4>1. Waiting(outbound[i])'
        BY <2>2, <2>7, <3>1 DEF Waiting
      <4>2. \A j \in 1 .. Len(outbound) : outbound'[j] # t
        BY <2>2, <2>5, <2>8, <3>1
      <4> QED
        BY <2>2, <3>1, <4>1, <4>2
    <3>2. CASE i \in 1 .. Len(outbound)
      <4>1. outbound'[i] = outbound[i] /\ Waiting(outbound[i]) /\ outbound[i] # t
        BY <2>2, <2>5, <2>8, <3>2
      <4>2. Waiting(outbound[i])'
        BY <2>6, <4>1 DEF Waiting
      <4>3. \A j \in 1 .. Len(outbound) : outbound[j] = outbound[i] => j = i
        BY <2>8, <3>2, <4>1 DEF LoopInv, Calls
      <4> QED
        BY <2>2, <3>2, <4>1, <4>2, <4>3
    <3> QED
      BY <2>2, <3>1, <3>2
  <2>9. ASSUME held # 0
        PROVE  /\ Waiting(holder)' /\ holder # Marker
               /\ held = Work(holder)[send'[holder].n]
               /\ \A i \in 1 .. Len(outbound') : outbound'[i] # holder
    <3>1. /\ Waiting(holder) /\ holder # Marker /\ held = Work(holder)[send[holder].n]
          /\ \A i \in 1 .. Len(outbound) : outbound[i] # holder
      BY <2>1, <2>9 DEF LoopInv, Calls
    <3>2. holder \in Sender \ {t}
      BY <2>4, <3>1 DEF Waiting
    <3>3. Waiting(holder)'
      BY <1>3, <2>6, <3>1, <3>2 DEF Waiting
    <3>4. send'[holder] = send[holder]
      BY <2>3, <3>2
    <3>5. \A i \in 1 .. Len(outbound') : outbound'[i] # holder
      BY <2>2, <3>1, <3>2
    <3> QED
      BY <3>1, <3>3, <3>4, <3>5
  <2> QED
    BY <1>1, <1>2, <1>3, <2>1, <2>2, <2>3, <2>8, <2>9 DEF Calls
<1>5. CASE SendSignals(t)
  <2>1. /\ send[t].pc \in {"signal", "ok", "error"} /\ outbound' = outbound
        /\ send' = IF send[t].pc = "signal" THEN [send EXCEPT ![t].pc = "wait"]
                                            ELSE Return(t, send[t].pc)
    BY <1>5 DEF SendSignals
  <2>2. /\ send' \in [Sender -> [pc : SendPc, n : Nat \ {0}]]
        /\ \A u \in Sender : send'[u] # send[u] =>
             \/ u = t /\ send[t].pc \notin {"signal", "wait"}
             \/ u = t /\ send'[t] = [pc |-> "wait", n |-> send[t].n]
    BY <1>3, <2>1 DEF Return, SendPc
  <2>3. \A u : Waiting(u) => /\ u \in Sender /\ send'[u].n = send[u].n
                             /\ send'[u].pc \in {"signal", "wait"}
    <3> SUFFICES ASSUME NEW u, Waiting(u)
                 PROVE  /\ u \in Sender /\ send'[u].n = send[u].n
                        /\ send'[u].pc \in {"signal", "wait"}
      OBVIOUS
    <3>1. u \in Sender /\ send[u].pc \in {"signal", "wait"}
      BY DEF Waiting
    <3>2. send'[u] = send[u] \/ send'[u] = [pc |-> "wait", n |-> send[u].n]
      BY <2>2, <3>1
    <3>3. CASE send'[u] = send[u]
      BY <3>1, <3>3
    <3>4. CASE send'[u] = [pc |-> "wait", n |-> send[u].n]
      BY <3>1, <3>4
    <3> QED
      BY <3>2, <3>3, <3>4
  <2>4. \A u : Waiting(u) => /\ u \in Sender /\ send'[u].pc \in {"signal", "wait"}
                             /\ send'[u].n \in 1 .. Len(Work(u))
    BY <2>3 DEF Waiting
  <2>5. \A i \in 1 .. Len(outbound) : outbound[i] # Marker => Waiting(outbound[i])'
    <3>1. \A i \in 1 .. Len(outbound) : outbound[i] # Marker => Waiting(outbound[i])
      BY DEF LoopInv, Calls
    <3> QED
      BY <2>1, <2>4, <3>1 DEF Waiting
  <2>6. held # 0 /\ writer.pc # "ended" =>
          Waiting(holder)' /\ held = Work(holder)[send'[holder].n]
    <3>1. held # 0 /\ writer.pc # "ended" => Waiting(holder) /\ held = Work(holder)[send[holder].n]
      BY DEF LoopInv, Calls
    <3> QED
      BY <1>3, <2>3, <2>4, <3>1 DEF Waiting
  <2> QED
    BY <1>1, <1>2, <1>3, <2>1, <2>2, <2>5, <2>6 DEF LoopInv, Calls
<1>6. CASE SendFails(t)
  <2>1. writer.pc = "ended" /\ outbound' = outbound /\ outbound = << >>
    BY <1>6 DEF SendFails, LoopInv, Calls
  <2>2. send' \in [Sender -> [pc : SendPc, n : Nat \ {0}]]
    BY <1>3, <1>6 DEF SendFails, Return, SendPc
  <2> QED
    BY <1>1, <1>2, <1>3, <2>1, <2>2 DEF Calls
<1> QED
  BY <1>4, <1>5, <1>6 DEF SendStep

\* Steps of the writer that only move it, give up its transport or mark it
\* written, and steps of the others that only add or drop a command.
LEMMA QuietStep ==
  ASSUME LoopInv, UNCHANGED << send, outbound, holder, peer, vars >>,
         cmds' \in Seq([op : {"attach", "detach"}, gen : Nat, seq : 0 .. next_send_seq]),
         writer' \in [pc : WriterPc \ {"ended"}, gen : Nat, last_sent : 0 .. next_send_seq,
                      dirty : BOOLEAN, seq : 0 .. next_send_seq],
         pc = "run" \/ (cmds # << >> => cmds' # << >>),
         writer.pc # "ended",
         transport' \in [gen : Nat, attached : BOOLEAN]
  PROVE  Numbers' /\ Calls'
<1>1. UNCHANGED << next_send_seq, resume_seq, resume, held, pc >>
  BY DEF vars
<1>2. Calls'
  BY <1>1, CallsKept DEF LoopInv
<1>3. Numbers'
  BY <1>1 DEF LoopInv, Numbers
<1> QED
  BY <1>2, <1>3

\* Each step of the writer task is a step of the buffer, or leaves it alone.
LEMMA WriterStepKeeps ==
  ASSUME LoopInv, WriterStep
  PROVE  [Next]_vars /\ Numbers' /\ Calls'
<1> DEFINE Cmd == [op : {"attach", "detach"}, gen : Nat, seq : 0 .. next_send_seq]
           Wr == [pc : WriterPc \ {"ended"}, gen : Nat, last_sent : 0 .. next_send_seq,
                  dirty : BOOLEAN, seq : 0 .. next_send_seq]
           Tr == [gen : Nat, attached : BOOLEAN]
<1>1. /\ cmds \in Seq(Cmd) /\ transport \in Tr
      /\ writer.pc # "ended" => writer \in Wr
      /\ next_send_seq \in Nat /\ 0 \in 0 .. next_send_seq
      /\ resume_seq \in 0 .. next_send_seq
  BY ReplayBufferAssumption DEF LoopInv, Numbers, IInv, TypeOK
<1>2. ASSUME ApplyDetach \/ ApplyAttach, pc = "run", writer.pc # "ended"
      PROVE  [Next]_vars /\ Numbers' /\ Calls'
  <2>1. CASE ApplyDetach
    <3>1. cmds' \in Seq(Cmd)
      BY <1>1, <2>1 DEF ApplyDetach
    <3>2. writer' \in Wr
      BY <1>1, <1>2, <2>1 DEF ApplyDetach, WriterPc
    <3>3. UNCHANGED << send, outbound, holder, peer, vars, transport >>
      BY <2>1 DEF ApplyDetach, others, conn
    <3> QED
      BY <1>1, <1>2, <3>1, <3>2, <3>3, QuietStep
  <2>2. CASE ApplyAttach
    <3>1. Head(cmds).seq \in 0 .. next_send_seq
      <4>1. Head(cmds) \in Cmd
        <5> HIDE DEF Cmd
        <5> QED
          BY <1>1, <2>2 DEF ApplyAttach
      <4> QED
        BY <4>1
    <3>2. Next
      BY <2>2, <3>1 DEF ApplyAttach, Next, ResumeAck
    <3>3. /\ UNCHANGED << next_send_seq, held, resume >> /\ resume_seq' = Head(cmds).seq
          /\ cmds # << >>
          /\ UNCHANGED << send, outbound, holder, writer, cmds, peer, transport >>
      BY <2>2 DEF ApplyAttach, ResumeAckOf, others, conn
    <3>4. Calls'
      BY <3>3, CallsKept DEF LoopInv
    <3>5. Numbers'
      BY <3>1, <3>3 DEF LoopInv, Numbers
    <3> QED
      BY <3>2, <3>4, <3>5
  <2> QED
    BY <1>2, <2>1, <2>2
<1>3. CASE ApplySnapshot
  <2>1. /\ ResumeSnapshot /\ writer.pc # "ended" /\ cmds' = Tail(cmds)
        /\ writer' = [pc |-> "top", gen |-> Head(cmds).gen, last_sent |-> resume_seq,
                      dirty |-> FALSE, seq |-> 0]
        /\ UNCHANGED << send, outbound, holder, peer, transport >>
        /\ UNCHANGED << next_send_seq, held, resume_seq >>
        /\ pc = "resume" /\ pc' = "run"
        /\ resume' = After(buf.replay_queue, resume_seq)
    BY <1>3 DEF ApplySnapshot, ResumeSnapshot, SnapshotFrom, others, conn
  <2>2. cmds # << >>
    BY <2>1 DEF LoopInv, Numbers
  <2>3. cmds' \in Seq(Cmd) /\ Head(cmds) \in Cmd
    <3> HIDE DEF Cmd
    <3> QED
      BY <1>1, <2>1, <2>2
  <2>4. writer' \in Wr
    BY <1>1, <2>1, <2>3 DEF WriterPc
  <2> DEFINE Old == {r \in Record : r.seq <= next_send_seq}
  <2>5. buf.replay_queue \in Seq(Old)
    <3> DEFINE q == buf.replay_queue
    <3>1. /\ q \in Seq(Record) /\ Len(q) \in Nat /\ buf.last_acked \in Nat
          /\ buf.last_acked + Len(q) = next_send_seq
          /\ \A i \in 1 .. Len(q) : q[i].seq = buf.last_acked + i
      BY DEF LoopInv, IInv, TypeOK, KeepsUnacked
    <3>2. \A i \in 1 .. Len(q) : q[i] \in Old
      BY <3>1
    <3> HIDE DEF q, Old
    <3>3. q = [i \in 1 .. Len(q) |-> q[i]]
      BY <3>1
    <3>4. q \in [1 .. Len(q) -> Old]
      BY <3>2, <3>3
    <3>5. q \in Seq(Old)
      BY <3>1, <3>4, SeqDef
    <3> QED
      BY <3>5 DEF q
  <2>6. resume' \in Seq(Old)
    <3> HIDE DEF Old
    <3> QED
      BY <2>1, <2>5, AfterType
  <2>7. Numbers'
    BY <2>1, <2>3, <2>4, <2>6 DEF LoopInv, Numbers
  <2>8. Calls'
    BY <2>1, CallsKept DEF LoopInv
  <2> QED
    BY <2>1, <2>7, <2>8 DEF Next
<1>4. CASE StepApplies \/ WaitCommand \/ DetachedCommand
  BY <1>2, <1>4 DEF StepApplies, WaitCommand, DetachedCommand, At
<1>5. CASE NextAck
  <2>1. writer.pc # "ended" /\ writer' \in Wr
    BY <1>1, <1>5 DEF NextAck, Writing, At, WriterPc
  <2>2. UNCHANGED << send, outbound, holder, peer, vars, transport, cmds >>
    BY <1>5 DEF NextAck, conn
  <2> QED
    BY <1>1, <2>1, <2>2, QuietStep
<1>6. CASE NextReplay
  <2>1. /\ ResumeNext /\ writer.pc = "top" /\ resume # << >> /\ resume' = Tail(resume)
        /\ writer' \in {[writer EXCEPT !.pc = "write", !.seq = Head(resume).seq],
                        [writer EXCEPT !.pc = "top"]}
        /\ UNCHANGED << send, outbound, holder, cmds, peer, transport >>
        /\ UNCHANGED << next_send_seq, held, resume_seq, pc >> /\ pc = "run"
    BY <1>6 DEF NextReplay, ResumeNext, Writing, At, others, conn
  <2> DEFINE Old == {r \in Record : r.seq <= next_send_seq}
  <2>2. resume \in Seq(Old)
    BY DEF LoopInv, Numbers
  <2>3. Head(resume) \in Old /\ resume' \in Seq(Old)
    <3> HIDE DEF Old
    <3> QED
      BY <2>1, <2>2
  <2>4. Head(resume).seq \in 0 .. next_send_seq
    BY <1>1, <2>3, ReplayBufferAssumption DEF Record
  <2>5. writer' \in Wr
    BY <1>1, <2>1, <2>4 DEF WriterPc
  <2>6. Numbers'
    BY <2>1, <2>3, <2>5 DEF LoopInv, Numbers
  <2>7. Calls'
    BY <2>1, <2>5, CallsKept DEF LoopInv
  <2> QED
    BY <2>1, <2>6, <2>7 DEF Next
<1>7. CASE NextHeld
  <2>1. /\ held # 0 /\ StageAnd(holder, "flush") /\ outbound' = outbound /\ writer.pc # "ended"
    BY <1>7 DEF NextHeld, Writing, At
  <2>2. /\ Waiting(holder) /\ holder # Marker /\ held = Work(holder)[send[holder].n]
        /\ outbound \in Seq(Sender \cup {Marker})
        /\ \A i \in 1 .. Len(outbound) : outbound[i] # holder
    BY <2>1 DEF LoopInv, Calls
  <2>3. \A i \in 1 .. Len(outbound') : outbound'[i] # Marker =>
          /\ Waiting(outbound'[i]) /\ outbound'[i] # holder
          /\ \A j \in 1 .. Len(outbound') : outbound'[j] = outbound'[i] => j = i
    BY <2>1, <2>2 DEF LoopInv, Calls
  <2> QED
    BY <2>1, <2>2, <2>3, StageAndStep
<1>8. CASE NextLive \/ WaitFrame \/ DetachedFrame
  <2>1. writer.pc # "ended" /\ pc = "run"
    BY <1>8 DEF NextLive, WaitFrame, DetachedFrame, Writing, At
  <2>2. \/ \E whenFull \in {"flush", "top"} : TakeFrame(whenFull)
        \/ TakeMarker
    BY <1>8 DEF NextLive, WaitFrame, DetachedFrame
  <2>3. CASE \E whenFull \in {"flush", "top"} : TakeFrame(whenFull)
    BY <2>1, <2>3, TakeFrameStep
  <2>4. CASE TakeMarker
    <3>1. /\ outbound # << >> /\ outbound' = Tail(outbound) /\ held = 0
          /\ writer' \in Wr
          /\ UNCHANGED << send, holder, cmds, peer, transport, vars >>
      BY <1>1, <2>1, <2>4 DEF TakeMarker, others, conn, WriterPc
    <3>2. /\ outbound \in Seq(Sender \cup {Marker})
          /\ outbound' \in Seq(Sender \cup {Marker}) /\ Len(outbound') = Len(outbound) - 1
          /\ Len(outbound) \in Nat
          /\ \A i \in 1 .. Len(outbound') : outbound'[i] = outbound[i + 1]
      BY <3>1 DEF LoopInv, Calls
    <3>3. ASSUME NEW i \in 1 .. Len(outbound'), outbound'[i] # Marker
          PROVE  /\ Waiting(outbound[i])'
                 /\ \A j \in 1 .. Len(outbound') : outbound'[j] = outbound'[i] => j = i
      <4>1. i + 1 \in 1 .. Len(outbound) /\ outbound'[i] = outbound[i + 1]
        BY <3>2
      <4>2. /\ Waiting(outbound[i + 1])
            /\ \A j \in 1 .. Len(outbound) : outbound[j] = outbound[i + 1] => j = i + 1
        BY <3>3, <4>1 DEF LoopInv, Calls
      <4>3. Waiting(outbound[i])'
        BY <3>1, <4>1, <4>2 DEF Waiting
      <4>4. ASSUME NEW j \in 1 .. Len(outbound'), outbound'[j] = outbound'[i]
            PROVE  j = i
        <5>1. j + 1 \in 1 .. Len(outbound) /\ outbound'[j] = outbound[j + 1]
          BY <3>2
        <5>2. j + 1 = i + 1
          BY <4>1, <4>2, <4>4, <5>1
        <5> QED
          BY <3>2, <5>2
      <4> QED
        BY <4>3, <4>4
    <3>4. Calls'
      BY <3>1, <3>2, <3>3 DEF LoopInv, Calls, vars
    <3>5. Numbers'
      BY <2>1, <3>1 DEF LoopInv, Numbers, vars
    <3> QED
      BY <3>1, <3>4, <3>5
  <2> QED
    BY <2>2, <2>3, <2>4
<1>9. CASE NextNothing \/ Writes \/ Flushes \/ WaitNotified
  <2>1. UNCHANGED << send, outbound, holder, peer, vars, transport, cmds >>
    BY <1>9 DEF NextNothing, Writes, Flushes, WaitNotified, others, conn
  <2>2. writer.pc # "ended"
    BY <1>9 DEF NextNothing, Writes, Flushes, WaitNotified, Writing, At
  <2>3. \/ \E where \in {"flush", "top"} : writer' = [writer EXCEPT !.pc = where]
        \/ writer' = [writer EXCEPT !.pc = "top", !.dirty = TRUE, !.seq = 0,
                                    !.last_sent = IF writer.seq > 0 THEN writer.seq ELSE @]
        \/ writer' = [writer EXCEPT !.pc = "wait", !.dirty = FALSE]
    BY <1>9 DEF NextNothing, Writes, Flushes, WaitNotified
  <2>4. writer' \in Wr
    <3>1. /\ writer \in Wr /\ 0 \in 0 .. next_send_seq
          /\ (IF writer.seq > 0 THEN writer.seq ELSE writer.last_sent) \in 0 .. next_send_seq
      BY <1>1, <2>2
    <3>2. CASE \E where \in {"flush", "top"} : writer' = [writer EXCEPT !.pc = where]
      BY <3>1, <3>2 DEF WriterPc
    <3>3. CASE writer' = [writer EXCEPT !.pc = "top", !.dirty = TRUE, !.seq = 0,
                                        !.last_sent = IF writer.seq > 0 THEN writer.seq ELSE @]
      BY <3>1, <3>3 DEF WriterPc
    <3>4. CASE writer' = [writer EXCEPT !.pc = "wait", !.dirty = FALSE]
      BY <3>1, <3>4 DEF WriterPc
    <3> QED
      BY <2>3, <3>2, <3>3, <3>4
  <2> QED
    BY <1>1, <2>1, <2>2, <2>4, QuietStep
<1>10. CASE ShutsDown \/ DetachedMarker
  <2>1. WriterEnds /\ UNCHANGED << send, peer, vars, transport >>
    BY <1>10 DEF ShutsDown, DetachedMarker, conn
  <2> QED
    BY <1>1, <2>1, WriterEndsStep
<1>11. CASE DetachedNotified
  <2>1. /\ UNCHANGED << send, peer, vars, transport >> /\ writer.pc # "ended"
        /\ WriterEnds \/ UNCHANGED << writer, outbound, holder, cmds >>
    BY <1>11 DEF DetachedNotified, conn, At
  <2> QED
    BY <1>1, <2>1, WriterEndsStep, QuietStep
<1> QED
  BY <1>3, <1>4, <1>5, <1>6, <1>7, <1>8, <1>9, <1>10, <1>11 DEF WriterStep

\* Each step of the task, its senders, its reader and close keeps what the
\* buffer relies on.
LEMMA LoopStep ==
  ASSUME LoopInv, [LoopNext]_loopVars
  PROVE  [Next]_vars /\ LoopInv'
<1> DEFINE Cmd == [op : {"attach", "detach"}, gen : Nat, seq : 0 .. next_send_seq]
           Wr == [pc : WriterPc \ {"ended"}, gen : Nat, last_sent : 0 .. next_send_seq,
                  dirty : BOOLEAN, seq : 0 .. next_send_seq]
           Tr == [gen : Nat, attached : BOOLEAN]
<1>1. /\ cmds \in Seq(Cmd) /\ transport \in Tr
      /\ writer.pc # "ended" => writer \in Wr
      /\ next_send_seq \in Nat /\ 0 \in 0 .. next_send_seq
      /\ peer \in [has : 0 .. next_send_seq, acked : 0 .. next_send_seq]
      /\ buf.last_acked \in Nat
  BY ReplayBufferAssumption DEF LoopInv, Numbers, IInv, TypeOK
<1>2. CASE \E t \in Sender : SendStep(t)
  BY <1>2, SendStepKeeps, BufferStep DEF LoopInv
<1>3. CASE WriterStep
  BY <1>3, WriterStepKeeps, BufferStep DEF LoopInv
<1>4. CASE PeerReads \/ AckGetsLost
  <2>1. UNCHANGED << send, outbound, holder, writer, cmds, transport, vars >>
    BY <1>4 DEF PeerReads, AckGetsLost, conn
  <2>2. peer' \in [has : 0 .. next_send_seq, acked : 0 .. next_send_seq]
    <3>1. CASE PeerReads
      <4>1. PICK n \in peer.has + 1 .. writer.last_sent : peer' = [peer EXCEPT !.has = n]
        BY <3>1 DEF PeerReads
      <4>2. writer.last_sent \in 0 .. next_send_seq
        BY DEF LoopInv, Numbers
      <4>3. n \in 0 .. next_send_seq
        BY <1>1, <4>1, <4>2
      <4> QED
        BY <1>1, <4>1, <4>3
    <3>2. CASE AckGetsLost
      BY <1>1, <3>2 DEF AckGetsLost
    <3> QED
      BY <1>4, <3>1, <3>2
  <2>3. Numbers'
    BY <2>1, <2>2 DEF LoopInv, Numbers, vars
  <2>4. Calls'
    BY <2>1, CallsKept DEF LoopInv, vars
  <2> QED
    BY <2>1, <2>3, <2>4, BufferStep DEF LoopInv
<1>5. CASE ReaderAcks
  <2>1. AckOf(peer.has) /\ peer' = [peer EXCEPT !.acked = peer.has]
    BY <1>5 DEF ReaderAcks
  <2>2. peer.has \in 0 .. next_send_seq
    BY <1>1
  <2>3. Next
    BY <2>1, <2>2 DEF Next, AckReceived
  <2>4. UNCHANGED << send, outbound, holder, writer, cmds, transport,
                     next_send_seq, held, pc, resume_seq, resume >>
    BY <1>5 DEF ReaderAcks, AckOf, conn
  <2>5. peer' \in [has : 0 .. next_send_seq, acked : 0 .. next_send_seq]
    BY <1>1, <2>1
  <2>6. Numbers' /\ Calls'
    BY <2>4, <2>5, CallsKept DEF LoopInv, Numbers
  <2> QED
    BY <2>3, <2>6, BufferStep DEF LoopInv
<1>6. CASE ReaderReceives \/ ReaderSignals \/ Close \/ CloseSignals \/ UNCHANGED loopVars
  <2>1. UNCHANGED << send, outbound, holder, writer, cmds, transport, peer, vars >>
    BY <1>6 DEF ReaderReceives, ReaderSignals, Close, CloseSignals, loopVars, conn
  <2>2. Numbers' /\ Calls'
    BY <2>1, NumbersKept, CallsKept DEF LoopInv, vars
  <2> QED
    BY <2>1, <2>2, BufferStep DEF LoopInv
<1>7. CASE ReaderEnds \/ CloseReturns \/ CloseTimesOut
  <2>1. UNCHANGED << send, peer, vars >>
    BY <1>7 DEF ReaderEnds, CloseReturns, CloseTimesOut
  <2>2. CASE MarkClosed
    <3>1. transport' \in Tr
      BY <1>1, <2>2 DEF MarkClosed
    <3> QED
      BY <2>1, <2>2, <3>1, WriterEndsStep, BufferStep DEF LoopInv, MarkClosed
  <2>3. CASE /\ ReaderEnds /\ Detached(transport.gen)
             /\ cmds' = Append(cmds, [op |-> "detach", gen |-> transport.gen, seq |-> 0])
             /\ UNCHANGED << outbound, holder, writer, closed >>
    <3>1. transport' \in Tr /\ [op |-> "detach", gen |-> transport.gen, seq |-> 0] \in Cmd
      BY <1>1, <2>3 DEF Detached
    <3>2. cmds' \in Seq(Cmd) /\ cmds' # << >>
      <4> DEFINE c == [op |-> "detach", gen |-> transport.gen, seq |-> 0]
      <4>1. c \in Cmd /\ cmds \in Seq(Cmd) /\ cmds' = Append(cmds, c)
        BY <1>1, <2>3, <3>1
      <4> HIDE DEF Cmd, c
      <4> QED
        BY <4>1
    <3>3. Numbers' /\ Calls'
      BY <2>1, <2>3, <3>1, <3>2, CallsKept DEF LoopInv, Numbers, vars
    <3> QED
      BY <2>1, <3>3, BufferStep DEF LoopInv
  <2> QED
    BY <1>7, <2>2, <2>3 DEF ReaderEnds, CloseReturns, CloseTimesOut
<1>8. CASE Attach
  <2>1. PICK seq \in 0 .. peer.has :
          cmds' = Append(cmds, [op |-> "attach", gen |-> transport.gen + 1, seq |-> seq])
    BY <1>8 DEF Attach
  <2>2. /\ transport' = [gen |-> transport.gen + 1, attached |-> TRUE]
        /\ UNCHANGED << send, outbound, holder, writer, peer, vars >>
    BY <1>8 DEF Attach
  <2>3. seq \in 0 .. next_send_seq
    BY <1>1
  <2>4. transport' \in Tr /\ [op |-> "attach", gen |-> transport.gen + 1, seq |-> seq] \in Cmd
    BY <1>1, <2>2, <2>3
  <2>5. cmds' \in Seq(Cmd) /\ cmds' # << >>
    <3> DEFINE c == [op |-> "attach", gen |-> transport.gen + 1, seq |-> seq]
    <3>1. c \in Cmd /\ cmds \in Seq(Cmd) /\ cmds' = Append(cmds, c)
      BY <1>1, <2>1, <2>4
    <3> HIDE DEF Cmd, c
    <3> QED
      BY <3>1
  <2>6. Numbers' /\ Calls'
    BY <2>2, <2>4, <2>5, CallsKept DEF LoopInv, Numbers, vars
  <2> QED
    BY <2>2, <2>6, BufferStep DEF LoopInv
<1>9. CASE CloseQueues
  <2>1. /\ outbound' = Append(outbound, Marker) /\ writer.pc # "ended"
        /\ UNCHANGED << send, holder, writer, cmds, transport, peer, vars >>
    BY <1>9 DEF CloseQueues, conn
  <2>2. Numbers'
    BY <2>1, NumbersKept DEF LoopInv
  <2>3. /\ outbound \in Seq(Sender \cup {Marker}) /\ Len(outbound) \in Nat
        /\ outbound' \in Seq(Sender \cup {Marker}) /\ Len(outbound') = Len(outbound) + 1
        /\ outbound'[Len(outbound) + 1] = Marker
        /\ \A i \in 1 .. Len(outbound) : outbound'[i] = outbound[i]
    BY <2>1 DEF LoopInv, Calls
  <2>4. Calls'
    <3>1. ASSUME NEW i \in 1 .. Len(outbound'), outbound'[i] # Marker
          PROVE  /\ Waiting(outbound[i])'
                 /\ \A j \in 1 .. Len(outbound') : outbound'[j] = outbound'[i] => j = i
      <4>1. i \in 1 .. Len(outbound) /\ outbound'[i] = outbound[i]
        BY <2>3, <3>1
      <4>2. /\ Waiting(outbound[i])
            /\ \A j \in 1 .. Len(outbound) : outbound[j] = outbound[i] => j = i
        BY <3>1, <4>1 DEF LoopInv, Calls
      <4> QED
        BY <2>1, <2>3, <3>1, <4>1, <4>2 DEF Waiting
    <3>2. held # 0 => \A i \in 1 .. Len(outbound') : outbound'[i] # holder
      BY <2>1, <2>3 DEF LoopInv, Calls
    <3> QED
      BY <2>1, <2>3, <3>1, <3>2 DEF LoopInv, Calls, Waiting, vars
  <2> QED
    BY <2>1, <2>2, <2>4, BufferStep DEF LoopInv
<1>10. CASE WriteFails
  <2>1. /\ pc = "run" /\ writer.pc # "ended" /\ Detached(writer.gen)
        /\ cmds' \in {cmds, Append(cmds, [op |-> "detach", gen |-> writer.gen, seq |-> 0])}
        /\ writer' = [writer EXCEPT !.pc = "top", !.gen = 0]
        /\ UNCHANGED << send, outbound, holder, peer, vars >>
    BY <1>10 DEF WriteFails, At
  <2>2. /\ transport' \in Tr /\ writer' \in Wr
        /\ [op |-> "detach", gen |-> writer.gen, seq |-> 0] \in Cmd
    BY <1>1, <2>1 DEF Detached, WriterPc
  <2>3. cmds' \in Seq(Cmd)
    <3> DEFINE c == [op |-> "detach", gen |-> writer.gen, seq |-> 0]
    <3>1. c \in Cmd /\ cmds \in Seq(Cmd) /\ cmds' \in {cmds, Append(cmds, c)}
      BY <1>1, <2>1, <2>2
    <3> HIDE DEF Cmd, c
    <3> QED
      BY <3>1
  <2> QED
    BY <2>1, <2>2, <2>3, QuietStep, BufferStep DEF LoopInv
<1>11. CASE WaitSleep
  <2>1. /\ pc = "run" /\ writer.pc # "ended"
        /\ \E where \in {"top", "write"} : writer' = [writer EXCEPT !.pc = where, !.seq = 0]
        /\ UNCHANGED << send, outbound, holder, cmds, transport, peer, vars >>
    BY <1>11 DEF WaitSleep, At, others, conn
  <2>2. writer' \in Wr
    BY <1>1, <2>1 DEF WriterPc
  <2> QED
    BY <1>1, <2>1, <2>2, QuietStep, BufferStep DEF LoopInv
<1> QED
  BY <1>2, <1>3, <1>4, <1>5, <1>6, <1>7, <1>8, <1>9, <1>10, <1>11 DEF LoopNext

LEMMA LoopStarts ==
  ASSUME LoopInit
  PROVE  LoopInv
<1>1. IInv
  BY BufferInit DEF LoopInit
<1>2. /\ next_send_seq = 0 /\ held = 0 /\ pc = "run" /\ resume_seq = 0 /\ resume = << >>
  BY DEF LoopInit, Init
<1>3. Numbers
  BY <1>2 DEF LoopInit, Numbers, WriterPc
<1>4. Calls
  BY <1>2 DEF LoopInit, Calls, SendPc
<1> QED
  BY <1>1, <1>3, <1>4 DEF LoopInv

\* The writer task, its senders, the reader and close use the buffer as
\* ReplayBuffer specifies: nothing is acknowledged that has no number, a frame
\* is staged only while none is held, and the held one is tried again.  So the
\* buffer keeps every unacknowledged frame while the task runs, whatever fails
\* and whoever closes.
THEOREM LoopKeepsUnacked == LoopSpec => Spec /\ []KeepsUnacked
<1>1. LoopInit => LoopInv
  BY LoopStarts
<1>2. LoopInv /\ [LoopNext]_loopVars => [Next]_vars /\ LoopInv'
  BY LoopStep
<1>3. LoopInit => Init
  BY DEF LoopInit
<1>4. LoopInv => KeepsUnacked
  BY DEF LoopInv, IInv
<1> QED
  BY <1>1, <1>2, <1>3, <1>4, PTL DEF LoopSpec, Spec

-----------------------------------------------------------------------------
(* The order in which the task writes.                                     *)

\* The last number whose turn to be written has come: what is left to replay
\* are the numbers after it.
Behind == next_send_seq - Len(resume)

\* While a transport is written to, the frames left to replay are the last ones
\* taken; the writer sleeps only when none is left; the frame being written is
\* the one whose turn it is; and each frame between the last one written and
\* that one is acknowledged.
Gapless ==
  HasTransport =>
    /\ \A i \in 1 .. Len(resume) : resume[i].seq = Behind + i
    /\ writer.pc \in {"flush", "wait"} => resume = << >>
    /\ writer.pc = "write" /\ writer.seq > 0 => writer.seq = Behind
    /\ \A n \in writer.last_sent + 1 .. Behind :
         n <= buf.last_acked \/ (writer.pc = "write" /\ n = writer.seq)

\* A write has a transport, and a resume that has begun has acknowledged.
Attached ==
  /\ writer.pc \in {"write", "flush", "wait"} => HasTransport
  /\ pc = "resume" => resume_seq <= buf.last_acked

OrderInv == LoopInv /\ Gapless /\ Attached

LEMMA LoopNumbers ==
  ASSUME LoopInv
  PROVE  /\ next_send_seq \in Nat /\ Len(resume) \in Nat /\ buf.last_acked \in Nat
         /\ writer.last_sent \in 0 .. next_send_seq /\ writer.seq \in 0 .. next_send_seq
         /\ resume_seq \in 0 .. next_send_seq /\ Behind \in Int
         /\ resume \in Seq(Record)
  BY ReplayBufferAssumption DEF LoopInv, Numbers, IInv, TypeOK, Behind

\* A step that leaves the writer and its numbers alone, and acknowledges more.
LEMMA OrderKept ==
  ASSUME OrderInv, LoopInv', UNCHANGED << writer, next_send_seq, resume, pc, resume_seq >>,
         buf.last_acked <= buf'.last_acked
  PROVE  Gapless' /\ Attached'
<1>1. buf.last_acked \in Nat /\ buf'.last_acked \in Nat /\ resume_seq \in Nat
  BY LoopNumbers, ReplayBufferAssumption DEF OrderInv, LoopInv, IInv, TypeOK
<1>2. Attached'
  BY <1>1 DEF OrderInv, Attached, HasTransport
<1>3. Behind' = Behind /\ Behind \in Int /\ writer.last_sent \in Nat
  BY LoopNumbers DEF Behind, OrderInv
<1>4. Gapless'
  <2> SUFFICES ASSUME HasTransport' PROVE Gapless'
    BY DEF Gapless
  <2>1. HasTransport
    BY DEF HasTransport
  <2>2. ASSUME NEW n \in writer.last_sent + 1 .. Behind
        PROVE  n <= buf'.last_acked \/ (writer.pc = "write" /\ n = writer.seq)
    <3>1. n <= buf.last_acked \/ (writer.pc = "write" /\ n = writer.seq)
      BY <2>1 DEF OrderInv, Gapless
    <3> QED
      BY <1>1, <1>3, <3>1
  <2> QED
    BY <1>3, <2>1, <2>2 DEF OrderInv, Gapless
<1> QED
  BY <1>2, <1>4

\* A step after which the task has no transport.
LEMMA OrderOff ==
  ASSUME OrderInv, UNCHANGED << buf, pc, resume_seq >>, writer'.gen = 0,
         writer'.pc \notin {"write", "flush", "wait"}
  PROVE  Gapless' /\ Attached'
  BY DEF OrderInv, Gapless, Attached, HasTransport

\* A step of the task between two writes.
LEMMA OrderBetween ==
  ASSUME OrderInv, UNCHANGED vars, writer.pc # "write",
         UNCHANGED << writer.gen, writer.last_sent >>,
         \/ writer'.pc \in {"top", "shutdown"}
         \/ writer'.pc = "write" /\ writer'.seq = 0 /\ HasTransport
         \/ writer'.pc \in {"flush", "wait"} /\ HasTransport /\ resume = << >>
  PROVE  Gapless' /\ Attached'
<1>1. /\ Behind' = Behind /\ HasTransport' = HasTransport
      /\ UNCHANGED << buf, next_send_seq, pc, resume_seq, resume >>
  BY DEF vars, Behind, HasTransport
<1>2. Attached'
  BY <1>1 DEF OrderInv, Attached
<1>3. Gapless'
  <2> SUFFICES ASSUME HasTransport PROVE Gapless'
    BY <1>1 DEF Gapless
  <2>1. \A n \in writer.last_sent + 1 .. Behind : n <= buf.last_acked
    BY DEF OrderInv, Gapless
  <2>2. \A i \in 1 .. Len(resume) : resume[i].seq = Behind + i
    BY DEF OrderInv, Gapless
  <2> QED
    BY <1>1, <2>1, <2>2 DEF Gapless
<1> QED
  BY <1>2, <1>3

\* Staging puts the new number right behind what was written: with a transport
\* nothing is left to replay.
LEMMA OrderStaged ==
  ASSUME OrderInv, LoopInv', NEW t, NEW whenFull \in {"flush", "top"}, StageAnd(t, whenFull),
         HasTransport => resume = << >>, writer.pc # "write",
         whenFull = "flush" => HasTransport
  PROVE  Gapless' /\ Attached'
<1> DEFINE size == Work(t)[send[t].n]
           seq == next_send_seq + 1
           outcome == StageOutcome(buf, seq, size, MaxBytes)
<1>1. /\ pc = "run" /\ pc' = "run" /\ resume' = resume
      /\ next_send_seq' = IF outcome = "kept" THEN seq ELSE next_send_seq
      /\ buf'.last_acked = buf.last_acked
  <2>1. Stage(size)
    BY DEF StageAnd
  <2>2. /\ pc = "run" /\ pc' = "run" /\ resume' = resume
        /\ next_send_seq' = IF outcome = "kept" THEN seq ELSE next_send_seq
        /\ buf' = IF outcome = "kept" THEN Keep(buf, FrameRecord(seq, seq, size)) ELSE buf
    BY <2>1 DEF Stage, StageFrame
  <2>3. buf \in [used_bytes : Int, replay_queue : Seq(Record), last_acked : 0 .. MaxFrames]
    BY DEF OrderInv, LoopInv, IInv, TypeOK
  <2>4. Keep(buf, FrameRecord(seq, seq, size)).last_acked = buf.last_acked
    BY <2>3 DEF Keep
  <2> QED
    BY <2>2, <2>4
<1>2. /\ next_send_seq \in Nat /\ Len(resume) \in Nat /\ buf.last_acked \in Nat
      /\ writer.last_sent \in 0 .. next_send_seq
      /\ writer \in [pc : WriterPc, gen : Nat, last_sent : 0 .. next_send_seq, dirty : BOOLEAN,
                     seq : 0 .. next_send_seq]
  BY LoopNumbers DEF OrderInv, LoopInv, Numbers
<1>3. HasTransport => \A n \in writer.last_sent + 1 .. next_send_seq : n <= buf.last_acked
  BY <1>2 DEF OrderInv, Gapless, Behind
<1>4. CASE outcome = "kept" /\ HasTransport
  <2>1. writer' = [writer EXCEPT !.pc = "write", !.seq = seq]
    BY <1>2, <1>4 DEF StageAnd
  <2>2. /\ writer'.pc = "write" /\ writer'.seq = seq /\ HasTransport'
        /\ writer'.last_sent = writer.last_sent
    BY <1>2, <1>4, <2>1 DEF HasTransport
  <2>3. Behind' = seq /\ resume' = << >>
    BY <1>1, <1>2, <1>4 DEF Behind
  <2>4. ASSUME NEW n \in writer'.last_sent + 1 .. Behind'
        PROVE  n <= buf'.last_acked \/ n = writer'.seq
    BY <1>1, <1>2, <1>3, <1>4, <2>2, <2>3
  <2> QED
    BY <1>1, <2>2, <2>3, <2>4 DEF Gapless, Attached
<1>5. CASE ~(outcome = "kept" /\ HasTransport)
  <2>1. /\ writer' \in {[writer EXCEPT !.pc = whenFull], [writer EXCEPT !.pc = "top"]}
        /\ ~HasTransport /\ whenFull = "flush" => FALSE
    BY <1>5 DEF StageAnd
  <2>2. /\ writer'.gen = writer.gen /\ writer'.last_sent = writer.last_sent
        /\ writer'.pc \in {"top", "flush"} /\ HasTransport' = HasTransport
        /\ writer'.pc = "flush" => HasTransport
    BY <1>2, <2>1 DEF HasTransport
  <2>3. HasTransport => next_send_seq' = next_send_seq
    BY <1>1, <1>5
  <2>4. HasTransport => Behind' = next_send_seq /\ resume' = << >>
    BY <1>1, <1>2, <2>3 DEF Behind
  <2>5. Gapless'
    <3> SUFFICES ASSUME HasTransport PROVE Gapless'
      BY <2>2 DEF Gapless
    <3>1. \A n \in writer'.last_sent + 1 .. Behind' : n <= buf'.last_acked
      BY <1>1, <1>3, <2>2, <2>4
    <3> QED
      BY <2>2, <2>4, <3>1 DEF Gapless
  <2> QED
    BY <1>1, <2>2, <2>5 DEF Attached
<1> QED
  BY <1>4, <1>5

\* The frame that is taken is staged in order.
LEMMA OrderTaken ==
  ASSUME OrderInv, LoopInv', NEW whenFull \in {"flush", "top"}, TakeFrame(whenFull),
         HasTransport => resume = << >>, writer.pc # "write",
         whenFull = "flush" => HasTransport
  PROVE  Gapless' /\ Attached'
  BY OrderStaged DEF TakeFrame

\* A resume starts where the peer stands, with every frame after it that is not
\* acknowledged meanwhile.
LEMMA OrderResumed ==
  ASSUME OrderInv, LoopInv', ApplySnapshot
  PROVE  Gapless' /\ Attached'
<1> DEFINE q == buf.replay_queue
<1>1. /\ pc = "resume" /\ pc' = "run" /\ resume' = After(q, resume_seq)
      /\ UNCHANGED << buf, next_send_seq >>
      /\ writer' = [pc |-> "top", gen |-> Head(cmds).gen, last_sent |-> resume_seq,
                    dirty |-> FALSE, seq |-> 0]
  BY DEF ApplySnapshot, ResumeSnapshot, SnapshotFrom
<1>2. /\ q \in Seq(Record) /\ Len(q) \in Nat /\ buf.last_acked \in Nat /\ next_send_seq \in Nat
      /\ resume_seq \in Nat /\ resume_seq <= buf.last_acked
      /\ buf.last_acked + Len(q) = next_send_seq
      /\ \A i \in 1 .. Len(q) : q[i].seq = buf.last_acked + i
  <2>1. q \in Seq(Record) /\ Len(q) \in Nat /\ IInv
    BY DEF OrderInv, LoopInv, IInv, TypeOK
  <2>2. buf.last_acked \in Nat /\ next_send_seq \in Nat /\ resume_seq \in Nat
    BY LoopNumbers DEF OrderInv, LoopInv, Numbers
  <2>3. resume_seq <= buf.last_acked
    BY <1>1 DEF OrderInv, Attached
  <2>4. /\ buf.last_acked + Len(q) = next_send_seq
        /\ \A i \in 1 .. Len(q) : q[i].seq = buf.last_acked + i
    BY <2>1 DEF IInv, KeepsUnacked
  <2> QED
    BY <2>1, <2>2, <2>3, <2>4
<1>3. resume' = q
  <2> HIDE DEF q
  <2>1. After(q, resume_seq) = q
    BY <1>2, AfterNone
  <2> QED
    BY <1>1, <2>1
<1>4. Behind' = buf.last_acked
  <2>1. Behind' = next_send_seq - Len(q)
    BY <1>1, <1>3 DEF Behind
  <2> QED
    BY <1>2, <2>1
<1>5. writer'.pc = "top" /\ writer'.last_sent = resume_seq
  BY <1>1
<1>6. Attached'
  BY <1>1, <1>5 DEF Attached
<1>7. Gapless'
  <2>1. \A n \in writer'.last_sent + 1 .. Behind' : n <= buf'.last_acked
    BY <1>1, <1>2, <1>4, <1>5
  <2>2. \A i \in 1 .. Len(resume') : resume'[i].seq = Behind' + i
    BY <1>2, <1>3, <1>4
  <2> QED
    BY <1>5, <2>1, <2>2 DEF Gapless
<1> QED
  BY <1>6, <1>7

\* The next frame to replay is the one whose turn it is, or one that the peer
\* acknowledged.
LEMMA OrderReplayed ==
  ASSUME OrderInv, LoopInv', NextReplay
  PROVE  Gapless' /\ Attached'
<1> DEFINE seq == Head(resume).seq
<1>1. /\ pc = "run" /\ pc' = "run" /\ writer.pc = "top" /\ HasTransport
      /\ resume # << >> /\ resume' = Tail(resume)
      /\ UNCHANGED << buf, next_send_seq >>
      /\ writer' = IF seq > writer.last_sent /\ seq > buf.last_acked
                   THEN [writer EXCEPT !.pc = "write", !.seq = seq]
                   ELSE [writer EXCEPT !.pc = "top"]
  BY DEF NextReplay, ResumeNext, Writing, At
<1>2. /\ next_send_seq \in Nat /\ Len(resume) \in Nat /\ buf.last_acked \in Nat
      /\ writer.last_sent \in 0 .. next_send_seq /\ Behind \in Int /\ resume \in Seq(Record)
      /\ writer \in [pc : WriterPc, gen : Nat, last_sent : 0 .. next_send_seq, dirty : BOOLEAN,
                     seq : 0 .. next_send_seq]
  BY LoopNumbers DEF OrderInv, LoopInv, Numbers
<1>3. /\ Len(resume) > 0 /\ Len(resume') = Len(resume) - 1 /\ Head(resume) = resume[1]
      /\ \A i \in 1 .. Len(resume') : resume'[i] = resume[i + 1]
  BY <1>1, <1>2
<1>4. /\ \A i \in 1 .. Len(resume) : resume[i].seq = Behind + i
      /\ \A n \in writer.last_sent + 1 .. Behind : n <= buf.last_acked
  BY <1>1 DEF OrderInv, Gapless
<1>5. seq = Behind + 1 /\ Behind' = Behind + 1
  <2>1. resume[1].seq = Behind + 1
    BY <1>2, <1>3, <1>4
  <2>2. Behind' = next_send_seq - (Len(resume) - 1) /\ Behind = next_send_seq - Len(resume)
    BY <1>1, <1>3 DEF Behind
  <2> QED
    BY <1>2, <1>3, <2>1, <2>2
<1>6. /\ writer'.gen = writer.gen /\ writer'.last_sent = writer.last_sent
      /\ \/ /\ writer'.pc = "write" /\ writer'.seq = Behind + 1
         \/ /\ writer'.pc = "top"
            /\ Behind + 1 <= writer.last_sent \/ Behind + 1 <= buf.last_acked
  <2>1. CASE seq > writer.last_sent /\ seq > buf.last_acked
    BY <1>1, <1>2, <1>5, <2>1
  <2>2. CASE ~(seq > writer.last_sent /\ seq > buf.last_acked)
    BY <1>1, <1>2, <1>5, <2>2
  <2> QED
    BY <2>1, <2>2
<1>7. Attached'
  BY <1>1, <1>6 DEF Attached, HasTransport
<1>8. Gapless'
  <2>1. ASSUME NEW i \in 1 .. Len(resume')
        PROVE  resume'[i].seq = Behind' + i
    <3>1. i + 1 \in 1 .. Len(resume) /\ resume'[i] = resume[i + 1]
      BY <1>2, <1>3
    <3>2. resume[i + 1].seq = Behind + (i + 1)
      BY <1>4, <3>1
    <3> QED
      BY <1>2, <1>5, <3>1, <3>2
  <2>2. ASSUME NEW n \in writer'.last_sent + 1 .. Behind'
        PROVE  n <= buf'.last_acked \/ (writer'.pc = "write" /\ n = writer'.seq)
    BY SMTT(30), <1>1, <1>2, <1>4, <1>5, <1>6
  <2> QED
    BY <1>5, <1>6, <2>1, <2>2 DEF Gapless
<1> QED
  BY <1>7, <1>8

\* A write makes the frame whose turn it was the last one written.
LEMMA OrderWritten ==
  ASSUME OrderInv, Writes
  PROVE  Gapless' /\ Attached'
<1>1. /\ pc = "run" /\ writer.pc = "write" /\ UNCHANGED << buf, next_send_seq, pc, resume >>
      /\ writer' = [writer EXCEPT !.pc = "top", !.dirty = TRUE, !.seq = 0,
                                  !.last_sent = IF writer.seq > 0 THEN writer.seq ELSE @]
  BY DEF Writes, At, vars
<1>2. /\ next_send_seq \in Nat /\ Len(resume) \in Nat /\ Behind \in Int
      /\ writer.last_sent \in 0 .. next_send_seq /\ writer.seq \in 0 .. next_send_seq
      /\ writer \in [pc : WriterPc, gen : Nat, last_sent : 0 .. next_send_seq, dirty : BOOLEAN,
                     seq : 0 .. next_send_seq]
  BY LoopNumbers DEF OrderInv, LoopInv, Numbers
<1>3. /\ HasTransport /\ Behind' = Behind /\ HasTransport' = HasTransport /\ writer'.pc = "top"
      /\ writer'.last_sent = IF writer.seq > 0 THEN writer.seq ELSE writer.last_sent
  BY <1>1, <1>2 DEF OrderInv, Attached, Behind, HasTransport
<1>4. /\ \A i \in 1 .. Len(resume) : resume[i].seq = Behind + i
      /\ writer.seq > 0 => writer.seq = Behind
      /\ \A n \in writer.last_sent + 1 .. Behind : n <= buf.last_acked \/ n = writer.seq
  BY <1>1, <1>3 DEF OrderInv, Gapless
<1>5. ASSUME NEW n \in writer'.last_sent + 1 .. Behind
      PROVE  n <= buf.last_acked
  BY <1>2, <1>3, <1>4
<1> QED
  BY <1>1, <1>3, <1>4, <1>5 DEF Gapless, Attached

\* What an ACK acknowledges stays acknowledged, and the number it names is.
LEMMA AckAdvances ==
  ASSUME TypeOK, NEW n \in Nat
  PROVE  buf.last_acked <= Ack(buf, n).last_acked /\ n <= Ack(buf, n).last_acked
<1>1. buf \in Buffer(Record) /\ buf.last_acked \in Nat
  BY BufferType DEF Buffer
<1>2. Ack(buf, n).last_acked = IF n <= buf.last_acked THEN buf.last_acked ELSE n
  BY <1>1, RecordSize, AckType
<1> QED
  BY <1>1, <1>2

\* The first section of a resume acknowledges what the peer has.
LEMMA OrderCommand ==
  ASSUME OrderInv, LoopInv', writer.pc \in {"top", "wait"}, ApplyDetach \/ ApplyAttach,
         pc = "run"
  PROVE  Gapless' /\ Attached'
<1>1. CASE ApplyDetach
  <2>1. /\ UNCHANGED vars
        /\ writer' = [writer EXCEPT !.pc = "top",
                                    !.gen = IF Head(cmds).gen = writer.gen THEN 0 ELSE writer.gen]
    BY <1>1 DEF ApplyDetach
  <2>2. writer \in [pc : WriterPc, gen : Nat, last_sent : 0 .. next_send_seq, dirty : BOOLEAN,
                    seq : 0 .. next_send_seq]
    BY DEF OrderInv, LoopInv, Numbers
  <2>3. /\ writer'.pc = "top" /\ writer'.last_sent = writer.last_sent
        /\ writer'.gen = 0 \/ writer'.gen = writer.gen
    BY <2>1, <2>2
  <2>4. CASE writer'.gen = 0
    BY <2>1, <2>3, <2>4, OrderOff DEF vars
  <2>5. CASE writer'.gen = writer.gen
    BY <2>1, <2>3, <2>5, OrderBetween
  <2> QED
    BY <2>3, <2>4, <2>5
<1>2. CASE ApplyAttach
  <2> DEFINE n == Head(cmds).seq
  <2>1. /\ buf' = Ack(buf, n) /\ resume_seq' = n
        /\ UNCHANGED << next_send_seq, resume, writer >>
    BY <1>2 DEF ApplyAttach, ResumeAckOf
  <2>2. n \in Nat
    BY SMTT(30), <2>1, LoopNumbers DEF LoopInv, Numbers, IInv, TypeOK
  <2>3. buf.last_acked <= buf'.last_acked /\ resume_seq' <= buf'.last_acked
    BY <2>1, <2>2, AckAdvances DEF OrderInv, LoopInv, IInv
  <2>4. /\ buf.last_acked \in Nat /\ buf'.last_acked \in Nat /\ writer.last_sent \in Nat
        /\ Behind \in Int /\ Behind' = Behind
    BY <2>1, LoopNumbers, ReplayBufferAssumption
    DEF OrderInv, LoopInv, IInv, TypeOK, Behind
  <2>5. Attached'
    BY <2>1, <2>3 DEF OrderInv, Attached, HasTransport
  <2>6. Gapless'
    <3> SUFFICES ASSUME HasTransport PROVE Gapless'
      BY <2>1 DEF Gapless, HasTransport
    <3>1. ASSUME NEW m \in writer.last_sent + 1 .. Behind
          PROVE  m <= buf'.last_acked
      <4>1. m <= buf.last_acked
        BY DEF OrderInv, Gapless
      <4> QED
        BY <2>3, <2>4, <4>1
    <3> QED
      BY <2>1, <2>4, <3>1 DEF OrderInv, Gapless
  <2> QED
    BY <2>5, <2>6
<1> QED
  BY <1>1, <1>2

LEMMA OrderStep ==
  ASSUME OrderInv, LoopInv', [LoopNext]_loopVars
  PROVE  Gapless' /\ Attached'
<1> DEFINE Wr == [pc : WriterPc, gen : Nat, last_sent : 0 .. next_send_seq, dirty : BOOLEAN,
                  seq : 0 .. next_send_seq]
<1>1. writer \in Wr /\ buf.last_acked \in Nat
  BY LoopNumbers DEF OrderInv, LoopInv, Numbers
<1>2. CASE \/ \E t \in Sender : SendStep(t)
           \/ PeerReads \/ AckGetsLost \/ ReaderReceives \/ ReaderSignals \/ Attach
           \/ Close \/ CloseQueues \/ CloseSignals \/ UNCHANGED loopVars
  <2>1. UNCHANGED << writer, vars >>
    BY <1>2 DEF SendStep, SendQueues, SendSignals, SendFails, Elsewhere, PeerReads, AckGetsLost,
                ReaderReceives, ReaderSignals, Attach, Close, CloseQueues, CloseSignals, loopVars
  <2> QED
    BY <1>1, <2>1, OrderKept DEF vars
<1>3. CASE ReaderAcks
  <2>1. /\ buf' = Ack(buf, peer.has)
        /\ UNCHANGED << writer, next_send_seq, pc, resume_seq, resume >>
    BY <1>3 DEF ReaderAcks, AckOf
  <2>2. peer.has \in Nat
    BY LoopNumbers DEF OrderInv, LoopInv, Numbers
  <2>3. buf.last_acked <= buf'.last_acked
    BY <2>1, <2>2, AckAdvances DEF OrderInv, LoopInv, IInv
  <2> QED
    BY <2>1, <2>3, OrderKept
<1>4. CASE ReaderEnds \/ CloseReturns \/ CloseTimesOut \/ ShutsDown \/ DetachedMarker
           \/ DetachedNotified
  <2>1. UNCHANGED vars /\ (WriterEnds \/ UNCHANGED writer)
    BY <1>4 DEF ReaderEnds, CloseReturns, CloseTimesOut, ShutsDown, DetachedMarker,
                DetachedNotified, MarkClosed
  <2>2. CASE WriterEnds
    BY <2>1, <2>2, OrderOff DEF WriterEnds, vars
  <2>3. CASE UNCHANGED writer
    BY <1>1, <2>1, <2>3, OrderKept DEF vars
  <2> QED
    BY <2>1, <2>2, <2>3
<1>5. CASE WriteFails
  <2>1. UNCHANGED vars /\ writer' = [writer EXCEPT !.pc = "top", !.gen = 0]
    BY <1>5 DEF WriteFails
  <2> QED
    BY <1>1, <2>1, OrderOff DEF vars
<1>6. CASE WaitSleep \/ WaitNotified \/ NextAck \/ NextNothing \/ Flushes
  <2>1. UNCHANGED vars /\ writer.pc \in {"wait", "top", "flush"}
    BY <1>6 DEF WaitSleep, WaitNotified, NextAck, NextNothing, Flushes, Writing, At
  <2>2. writer'.gen = writer.gen /\ writer'.last_sent = writer.last_sent
    <3>1. \/ \E where \in WriterPc : writer' = [writer EXCEPT !.pc = where]
          \/ \E where \in WriterPc : writer' = [writer EXCEPT !.pc = where, !.seq = 0]
          \/ \E where \in WriterPc : writer' = [writer EXCEPT !.pc = where, !.dirty = FALSE]
      BY <1>6 DEF WaitSleep, WaitNotified, NextAck, NextNothing, Flushes, WriterPc
    <3> QED
      BY <1>1, <3>1
  <2>3. \/ writer'.pc = "top"
        \/ writer'.pc = "write" /\ writer'.seq = 0 /\ HasTransport
        \/ writer'.pc \in {"flush", "wait"} /\ HasTransport /\ resume = << >>
    <3>1. CASE WaitNotified
      BY <1>1, <3>1 DEF WaitNotified
    <3>2. CASE WaitSleep
      <4>1. HasTransport
        BY <3>2 DEF WaitSleep, At, OrderInv, Attached
      <4> QED
        BY <1>1, <3>2, <4>1 DEF WaitSleep
    <3>3. CASE NextAck
      BY <1>1, <3>3 DEF NextAck, Writing
    <3>4. CASE NextNothing
      BY <1>1, <3>4 DEF NextNothing, Writing
    <3>5. CASE Flushes
      <4>1. HasTransport /\ resume = << >>
        BY <3>5 DEF Flushes, At, OrderInv, Attached, Gapless
      <4> QED
        BY <1>1, <3>5, <4>1 DEF Flushes
    <3> QED
      BY <1>6, <3>1, <3>2, <3>3, <3>4, <3>5
  <2> QED
    BY <2>1, <2>2, <2>3, OrderBetween
<1>7. CASE StepApplies \/ WaitCommand \/ DetachedCommand
  BY <1>7, OrderCommand DEF StepApplies, WaitCommand, DetachedCommand, At
<1>8. CASE NextHeld
  BY <1>8, OrderStaged DEF NextHeld, Writing, At
<1>9. CASE NextLive \/ WaitFrame \/ DetachedFrame
  <2>1. writer.pc # "write" /\ (HasTransport => resume = << >>)
    BY <1>9 DEF NextLive, WaitFrame, DetachedFrame, Writing, At, OrderInv, Gapless
  <2>2. CASE NextLive /\ TakeFrame("flush")
    BY <2>1, <2>2, OrderTaken DEF NextLive, Writing
  <2>3. CASE TakeFrame("top")
    BY <2>1, <2>3, OrderTaken
  <2>4. CASE TakeMarker
    <3>1. UNCHANGED vars /\ writer' = [writer EXCEPT !.pc = "shutdown"]
      BY <2>4 DEF TakeMarker
    <3>2. writer'.pc = "shutdown" /\ writer'.gen = writer.gen
          /\ writer'.last_sent = writer.last_sent
      BY <1>1, <3>1
    <3> QED
      BY <2>1, <3>1, <3>2, OrderBetween
  <2> QED
    BY <1>9, <2>2, <2>3, <2>4 DEF NextLive, WaitFrame, DetachedFrame
<1> QED
  BY <1>2, <1>3, <1>4, <1>5, <1>6, <1>7, <1>8, <1>9, OrderResumed, OrderReplayed, OrderWritten
  DEF LoopNext, WriterStep

\* Whatever is staged while detached and acknowledged while replaying, for every
\* number of senders, sizes and transports: when the task writes a frame, each
\* frame between the last one it wrote to this transport and that one has been
\* acknowledged (write_next, prepare_resume), so the peer finds no number skipped.
THEOREM LoopWritesInSequence == LoopSpec => []WritesInSequence
<1>1. LoopInit => OrderInv
  <2> SUFFICES ASSUME LoopInit PROVE OrderInv
    OBVIOUS
  <2>1. LoopInv
    BY LoopStarts
  <2>2. Gapless /\ Attached
    BY DEF LoopInit, Init, Gapless, Attached, HasTransport
  <2> QED
    BY <2>1, <2>2 DEF OrderInv
<1>2. OrderInv /\ [LoopNext]_loopVars => OrderInv'
  BY LoopStep, OrderStep DEF OrderInv
<1>3. OrderInv => WritesInSequence
  <2> SUFFICES ASSUME OrderInv, writer.pc = "write", writer.seq > 0,
                      NEW n \in writer.last_sent + 1 .. writer.seq - 1
               PROVE  n <= buf.last_acked
    BY DEF WritesInSequence
  <2>1. HasTransport /\ writer.seq = Behind /\ Behind \in Int /\ writer.last_sent \in Nat
    BY LoopNumbers DEF OrderInv, Gapless, Attached
  <2>2. n \in writer.last_sent + 1 .. Behind /\ n # writer.seq
    BY <2>1
  <2> QED
    BY <2>1, <2>2 DEF OrderInv, Gapless
<1> QED
  BY <1>1, <1>2, <1>3, PTL DEF LoopSpec

=============================================================================
