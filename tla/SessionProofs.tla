---------------------------- MODULE SessionProofs ---------------------------
(***************************************************************************)
(* A recovery connection, for every set of messages, every replay limit    *)
(* and any number of transports and failures: it is type correct, it       *)
(* implements the reliable channel (ReliableChannel.tla), no frame is      *)
(* freed before the peer has it, the receiver never meets a gap, CLOSE     *)
(* comes after everything sent before it, and ACKs keep their schedule.    *)
(***************************************************************************)
EXTENDS Session, ReplayProofs

\* A reader and a waiting reconnect loop have a transport.
Named ==
  /\ \A e \in Endpoint : reader[e].pc # "none" => reader[e].t \in Transport
  /\ loop.pc = "wait" => loop.t \in Transport

Typed == TypeOK /\ Named

-----------------------------------------------------------------------------
(* What the helpers of the actions return.                                 *)

LEMMA PeerType ==
  ASSUME NEW e \in Endpoint
  PROVE  Peer(e) \in Endpoint /\ Peer(Peer(e)) = e /\ Peer(e) # e
  BY DEF Endpoint, Peer

LEMMA RecordSize == \A r \in RecordSet : r.size \in Nat
  BY DEF RecordSet

LEMMA MessageType ==
  ASSUME NEW e \in Endpoint, NEW msg \in 1 .. Len(Outgoing[e])
  PROVE  msg \in Message /\ Outgoing[e][msg] \in Nat
<1>1. msg \in Message
  BY DEF Message
<1>2. Outgoing[e] \in Seq(Nat)
  BY SessionAssumption
<1>3. Outgoing[e][msg] \in Nat
  BY <1>2
<1> QED
  BY <1>1, <1>3

LEMMA FrameTypes ==
  /\ \A type \in FrameType, seq \in Nat, msg \in Message \cup {None} :
       Frame(type, seq, msg) \in FrameSet
  /\ NoFrame \in FrameSet
  /\ NoReader \in ReaderSet
  /\ \A gen \in Nat, t \in Transport : NewReader(gen, t) \in ReaderSet
  /\ NoWriter \in WriterSet
  /\ NewWriter \in WriterSet
  /\ \A gen \in Nat, t \in Transport, seq \in Nat : AttachCmd(gen, t, seq) \in CmdSet
  /\ \A gen \in Nat : DetachCmd(gen) \in CmdSet
<1>1. \A type \in FrameType, seq \in Nat, msg \in Message \cup {None} :
        Frame(type, seq, msg) \in FrameSet
  BY DEF Frame, FrameSet
<1>2. NoFrame \in FrameSet
  BY <1>1 DEF NoFrame, FrameType
<1>3. NoReader \in ReaderSet
  BY <1>2 DEF NoReader, ReaderSet
<1>4. ASSUME NEW gen \in Nat, NEW t \in Transport PROVE NewReader(gen, t) \in ReaderSet
  BY <1>3 DEF NewReader, ReaderSet
<1>5. NoWriter \in WriterSet
  BY DEF NoWriter, WriterSet
<1>6. NewWriter \in WriterSet
  BY <1>5 DEF NewWriter, WriterSet
<1>7. \A gen \in Nat, t \in Transport, seq \in Nat : AttachCmd(gen, t, seq) \in CmdSet
  BY DEF AttachCmd, CmdSet
<1>8. \A gen \in Nat : DetachCmd(gen) \in CmdSet
  BY DEF DetachCmd, CmdSet
<1> QED
  BY <1>1, <1>2, <1>3, <1>4, <1>5, <1>6, <1>7, <1>8

LEMMA WrittenType ==
  ASSUME TypeOK, NEW e \in Endpoint, NEW t, NEW frame \in FrameSet
  PROVE  /\ wire \in [Transport -> [Endpoint -> Seq(FrameSet)]]
         /\ Written(e, t, frame) \in [Transport -> [Endpoint -> Seq(FrameSet)]]
<1>0. wire \in [Transport -> [Endpoint -> Seq(FrameSet)]]
  BY DEF TypeOK
<1>1. CASE Broken(e, t) \/ t \notin Transport
  BY <1>1 DEF Written, TypeOK
<1>2. CASE ~Broken(e, t) /\ t \in Transport
  <2>1. Written(e, t, frame) = [wire EXCEPT ![t][Peer(e)] = Append(@, frame)]
    BY <1>2 DEF Written
  <2>2. Append(wire[t][Peer(e)], frame) \in Seq(FrameSet)
    BY <1>2, PeerType DEF TypeOK
  <2> QED
    BY SMTT(40), <1>2, <2>1, <2>2, PeerType DEF TypeOK
<1> QED
  BY <1>0, <1>1, <1>2

LEMMA NoteReceivedType ==
  ASSUME NEW r \in RecvSet, NEW seq \in Nat
  PROVE  /\ NoteReceived(r, seq) \in RecvSet
         /\ NoteReceived(r, seq).last_recv_seq
              = IF seq <= r.last_recv_seq THEN r.last_recv_seq ELSE seq
<1> DEFINE again == r.ack_due \/ r.last_ack_sent < r.last_recv_seq
           due == AckEvery <= 1 \/ r.ack_pending + 1 >= AckEvery
           now == r.ack_due \/ due
           later == ~due
           n == r.ack_pending + 1
<1>1. again \in BOOLEAN /\ now \in BOOLEAN /\ later \in BOOLEAN
  OBVIOUS
<1>2. n \in Nat /\ r.last_recv_seq \in Nat
  BY DEF RecvSet
<1>3. CASE seq <= r.last_recv_seq
  <2>1. NoteReceived(r, seq) = [r EXCEPT !.ack_due = again]
    BY <1>3, Zenon DEF NoteReceived
  <2> HIDE DEF again
  <2> QED
    BY <1>1, <1>3, <2>1 DEF RecvSet
<1>4. CASE ~(seq <= r.last_recv_seq)
  <2>1. NoteReceived(r, seq) = [r EXCEPT !.last_recv_seq = seq, !.ack_pending = n,
                                         !.ack_due = now, !.ack_due_at = later]
    BY <1>4, Zenon DEF NoteReceived
  <2> HIDE DEF now, later, n
  <2> QED
    BY <1>1, <1>2, <1>4, <2>1 DEF RecvSet
<1> QED
  BY <1>3, <1>4

LEMMA AckedType ==
  ASSUME NEW b \in ReplaySet, NEW n \in Nat
  PROVE  /\ Ack(b, n) \in ReplaySet
         /\ \A i \in 1 .. Len(Ack(b, n).replay_queue) :
              \E j \in 1 .. Len(b.replay_queue) : Ack(b, n).replay_queue[i] = b.replay_queue[j]
<1>1. ReplaySet = Buffer(RecordSet)
  BY DEF ReplaySet, Buffer
<1> QED
  BY <1>1, RecordSize, AckType

LEMMA MarkClosedType ==
  ASSUME Typed, NEW e \in Endpoint, MarkClosed(e)
  PROVE  /\ conn' \in [Endpoint -> ConnSet]
         /\ writer' \in [Endpoint -> WriterSet]
         /\ reader' \in [Endpoint -> ReaderSet]
         /\ \A f \in Endpoint : reader'[f].pc # "none" => reader'[f].t \in Transport
<1>1. conn' \in [Endpoint -> ConnSet]
  BY ZenonT(60) DEF MarkClosed, Typed, TypeOK, ConnSet
<1>2. writer' \in [Endpoint -> WriterSet]
  BY FrameTypes DEF MarkClosed, Typed, TypeOK
<1>3. reader' \in [Endpoint -> ReaderSet]
  BY FrameTypes DEF MarkClosed, Typed, TypeOK
<1>4. \A f \in Endpoint : reader'[f] = IF f = e THEN NoReader ELSE reader[f]
  BY DEF MarkClosed, Typed, TypeOK
<1>5. NoReader.pc = "none"
  BY DEF NoReader
<1> QED
  BY <1>1, <1>2, <1>3, <1>4, <1>5 DEF Typed, Named

LEMMA AttachTransportType ==
  ASSUME Typed, NEW e \in Endpoint, NEW t \in Transport, NEW n \in Nat, AttachTransport(e, t, n)
  PROVE  /\ conn' \in [Endpoint -> ConnSet]
         /\ writer_cmd' \in [Endpoint -> Seq(CmdSet)]
         /\ reader' \in [Endpoint -> ReaderSet]
         /\ \A f \in Endpoint : reader'[f].pc # "none" => reader'[f].t \in Transport
<1> DEFINE gen == conn[e].transport_gen + 1
<1>1. CASE conn[e].closed
  BY <1>1 DEF AttachTransport, Typed, TypeOK, Named
<1>2. CASE ~conn[e].closed
  <2>1. gen \in Nat
    BY DEF Typed, TypeOK, ConnSet
  <2>2. conn' = [conn EXCEPT ![e].transport_gen = gen, ![e].transport_attached = TRUE]
    BY <1>2 DEF AttachTransport
  <2>3. writer_cmd' = [writer_cmd EXCEPT ![e] = Append(@, AttachCmd(gen, t, n))]
    BY <1>2 DEF AttachTransport
  <2>4. reader' = [reader EXCEPT ![e] = NewReader(gen, t)]
    BY <1>2 DEF AttachTransport
  <2> HIDE DEF gen
  <2>5. conn' \in [Endpoint -> ConnSet]
    BY ZenonT(60), <2>1, <2>2 DEF Typed, TypeOK, ConnSet
  <2>6. writer_cmd' \in [Endpoint -> Seq(CmdSet)]
    <3>1. AttachCmd(gen, t, n) \in CmdSet
      BY <2>1, FrameTypes
    <3>2. Append(writer_cmd[e], AttachCmd(gen, t, n)) \in Seq(CmdSet)
      BY <3>1 DEF Typed, TypeOK
    <3> QED
      BY <2>3, <3>2 DEF Typed, TypeOK
  <2>7. NewReader(gen, t) \in ReaderSet
    BY <2>1, FrameTypes
  <2>8. reader' \in [Endpoint -> ReaderSet]
    BY <2>4, <2>7 DEF Typed, TypeOK
  <2>9. \A f \in Endpoint : reader'[f] = IF f = e THEN NewReader(gen, t) ELSE reader[f]
    BY <2>4 DEF Typed, TypeOK
  <2>10. NewReader(gen, t).t = t
    BY DEF NewReader, NoReader
  <2> QED
    BY <2>5, <2>6, <2>8, <2>9, <2>10 DEF Typed, Named
<1> QED
  BY <1>1, <1>2

LEMMA DetachTransportType ==
  ASSUME Typed, NEW e \in Endpoint, NEW gen \in Nat, DetachTransport(e, gen)
  PROVE  /\ conn' \in [Endpoint -> ConnSet]
         /\ writer_cmd' \in [Endpoint -> Seq(CmdSet)]
         /\ loop' \in LoopSet
         /\ loop'.pc = "wait" => loop'.t \in Transport
<1>1. CASE ~Detaches(e, gen)
  BY <1>1 DEF DetachTransport, Typed, TypeOK, Named
<1>2. CASE Detaches(e, gen)
  <2>1. conn' \in [Endpoint -> ConnSet]
    <3> DEFINE next == gen + 1
    <3>1. conn' = [conn EXCEPT ![e].transport_gen = next, ![e].transport_attached = FALSE]
      BY <1>2 DEF DetachTransport
    <3>2. next \in Nat
      OBVIOUS
    <3> HIDE DEF next
    <3> QED
      BY ZenonT(60), <3>1, <3>2 DEF Typed, TypeOK, ConnSet
  <2>2. writer_cmd' \in [Endpoint -> Seq(CmdSet)]
    <3>1. writer_cmd' = [writer_cmd EXCEPT ![e] = Append(@, DetachCmd(gen))]
      BY <1>2 DEF DetachTransport
    <3>2. Append(writer_cmd[e], DetachCmd(gen)) \in Seq(CmdSet)
      BY FrameTypes DEF Typed, TypeOK
    <3> QED
      BY <3>1, <3>2 DEF Typed, TypeOK
  <2>3. loop' = loop \/ loop' = [loop EXCEPT !.pc = "dial"]
    BY <1>2 DEF DetachTransport
  <2>4. loop' \in LoopSet /\ (loop'.pc = "wait" => loop'.t \in Transport)
    BY <2>3 DEF Typed, TypeOK, Named, LoopSet
  <2> QED
    BY <2>1, <2>2, <2>4
<1> QED
  BY <1>1, <1>2

LEMMA TakeFrameType ==
  ASSUME TypeOK, NEW e \in Endpoint, NEW msg, TakeFrame(e, msg)
  PROVE  outbound' \in [Endpoint -> Seq(Message \cup {CloseMarker})]
<1>1. CASE UNCHANGED outbound
  BY <1>1 DEF TypeOK
<1>2. CASE outbound[e] # << >> /\ outbound' = [outbound EXCEPT ![e] = Tail(@)]
  <2>1. Tail(outbound[e]) \in Seq(Message \cup {CloseMarker})
    BY <1>2, HeadTailProperties DEF TypeOK
  <2> QED
    BY <1>2, <2>1 DEF TypeOK
<1> QED
  BY <1>1, <1>2 DEF TakeFrame

\* The record a kept frame leaves in the replay buffer.
LEMMA KeepType ==
  ASSUME TypeOK, NEW e \in Endpoint, NEW msg \in 1 .. Len(Outgoing[e])
  PROVE  LET seq == conn[e].next_send_seq + 1
             record == FrameRecord(seq, msg, Outgoing[e][msg])
             b == Keep(replay[e], record)
         IN  /\ seq \in Nat
             /\ record \in RecordSet /\ record.seq = seq /\ record.msg = msg
             /\ b \in ReplaySet
             /\ b.replay_queue = Append(replay[e].replay_queue, record)
<1> DEFINE seq == conn[e].next_send_seq + 1
           record == FrameRecord(seq, msg, Outgoing[e][msg])
           b == Keep(replay[e], record)
<1>1. seq \in Nat
  BY DEF TypeOK, ConnSet
<1>2. record \in RecordSet /\ record.seq = seq /\ record.msg = msg
  BY <1>1, MessageType DEF RecordSet, FrameRecord
<1> HIDE DEF seq, record
<1>3. replay[e] \in ReplaySet /\ replay[e].replay_queue \in Seq(RecordSet)
      /\ replay[e].used_bytes \in Int
  BY DEF TypeOK, ReplaySet
<1> DEFINE q == Append(replay[e].replay_queue, record)
           used == replay[e].used_bytes + record.size
<1>4. q \in Seq(RecordSet) /\ used \in Int
  BY <1>2, <1>3, RecordSize, AppendProperties
<1>5. b = [replay[e] EXCEPT !.replay_queue = q, !.used_bytes = used]
  BY DEF Keep
<1> HIDE DEF q, used, b
<1>6. b \in ReplaySet /\ b.replay_queue = q
  BY <1>3, <1>4, <1>5 DEF ReplaySet
<1> QED
  BY <1>1, <1>2, <1>6 DEF seq, record, q, b

LEMMA StageFrameType ==
  ASSUME TypeOK, NEW e \in Endpoint, NEW msg \in 1 .. Len(Outgoing[e]), StageFrame(e, msg)
  PROVE  /\ replay' \in [Endpoint -> ReplaySet]
         /\ conn' \in [Endpoint -> ConnSet]
         /\ accepted' \in [Endpoint -> Seq(Message)]
         /\ Held(e, msg) \in Message \cup {None}
<1> DEFINE seq == conn[e].next_send_seq + 1
           record == FrameRecord(seq, msg, Outgoing[e][msg])
           b == Keep(replay[e], record)
<1>1. Held(e, msg) \in Message \cup {None}
  BY MessageType DEF Held
<1>2. CASE Outcome(e, msg) # "kept"
  BY <1>1, <1>2 DEF StageFrame, TypeOK
<1>3. CASE Outcome(e, msg) = "kept"
  <2>1. /\ replay' = [replay EXCEPT ![e] = b]
        /\ conn' = [conn EXCEPT ![e].next_send_seq = seq]
        /\ accepted' = [accepted EXCEPT ![e] = Append(@, msg)]
    BY <1>3 DEF StageFrame
  <2>2. seq \in Nat /\ b \in ReplaySet
    BY KeepType
  <2>3. Append(accepted[e], msg) \in Seq(Message)
    BY MessageType DEF TypeOK
  <2> HIDE DEF seq, b
  <2>4. replay' \in [Endpoint -> ReplaySet]
    BY <2>1, <2>2 DEF TypeOK
  <2>5. conn' \in [Endpoint -> ConnSet]
    BY ZenonT(60), <2>1, <2>2 DEF TypeOK, ConnSet
  <2>6. accepted' \in [Endpoint -> Seq(Message)]
    BY <2>1, <2>3 DEF TypeOK
  <2> QED
    BY <1>1, <2>4, <2>5, <2>6
<1> QED
  BY <1>2, <1>3

\* Reading takes a frame off the reader's own transport.
LEMMA ReadsType ==
  ASSUME Typed, NEW e \in Endpoint, NEW type, Reads(e, type)
  PROVE  /\ reader[e].t \in Transport /\ reader[e].pc = "read"
         /\ wire[reader[e].t][e] # << >>
         /\ wire[reader[e].t][e] \in Seq(FrameSet)
         /\ Head(wire[reader[e].t][e]) \in FrameSet
         /\ Head(wire[reader[e].t][e]).seq \in Nat
         /\ Head(wire[reader[e].t][e]).type = type
         /\ wire' = [wire EXCEPT ![reader[e].t][e] = Tail(@)]
         /\ wire' \in [Transport -> [Endpoint -> Seq(FrameSet)]]
<1>1. reader[e].t \in Transport /\ reader[e].pc = "read"
  BY DEF Reads, Typed, Named
<1>2. wire[reader[e].t][e] \in Seq(FrameSet) /\ wire[reader[e].t][e] # << >>
  BY <1>1 DEF Reads, Typed, TypeOK
<1>3. Head(wire[reader[e].t][e]) \in FrameSet /\ Tail(wire[reader[e].t][e]) \in Seq(FrameSet)
  BY <1>2, HeadTailProperties
<1>4. Head(wire[reader[e].t][e]).seq \in Nat
  BY <1>3 DEF FrameSet
<1>5. wire' = [wire EXCEPT ![reader[e].t][e] = Tail(@)]
  BY DEF Reads
<1>6. wire' \in [Transport -> [Endpoint -> Seq(FrameSet)]]
  BY <1>1, <1>3, <1>5 DEF Typed, TypeOK
<1> QED
  BY <1>1, <1>2, <1>3, <1>4, <1>5, <1>6 DEF Reads

-----------------------------------------------------------------------------
(* Every action keeps the types.                                           *)

LEMMA TypedInit == Init => Typed
<1> SUFFICES ASSUME Init PROVE Typed
  OBVIOUS
<1>1. 1 \in Transport
  BY SessionAssumption DEF Transport
<1>2. /\ sent \in [Endpoint -> Nat]
      /\ outbound \in [Endpoint -> Seq(Message \cup {CloseMarker})]
      /\ closer \in [Endpoint -> CloserSet]
  BY DEF Init, CloserSet
<1>3. conn \in [Endpoint -> ConnSet]
  <2>1. ASSUME NEW e \in Endpoint
        PROVE  [transport_gen |-> IF e = "client" THEN 1 ELSE 0,
                transport_attached |-> e = "client", next_send_seq |-> 0,
                closing |-> FALSE, closed |-> FALSE] \in ConnSet
    <3> DEFINE g == IF e = "client" THEN 1 ELSE 0
               a == e = "client"
    <3>1. g \in Nat /\ a \in BOOLEAN
      OBVIOUS
    <3> HIDE DEF g, a
    <3>2. [transport_gen |-> g, transport_attached |-> a, next_send_seq |-> 0,
           closing |-> FALSE, closed |-> FALSE] \in ConnSet
      BY <3>1 DEF ConnSet
    <3> QED
      BY <3>2 DEF g, a
  <2> QED
    BY <2>1, Zenon DEF Init
<1>4. replay \in [Endpoint -> ReplaySet] /\ recv \in [Endpoint -> RecvSet]
  BY DEF Init, EmptyReplay, ReplaySet, RecvSet
<1>5. writer \in [Endpoint -> WriterSet]
  BY FrameTypes DEF Init
<1>6. writer_cmd \in [Endpoint -> Seq(CmdSet)]
  <2>1. AttachCmd(1, 1, 0) \in CmdSet
    BY <1>1, FrameTypes
  <2> QED
    BY <2>1 DEF Init
<1>7. reader \in [Endpoint -> ReaderSet]
  <2>1. NewReader(1, 1) \in ReaderSet /\ NoReader \in ReaderSet
    BY <1>1, FrameTypes
  <2> QED
    BY <2>1 DEF Init
<1>8. /\ wire \in [Transport -> [Endpoint -> Seq(FrameSet)]]
      /\ dead \in [Transport -> BOOLEAN]
      /\ dialed \in Transport
      /\ loop \in LoopSet
  BY <1>1 DEF Init, LoopSet
<1>9. handler \in [Transport -> HandlerSet]
  BY DEF Init, HandlerSet
<1>10. accepted \in [Endpoint -> Seq(Message)] /\ delivered \in [Endpoint -> Seq(Message \cup {None})]
  BY DEF Init
<1>11. Named
  <2>1. \A e \in Endpoint : reader[e].pc # "none" => reader[e].t \in Transport
    <3>1. \A e \in Endpoint : reader[e] = NewReader(1, 1) \/ reader[e] = NoReader
      BY DEF Init
    <3>2. NewReader(1, 1).t = 1 /\ NoReader.pc = "none"
      BY DEF NewReader, NoReader
    <3> QED
      BY <1>1, <3>1, <3>2
  <2>2. loop.pc # "wait"
    BY DEF Init
  <2> QED
    BY <2>1, <2>2 DEF Named
<1> QED
  BY <1>2, <1>3, <1>4, <1>5, <1>6, <1>7, <1>8, <1>9, <1>10, <1>11 DEF Typed, TypeOK

LEMMA TypedApplication ==
  ASSUME Typed, NEW e \in Endpoint,
         Send(e) \/ Close(e) \/ CloseAgain(e) \/ CloseStopped(e) \/ CloseTimeout(e)
  PROVE  Typed'
<1>1. CASE Send(e)
  <2>1. sent' \in [Endpoint -> Nat]
    BY <1>1 DEF Send, Typed, TypeOK
  <2>2. outbound' \in [Endpoint -> Seq(Message \cup {CloseMarker})]
    <3>1. sent[e] + 1 \in 1 .. Len(Outgoing[e])
      BY SMTT(40), <1>1, SessionAssumption DEF Send, Typed, TypeOK
    <3>2. Append(outbound[e], sent[e] + 1) \in Seq(Message \cup {CloseMarker})
      BY <3>1, MessageType DEF Typed, TypeOK
    <3> QED
      BY <1>1, <3>2 DEF Send, Typed, TypeOK
  <2>3. UNCHANGED << closer, conn, replay, recv, writer, writer_cmd, reader, wire, dead, dialed,
                     loop, handler, accepted, delivered >>
    BY <1>1 DEF Send, endVars, taskVars, netVars, history
  <2> QED
    BY <2>1, <2>2, <2>3 DEF Typed, TypeOK, Named
<1>2. CASE Close(e)
  <2>1. conn' \in [Endpoint -> ConnSet]
    BY ZenonT(60), <1>2 DEF Close, Typed, TypeOK, ConnSet
  <2>2. outbound' \in [Endpoint -> Seq(Message \cup {CloseMarker})]
    <3>1. Append(outbound[e], CloseMarker) \in Seq(Message \cup {CloseMarker})
      BY DEF Typed, TypeOK
    <3> QED
      BY <1>2, <3>1 DEF Close, Typed, TypeOK
  <2>3. closer' \in [Endpoint -> CloserSet]
    BY <1>2 DEF Close, Typed, TypeOK, CloserSet
  <2>4. UNCHANGED << sent, replay, recv, writer, writer_cmd, reader, wire, dead, dialed,
                     loop, handler, accepted, delivered >>
    BY <1>2 DEF Close, taskVars, netVars, history
  <2> QED
    BY <2>1, <2>2, <2>3, <2>4 DEF Typed, TypeOK, Named
<1>3. CASE CloseAgain(e) \/ CloseStopped(e) \/ CloseTimeout(e)
  <2>1. MarkClosed(e)
    BY <1>3 DEF CloseAgain, CloseStopped, CloseTimeout
  <2>2. closer' \in [Endpoint -> CloserSet]
    BY <1>3 DEF CloseAgain, CloseStopped, CloseTimeout, appVars, Typed, TypeOK, CloserSet
  <2>3. UNCHANGED << sent, outbound, replay, recv, writer_cmd, wire, dead, dialed,
                     loop, handler, accepted, delivered >>
    BY <1>3 DEF CloseAgain, CloseStopped, CloseTimeout, appVars, netVars, history
  <2> QED
    BY <2>1, <2>2, <2>3, MarkClosedType DEF Typed, TypeOK, Named
<1> QED
  BY <1>1, <1>2, <1>3

LEMMA TypedReader ==
  ASSUME Typed, NEW e \in Endpoint, ReaderStep(e)
  PROVE  Typed'
<1>1. CASE ReaderStart(e)
  <2> DEFINE n == recv[e].last_recv_seq
  <2>1. n \in Nat
    BY DEF Typed, TypeOK, RecvSet
  <2>2. reader' = [reader EXCEPT ![e].pc = "read", ![e].last = n] /\ reader[e].pc = "start"
    BY <1>1 DEF ReaderStart
  <2> HIDE DEF n
  <2>3. reader' \in [Endpoint -> ReaderSet]
    <3>1. reader \in [Endpoint -> ReaderSet]
      BY DEF Typed, TypeOK
    <3> QED
      BY ZenonT(60), <2>1, <2>2, <3>1 DEF ReaderSet
  <2>4. \A f \in Endpoint : reader'[f].pc # "none" => reader'[f].t \in Transport
    BY <2>2 DEF Typed, TypeOK, Named, ReaderSet
  <2>5. UNCHANGED << sent, outbound, closer, conn, replay, recv, writer, writer_cmd, wire, dead,
                     dialed, loop, handler, accepted, delivered >>
    BY <1>1 DEF ReaderStart, appVars, endVars, netVars, history
  <2> QED
    BY <2>3, <2>4, <2>5 DEF Typed, TypeOK, Named
<1>2. CASE ReadAck(e)
  <2> DEFINE n == Head(wire[reader[e].t][e]).seq
  <2>1. n \in Nat /\ wire' \in [Transport -> [Endpoint -> Seq(FrameSet)]]
    BY <1>2, ReadsType DEF ReadAck
  <2>2. replay' = [replay EXCEPT ![e] = Ack(@, n)]
    BY <1>2 DEF ReadAck
  <2> HIDE DEF n
  <2>3. Ack(replay[e], n) \in ReplaySet
    BY <2>1, AckedType DEF Typed, TypeOK
  <2>4. replay' \in [Endpoint -> ReplaySet]
    BY <2>2, <2>3 DEF Typed, TypeOK
  <2>5. UNCHANGED << sent, outbound, closer, conn, recv, writer, writer_cmd, reader, dead,
                     dialed, loop, handler, accepted, delivered >>
    BY <1>2 DEF ReadAck, appVars, taskVars, history
  <2> QED
    BY <2>1, <2>4, <2>5 DEF Typed, TypeOK, Named
<1>3. CASE ReadData(e)
  <2> DEFINE frame == Head(wire[reader[e].t][e])
             last == reader[e].last
  <2>1. /\ wire' \in [Transport -> [Endpoint -> Seq(FrameSet)]]
        /\ frame \in FrameSet /\ frame.seq \in Nat
        /\ reader[e].t \in Transport /\ last \in Nat
    BY <1>3, ReadsType DEF ReadData, Typed, TypeOK, ReaderSet
  <2>2. UNCHANGED << sent, outbound, closer, replay, writer_cmd, dead, dialed, loop, handler,
                     accepted, delivered >>
    BY <1>3 DEF ReadData, appVars, history
  <2>3. CASE frame.seq <= last
    <3>1. recv' = [recv EXCEPT ![e] = NoteReceived(@, frame.seq)]
          /\ UNCHANGED << conn, writer, reader >>
      BY <1>3, <2>3 DEF ReadData
    <3>2. NoteReceived(recv[e], frame.seq) \in RecvSet
      BY <2>1, NoteReceivedType DEF Typed, TypeOK
    <3> QED
      BY <2>1, <2>2, <3>1, <3>2 DEF Typed, TypeOK, Named
  <2>4. CASE ~(frame.seq <= last) /\ frame.seq = last + 1
    <3>1. reader' = [reader EXCEPT ![e].pc = "accept", ![e].frame = frame]
          /\ UNCHANGED << conn, writer, recv >>
      BY <1>3, <2>4 DEF ReadData
    <3> HIDE DEF frame
    <3>2. reader' \in [Endpoint -> ReaderSet]
      <4>1. reader \in [Endpoint -> ReaderSet]
        BY DEF Typed, TypeOK
      <4> QED
        BY ZenonT(60), <2>1, <3>1, <4>1 DEF ReaderSet
    <3>3. \A f \in Endpoint : reader'[f].pc # "none" => reader'[f].t \in Transport
      BY SMTT(40), <2>1, <3>1 DEF Typed, TypeOK, Named, ReaderSet
    <3> QED
      BY <2>1, <2>2, <3>1, <3>2, <3>3 DEF Typed, TypeOK, Named
  <2>5. CASE ~(frame.seq <= last) /\ frame.seq # last + 1
    <3>1. MarkClosed(e) /\ UNCHANGED recv
      BY <1>3, <2>5 DEF ReadData
    <3> QED
      BY <2>1, <2>2, <3>1, MarkClosedType DEF Typed, TypeOK, Named
  <2> QED
    BY <2>3, <2>4, <2>5
<1>4. CASE ReaderAccept(e)
  <2> DEFINE frame == reader[e].frame
             m == frame.msg
             n == frame.seq
  <2>1. n \in Nat /\ m \in Message \cup {None} /\ reader[e].pc = "accept"
    BY <1>4 DEF ReaderAccept, Typed, TypeOK, ReaderSet, FrameSet
  <2>2. /\ delivered' = [delivered EXCEPT ![e] = Append(@, m)]
        /\ recv' = [recv EXCEPT ![e] = NoteReceived(@, n)]
        /\ reader' = [reader EXCEPT ![e].pc = "read", ![e].last = n, ![e].frame = NoFrame]
    BY <1>4 DEF ReaderAccept
  <2> HIDE DEF m, n
  <2>3. Append(delivered[e], m) \in Seq(Message \cup {None})
    BY <2>1 DEF Typed, TypeOK
  <2>4. NoteReceived(recv[e], n) \in RecvSet
    BY <2>1, NoteReceivedType DEF Typed, TypeOK
  <2>5. delivered' \in [Endpoint -> Seq(Message \cup {None})]
    BY <2>2, <2>3 DEF Typed, TypeOK
  <2>6. recv' \in [Endpoint -> RecvSet]
    BY <2>2, <2>4 DEF Typed, TypeOK
  <2>7. reader' \in [Endpoint -> ReaderSet]
    <3>1. reader \in [Endpoint -> ReaderSet]
      BY DEF Typed, TypeOK
    <3>2. [reader[e] EXCEPT !.pc = "read", !.last = n, !.frame = NoFrame] \in ReaderSet
      BY ZenonT(60), <2>1, <3>1, FrameTypes DEF ReaderSet
    <3> QED
      BY ZenonT(60), <2>2, <3>1, <3>2
  <2>8. \A f \in Endpoint : reader'[f].pc # "none" => reader'[f].t \in Transport
    BY <2>1, <2>2 DEF Typed, TypeOK, Named, ReaderSet
  <2>9. UNCHANGED << sent, outbound, closer, conn, replay, writer, writer_cmd, wire, dead,
                     dialed, loop, handler, accepted >>
    BY <1>4 DEF ReaderAccept, appVars, netVars
  <2> QED
    BY <2>5, <2>6, <2>7, <2>8, <2>9 DEF Typed, TypeOK, Named
<1>5. CASE ReadClose(e)
  <2>1. wire' \in [Transport -> [Endpoint -> Seq(FrameSet)]] /\ reader[e].t \in Transport
    BY <1>5, ReadsType DEF ReadClose
  <2>2. UNCHANGED << sent, outbound, closer, replay, recv, writer_cmd, dead, dialed, loop,
                     handler, accepted, delivered >>
    BY <1>5 DEF ReadClose, appVars, history
  <2>3. CASE conn[e].closing
    <3>1. MarkClosed(e)
      BY <1>5, <2>3 DEF ReadClose
    <3> QED
      BY <2>1, <2>2, <3>1, MarkClosedType DEF Typed, TypeOK, Named
  <2>4. CASE ~conn[e].closing
    <3>1. /\ conn' = [conn EXCEPT ![e].closing = TRUE]
          /\ reader' = [reader EXCEPT ![e].pc = "drain"]
          /\ UNCHANGED writer
      BY <1>5, <2>4 DEF ReadClose
    <3>2. conn' \in [Endpoint -> ConnSet]
      BY ZenonT(60), <3>1 DEF Typed, TypeOK, ConnSet
    <3>3. reader' \in [Endpoint -> ReaderSet]
      BY ZenonT(60), <3>1 DEF Typed, TypeOK, ReaderSet
    <3>4. \A f \in Endpoint : reader'[f].pc # "none" => reader'[f].t \in Transport
      BY <2>1, <3>1 DEF Typed, TypeOK, Named, ReaderSet
    <3> QED
      BY <2>1, <2>2, <3>1, <3>2, <3>3, <3>4 DEF Typed, TypeOK, Named
  <2> QED
    BY <2>3, <2>4
<1>6. CASE ReaderDrained(e)
  <2>1. MarkClosed(e)
    BY <1>6 DEF ReaderDrained
  <2>2. UNCHANGED << sent, outbound, closer, replay, recv, writer_cmd, wire, dead, dialed, loop,
                     handler, accepted, delivered >>
    BY <1>6 DEF ReaderDrained, appVars, netVars, history
  <2> QED
    BY <2>1, <2>2, MarkClosedType DEF Typed, TypeOK, Named
<1>7. CASE ReaderFail(e)
  <2>1. UNCHANGED << sent, outbound, closer, replay, recv, wire, dead, dialed, handler,
                     accepted, delivered >>
    BY <1>7 DEF ReaderFail, appVars, history
  <2>2. CASE conn[e].closing
    <3>1. MarkClosed(e) /\ UNCHANGED << writer_cmd, loop >>
      BY <1>7, <2>2 DEF ReaderFail
    <3> QED
      BY <2>1, <3>1, MarkClosedType DEF Typed, TypeOK, Named
  <2>3. CASE ~conn[e].closing
    <3>1. /\ DetachTransport(e, reader[e].gen)
          /\ reader' = [reader EXCEPT ![e] = NoReader]
          /\ UNCHANGED writer
      BY <1>7, <2>3 DEF ReaderFail
    <3>2. reader[e].gen \in Nat
      BY DEF Typed, TypeOK, ReaderSet
    <3>3. reader' \in [Endpoint -> ReaderSet]
      BY <3>1, FrameTypes DEF Typed, TypeOK
    <3>4. \A f \in Endpoint : reader'[f].pc # "none" => reader'[f].t \in Transport
      <4>1. NoReader.pc = "none"
        BY DEF NoReader
      <4> QED
        BY <3>1, <4>1 DEF Typed, TypeOK, Named
    <3> QED
      BY <2>1, <3>1, <3>2, <3>3, <3>4, DetachTransportType DEF Typed, TypeOK, Named
  <2> QED
    BY <2>2, <2>3
<1> QED
  BY <1>1, <1>2, <1>3, <1>4, <1>5, <1>6, <1>7 DEF ReaderStep

LEMMA TypedWriter ==
  ASSUME Typed, NEW e \in Endpoint, WriterStep(e)
  PROVE  Typed'
<1> DEFINE w == writer[e]
<1>0. /\ writer \in [Endpoint -> WriterSet] /\ writer[e] \in WriterSet
      /\ w.running \in BOOLEAN /\ w.writer \in Transport \cup {None}
      /\ w.gen \in Nat /\ w.last_sent_seq \in Nat
      /\ w.resume \in Seq(RecordSet) /\ w.held \in Message \cup {None}
  BY DEF Typed, TypeOK, WriterSet
<1>1. CASE WriterApply(e)
  <2> DEFINE cmd == Head(writer_cmd[e])
             from == ResumeFrom(e, cmd.resume_seq)
  <2>1. /\ cmd \in CmdSet /\ Tail(writer_cmd[e]) \in Seq(CmdSet)
        /\ writer_cmd' = [writer_cmd EXCEPT ![e] = Tail(@)]
    BY <1>1, HeadTailProperties DEF WriterApply, Typed, TypeOK
  <2>2. cmd.resume_seq \in Nat /\ cmd.gen \in Nat /\ cmd.writer \in Transport \cup {None}
    BY <2>1 DEF CmdSet
  <2>3. from \in Nat
    BY <2>2 DEF ResumeFrom, Typed, TypeOK, ConnSet
  <2>4. writer_cmd' \in [Endpoint -> Seq(CmdSet)]
    BY <2>1 DEF Typed, TypeOK
  <2>5. UNCHANGED << sent, outbound, closer, conn, recv, reader, wire, dead, dialed, loop,
                     handler, accepted, delivered >>
    BY <1>1 DEF WriterApply, appVars, netVars, history
  <2>6. CASE cmd.type = "attach"
    <3> DEFINE b == Ack(replay[e], from)
               q == FramesToReplay(replay'[e], from)
    <3>1. /\ replay' = [replay EXCEPT ![e] = b]
          /\ writer' = [writer EXCEPT ![e].writer = cmd.writer, ![e].gen = cmd.gen,
                                      ![e].last_sent_seq = from, ![e].resume = q]
      BY <1>1, <2>6 DEF WriterApply
    <3>2. b \in ReplaySet
      BY <2>3, AckedType DEF Typed, TypeOK
    <3>3. replay' \in [Endpoint -> ReplaySet] /\ replay'[e] = b
      BY <3>1, <3>2 DEF Typed, TypeOK
    <3>4. q \in Seq(RecordSet)
      <4>1. b.replay_queue \in Seq(RecordSet)
        BY <3>2 DEF ReplaySet
      <4> QED
        BY <3>3, <4>1, AfterType DEF FramesToReplay, SnapshotFrom
    <3> HIDE DEF q, from, cmd
    <3>5. writer' \in [Endpoint -> WriterSet]
      BY <1>0, <2>2, <2>3, <3>1, <3>4 DEF WriterSet
    <3> QED
      BY <2>4, <2>5, <3>3, <3>5 DEF Typed, TypeOK, Named
  <2>7. CASE cmd.type # "attach"
    <3>1. UNCHANGED replay
      BY <1>1, <2>7 DEF WriterApply
    <3>2. writer' = [writer EXCEPT ![e].writer = IF cmd.gen = writer[e].gen THEN None ELSE @]
      BY <1>1, <2>7 DEF WriterApply
    <3> DEFINE nw == IF cmd.gen = writer[e].gen THEN None ELSE writer[e].writer
    <3>3. nw \in Transport \cup {None} /\ writer' = [writer EXCEPT ![e].writer = nw]
      BY <1>0, <3>2
    <3> HIDE DEF nw
    <3>4. writer' \in [Endpoint -> WriterSet]
      BY <1>0, <3>3 DEF WriterSet
    <3> QED
      BY <2>4, <2>5, <3>1, <3>4 DEF Typed, TypeOK, Named
  <2> QED
    BY <2>6, <2>7
<1>2. CASE WriterAck(e)
  <2> DEFINE r == recv[e]
             take == r.last_ack_sent < r.last_recv_seq
             n == IF take THEN r.last_recv_seq ELSE r.last_ack_sent
             p == IF take THEN 0 ELSE r.ack_pending
  <2>1. r \in RecvSet /\ n \in Nat /\ p \in Nat /\ r.last_recv_seq \in Nat
    BY DEF Typed, TypeOK, RecvSet
  <2>2. recv' = [recv EXCEPT ![e] = [r EXCEPT !.ack_due = FALSE, !.ack_due_at = FALSE,
                                              !.last_ack_sent = n, !.ack_pending = p]]
    BY <1>2 DEF WriterAck
  <2>3. wire' = wire \/ wire' = Written(e, w.writer, Frame("ack", r.last_recv_seq, None))
    BY <1>2 DEF WriterAck
  <2>4. Frame("ack", r.last_recv_seq, None) \in FrameSet
    BY <2>1, FrameTypes DEF FrameType
  <2>5. wire' \in [Transport -> [Endpoint -> Seq(FrameSet)]]
    BY <2>3, <2>4, WrittenType DEF Typed
  <2>6. recv' \in [Endpoint -> RecvSet]
    <3> HIDE DEF n, p
    <3>1. [r EXCEPT !.ack_due = FALSE, !.ack_due_at = FALSE,
                    !.last_ack_sent = n, !.ack_pending = p] \in RecvSet
      BY <2>1 DEF RecvSet
    <3> HIDE DEF r
    <3> QED
      BY <2>2, <3>1 DEF Typed, TypeOK
  <2>7. UNCHANGED << sent, outbound, closer, conn, replay, writer, writer_cmd, reader, dead,
                     dialed, loop, handler, accepted, delivered >>
    BY <1>2 DEF WriterAck, appVars, taskVars, history
  <2> QED
    BY <2>5, <2>6, <2>7 DEF Typed, TypeOK, Named
<1>3. CASE WriterResume(e)
  <2> DEFINE frame == Head(w.resume)
             write == frame.seq > w.last_sent_seq /\ frame.seq > replay[e].last_acked
             n == IF write THEN frame.seq ELSE w.last_sent_seq
             rest == Tail(w.resume)
  <2>1. frame \in RecordSet /\ rest \in Seq(RecordSet)
    BY <1>0, <1>3, HeadTailProperties DEF WriterResume
  <2>2. frame.seq \in Nat /\ frame.msg \in Message /\ n \in Nat
    BY <1>0, <2>1 DEF RecordSet
  <2>3. writer' = [writer EXCEPT ![e].resume = rest, ![e].last_sent_seq = n]
    BY <1>3 DEF WriterResume
  <2>4. wire' = wire \/ wire' = Written(e, w.writer, Frame("data", frame.seq, frame.msg))
    BY <1>3 DEF WriterResume
  <2>5. Frame("data", frame.seq, frame.msg) \in FrameSet
    BY <2>2, FrameTypes DEF FrameType
  <2>6. wire' \in [Transport -> [Endpoint -> Seq(FrameSet)]]
    <3> DEFINE f == Frame("data", frame.seq, frame.msg)
    <3>1. f \in FrameSet /\ (wire' = wire \/ wire' = Written(e, w.writer, f))
      BY <2>4, <2>5
    <3> HIDE DEF f
    <3> QED
      BY <3>1, WrittenType DEF Typed
  <2>7. writer' \in [Endpoint -> WriterSet]
    <3> HIDE DEF n, rest
    <3> QED
      BY <1>0, <2>1, <2>2, <2>3 DEF WriterSet
  <2>8. UNCHANGED << sent, outbound, closer, conn, replay, recv, writer_cmd, reader, dead,
                     dialed, loop, handler, accepted, delivered >>
    BY <1>3 DEF WriterResume, appVars, endVars, history
  <2> QED
    BY <2>6, <2>7, <2>8 DEF Typed, TypeOK, Named
<1>4. CASE WriterLive(e)
  <2> DEFINE seq == conn[e].next_send_seq + 1
  <2>1. PICK msg \in 1 .. Len(Outgoing[e]) :
          LET write == Outcome(e, msg) = "kept" /\ seq > w.last_sent_seq
          IN  /\ TakeFrame(e, msg)
              /\ StageFrame(e, msg)
              /\ writer' = [writer EXCEPT ![e].held = Held(e, msg),
                                          ![e].last_sent_seq = IF write THEN seq ELSE @]
              /\ wire' = IF write THEN Written(e, w.writer, Frame("data", seq, msg)) ELSE wire
    BY <1>4 DEF WriterLive
  <2> DEFINE write == Outcome(e, msg) = "kept" /\ seq > w.last_sent_seq
             n == IF write THEN seq ELSE w.last_sent_seq
             h == Held(e, msg)
  <2>2. seq \in Nat /\ n \in Nat /\ h \in Message \cup {None} /\ msg \in Message
    BY <1>0, <2>1, KeepType, StageFrameType, MessageType DEF Typed
  <2>3. writer' = [writer EXCEPT ![e].held = h, ![e].last_sent_seq = n]
    BY <2>1
  <2>4. wire' = wire \/ wire' = Written(e, w.writer, Frame("data", seq, msg))
    BY <2>1
  <2>5. Frame("data", seq, msg) \in FrameSet
    BY <2>2, FrameTypes DEF FrameType
  <2>6. wire' \in [Transport -> [Endpoint -> Seq(FrameSet)]]
    <3> DEFINE f == Frame("data", seq, msg)
    <3>1. f \in FrameSet /\ (wire' = wire \/ wire' = Written(e, w.writer, f))
      BY <2>4, <2>5
    <3> HIDE DEF f
    <3> QED
      BY <3>1, WrittenType DEF Typed
  <2>7. writer' \in [Endpoint -> WriterSet]
    <3> HIDE DEF n, h
    <3> QED
      BY <1>0, <2>2, <2>3 DEF WriterSet
  <2>8. /\ outbound' \in [Endpoint -> Seq(Message \cup {CloseMarker})]
        /\ replay' \in [Endpoint -> ReplaySet]
        /\ conn' \in [Endpoint -> ConnSet]
        /\ accepted' \in [Endpoint -> Seq(Message)]
    BY <2>1, TakeFrameType, StageFrameType DEF Typed
  <2>9. UNCHANGED << sent, closer, recv, writer_cmd, reader, dead, dialed, loop, handler,
                     delivered >>
    BY <1>4 DEF WriterLive
  <2> QED
    BY <2>6, <2>7, <2>8, <2>9 DEF Typed, TypeOK, Named
<1>5. CASE WriterStage(e)
  <2>1. PICK msg \in 1 .. Len(Outgoing[e]) :
          /\ TakeFrame(e, msg)
          /\ StageFrame(e, msg)
          /\ writer' = [writer EXCEPT ![e].held = Held(e, msg)]
    BY <1>5 DEF WriterStage
  <2> DEFINE h == Held(e, msg)
  <2>2. h \in Message \cup {None} /\ writer' = [writer EXCEPT ![e].held = h]
    BY <2>1, StageFrameType DEF Typed
  <2>3. writer' \in [Endpoint -> WriterSet]
    <3> HIDE DEF h
    <3> QED
      BY <1>0, <2>2 DEF WriterSet
  <2>4. /\ outbound' \in [Endpoint -> Seq(Message \cup {CloseMarker})]
        /\ replay' \in [Endpoint -> ReplaySet]
        /\ conn' \in [Endpoint -> ConnSet]
        /\ accepted' \in [Endpoint -> Seq(Message)]
    BY <2>1, TakeFrameType, StageFrameType DEF Typed
  <2>5. UNCHANGED << sent, closer, recv, writer_cmd, reader, wire, dead, dialed, loop, handler,
                     delivered >>
    BY <1>5 DEF WriterStage, netVars
  <2> QED
    BY <2>3, <2>4, <2>5 DEF Typed, TypeOK, Named
<1>6. CASE WriterClose(e)
  <2>1. outbound' \in [Endpoint -> Seq(Message \cup {CloseMarker})]
    <3>1. Tail(outbound[e]) \in Seq(Message \cup {CloseMarker})
      BY <1>6, HeadTailProperties DEF WriterClose, Typed, TypeOK
    <3> QED
      BY <1>6, <3>1 DEF WriterClose, Typed, TypeOK
  <2>2. Frame("close", 0, None) \in FrameSet
    BY FrameTypes DEF FrameType
  <2>3. wire' = wire \/ wire' = Written(e, w.writer, Frame("close", 0, None))
    BY <1>6 DEF WriterClose
  <2>4. wire' \in [Transport -> [Endpoint -> Seq(FrameSet)]]
    BY <2>2, <2>3, WrittenType DEF Typed
  <2>5. closer' \in [Endpoint -> CloserSet]
    BY <1>6 DEF WriterClose, Typed, TypeOK, CloserSet
  <2>6. writer' \in [Endpoint -> WriterSet]
    BY <1>0, <1>6, FrameTypes DEF WriterClose
  <2>7. UNCHANGED << sent, conn, replay, recv, writer_cmd, reader, dead, dialed, loop, handler,
                     accepted, delivered >>
    BY <1>6 DEF WriterClose, endVars, history
  <2> QED
    BY <2>1, <2>4, <2>5, <2>6, <2>7 DEF Typed, TypeOK, Named
<1>7. CASE WriterStop(e)
  <2>1. writer' \in [Endpoint -> WriterSet]
    BY <1>0, <1>7, FrameTypes DEF WriterStop
  <2>2. closer' \in [Endpoint -> CloserSet]
    BY <1>7 DEF WriterStop, Typed, TypeOK, CloserSet
  <2>3. UNCHANGED << sent, outbound, conn, replay, recv, writer_cmd, reader, wire, dead, dialed,
                     loop, handler, accepted, delivered >>
    BY <1>7 DEF WriterStop, endVars, netVars, history
  <2> QED
    BY <2>1, <2>2, <2>3 DEF Typed, TypeOK, Named
<1>8. CASE WriterFail(e)
  <2>1. writer' \in [Endpoint -> WriterSet]
    <3>1. writer' = [writer EXCEPT ![e].writer = None]
      BY <1>8 DEF WriterFail
    <3> QED
      BY <1>0, <3>1 DEF WriterSet
  <2>2. reader' = reader \/ reader' = [reader EXCEPT ![e] = NoReader]
    BY <1>8 DEF WriterFail
  <2>3. reader' \in [Endpoint -> ReaderSet]
    BY <2>2, FrameTypes DEF Typed, TypeOK
  <2>4. \A f \in Endpoint : reader'[f].pc # "none" => reader'[f].t \in Transport
    <3>1. NoReader.pc = "none"
      BY DEF NoReader
    <3> QED
      BY <2>2, <3>1 DEF Typed, TypeOK, Named
  <2>5. DetachTransport(e, w.gen)
    BY <1>8 DEF WriterFail
  <2>6. UNCHANGED << sent, outbound, closer, replay, recv, wire, dead, dialed, handler,
                     accepted, delivered >>
    BY <1>8 DEF WriterFail, appVars, history
  <2> QED
    BY <1>0, <2>1, <2>3, <2>4, <2>5, <2>6, DetachTransportType DEF Typed, TypeOK, Named
<1> QED
  BY <1>1, <1>2, <1>3, <1>4, <1>5, <1>6, <1>7, <1>8 DEF WriterStep

LEMMA TypedResume ==
  ASSUME Typed, LoopStep \/ \E t \in Transport : HandlerStep(t)
  PROVE  Typed'
<1>0. "client" \in Endpoint /\ "server" \in Endpoint /\ 0 \in Nat
  BY DEF Endpoint
<1>1. CASE LoopDial
  <2> DEFINE t == dialed + 1
             request == Frame("resume", recv["client"].last_recv_seq, None)
  <2>1. /\ t \in Transport /\ dialed' = t /\ loop' = [pc |-> "wait", t |-> t]
        /\ handler' = [handler EXCEPT ![t].pc = "request"]
        /\ wire' = [wire EXCEPT ![t]["server"] = << request >>]
    BY <1>1 DEF LoopDial
  <2>2. request \in FrameSet
    <3>1. recv["client"].last_recv_seq \in Nat
      BY <1>0 DEF Typed, TypeOK, RecvSet
    <3> QED
      BY <3>1, FrameTypes DEF FrameType
  <2> HIDE DEF t, request
  <2>3. loop' \in LoopSet /\ loop'.t \in Transport
    BY <2>1 DEF LoopSet
  <2>4. handler' \in [Transport -> HandlerSet]
    BY <2>1 DEF Typed, TypeOK, HandlerSet
  <2>5. wire' \in [Transport -> [Endpoint -> Seq(FrameSet)]]
    <3>1. << request >> \in Seq(FrameSet)
      BY <2>2
    <3> QED
      BY <1>0, <2>1, <3>1 DEF Typed, TypeOK
  <2>6. UNCHANGED << sent, outbound, closer, conn, replay, recv, writer, writer_cmd, reader,
                     dead, accepted, delivered >>
    BY <1>1 DEF LoopDial, appVars, endVars, taskVars, history
  <2> QED
    BY <2>1, <2>3, <2>4, <2>5, <2>6 DEF Typed, TypeOK, Named
<1>2. CASE LoopQuit \/ LoopFail
  <2>1. loop' = [loop EXCEPT !.pc = "idle"] \/ loop' = [pc |-> "dial", t |-> None]
    BY <1>2 DEF LoopQuit, LoopFail
  <2>2. loop \in LoopSet
    BY DEF Typed, TypeOK
  <2>3. loop' \in LoopSet /\ loop'.pc # "wait"
    BY <2>1, <2>2 DEF LoopSet
  <2>4. UNCHANGED << sent, outbound, closer, conn, replay, recv, writer, writer_cmd, reader,
                     wire, dead, dialed, handler, accepted, delivered >>
    BY <1>2 DEF LoopQuit, LoopFail, appVars, endVars, taskVars, history
  <2> QED
    BY <2>3, <2>4 DEF Typed, TypeOK, Named
<1>3. CASE LoopResponse
  <2> DEFINE t == loop.t
             response == Head(wire[t]["client"])
  <2>1. t \in Transport /\ wire[t]["client"] # << >>
    BY <1>3 DEF LoopResponse, Typed, Named
  <2>2. wire[t]["client"] \in Seq(FrameSet)
    BY <1>0, <2>1 DEF Typed, TypeOK
  <2>3. response \in FrameSet /\ Tail(wire[t]["client"]) \in Seq(FrameSet)
    BY <2>1, <2>2, HeadTailProperties
  <2>4. response.seq \in Nat
    BY <2>3 DEF FrameSet
  <2>5. wire' \in [Transport -> [Endpoint -> Seq(FrameSet)]]
    BY <1>0, <1>3, <2>1, <2>3 DEF LoopResponse, Typed, TypeOK
  <2>6. loop' \in LoopSet /\ loop'.pc # "wait"
    BY <1>3 DEF LoopResponse, LoopSet
  <2>7. UNCHANGED << sent, outbound, closer, replay, recv, dead, dialed, handler,
                     accepted, delivered >>
    BY <1>3 DEF LoopResponse, appVars, history
  <2>8. CASE response.type = "attach_ok"
    <3>1. AttachTransport("client", t, response.seq) /\ UNCHANGED writer
      BY <1>3, <2>8 DEF LoopResponse
    <3> QED
      BY <1>0, <2>1, <2>4, <2>5, <2>6, <2>7, <3>1, AttachTransportType DEF Typed, TypeOK, Named
  <2>9. CASE response.type # "attach_ok"
    <3>1. MarkClosed("client") /\ UNCHANGED writer_cmd
      BY <1>3, <2>9 DEF LoopResponse
    <3> QED
      BY <1>0, <2>5, <2>6, <2>7, <3>1, MarkClosedType DEF Typed, TypeOK, Named
  <2> QED
    BY <2>8, <2>9
<1>4. ASSUME NEW t \in Transport, ServerResume(t)
      PROVE  Typed'
  <2> DEFINE request == Head(wire[t]["server"])
             answer == IF RefusesResume THEN Frame("reject", 0, None)
                       ELSE Frame("attach_ok", recv["server"].last_recv_seq, None)
             rest == [wire EXCEPT ![t]["server"] = Tail(@)]
             pc == IF RefusesResume THEN "none" ELSE "attach"
  <2>1. wire[t]["server"] # << >> /\ wire[t]["server"] \in Seq(FrameSet)
    BY <1>0, <1>4 DEF ServerResume, Typed, TypeOK
  <2>2. request \in FrameSet /\ Tail(wire[t]["server"]) \in Seq(FrameSet)
    BY <2>1, HeadTailProperties
  <2>3. request.seq \in Nat
    BY <2>2 DEF FrameSet
  <2>4. answer \in FrameSet
    <3>1. recv["server"].last_recv_seq \in Nat
      BY <1>0 DEF Typed, TypeOK, RecvSet
    <3> QED
      BY <1>0, <3>1, FrameTypes DEF FrameType
  <2>5. rest \in [Transport -> [Endpoint -> Seq(FrameSet)]]
    BY <1>0, <2>2 DEF Typed, TypeOK
  <2>6. /\ handler' = [handler EXCEPT ![t] = [pc |-> pc, seq |-> request.seq]]
        /\ wire' = IF Broken("server", t) THEN rest
                   ELSE [rest EXCEPT ![t]["client"] = Append(@, answer)]
    BY <1>4 DEF ServerResume
  <2>7. pc \in {"none", "attach"}
    OBVIOUS
  <2> HIDE DEF rest, answer, request, pc
  <2>8. wire' \in [Transport -> [Endpoint -> Seq(FrameSet)]]
    <3>1. Append(rest[t]["client"], answer) \in Seq(FrameSet)
      BY <1>0, <2>4, <2>5
    <3>2. [rest EXCEPT ![t]["client"] = Append(@, answer)]
            \in [Transport -> [Endpoint -> Seq(FrameSet)]]
      BY <1>0, <2>5, <3>1
    <3> QED
      BY <2>5, <2>6, <3>2
  <2>9. handler' \in [Transport -> HandlerSet]
    <3>1. [pc |-> pc, seq |-> request.seq] \in HandlerSet
      BY <2>3, <2>7 DEF HandlerSet
    <3> QED
      BY <2>6, <3>1 DEF Typed, TypeOK
  <2>10. UNCHANGED << sent, outbound, closer, conn, replay, recv, writer, writer_cmd, reader,
                      dead, dialed, loop, accepted, delivered >>
    BY <1>4 DEF ServerResume, appVars, endVars, taskVars, history
  <2> QED
    BY <2>8, <2>9, <2>10 DEF Typed, TypeOK, Named
<1>5. ASSUME NEW t \in Transport, ServerAttach(t)
      PROVE  Typed'
  <2>1. AttachTransport("server", t, handler[t].seq) /\ handler[t].seq \in Nat
    BY <1>5 DEF ServerAttach, Typed, TypeOK, HandlerSet
  <2>2. handler' \in [Transport -> HandlerSet]
    BY <1>5 DEF ServerAttach, Typed, TypeOK, HandlerSet
  <2>3. writer' \in [Endpoint -> WriterSet]
    BY <1>5, FrameTypes DEF ServerAttach, Typed, TypeOK
  <2>4. UNCHANGED << sent, outbound, closer, replay, recv, wire, dead, dialed, loop,
                     accepted, delivered >>
    BY <1>5 DEF ServerAttach, appVars, history
  <2> QED
    BY <1>0, <2>1, <2>2, <2>3, <2>4, AttachTransportType DEF Typed, TypeOK, Named
<1>6. ASSUME NEW t \in Transport, ServerRefuse(t)
      PROVE  Typed'
  <2>1. handler' \in [Transport -> HandlerSet]
    BY <1>6 DEF ServerRefuse, Typed, TypeOK, HandlerSet
  <2>2. UNCHANGED << sent, outbound, closer, conn, replay, recv, writer, writer_cmd, reader,
                     wire, dead, dialed, loop, accepted, delivered >>
    BY <1>6 DEF ServerRefuse, appVars, endVars, taskVars, history
  <2> QED
    BY <2>1, <2>2 DEF Typed, TypeOK, Named
<1> QED
  BY <1>1, <1>2, <1>3, <1>4, <1>5, <1>6 DEF LoopStep, HandlerStep

\* A failing transport leaves a prefix of what was in flight.
LEMMA BreakPrefix ==
  ASSUME Typed, NEW t \in Transport, Break(t)
  PROVE  /\ wire' \in [Transport -> [Endpoint -> Seq(FrameSet)]]
         /\ \A u \in Transport, e \in Endpoint :
              /\ Len(wire'[u][e]) <= Len(wire[u][e])
              /\ \A i \in 1 .. Len(wire'[u][e]) : wire'[u][e][i] = wire[u][e][i]
<1>1. PICK kept \in [Endpoint -> 0 .. Len(wire[t]["client"]) + Len(wire[t]["server"])] :
        /\ \A e \in Endpoint : kept[e] <= Len(wire[t][e])
        /\ wire' = [wire EXCEPT ![t] = [e \in Endpoint |-> SubSeq(wire[t][e], 1, kept[e])]]
  BY DEF Break
<1>2. ASSUME NEW e \in Endpoint
      PROVE  /\ SubSeq(wire[t][e], 1, kept[e]) \in Seq(FrameSet)
             /\ Len(SubSeq(wire[t][e], 1, kept[e])) = kept[e]
             /\ kept[e] \in Nat /\ kept[e] <= Len(wire[t][e])
             /\ \A i \in 1 .. kept[e] : SubSeq(wire[t][e], 1, kept[e])[i] = wire[t][e][i]
  <2> DEFINE q == wire[t][e]
             k == kept[e]
  <2>0. q \in Seq(FrameSet) /\ wire[t]["client"] \in Seq(FrameSet)
        /\ wire[t]["server"] \in Seq(FrameSet)
    BY SMTT(40) DEF Typed, TypeOK, Endpoint
  <2>1. q \in Seq(FrameSet) /\ k \in Nat /\ k <= Len(q) /\ Len(q) \in Nat
    <3>1. kept[e] \in 0 .. Len(wire[t]["client"]) + Len(wire[t]["server"])
      BY <1>1
    <3>2. Len(wire[t]["client"]) \in Nat /\ Len(wire[t]["server"]) \in Nat /\ Len(q) \in Nat
      BY <2>0
    <3>3. k \in Nat
      BY <3>1, <3>2
    <3> QED
      BY <1>1, <2>0, <3>2, <3>3
  <2> HIDE DEF q, k
  <2>2. \A i \in 1 .. k : q[i] \in FrameSet
    BY <2>1
  <2>3. /\ SubSeq(q, 1, k) \in Seq(FrameSet)
        /\ Len(SubSeq(q, 1, k)) = IF 1 <= k THEN k - 1 + 1 ELSE 0
        /\ \A i \in 1 .. k - 1 + 1 : SubSeq(q, 1, k)[i] = q[1 + i - 1]
    BY <2>1, <2>2, SubSeqProperties
  <2>4. /\ SubSeq(q, 1, k) \in Seq(FrameSet)
        /\ Len(SubSeq(q, 1, k)) = k
        /\ \A i \in 1 .. k : SubSeq(q, 1, k)[i] = q[i]
    BY <2>1, <2>3
  <2> QED
    BY <2>1, <2>4 DEF q, k
<1>3. \A u \in Transport, e \in Endpoint :
        wire'[u][e] = IF u = t THEN SubSeq(wire[t][e], 1, kept[e]) ELSE wire[u][e]
  BY <1>1 DEF Typed, TypeOK
<1>4. wire' \in [Transport -> [Endpoint -> Seq(FrameSet)]]
  BY <1>1, <1>2 DEF Typed, TypeOK
<1>5. ASSUME NEW u \in Transport, NEW e \in Endpoint
      PROVE  /\ Len(wire'[u][e]) <= Len(wire[u][e])
             /\ \A i \in 1 .. Len(wire'[u][e]) : wire'[u][e][i] = wire[u][e][i]
  <2>1. CASE u = t
    <3>1. wire'[u][e] = SubSeq(wire[t][e], 1, kept[e])
      BY <1>3, <2>1
    <3>2. Len(wire'[u][e]) = kept[e]
      BY <1>2, <3>1
    <3> QED
      BY <1>2, <2>1, <3>1, <3>2
  <2>2. CASE u # t
    <3>1. wire'[u][e] = wire[u][e] /\ wire[u][e] \in Seq(FrameSet)
      BY <1>3, <2>2 DEF Typed, TypeOK
    <3> QED
      BY <3>1
  <2> QED
    BY <2>1, <2>2
<1> QED
  BY <1>4, <1>5

LEMMA TypedStep == Typed /\ [Next]_vars => Typed'
<1> SUFFICES ASSUME Typed, [Next]_vars PROVE Typed'
  OBVIOUS
<1>1. ASSUME NEW e \in Endpoint,
             \/ Send(e) \/ Close(e) \/ CloseAgain(e)
             \/ CloseStep(e) \/ WriterStep(e) \/ ReaderStep(e)
      PROVE  Typed'
  BY <1>1, TypedApplication, TypedWriter, TypedReader DEF CloseStep
<1>2. CASE LoopStep \/ \E t \in Transport : HandlerStep(t)
  BY <1>2, TypedResume
<1>3. ASSUME NEW t \in Transport, Break(t)
      PROVE  Typed'
  <2>1. wire' \in [Transport -> [Endpoint -> Seq(FrameSet)]]
    BY <1>3, BreakPrefix
  <2>2. dead' \in [Transport -> BOOLEAN]
    BY <1>3 DEF Break, Typed, TypeOK
  <2>3. UNCHANGED << sent, outbound, closer, conn, replay, recv, writer, writer_cmd, reader,
                     dialed, loop, handler, accepted, delivered >>
    BY <1>3 DEF Break, appVars, endVars, taskVars, history
  <2> QED
    BY <2>1, <2>2, <2>3 DEF Typed, TypeOK, Named
<1>4. CASE ServerExpire
  <2>1. MarkClosed("server") /\ "server" \in Endpoint
    BY <1>4 DEF ServerExpire, Endpoint
  <2>2. UNCHANGED << sent, outbound, closer, replay, recv, writer_cmd, wire, dead, dialed, loop,
                     handler, accepted, delivered >>
    BY <1>4 DEF ServerExpire, appVars, netVars, history
  <2> QED
    BY <2>1, <2>2, MarkClosedType DEF Typed, TypeOK, Named
<1>5. CASE UNCHANGED vars
  BY <1>5 DEF vars, appVars, endVars, taskVars, netVars, history, Typed, TypeOK, Named
<1> QED
  BY <1>1, <1>2, <1>3, <1>4, <1>5 DEF Next

\* The connection is type correct whatever the messages, the limits and the
\* failures.
THEOREM SessionTyped == Spec => []TypeOK
<1>1. Typed => TypeOK
  BY DEF Typed
<1> QED
  BY <1>1, TypedInit, TypedStep, PTL DEF Spec

-----------------------------------------------------------------------------
(* Delivery.  Every copy of a data frame, wherever it is, carries the      *)
(* message its sequence number was given to, and the receiver's counters   *)
(* agree with what it delivered; so a frame that is next in sequence is    *)
(* the message that is next in order.                                      *)

\* r is the message that acc, a sequence of numbered messages, has at r's number.
NumberedIn(acc, r) == r.seq \in 1 .. Len(acc) /\ r.msg = acc[r.seq]

\* In the replay buffer, among the frames to replay, on a transport and in the
\* hands of the peer's reader, a frame is the message of its number.
Authentic ==
  \A e \in Endpoint :
    /\ conn[e].next_send_seq = Len(accepted[e])
    /\ \A i \in 1 .. Len(replay[e].replay_queue) :
         NumberedIn(accepted[e], replay[e].replay_queue[i])
    /\ \A i \in 1 .. Len(writer[e].resume) : NumberedIn(accepted[e], writer[e].resume[i])
    /\ \A t \in Transport : \A i \in 1 .. Len(wire[t][Peer(e)]) :
         wire[t][Peer(e)][i].type = "data" => NumberedIn(accepted[e], wire[t][Peer(e)][i])
    /\ reader[Peer(e)].pc = "accept" => NumberedIn(accepted[e], reader[Peer(e)].frame)

\* last_recv_seq counts the delivered frames, and a running reader agrees with it.
Counted ==
  \A e \in Endpoint :
    /\ recv[e].last_recv_seq = Len(delivered[e])
    /\ reader[e].pc \in {"read", "accept"} => reader[e].last = recv[e].last_recv_seq
    /\ reader[e].pc = "accept" => reader[e].frame.seq = reader[e].last + 1

Delivery == Authentic /\ Counted /\ DeliveredInOrder

\* Steps that number and deliver nothing, copy frames only from the replay buffer
\* to the frames to replay and from there to a transport, and leave a reader as
\* it is or outside its loop.
ConnCalm ==
  \A e \in Endpoint : conn'[e].next_send_seq = conn[e].next_send_seq
RecvCalm ==
  \A e \in Endpoint : recv'[e].last_recv_seq = recv[e].last_recv_seq
ReplayCalm ==
  \A e \in Endpoint : \A i \in 1 .. Len(replay'[e].replay_queue) :
    \E j \in 1 .. Len(replay[e].replay_queue) :
      replay'[e].replay_queue[i] = replay[e].replay_queue[j]
ResumeCalm ==
  \A e \in Endpoint : \A i \in 1 .. Len(writer'[e].resume) :
    \/ \E j \in 1 .. Len(writer[e].resume) : writer'[e].resume[i] = writer[e].resume[j]
    \/ \E j \in 1 .. Len(replay[e].replay_queue) :
         writer'[e].resume[i] = replay[e].replay_queue[j]
WireCalm ==
  \A t \in Transport, f \in Endpoint : \A i \in 1 .. Len(wire'[t][f]) :
    \/ wire'[t][f][i].type # "data"
    \/ \E j \in 1 .. Len(wire[t][f]) : wire'[t][f][i] = wire[t][f][j]
    \/ \E j \in 1 .. Len(writer[Peer(f)].resume) :
         LET r == writer[Peer(f)].resume[j] IN wire'[t][f][i] = Frame("data", r.seq, r.msg)
ReaderCalm ==
  \A e \in Endpoint : reader'[e] = reader[e] \/ reader'[e].pc \notin {"read", "accept"}
Calm ==
  /\ UNCHANGED << accepted, delivered >>
  /\ ConnCalm /\ RecvCalm /\ ReplayCalm /\ ResumeCalm /\ WireCalm /\ ReaderCalm

\* A calm wire carries only numbered messages.
LEMMA WireDelivery ==
  ASSUME Delivery, WireCalm, UNCHANGED accepted, NEW e \in Endpoint, NEW t \in Transport,
         NEW i \in 1 .. Len(wire'[t][Peer(e)]), wire'[t][Peer(e)][i].type = "data"
  PROVE  NumberedIn(accepted'[e], wire'[t][Peer(e)][i])
<1>1. Peer(e) \in Endpoint /\ Peer(Peer(e)) = e
  BY PeerType
<1>2. CASE \E j \in 1 .. Len(wire[t][Peer(e)]) : wire'[t][Peer(e)][i] = wire[t][Peer(e)][j]
  BY <1>2 DEF Delivery, Authentic
<1>3. CASE \E j \in 1 .. Len(writer[e].resume) :
             LET r == writer[e].resume[j] IN wire'[t][Peer(e)][i] = Frame("data", r.seq, r.msg)
  <2>1. PICK j \in 1 .. Len(writer[e].resume) :
          LET r == writer[e].resume[j] IN wire'[t][Peer(e)][i] = Frame("data", r.seq, r.msg)
    BY <1>3
  <2>2. NumberedIn(accepted[e], writer[e].resume[j])
    BY DEF Delivery, Authentic
  <2> QED
    BY <2>1, <2>2 DEF NumberedIn, Frame
<1> QED
  <2>1. \/ \E j \in 1 .. Len(wire[t][Peer(e)]) : wire'[t][Peer(e)][i] = wire[t][Peer(e)][j]
        \/ \E j \in 1 .. Len(writer[Peer(Peer(e))].resume) :
             LET r == writer[Peer(Peer(e))].resume[j]
             IN wire'[t][Peer(e)][i] = Frame("data", r.seq, r.msg)
    BY <1>1 DEF WireCalm
  <2>2. \/ \E j \in 1 .. Len(wire[t][Peer(e)]) : wire'[t][Peer(e)][i] = wire[t][Peer(e)][j]
        \/ \E j \in 1 .. Len(writer[e].resume) :
             LET r == writer[e].resume[j]
             IN wire'[t][Peer(e)][i] = Frame("data", r.seq, r.msg)
    BY <1>1, <2>1
  <2> QED
    BY <1>2, <1>3, <2>2

LEMMA CalmDelivery ==
  ASSUME Delivery, Calm
  PROVE  Delivery'
<1>1. ASSUME NEW e \in Endpoint
      PROVE  /\ conn'[e].next_send_seq = Len(accepted'[e])
             /\ \A i \in 1 .. Len(replay'[e].replay_queue) :
                  NumberedIn(accepted'[e], replay'[e].replay_queue[i])
             /\ \A i \in 1 .. Len(writer'[e].resume) :
                  NumberedIn(accepted'[e], writer'[e].resume[i])
  <2>1. conn'[e].next_send_seq = Len(accepted'[e])
    BY DEF Calm, ConnCalm, Delivery, Authentic
  <2>2. ASSUME NEW i \in 1 .. Len(replay'[e].replay_queue)
        PROVE  NumberedIn(accepted'[e], replay'[e].replay_queue[i])
    <3>1. PICK j \in 1 .. Len(replay[e].replay_queue) :
            replay'[e].replay_queue[i] = replay[e].replay_queue[j]
      BY DEF Calm, ReplayCalm
    <3>2. NumberedIn(accepted[e], replay[e].replay_queue[j])
      BY DEF Delivery, Authentic
    <3> QED
      BY <3>1, <3>2 DEF Calm
  <2>3. ASSUME NEW i \in 1 .. Len(writer'[e].resume)
        PROVE  NumberedIn(accepted'[e], writer'[e].resume[i])
    <3>1. CASE \E j \in 1 .. Len(writer[e].resume) : writer'[e].resume[i] = writer[e].resume[j]
      BY <3>1 DEF Calm, Delivery, Authentic
    <3>2. CASE \E j \in 1 .. Len(replay[e].replay_queue) :
                 writer'[e].resume[i] = replay[e].replay_queue[j]
      BY <3>2 DEF Calm, Delivery, Authentic
    <3> QED
      BY <3>1, <3>2 DEF Calm, ResumeCalm
  <2> QED
    BY <2>1, <2>2, <2>3
<1>2. ASSUME NEW e \in Endpoint, NEW t \in Transport, NEW i \in 1 .. Len(wire'[t][Peer(e)]),
             wire'[t][Peer(e)][i].type = "data"
      PROVE  NumberedIn(accepted'[e], wire'[t][Peer(e)][i])
  BY <1>2, WireDelivery DEF Calm
<1>3. ASSUME NEW e \in Endpoint, reader'[Peer(e)].pc = "accept"
      PROVE  NumberedIn(accepted'[e], reader'[Peer(e)].frame)
  <2>1. Peer(e) \in Endpoint
    BY PeerType
  <2>2. reader'[Peer(e)] = reader[Peer(e)]
    BY <1>3, <2>1 DEF Calm, ReaderCalm
  <2> QED
    BY <1>3, <2>2 DEF Calm, Delivery, Authentic
<1>4. Authentic'
  BY <1>1, <1>2, <1>3 DEF Authentic
<1>5. ASSUME NEW e \in Endpoint
      PROVE  /\ recv'[e].last_recv_seq = Len(delivered'[e])
             /\ reader'[e].pc \in {"read", "accept"} => reader'[e].last = recv'[e].last_recv_seq
             /\ reader'[e].pc = "accept" => reader'[e].frame.seq = reader'[e].last + 1
  BY DEF Calm, RecvCalm, ReaderCalm, Delivery, Counted
<1>6. Counted'
  BY <1>5 DEF Counted
<1>7. DeliveredInOrder'
  BY DEF Calm, Delivery, DeliveredInOrder, IsPrefixOf
<1> QED
  BY <1>4, <1>6, <1>7 DEF Delivery

-----------------------------------------------------------------------------
(* The helpers are calm.                                                   *)

LEMMA SameCalm ==
  ASSUME Typed
  PROVE  /\ UNCHANGED conn => ConnCalm
         /\ UNCHANGED recv => RecvCalm
         /\ UNCHANGED replay => ReplayCalm
         /\ UNCHANGED writer => ResumeCalm
         /\ UNCHANGED wire => WireCalm
         /\ UNCHANGED reader => ReaderCalm
  BY DEF ConnCalm, RecvCalm, ReplayCalm, ResumeCalm, WireCalm, ReaderCalm

LEMMA MarkClosedCalm ==
  ASSUME Typed, NEW e \in Endpoint, MarkClosed(e)
  PROVE  ConnCalm /\ ResumeCalm /\ ReaderCalm
<1>1. ConnCalm
  <2>1. conn \in [Endpoint -> ConnSet]
    BY DEF Typed, TypeOK
  <2>2. conn' = [conn EXCEPT ![e].closed = TRUE, ![e].transport_attached = FALSE]
    BY DEF MarkClosed
  <2> QED
    BY <2>1, <2>2 DEF ConnCalm, ConnSet
<1>2. ResumeCalm
  <2>1. \A f \in Endpoint : writer'[f] = IF f = e THEN NoWriter ELSE writer[f]
    BY DEF MarkClosed, Typed, TypeOK
  <2>2. NoWriter.resume = << >>
    BY DEF NoWriter
  <2> QED
    BY <2>1, <2>2 DEF ResumeCalm
<1>3. ReaderCalm
  <2>1. \A f \in Endpoint : reader'[f] = IF f = e THEN NoReader ELSE reader[f]
    BY DEF MarkClosed, Typed, TypeOK
  <2>2. NoReader.pc = "none"
    BY DEF NoReader
  <2> QED
    BY <2>1, <2>2 DEF ReaderCalm
<1> QED
  BY <1>1, <1>2, <1>3

LEMMA AttachTransportCalm ==
  ASSUME Typed, NEW e \in Endpoint, NEW t, NEW n, AttachTransport(e, t, n)
  PROVE  ConnCalm /\ ReaderCalm
<1> DEFINE gen == conn[e].transport_gen + 1
<1>1. CASE conn[e].closed
  BY <1>1, SameCalm DEF AttachTransport
<1>2. CASE ~conn[e].closed
  <2>1. /\ conn' = [conn EXCEPT ![e].transport_gen = gen, ![e].transport_attached = TRUE]
        /\ reader' = [reader EXCEPT ![e] = NewReader(gen, t)]
    BY <1>2 DEF AttachTransport
  <2> HIDE DEF gen
  <2>2. conn \in [Endpoint -> ConnSet] /\ reader \in [Endpoint -> ReaderSet]
    BY DEF Typed, TypeOK
  <2>3. ConnCalm
    BY <2>1, <2>2 DEF ConnCalm, ConnSet
  <2>4. NewReader(gen, t).pc = "start"
    BY DEF NewReader, NoReader
  <2>5. ReaderCalm
    BY <2>1, <2>2, <2>4 DEF ReaderCalm
  <2> QED
    BY <2>3, <2>5
<1> QED
  BY <1>1, <1>2

LEMMA DetachTransportCalm ==
  ASSUME Typed, NEW e \in Endpoint, NEW gen, DetachTransport(e, gen)
  PROVE  ConnCalm
<1> DEFINE next == gen + 1
<1>1. CASE ~Detaches(e, gen)
  BY <1>1, SameCalm DEF DetachTransport
<1>2. CASE Detaches(e, gen)
  <2>1. conn' = [conn EXCEPT ![e].transport_gen = next, ![e].transport_attached = FALSE]
    BY <1>2 DEF DetachTransport
  <2> HIDE DEF next
  <2>2. conn \in [Endpoint -> ConnSet]
    BY DEF Typed, TypeOK
  <2> QED
    BY <2>1, <2>2 DEF ConnCalm, ConnSet
<1> QED
  BY <1>1, <1>2

\* The frames on the wire after a write are those before it and the one written.
LEMMA WrittenFrames ==
  ASSUME Typed, NEW e \in Endpoint, NEW t, NEW frame \in FrameSet,
         NEW u \in Transport, NEW f \in Endpoint, NEW i \in 1 .. Len(Written(e, t, frame)[u][f])
  PROVE  \/ \E j \in 1 .. Len(wire[u][f]) : Written(e, t, frame)[u][f][i] = wire[u][f][j]
         \/ f = Peer(e) /\ Written(e, t, frame)[u][f][i] = frame
<1> DEFINE v == Written(e, t, frame)
<1>1. CASE v[u][f] = wire[u][f]
  BY <1>1
<1>2. CASE ~(v[u][f] = wire[u][f])
  <2>1. v = [wire EXCEPT ![t][Peer(e)] = Append(@, frame)]
    BY <1>2 DEF Written
  <2>2. wire \in [Transport -> [Endpoint -> Seq(FrameSet)]] /\ Peer(e) \in Endpoint
    BY PeerType DEF Typed, TypeOK
  <2>3. u = t /\ f = Peer(e) /\ v[u][f] = Append(wire[u][f], frame)
    BY <1>2, <2>1, <2>2
  <2>4. wire[u][f] \in Seq(FrameSet)
    BY <2>2
  <2> HIDE DEF v
  <2>5. i \in 1 .. Len(wire[u][f]) + 1
    BY <2>3, <2>4 DEF v
  <2>6. CASE i \in 1 .. Len(wire[u][f])
    BY <2>3, <2>4, <2>6 DEF v
  <2>7. CASE i = Len(wire[u][f]) + 1
    BY <2>3, <2>4, <2>7 DEF v
  <2> QED
    BY <2>4, <2>5, <2>6, <2>7
<1> QED
  BY <1>1, <1>2

\* Taking a frame off a queue.
LEMMA TailFrames ==
  ASSUME NEW S, NEW q \in Seq(S), q # << >>
  PROVE  /\ Tail(q) \in Seq(S)
         /\ \A i \in 1 .. Len(Tail(q)) : \E j \in 1 .. Len(q) : Tail(q)[i] = q[j]
         /\ 1 \in 1 .. Len(q) /\ Head(q) = q[1]
<1>1. /\ Tail(q) \in Seq(S) /\ Len(Tail(q)) = Len(q) - 1
      /\ \A i \in 1 .. Len(Tail(q)) : Tail(q)[i] = q[i + 1]
      /\ Len(q) \in Nat /\ Len(q) >= 1
  BY HeadTailProperties
<1>2. \A i \in 1 .. Len(Tail(q)) : i + 1 \in 1 .. Len(q)
  BY <1>1
<1> QED
  BY <1>1, <1>2

LEMMA ReadsCalm ==
  ASSUME Typed, NEW e \in Endpoint, NEW type, Reads(e, type)
  PROVE  WireCalm
<1> DEFINE t == reader[e].t
           rest == Tail(wire[t][e])
<1>1. /\ wire[t][e] \in Seq(FrameSet) /\ wire[t][e] # << >>
      /\ wire' = [wire EXCEPT ![t][e] = rest]
  BY ReadsType
<1>2. \A i \in 1 .. Len(rest) : \E j \in 1 .. Len(wire[t][e]) : rest[i] = wire[t][e][j]
  BY <1>1, TailFrames
<1> HIDE DEF t, rest
<1>3. wire \in [Transport -> [Endpoint -> Seq(FrameSet)]]
  BY DEF Typed, TypeOK
<1>4. ASSUME NEW u \in Transport, NEW f \in Endpoint
      PROVE  wire'[u][f] = wire[u][f] \/ (u = t /\ f = e /\ wire'[u][f] = rest)
  BY <1>1, <1>3
<1>5. ASSUME NEW u \in Transport, NEW f \in Endpoint, NEW i \in 1 .. Len(wire'[u][f])
      PROVE  \E j \in 1 .. Len(wire[u][f]) : wire'[u][f][i] = wire[u][f][j]
  BY <1>2, <1>4
<1> QED
  BY <1>5 DEF WireCalm

-----------------------------------------------------------------------------
(* Every action that numbers and delivers nothing is calm.                 *)

LEMMA CalmApplication ==
  ASSUME Typed, NEW e \in Endpoint,
         Send(e) \/ Close(e) \/ CloseAgain(e) \/ CloseStopped(e) \/ CloseTimeout(e)
  PROVE  Calm
<1>1. CASE Send(e)
  BY <1>1, SameCalm DEF Send, endVars, taskVars, netVars, history, Calm
<1>2. CASE Close(e)
  <2>1. ConnCalm
    <3>1. conn \in [Endpoint -> ConnSet] /\ conn' = [conn EXCEPT ![e].closing = TRUE]
      BY <1>2 DEF Typed, TypeOK, Close
    <3> QED
      BY <3>1 DEF ConnCalm, ConnSet
  <2> QED
    BY <1>2, <2>1, SameCalm DEF Close, taskVars, netVars, history, Calm
<1>3. CASE CloseAgain(e) \/ CloseStopped(e) \/ CloseTimeout(e)
  <2>1. MarkClosed(e) /\ UNCHANGED << replay, recv, wire, accepted, delivered >>
    BY <1>3 DEF CloseAgain, CloseStopped, CloseTimeout, netVars, history
  <2> QED
    BY <2>1, MarkClosedCalm, SameCalm DEF Calm
<1> QED
  BY <1>1, <1>2, <1>3

LEMMA CalmWriter ==
  ASSUME Typed, NEW e \in Endpoint,
         \/ WriterApply(e) \/ WriterAck(e) \/ WriterResume(e)
         \/ WriterClose(e) \/ WriterStop(e) \/ WriterFail(e)
  PROVE  Calm
<1> DEFINE w == writer[e]
<1>0. /\ writer \in [Endpoint -> WriterSet] /\ replay \in [Endpoint -> ReplaySet]
      /\ w \in WriterSet /\ w.resume \in Seq(RecordSet)
  BY DEF Typed, TypeOK, WriterSet
<1>1. CASE WriterApply(e)
  <2> DEFINE cmd == Head(writer_cmd[e])
             from == ResumeFrom(e, cmd.resume_seq)
  <2>1. UNCHANGED << conn, recv, reader, wire, accepted, delivered >>
    BY <1>1 DEF WriterApply, netVars, history
  <2>2. CASE cmd.type = "attach"
    <3> DEFINE b == Ack(replay[e], from)
               q == FramesToReplay(replay'[e], from)
    <3>1. /\ replay' = [replay EXCEPT ![e] = b]
          /\ writer' = [writer EXCEPT ![e].writer = cmd.writer, ![e].gen = cmd.gen,
                                      ![e].last_sent_seq = from, ![e].resume = q]
      BY <1>1, <2>2 DEF WriterApply
    <3>2. from \in Nat
      <4>1. cmd \in CmdSet
        BY <1>1, HeadTailProperties DEF WriterApply, Typed, TypeOK
      <4>2. cmd.resume_seq \in Nat
        BY <4>1 DEF CmdSet
      <4> QED
        BY <4>2 DEF ResumeFrom, Typed, TypeOK, ConnSet
    <3>3. /\ b \in ReplaySet
          /\ \A i \in 1 .. Len(b.replay_queue) :
               \E j \in 1 .. Len(replay[e].replay_queue) :
                 b.replay_queue[i] = replay[e].replay_queue[j]
      BY <1>0, <3>2, AckedType
    <3>4. replay'[e] = b /\ \A f \in Endpoint : f # e => replay'[f] = replay[f]
      BY <1>0, <3>1
    <3>5. ReplayCalm
      BY SMTT(40), <3>3, <3>4 DEF ReplayCalm
    <3>6. \A i \in 1 .. Len(q) : \E j \in 1 .. Len(b.replay_queue) : q[i] = b.replay_queue[j]
      <4>1. b.replay_queue \in Seq(RecordSet)
        BY <3>3 DEF ReplaySet
      <4> QED
        BY <3>4, <4>1, AfterType DEF FramesToReplay, SnapshotFrom
    <3> HIDE DEF q, b, from, cmd
    <3>7. \A i \in 1 .. Len(q) :
            \E j \in 1 .. Len(replay[e].replay_queue) : q[i] = replay[e].replay_queue[j]
      BY <3>3, <3>6
    <3>8. writer'[e].resume = q /\ \A f \in Endpoint : f # e => writer'[f] = writer[f]
      BY <1>0, <3>1 DEF WriterSet
    <3>9. ResumeCalm
      BY <3>7, <3>8 DEF ResumeCalm
    <3> QED
      BY <2>1, <3>5, <3>9, SameCalm DEF Calm
  <2>3. CASE cmd.type # "attach"
    <3> DEFINE nw == IF cmd.gen = writer[e].gen THEN None ELSE writer[e].writer
    <3>1. UNCHANGED replay /\ writer' = [writer EXCEPT ![e].writer = nw]
      BY <1>1, <2>3 DEF WriterApply
    <3> HIDE DEF nw
    <3>2. \A f \in Endpoint : writer'[f].resume = writer[f].resume
      BY <1>0, <3>1 DEF WriterSet
    <3>3. ResumeCalm
      BY <3>2 DEF ResumeCalm
    <3> QED
      BY <2>1, <3>1, <3>3, SameCalm DEF Calm
  <2> QED
    BY <2>2, <2>3
<1>2. CASE WriterAck(e)
  <2> DEFINE r == recv[e]
             frame == Frame("ack", r.last_recv_seq, None)
             n == IF r.last_ack_sent < r.last_recv_seq THEN r.last_recv_seq ELSE r.last_ack_sent
             p == IF r.last_ack_sent < r.last_recv_seq THEN 0 ELSE r.ack_pending
  <2>1. UNCHANGED << conn, replay, writer, reader, accepted, delivered >>
    BY <1>2 DEF WriterAck, taskVars, history
  <2>2. recv \in [Endpoint -> RecvSet] /\ r \in RecvSet
    BY DEF Typed, TypeOK
  <2>3. RecvCalm
    <3>1. recv' = [recv EXCEPT ![e] = [r EXCEPT !.ack_due = FALSE, !.ack_due_at = FALSE,
                                                !.last_ack_sent = n, !.ack_pending = p]]
      BY <1>2 DEF WriterAck
    <3> HIDE DEF n, p
    <3> QED
      BY <2>2, <3>1 DEF RecvCalm, RecvSet
  <2>4. frame \in FrameSet /\ frame.type = "ack"
    BY <2>2, FrameTypes DEF FrameType, Frame, RecvSet
  <2>5. wire' = wire \/ wire' = Written(e, w.writer, frame)
    BY <1>2 DEF WriterAck
  <2> HIDE DEF frame, w
  <2>6. WireCalm
    <3>1. CASE wire' = wire
      BY <3>1, SameCalm
    <3>2. CASE wire' = Written(e, w.writer, frame)
      BY <2>4, <3>2, WrittenFrames DEF WireCalm
    <3> QED
      BY <2>5, <3>1, <3>2
  <2> QED
    BY <2>1, <2>3, <2>6, SameCalm DEF Calm
<1>3. CASE WriterResume(e)
  <2> DEFINE r == Head(w.resume)
             frame == Frame("data", r.seq, r.msg)
             write == r.seq > w.last_sent_seq /\ r.seq > replay[e].last_acked
             n == IF write THEN r.seq ELSE w.last_sent_seq
             rest == Tail(w.resume)
  <2>1. UNCHANGED << conn, replay, recv, reader, accepted, delivered >>
    BY <1>3 DEF WriterResume, endVars, history
  <2>2. /\ rest \in Seq(RecordSet)
        /\ \A i \in 1 .. Len(rest) : \E j \in 1 .. Len(w.resume) : rest[i] = w.resume[j]
        /\ 1 \in 1 .. Len(w.resume) /\ r = w.resume[1]
    BY <1>0, <1>3, TailFrames DEF WriterResume
  <2>3. writer' = [writer EXCEPT ![e].resume = rest, ![e].last_sent_seq = n]
    BY <1>3 DEF WriterResume
  <2>4. ResumeCalm
    <3> HIDE DEF rest, n
    <3>1. writer'[e].resume = rest /\ \A f \in Endpoint : f # e => writer'[f] = writer[f]
      BY <1>0, <2>3 DEF WriterSet
    <3>2. ASSUME NEW f \in Endpoint, NEW i \in 1 .. Len(writer'[f].resume)
          PROVE  \E j \in 1 .. Len(writer[f].resume) : writer'[f].resume[i] = writer[f].resume[j]
      <4>1. CASE f = e
        BY <2>2, <3>1, <4>1
      <4>2. CASE f # e
        BY <3>1, <4>2
      <4> QED
        BY <4>1, <4>2
    <3> QED
      BY <3>2 DEF ResumeCalm
  <2>5. r \in RecordSet
    BY <1>0, <2>2
  <2>6. frame \in FrameSet
    BY <2>5, FrameTypes DEF FrameType, RecordSet
  <2>7. wire' = wire \/ wire' = Written(e, w.writer, frame)
    BY <1>3 DEF WriterResume
  <2>8. frame = Frame("data", writer[e].resume[1].seq, writer[e].resume[1].msg)
    BY <2>2
  <2>9. WireCalm
    <3>1. CASE wire' = wire
      BY <3>1, SameCalm
    <3>2. CASE wire' = Written(e, w.writer, frame)
      <4> HIDE DEF frame
      <4>1. ASSUME NEW u \in Transport, NEW f \in Endpoint, NEW i \in 1 .. Len(wire'[u][f])
            PROVE  \/ \E j \in 1 .. Len(wire[u][f]) : wire'[u][f][i] = wire[u][f][j]
                   \/ f = Peer(e) /\ wire'[u][f][i] = frame
        BY <2>6, <3>2, WrittenFrames
      <4>2. Peer(Peer(e)) = e
        BY PeerType
      <4>3. ASSUME NEW u \in Transport, NEW f \in Endpoint, NEW i \in 1 .. Len(wire'[u][f]),
                   f = Peer(e), wire'[u][f][i] = frame
            PROVE  \E j \in 1 .. Len(writer[Peer(f)].resume) :
                     LET s == writer[Peer(f)].resume[j]
                     IN  wire'[u][f][i] = Frame("data", s.seq, s.msg)
        BY <2>2, <2>8, <4>2, <4>3
      <4> QED
        BY <4>1, <4>3 DEF WireCalm
    <3> QED
      BY <2>7, <3>1, <3>2
  <2> QED
    BY <2>1, <2>4, <2>9, SameCalm DEF Calm
<1>4. CASE WriterClose(e)
  <2> DEFINE frame == Frame("close", 0, None)
  <2>1. UNCHANGED << conn, replay, recv, reader, accepted, delivered >>
    BY <1>4 DEF WriterClose, endVars, history
  <2>2. frame \in FrameSet /\ frame.type = "close"
    BY FrameTypes DEF FrameType, Frame
  <2>3. wire' = wire \/ wire' = Written(e, w.writer, frame)
    BY <1>4 DEF WriterClose
  <2> HIDE DEF frame, w
  <2>4. WireCalm
    <3>1. CASE wire' = wire
      BY <3>1, SameCalm
    <3>2. CASE wire' = Written(e, w.writer, frame)
      BY <2>2, <3>2, WrittenFrames DEF WireCalm
    <3> QED
      BY <2>3, <3>1, <3>2
  <2>5. writer' = [writer EXCEPT ![e] = NoWriter] /\ NoWriter.resume = << >>
    BY <1>4 DEF WriterClose, NoWriter
  <2>6. ResumeCalm
    BY <1>0, <2>5 DEF ResumeCalm
  <2> QED
    BY <2>1, <2>4, <2>6, SameCalm DEF Calm
<1>5. CASE WriterStop(e)
  <2>1. UNCHANGED << conn, replay, recv, reader, wire, accepted, delivered >>
    BY <1>5 DEF WriterStop, endVars, netVars, history
  <2>2. writer' = [writer EXCEPT ![e] = NoWriter] /\ NoWriter.resume = << >>
    BY <1>5 DEF WriterStop, NoWriter
  <2>3. ResumeCalm
    BY <1>0, <2>2 DEF ResumeCalm
  <2> QED
    BY <2>1, <2>3, SameCalm DEF Calm
<1>6. CASE WriterFail(e)
  <2>1. UNCHANGED << replay, recv, wire, accepted, delivered >>
    BY <1>6 DEF WriterFail, history
  <2>2. DetachTransport(e, w.gen) /\ writer' = [writer EXCEPT ![e].writer = None]
    BY <1>6 DEF WriterFail
  <2>3. \A f \in Endpoint : writer'[f].resume = writer[f].resume
    BY <1>0, <2>2 DEF WriterSet
  <2>4. ResumeCalm
    BY <2>3 DEF ResumeCalm
  <2>5. reader' = reader \/ reader' = [reader EXCEPT ![e] = NoReader]
    BY <1>6 DEF WriterFail
  <2>6. NoReader.pc = "none" /\ reader \in [Endpoint -> ReaderSet]
    BY DEF NoReader, Typed, TypeOK
  <2>7. ReaderCalm
    BY <2>5, <2>6 DEF ReaderCalm
  <2> QED
    BY <2>1, <2>2, <2>4, <2>7, DetachTransportCalm, SameCalm DEF Calm
<1> QED
  BY <1>1, <1>2, <1>3, <1>4, <1>5, <1>6

LEMMA CalmReader ==
  ASSUME Typed, NEW e \in Endpoint,
         ReadAck(e) \/ ReadClose(e) \/ ReaderDrained(e) \/ ReaderFail(e)
  PROVE  Calm
<1>1. CASE ReadAck(e)
  <2> DEFINE n == Head(wire[reader[e].t][e]).seq
             b == Ack(replay[e], n)
  <2>1. UNCHANGED << conn, recv, writer, reader, accepted, delivered >>
    BY <1>1 DEF ReadAck, taskVars, history
  <2>2. n \in Nat /\ WireCalm
    BY <1>1, ReadsType, ReadsCalm DEF ReadAck
  <2>3. replay' = [replay EXCEPT ![e] = b] /\ replay \in [Endpoint -> ReplaySet]
    BY <1>1 DEF ReadAck, Typed, TypeOK
  <2>4. \A i \in 1 .. Len(b.replay_queue) :
          \E j \in 1 .. Len(replay[e].replay_queue) : b.replay_queue[i] = replay[e].replay_queue[j]
    <3>1. replay[e] \in ReplaySet
      BY <2>3
    <3> HIDE DEF n
    <3> QED
      BY SMTT(40), <2>2, <3>1, AckedType
  <2> HIDE DEF n, b
  <2>5. ReplayCalm
    BY <2>3, <2>4 DEF ReplayCalm
  <2> QED
    BY <2>1, <2>2, <2>5, SameCalm DEF Calm
<1>2. CASE ReadClose(e)
  <2>1. UNCHANGED << replay, recv, accepted, delivered >> /\ WireCalm
    BY <1>2, ReadsCalm DEF ReadClose, history
  <2>2. CASE MarkClosed(e)
    BY <2>1, <2>2, MarkClosedCalm, SameCalm DEF Calm
  <2>3. CASE ~MarkClosed(e)
    <3>1. /\ conn' = [conn EXCEPT ![e].closing = TRUE]
          /\ reader' = [reader EXCEPT ![e].pc = "drain"]
          /\ UNCHANGED writer
      BY <1>2, <2>3 DEF ReadClose
    <3>2. conn \in [Endpoint -> ConnSet] /\ reader \in [Endpoint -> ReaderSet]
      BY DEF Typed, TypeOK
    <3>3. ConnCalm
      BY <3>1, <3>2 DEF ConnCalm, ConnSet
    <3>4. ReaderCalm
      BY <3>1, <3>2 DEF ReaderCalm, ReaderSet
    <3> QED
      BY <2>1, <3>1, <3>3, <3>4, SameCalm DEF Calm
  <2> QED
    BY <2>2, <2>3
<1>3. CASE ReaderDrained(e)
  <2>1. MarkClosed(e) /\ UNCHANGED << replay, recv, wire, accepted, delivered >>
    BY <1>3 DEF ReaderDrained, netVars, history
  <2> QED
    BY <2>1, MarkClosedCalm, SameCalm DEF Calm
<1>4. CASE ReaderFail(e)
  <2>1. UNCHANGED << replay, recv, wire, accepted, delivered >>
    BY <1>4 DEF ReaderFail, history
  <2>2. CASE MarkClosed(e)
    BY <2>1, <2>2, MarkClosedCalm, SameCalm DEF Calm
  <2>3. CASE ~MarkClosed(e)
    <3>1. /\ DetachTransport(e, reader[e].gen)
          /\ reader' = [reader EXCEPT ![e] = NoReader]
          /\ UNCHANGED writer
      BY <1>4, <2>3 DEF ReaderFail
    <3>2. NoReader.pc = "none" /\ reader \in [Endpoint -> ReaderSet]
      BY DEF NoReader, Typed, TypeOK
    <3>3. ReaderCalm
      BY <3>1, <3>2 DEF ReaderCalm
    <3> QED
      BY <2>1, <3>1, <3>3, DetachTransportCalm, SameCalm DEF Calm
  <2> QED
    BY <2>2, <2>3
<1> QED
  BY <1>1, <1>2, <1>3, <1>4

LEMMA CalmResume ==
  ASSUME Typed, LoopStep \/ \E t \in Transport : HandlerStep(t)
  PROVE  Calm
<1>0. /\ "client" \in Endpoint /\ "server" \in Endpoint
      /\ wire \in [Transport -> [Endpoint -> Seq(FrameSet)]]
  BY DEF Endpoint, Typed, TypeOK
<1>1. CASE LoopDial
  <2> DEFINE t == dialed + 1
             request == Frame("resume", recv["client"].last_recv_seq, None)
  <2>1. UNCHANGED << conn, replay, recv, writer, reader, accepted, delivered >>
    BY <1>1 DEF LoopDial, endVars, taskVars, history
  <2>2. wire' = [wire EXCEPT ![t]["server"] = << request >>]
    BY <1>1 DEF LoopDial
  <2>3. request.type = "resume"
    BY DEF Frame
  <2> HIDE DEF t, request
  <2>4. ASSUME NEW u \in Transport, NEW f \in Endpoint
        PROVE  wire'[u][f] = wire[u][f] \/ wire'[u][f] = << request >>
    BY <1>0, <2>2
  <2>5. WireCalm
    BY <2>3, <2>4 DEF WireCalm
  <2> QED
    BY <2>1, <2>5, SameCalm DEF Calm
<1>2. CASE LoopQuit \/ LoopFail
  <2>1. UNCHANGED << conn, replay, recv, writer, reader, wire, accepted, delivered >>
    BY <1>2 DEF LoopQuit, LoopFail, endVars, taskVars, history
  <2> QED
    BY <2>1, SameCalm DEF Calm
<1>3. CASE LoopResponse
  <2> DEFINE t == loop.t
             rest == Tail(wire[t]["client"])
             response == Head(wire[t]["client"])
  <2>1. UNCHANGED << replay, recv, accepted, delivered >>
    BY <1>3 DEF LoopResponse, history
  <2>2. t \in Transport /\ wire[t]["client"] # << >>
    BY <1>3 DEF LoopResponse, Typed, Named
  <2>3. wire' = [wire EXCEPT ![t]["client"] = rest]
    BY <1>3 DEF LoopResponse
  <2>4. \A i \in 1 .. Len(rest) :
          \E j \in 1 .. Len(wire[t]["client"]) : rest[i] = wire[t]["client"][j]
    BY <1>0, <2>2, TailFrames
  <2>5. WireCalm
    <3> HIDE DEF t, rest
    <3>1. ASSUME NEW u \in Transport, NEW f \in Endpoint
          PROVE  wire'[u][f] = wire[u][f] \/ (u = t /\ f = "client" /\ wire'[u][f] = rest)
      BY <1>0, <2>3
    <3>2. ASSUME NEW u \in Transport, NEW f \in Endpoint, NEW i \in 1 .. Len(wire'[u][f])
          PROVE  \E j \in 1 .. Len(wire[u][f]) : wire'[u][f][i] = wire[u][f][j]
      BY <2>4, <3>1
    <3> QED
      BY <3>2 DEF WireCalm
  <2>6. \/ AttachTransport("client", t, response.seq) /\ UNCHANGED writer
        \/ MarkClosed("client")
    BY <1>3 DEF LoopResponse
  <2> QED
    BY <1>0, <2>1, <2>5, <2>6, AttachTransportCalm, MarkClosedCalm, SameCalm DEF Calm
<1>4. ASSUME NEW t \in Transport, ServerResume(t)
      PROVE  Calm
  <2> DEFINE answer == IF RefusesResume THEN Frame("reject", 0, None)
                       ELSE Frame("attach_ok", recv["server"].last_recv_seq, None)
             tail == Tail(wire[t]["server"])
             rest == [wire EXCEPT ![t]["server"] = tail]
  <2>1. UNCHANGED << conn, replay, recv, writer, reader, accepted, delivered >>
    BY <1>4 DEF ServerResume, endVars, taskVars, history
  <2>2. wire' = rest \/ wire' = [rest EXCEPT ![t]["client"] = Append(@, answer)]
    BY <1>4 DEF ServerResume
  <2>3. answer.type # "data"
    BY DEF Frame
  <2>4. /\ tail \in Seq(FrameSet)
        /\ \A i \in 1 .. Len(tail) :
             \E j \in 1 .. Len(wire[t]["server"]) : tail[i] = wire[t]["server"][j]
    BY <1>0, <1>4, TailFrames DEF ServerResume
  <2> HIDE DEF answer, tail
  <2>5. ASSUME NEW u \in Transport, NEW f \in Endpoint
        PROVE  \/ wire'[u][f] = wire[u][f]
               \/ u = t /\ f = "server" /\ wire'[u][f] = tail
               \/ u = t /\ f = "client" /\ wire'[u][f] = Append(wire[u][f], answer)
    BY <1>0, <2>2, <2>4
  <2>6. ASSUME NEW u \in Transport, NEW f \in Endpoint, NEW i \in 1 .. Len(wire'[u][f])
        PROVE  \/ wire'[u][f][i].type # "data"
               \/ \E j \in 1 .. Len(wire[u][f]) : wire'[u][f][i] = wire[u][f][j]
    <3>1. CASE wire'[u][f] = wire[u][f]
      BY <3>1
    <3>2. CASE u = t /\ f = "server" /\ wire'[u][f] = tail
      BY <2>4, <3>2
    <3>3. CASE wire'[u][f] = Append(wire[u][f], answer)
      <4>1. wire[u][f] \in Seq(FrameSet) /\ Len(wire[u][f]) \in Nat
        BY <1>0
      <4>2. i \in 1 .. Len(wire[u][f]) + 1
        BY <3>3, <4>1
      <4>3. CASE i \in 1 .. Len(wire[u][f])
        BY <3>3, <4>1, <4>3
      <4>4. CASE i = Len(wire[u][f]) + 1
        <5>1. wire'[u][f][i] = answer
          BY <3>3, <4>1, <4>4
        <5> QED
          BY <2>3, <5>1
      <4> QED
        BY <4>1, <4>2, <4>3, <4>4
    <3> QED
      BY <2>5, <3>1, <3>2, <3>3
  <2>7. WireCalm
    BY <2>6 DEF WireCalm
  <2> QED
    BY <2>1, <2>7, SameCalm DEF Calm
<1>5. ASSUME NEW t \in Transport, ServerAttach(t)
      PROVE  Calm
  <2>1. UNCHANGED << replay, recv, wire, accepted, delivered >>
    BY <1>5 DEF ServerAttach, history
  <2>2. AttachTransport("server", t, handler[t].seq)
    BY <1>5 DEF ServerAttach
  <2>3. writer' = writer \/ writer' = [writer EXCEPT !["server"] = NewWriter]
    BY <1>5 DEF ServerAttach
  <2>4. NewWriter.resume = << >> /\ writer \in [Endpoint -> WriterSet]
    BY DEF NewWriter, NoWriter, Typed, TypeOK
  <2>5. ResumeCalm
    BY <2>3, <2>4 DEF ResumeCalm
  <2> QED
    BY <1>0, <2>1, <2>2, <2>5, AttachTransportCalm, SameCalm DEF Calm
<1>6. ASSUME NEW t \in Transport, ServerRefuse(t)
      PROVE  Calm
  <2>1. UNCHANGED << conn, replay, recv, writer, reader, wire, accepted, delivered >>
    BY <1>6 DEF ServerRefuse, endVars, taskVars, history
  <2> QED
    BY <2>1, SameCalm DEF Calm
<1> QED
  BY <1>1, <1>2, <1>3, <1>4, <1>5, <1>6 DEF LoopStep, HandlerStep

LEMMA CalmFailure ==
  ASSUME Typed, ServerExpire \/ \E t \in Transport : Break(t)
  PROVE  Calm
<1>1. CASE ServerExpire
  <2>1. MarkClosed("server") /\ "server" \in Endpoint
    BY <1>1 DEF ServerExpire, Endpoint
  <2>2. UNCHANGED << replay, recv, wire, accepted, delivered >>
    BY <1>1 DEF ServerExpire, netVars, history
  <2> QED
    BY <2>1, <2>2, MarkClosedCalm, SameCalm DEF Calm
<1>2. ASSUME NEW t \in Transport, Break(t)
      PROVE  Calm
  <2>1. UNCHANGED << conn, replay, recv, writer, reader, accepted, delivered >>
    BY <1>2 DEF Break, endVars, taskVars, history
  <2>2. ASSUME NEW u \in Transport, NEW f \in Endpoint, NEW i \in 1 .. Len(wire'[u][f])
        PROVE  \E j \in 1 .. Len(wire[u][f]) : wire'[u][f][i] = wire[u][f][j]
    <3>1. Len(wire'[u][f]) <= Len(wire[u][f]) /\ wire'[u][f][i] = wire[u][f][i]
      BY <1>2, BreakPrefix
    <3>2. Len(wire'[u][f]) \in Nat /\ Len(wire[u][f]) \in Nat
      BY SMTT(40), <1>2, BreakPrefix DEF Typed, TypeOK
    <3>3. i \in 1 .. Len(wire[u][f])
      BY <3>1, <3>2
    <3> QED
      BY <3>1, <3>3
  <2>3. WireCalm
    BY <2>2 DEF WireCalm
  <2> QED
    BY <2>1, <2>3, SameCalm DEF Calm
<1> QED
  BY <1>1, <1>2

-----------------------------------------------------------------------------
(* The steps that number or deliver a message, or move the reader.         *)

\* A message that is numbered keeps its number.
LEMMA NumberedGrows ==
  ASSUME NEW acc \in Seq(Message), NEW m \in Message, NEW r, NumberedIn(acc, r)
  PROVE  NumberedIn(Append(acc, m), r)
<1>1. /\ Len(Append(acc, m)) = Len(acc) + 1
      /\ \A i \in 1 .. Len(acc) : Append(acc, m)[i] = acc[i]
      /\ Len(acc) \in Nat
  BY AppendProperties
<1> QED
  BY <1>1 DEF NumberedIn

\* Staging: the frame that is numbered is the last one accepted.
LEMMA StageDelivery ==
  ASSUME Typed, Delivery, NEW e \in Endpoint, NEW msg \in 1 .. Len(Outgoing[e]),
         StageFrame(e, msg), UNCHANGED << recv, reader, delivered >>,
         \A f \in Endpoint : writer'[f].resume = writer[f].resume,
         \/ UNCHANGED wire
         \/ /\ Outcome(e, msg) = "kept"
            /\ wire' = Written(e, writer[e].writer, Frame("data", conn[e].next_send_seq + 1, msg))
  PROVE  Delivery'
<1> DEFINE seq == conn[e].next_send_seq + 1
           record == FrameRecord(seq, msg, Outgoing[e][msg])
           b == Keep(replay[e], record)
           frame == Frame("data", seq, msg)
<1>0. /\ seq \in Nat /\ record \in RecordSet /\ record.seq = seq /\ record.msg = msg
      /\ b.replay_queue = Append(replay[e].replay_queue, record)
      /\ msg \in Message
  BY KeepType, MessageType DEF Typed
<1>1. CASE Outcome(e, msg) # "kept"
  <2>1. UNCHANGED << replay, conn, accepted, wire >>
    BY <1>1 DEF StageFrame
  <2>2. ResumeCalm
    BY DEF ResumeCalm
  <2> QED
    BY <2>1, <2>2, SameCalm, CalmDelivery DEF Calm
<1>2. CASE Outcome(e, msg) = "kept"
  <2>1. /\ replay' = [replay EXCEPT ![e] = b]
        /\ conn' = [conn EXCEPT ![e].next_send_seq = seq]
        /\ accepted' = [accepted EXCEPT ![e] = Append(@, msg)]
    BY <1>2 DEF StageFrame
  <2>2. /\ replay \in [Endpoint -> ReplaySet] /\ conn \in [Endpoint -> ConnSet]
        /\ accepted \in [Endpoint -> Seq(Message)] /\ accepted[e] \in Seq(Message)
        /\ replay[e].replay_queue \in Seq(RecordSet)
    BY DEF Typed, TypeOK, ReplaySet
  <2>3. conn[e].next_send_seq = Len(accepted[e])
    BY DEF Delivery, Authentic
  <2>4. /\ Len(Append(accepted[e], msg)) = seq
        /\ Append(accepted[e], msg)[seq] = msg
        /\ seq \in 1 .. Len(Append(accepted[e], msg))
    BY <1>0, <2>2, <2>3, AppendProperties
  <2>5. \A r : r.seq = seq /\ r.msg = msg => NumberedIn(Append(accepted[e], msg), r)
    BY <2>4 DEF NumberedIn
  <2>6. frame.seq = seq /\ frame.msg = msg /\ frame.type = "data" /\ frame \in FrameSet
    BY <1>0, FrameTypes DEF Frame, FrameType
  <2> HIDE DEF seq, record, b, frame
  <2>7. /\ accepted'[e] = Append(accepted[e], msg)
        /\ \A f \in Endpoint : f # e => accepted'[f] = accepted[f]
    BY <2>1, <2>2
  <2>8. ASSUME NEW f \in Endpoint, NEW r, NumberedIn(accepted[f], r)
        PROVE  NumberedIn(accepted'[f], r)
    <3>1. CASE f = e
      BY <1>0, <2>2, <2>7, <2>8, <3>1, NumberedGrows
    <3>2. CASE f # e
      BY <2>7, <2>8, <3>2
    <3> QED
      BY <3>1, <3>2
  <2>9. ASSUME NEW f \in Endpoint
        PROVE  conn'[f].next_send_seq = Len(accepted'[f])
    <3>1. conn'[f].next_send_seq = IF f = e THEN seq ELSE conn[f].next_send_seq
      BY <2>1, <2>2 DEF ConnSet
    <3>2. conn[f].next_send_seq = Len(accepted[f])
      BY DEF Delivery, Authentic
    <3> QED
      BY <2>4, <2>7, <3>1, <3>2
  <2>10. ASSUME NEW f \in Endpoint, NEW i \in 1 .. Len(replay'[f].replay_queue)
         PROVE  NumberedIn(accepted'[f], replay'[f].replay_queue[i])
    <3>1. CASE f = e
      <4>1. replay'[e].replay_queue = Append(replay[e].replay_queue, record)
        BY <1>0, <2>1, <2>2
      <4>2. Len(replay[e].replay_queue) \in Nat
        BY <2>2
      <4>3. i \in 1 .. Len(replay[e].replay_queue) + 1
        BY <1>0, <2>2, <3>1, <4>1
      <4>4. CASE i \in 1 .. Len(replay[e].replay_queue)
        <5>1. replay'[e].replay_queue[i] = replay[e].replay_queue[i]
          BY <1>0, <2>2, <4>1, <4>4
        <5>2. NumberedIn(accepted[e], replay[e].replay_queue[i])
          BY <4>4 DEF Delivery, Authentic
        <5> QED
          BY <2>8, <3>1, <5>1, <5>2
      <4>5. CASE i = Len(replay[e].replay_queue) + 1
        <5>1. replay'[e].replay_queue[i] = record
          BY <1>0, <2>2, <4>1, <4>5
        <5> QED
          BY <1>0, <2>5, <2>7, <3>1, <5>1
      <4>6. i \in 1 .. Len(replay[e].replay_queue) \/ i = Len(replay[e].replay_queue) + 1
        <5> DEFINE k == Len(replay[e].replay_queue)
        <5>1. k \in Nat /\ i \in 1 .. k + 1
          BY <4>2, <4>3
        <5> HIDE DEF k
        <5>2. i \in 1 .. k \/ i = k + 1
          BY <5>1
        <5> QED
          BY <5>2 DEF k
      <4> QED
        BY <4>4, <4>5, <4>6
    <3>2. CASE f # e
      <4>1. replay'[f] = replay[f]
        BY <2>1, <2>2, <3>2
      <4>2. NumberedIn(accepted[f], replay[f].replay_queue[i])
        BY <4>1 DEF Delivery, Authentic
      <4> QED
        BY <2>8, <4>1, <4>2
    <3> QED
      BY <3>1, <3>2
  <2>11. ASSUME NEW f \in Endpoint, NEW i \in 1 .. Len(writer'[f].resume)
         PROVE  NumberedIn(accepted'[f], writer'[f].resume[i])
    <3>1. writer'[f].resume = writer[f].resume
      OBVIOUS
    <3>2. NumberedIn(accepted[f], writer[f].resume[i])
      BY <3>1 DEF Delivery, Authentic
    <3> QED
      BY <2>8, <3>1, <3>2
  <2>12. ASSUME NEW f \in Endpoint, NEW t \in Transport, NEW i \in 1 .. Len(wire'[t][Peer(f)]),
                wire'[t][Peer(f)][i].type = "data"
         PROVE  NumberedIn(accepted'[f], wire'[t][Peer(f)][i])
    <3>1. wire' = wire \/ wire' = Written(e, writer[e].writer, frame)
      BY DEF frame, seq
    <3>2. Peer(f) \in Endpoint /\ (Peer(f) = Peer(e) => f = e)
      BY PeerType
    <3>3. \/ \E j \in 1 .. Len(wire[t][Peer(f)]) : wire'[t][Peer(f)][i] = wire[t][Peer(f)][j]
          \/ f = e /\ wire'[t][Peer(f)][i] = frame
      <4>1. CASE wire' = wire
        BY <4>1
      <4>2. CASE wire' = Written(e, writer[e].writer, frame)
        BY <2>6, <3>2, <4>2, WrittenFrames
      <4> QED
        BY <3>1, <4>1, <4>2
    <3>4. CASE \E j \in 1 .. Len(wire[t][Peer(f)]) : wire'[t][Peer(f)][i] = wire[t][Peer(f)][j]
      <4>1. NumberedIn(accepted[f], wire'[t][Peer(f)][i])
        BY <2>12, <3>4 DEF Delivery, Authentic
      <4> QED
        BY <2>8, <4>1
    <3>5. CASE f = e /\ wire'[t][Peer(f)][i] = frame
      BY <2>5, <2>6, <2>7, <3>5
    <3> QED
      BY <3>3, <3>4, <3>5
  <2>13. ASSUME NEW f \in Endpoint, reader'[Peer(f)].pc = "accept"
         PROVE  NumberedIn(accepted'[f], reader'[Peer(f)].frame)
    <3>1. NumberedIn(accepted[f], reader[Peer(f)].frame)
      BY <2>13 DEF Delivery, Authentic
    <3> QED
      BY <2>8, <3>1
  <2>14. Authentic'
    BY <2>9, <2>10, <2>11, <2>12, <2>13 DEF Authentic
  <2>15. Counted'
    BY DEF Delivery, Counted
  <2>16. ASSUME NEW f \in Endpoint
         PROVE  IsPrefixOf(delivered'[f], accepted'[Peer(f)])
    <3> DEFINE d == delivered[f]
               acc == accepted[Peer(f)]
               acc2 == accepted'[Peer(f)]
    <3>1. Peer(f) \in Endpoint
      BY PeerType
    <3>2. Len(d) <= Len(acc) /\ \A i \in 1 .. Len(d) : d[i] = acc[i]
      BY DEF Delivery, DeliveredInOrder, IsPrefixOf
    <3>3. acc \in Seq(Message) /\ Len(acc) \in Nat /\ Len(d) \in Nat
      <4>1. accepted[Peer(f)] \in Seq(Message) /\ delivered[f] \in Seq(Message \cup {None})
        BY <3>1 DEF Typed, TypeOK
      <4> QED
        BY <4>1
    <3>4. Len(acc) <= Len(acc2) /\ Len(acc2) \in Nat /\ \A i \in 1 .. Len(acc) : acc2[i] = acc[i]
      <4>1. CASE Peer(f) = e
        <5>1. acc2 = Append(acc, msg)
          BY <2>7, <4>1
        <5> HIDE DEF acc, acc2
        <5>2. Len(acc2) = Len(acc) + 1 /\ \A i \in 1 .. Len(acc) : acc2[i] = acc[i]
          BY <1>0, <3>3, <5>1, AppendProperties
        <5> QED
          BY <3>3, <5>2
      <4>2. CASE Peer(f) # e
        BY <2>7, <3>1, <3>3, <4>2
      <4> QED
        BY <4>1, <4>2
    <3> HIDE DEF d, acc, acc2
    <3>5. IsPrefixOf(d, acc2)
      BY <3>2, <3>3, <3>4 DEF IsPrefixOf
    <3> QED
      BY <3>5 DEF d, acc2
  <2>17. DeliveredInOrder'
    BY <2>16 DEF DeliveredInOrder
  <2> QED
    BY <2>14, <2>15, <2>17 DEF Delivery
<1> QED
  BY <1>1, <1>2

LEMMA LiveDelivery ==
  ASSUME Typed, Delivery, NEW e \in Endpoint, WriterLive(e) \/ WriterStage(e)
  PROVE  Delivery'
<1>0. writer \in [Endpoint -> WriterSet]
  BY DEF Typed, TypeOK
<1>1. CASE WriterLive(e)
  <2> DEFINE w == writer[e]
             seq == conn[e].next_send_seq + 1
             Write(msg) == Outcome(e, msg) = "kept" /\ seq > w.last_sent_seq
  <2>1. PICK msg \in 1 .. Len(Outgoing[e]) :
          /\ StageFrame(e, msg)
          /\ writer' = [writer EXCEPT ![e].held = Held(e, msg),
                                      ![e].last_sent_seq = IF Write(msg) THEN seq ELSE @]
          /\ wire' = IF Write(msg) THEN Written(e, w.writer, Frame("data", seq, msg)) ELSE wire
    BY <1>1 DEF WriterLive
  <2> DEFINE h == Held(e, msg)
             n == IF Write(msg) THEN seq ELSE writer[e].last_sent_seq
  <2>2. writer' = [writer EXCEPT ![e].held = h, ![e].last_sent_seq = n]
    BY <2>1
  <2>3. \A f \in Endpoint : writer'[f].resume = writer[f].resume
    <3> HIDE DEF h, n
    <3> QED
      BY <1>0, <2>2 DEF WriterSet
  <2>4. \/ UNCHANGED wire
        \/ /\ Outcome(e, msg) = "kept"
           /\ wire' = Written(e, writer[e].writer, Frame("data", conn[e].next_send_seq + 1, msg))
    BY <2>1
  <2>5. UNCHANGED << recv, reader, delivered >>
    BY <1>1 DEF WriterLive
  <2> QED
    BY <2>1, <2>3, <2>4, <2>5, StageDelivery
<1>2. CASE WriterStage(e)
  <2>1. PICK msg \in 1 .. Len(Outgoing[e]) :
          StageFrame(e, msg) /\ writer' = [writer EXCEPT ![e].held = Held(e, msg)]
    BY <1>2 DEF WriterStage
  <2> DEFINE h == Held(e, msg)
  <2>2. \A f \in Endpoint : writer'[f].resume = writer[f].resume
    <3>1. writer' = [writer EXCEPT ![e].held = h]
      BY <2>1
    <3> HIDE DEF h
    <3> QED
      BY <1>0, <3>1 DEF WriterSet
  <2>3. UNCHANGED << recv, reader, delivered, wire >>
    BY <1>2 DEF WriterStage, netVars
  <2> QED
    BY <2>1, <2>2, <2>3, StageDelivery
<1> QED
  BY <1>1, <1>2

\* Steps of the reader that deliver: they change only its own counters, and take
\* at most a frame off its transport.
LEMMA ReaderDelivery ==
  ASSUME Typed, Delivery, NEW e \in Endpoint,
         ReaderStart(e) \/ ReadData(e) \/ ReaderAccept(e)
  PROVE  Delivery'
<1>0. /\ reader \in [Endpoint -> ReaderSet] /\ recv \in [Endpoint -> RecvSet]
      /\ reader[e] \in ReaderSet /\ recv[e] \in RecvSet
  BY DEF Typed, TypeOK
<1>1. CASE ReaderStart(e)
  <2> DEFINE n == recv[e].last_recv_seq
  <2>1. UNCHANGED << conn, replay, recv, writer, wire, accepted, delivered >>
    BY <1>1 DEF ReaderStart, endVars, netVars, history
  <2>2. reader' = [reader EXCEPT ![e].pc = "read", ![e].last = n]
    BY <1>1 DEF ReaderStart
  <2> HIDE DEF n
  <2>3. /\ \A f \in Endpoint : f # e => reader'[f] = reader[f]
        /\ reader'[e].pc = "read" /\ reader'[e].last = n
    BY <1>0, <2>2 DEF ReaderSet
  <2>4. Authentic'
    <3>1. \A f \in Endpoint : reader'[f].pc = "accept" => reader'[f] = reader[f]
      BY <2>3
    <3>2. \A f \in Endpoint : Peer(f) \in Endpoint
      BY PeerType
    <3>3. \A f \in Endpoint : reader'[Peer(f)].pc = "accept" =>
            NumberedIn(accepted[f], reader'[Peer(f)].frame)
      BY <3>1, <3>2 DEF Delivery, Authentic
    <3> QED
      BY <2>1, <3>3 DEF Delivery, Authentic
  <2>5. Counted'
    <3>1. ASSUME NEW f \in Endpoint
          PROVE  /\ reader'[f].pc \in {"read", "accept"} => reader'[f].last = recv[f].last_recv_seq
                 /\ reader'[f].pc = "accept" => reader'[f].frame.seq = reader'[f].last + 1
      <4>1. CASE f = e
        BY <2>3, <4>1 DEF n
      <4>2. CASE f # e
        BY <2>3, <4>2 DEF Delivery, Counted
      <4> QED
        BY <4>1, <4>2
    <3> QED
      BY <2>1, <3>1 DEF Delivery, Counted
  <2>6. DeliveredInOrder'
    BY <2>1 DEF Delivery, DeliveredInOrder
  <2> QED
    BY <2>4, <2>5, <2>6 DEF Delivery
<1>2. CASE ReadData(e)
  <2> DEFINE t == reader[e].t
             frame == Head(wire[t][e])
             last == reader[e].last
  <2>1. /\ t \in Transport /\ reader[e].pc = "read"
        /\ wire[t][e] \in Seq(FrameSet) /\ wire[t][e] # << >>
        /\ frame \in FrameSet /\ frame.seq \in Nat /\ frame.type = "data"
        /\ WireCalm
    BY <1>2, ReadsType, ReadsCalm DEF ReadData
  <2>2. UNCHANGED << replay, accepted, delivered >>
    BY <1>2 DEF ReadData, history
  <2>3. last = recv[e].last_recv_seq /\ last \in Nat
    BY <1>0, <2>1 DEF Delivery, Counted, RecvSet
  <2>4. CASE frame.seq <= last
    <3>1. recv' = [recv EXCEPT ![e] = NoteReceived(@, frame.seq)]
          /\ UNCHANGED << conn, writer, reader >>
      BY <1>2, <2>4 DEF ReadData
    <3>2. NoteReceived(recv[e], frame.seq).last_recv_seq = recv[e].last_recv_seq
      BY <1>0, <2>1, <2>3, <2>4, NoteReceivedType
    <3>3. RecvCalm
      BY <1>0, <3>1, <3>2 DEF RecvCalm
    <3> QED
      BY <2>1, <2>2, <3>1, <3>3, SameCalm, CalmDelivery DEF Calm
  <2>5. CASE ~(frame.seq <= last) /\ frame.seq = last + 1
    <3>1. reader' = [reader EXCEPT ![e].pc = "accept", ![e].frame = frame]
          /\ UNCHANGED << conn, writer, recv >>
      BY <1>2, <2>5 DEF ReadData
    <3>2. NumberedIn(accepted[Peer(e)], frame)
      <4>1. Peer(e) \in Endpoint /\ Peer(Peer(e)) = e
        BY PeerType
      <4>2. 1 \in 1 .. Len(wire[t][e]) /\ frame = wire[t][e][1]
        BY <2>1, TailFrames
      <4> QED
        BY <2>1, <4>1, <4>2 DEF Delivery, Authentic
    <3> HIDE DEF frame, t
    <3>3. /\ \A f \in Endpoint : f # e => reader'[f] = reader[f]
          /\ reader'[e].pc = "accept" /\ reader'[e].frame = frame /\ reader'[e].last = last
      BY <1>0, <3>1 DEF ReaderSet
    <3>4. Authentic'
      <4>1. ASSUME NEW f \in Endpoint, reader'[Peer(f)].pc = "accept"
            PROVE  NumberedIn(accepted[f], reader'[Peer(f)].frame)
        <5>1. Peer(f) \in Endpoint /\ (Peer(f) = e => f = Peer(e))
          BY PeerType
        <5>2. CASE Peer(f) = e
          BY <3>2, <3>3, <5>1, <5>2
        <5>3. CASE Peer(f) # e
          BY <3>3, <4>1, <5>1, <5>3 DEF Delivery, Authentic
        <5> QED
          BY <5>2, <5>3
      <4>2. ASSUME NEW f \in Endpoint, NEW u \in Transport, NEW i \in 1 .. Len(wire'[u][Peer(f)]),
                   wire'[u][Peer(f)][i].type = "data"
            PROVE  NumberedIn(accepted'[f], wire'[u][Peer(f)][i])
        BY <2>1, <2>2, <4>2, WireDelivery
      <4> QED
        BY <2>2, <3>1, <4>1, <4>2 DEF Delivery, Authentic
    <3>5. Counted'
      <4>1. ASSUME NEW f \in Endpoint
            PROVE  /\ reader'[f].pc \in {"read", "accept"} => reader'[f].last = recv[f].last_recv_seq
                   /\ reader'[f].pc = "accept" => reader'[f].frame.seq = reader'[f].last + 1
        <5>1. CASE f = e
          BY <2>3, <2>5, <3>3, <5>1
        <5>2. CASE f # e
          BY <3>3, <5>2 DEF Delivery, Counted
        <5> QED
          BY <5>1, <5>2
      <4> QED
        BY <2>2, <3>1, <4>1 DEF Delivery, Counted
    <3>6. DeliveredInOrder'
      BY <2>2 DEF Delivery, DeliveredInOrder
    <3> QED
      BY <3>4, <3>5, <3>6 DEF Delivery
  <2>6. CASE ~(frame.seq <= last) /\ frame.seq # last + 1
    <3>1. MarkClosed(e) /\ UNCHANGED recv
      BY <1>2, <2>6 DEF ReadData
    <3> QED
      BY <2>1, <2>2, <3>1, MarkClosedCalm, SameCalm, CalmDelivery DEF Calm
  <2> QED
    BY <2>4, <2>5, <2>6
<1>3. CASE ReaderAccept(e)
  <2> DEFINE frame == reader[e].frame
             m == frame.msg
             n == frame.seq
             d == delivered[e]
             acc == accepted[Peer(e)]
  <2>1. UNCHANGED << conn, replay, writer, wire, accepted >>
    BY <1>3 DEF ReaderAccept, netVars
  <2>2. /\ reader[e].pc = "accept"
        /\ delivered' = [delivered EXCEPT ![e] = Append(d, m)]
        /\ recv' = [recv EXCEPT ![e] = NoteReceived(@, n)]
        /\ reader' = [reader EXCEPT ![e].pc = "read", ![e].last = n, ![e].frame = NoFrame]
    BY <1>3 DEF ReaderAccept
  <2>3. /\ d \in Seq(Message \cup {None}) /\ m \in Message \cup {None} /\ n \in Nat
        /\ acc \in Seq(Message) /\ delivered \in [Endpoint -> Seq(Message \cup {None})]
    <3>1. frame \in FrameSet /\ Peer(e) \in Endpoint
      BY <1>0, PeerType DEF ReaderSet
    <3> QED
      BY <3>1 DEF FrameSet, Typed, TypeOK
  <2>4. NumberedIn(acc, frame)
    <3>1. Peer(e) \in Endpoint /\ Peer(Peer(e)) = e
      BY PeerType
    <3> QED
      BY <2>2, <3>1 DEF Delivery, Authentic
  <2>5. n = Len(d) + 1 /\ recv[e].last_recv_seq = Len(d) /\ Len(d) \in Nat
    BY <2>2, <2>3 DEF Delivery, Counted
  <2>6. n <= Len(acc) /\ m = acc[n]
    BY <2>3, <2>4 DEF NumberedIn
  <2>7. NoteReceived(recv[e], n).last_recv_seq = n
    BY SMTT(40), <1>0, <2>3, <2>5, NoteReceivedType
  <2> HIDE DEF m, n
  <2>8. /\ \A f \in Endpoint : f # e => reader'[f] = reader[f]
        /\ reader'[e].pc = "read" /\ reader'[e].last = n
    BY <1>0, <2>2 DEF ReaderSet
  <2>9. /\ \A f \in Endpoint : f # e => recv'[f] = recv[f]
        /\ recv'[e].last_recv_seq = n
    BY <1>0, <2>2, <2>7
  <2>10. /\ \A f \in Endpoint : f # e => delivered'[f] = delivered[f]
         /\ delivered'[e] = Append(d, m)
    BY <2>2, <2>3
  <2>11. Authentic'
    <3>1. \A f \in Endpoint : reader'[f].pc = "accept" => reader'[f] = reader[f]
      BY <2>8
    <3>2. \A f \in Endpoint : Peer(f) \in Endpoint
      BY PeerType
    <3>3. \A f \in Endpoint : reader'[Peer(f)].pc = "accept" =>
            NumberedIn(accepted[f], reader'[Peer(f)].frame)
      BY <3>1, <3>2 DEF Delivery, Authentic
    <3> QED
      BY <2>1, <3>3 DEF Delivery, Authentic
  <2>12. Len(Append(d, m)) = n /\ (\A i \in 1 .. Len(d) : Append(d, m)[i] = d[i])
         /\ Append(d, m)[n] = m
    BY <2>3, <2>5, AppendProperties
  <2>13. Counted'
    <3>1. ASSUME NEW f \in Endpoint
          PROVE  /\ recv'[f].last_recv_seq = Len(delivered'[f])
                 /\ reader'[f].pc \in {"read", "accept"} => reader'[f].last = recv'[f].last_recv_seq
                 /\ reader'[f].pc = "accept" => reader'[f].frame.seq = reader'[f].last + 1
      <4>1. CASE f = e
        BY <2>8, <2>9, <2>10, <2>12, <4>1
      <4>2. CASE f # e
        BY <2>8, <2>9, <2>10, <4>2 DEF Delivery, Counted
      <4> QED
        BY <4>1, <4>2
    <3> QED
      BY <3>1 DEF Counted
  <2>14. ASSUME NEW f \in Endpoint
         PROVE  IsPrefixOf(delivered'[f], accepted[Peer(f)])
    <3>1. CASE f # e
      BY <2>10, <3>1 DEF Delivery, DeliveredInOrder
    <3>2. CASE f = e
      <4> HIDE DEF acc
      <4>1. \A i \in 1 .. Len(d) : d[i] = acc[i]
        BY DEF Delivery, DeliveredInOrder, IsPrefixOf, acc
      <4> DEFINE new == Append(d, m)
      <4> HIDE DEF d, new
      <4>2. Len(new) = n /\ n <= Len(acc) /\ n \in Nat /\ n = Len(d) + 1 /\ Len(d) \in Nat
            /\ (\A i \in 1 .. Len(d) : new[i] = acc[i]) /\ new[n] = acc[n]
        BY <2>3, <2>5, <2>6, <2>12, <4>1 DEF new
      <4>3. \A i \in 1 .. Len(new) : new[i] = acc[i]
        <5>1. ASSUME NEW i \in 1 .. Len(new) PROVE new[i] = acc[i]
          <6>1. i \in 1 .. Len(d) \/ i = n
            BY <4>2
          <6> QED
            BY <4>2, <6>1
        <5> QED
          BY <5>1
      <4> QED
        BY <2>10, <3>2, <4>2, <4>3 DEF IsPrefixOf, new, acc
    <3> QED
      BY <3>1, <3>2
  <2>15. DeliveredInOrder'
    BY <2>1, <2>14 DEF DeliveredInOrder
  <2> QED
    BY <2>11, <2>13, <2>15 DEF Delivery
<1> QED
  BY <1>1, <1>2, <1>3

LEMMA DeliveryInit == Init => Delivery
<1> SUFFICES ASSUME Init PROVE Delivery
  OBVIOUS
<1>1. /\ \A e \in Endpoint : accepted[e] = << >> /\ delivered[e] = << >>
      /\ \A e \in Endpoint : replay[e].replay_queue = << >>
      /\ \A e \in Endpoint : recv[e].last_recv_seq = 0
      /\ \A t \in Transport, e \in Endpoint : wire[t][e] = << >>
  BY DEF Init, EmptyReplay
<1>2. \A e \in Endpoint : conn[e].next_send_seq = 0
  BY DEF Init
<1>3. \A e \in Endpoint : writer[e].resume = << >>
  BY DEF Init, NewWriter, NoWriter
<1>4. \A e \in Endpoint : reader[e].pc \notin {"read", "accept"}
  BY DEF Init, NewReader, NoReader
<1>5. \A e \in Endpoint : Peer(e) \in Endpoint
  BY PeerType
<1>6. Authentic
  BY <1>1, <1>2, <1>3, <1>4, <1>5 DEF Authentic
<1>7. Counted
  BY <1>1, <1>4 DEF Counted
<1>8. DeliveredInOrder
  BY <1>1, <1>5 DEF DeliveredInOrder, IsPrefixOf
<1> QED
  BY <1>6, <1>7, <1>8 DEF Delivery

LEMMA DeliveryStep == Typed /\ Delivery /\ [Next]_vars => Delivery'
<1> SUFFICES ASSUME Typed, Delivery, [Next]_vars PROVE Delivery'
  OBVIOUS
<1>1. ASSUME NEW e \in Endpoint, Send(e) \/ Close(e) \/ CloseAgain(e) \/ CloseStep(e)
      PROVE  Delivery'
  BY <1>1, CalmApplication, CalmDelivery DEF CloseStep
<1>2. ASSUME NEW e \in Endpoint, WriterStep(e)
      PROVE  Delivery'
  BY <1>2, CalmWriter, CalmDelivery, LiveDelivery DEF WriterStep
<1>3. ASSUME NEW e \in Endpoint, ReaderStep(e)
      PROVE  Delivery'
  BY <1>3, CalmReader, CalmDelivery, ReaderDelivery DEF ReaderStep
<1>4. CASE LoopStep \/ \E t \in Transport : HandlerStep(t)
  BY <1>4, CalmResume, CalmDelivery
<1>5. CASE ServerExpire \/ \E t \in Transport : Break(t)
  BY <1>5, CalmFailure, CalmDelivery
<1>6. CASE UNCHANGED vars
  <2>1. Calm
    BY <1>6, SameCalm DEF vars, endVars, taskVars, netVars, history, Calm
  <2> QED
    BY <2>1, CalmDelivery
<1> QED
  BY <1>1, <1>2, <1>3, <1>4, <1>5, <1>6 DEF Next

\* Whatever transports fail and however often the client resumes, an endpoint
\* delivers what its peer numbered, in order and each message once
\* (handle_recovery_data_frame, prepare_resume, RecoveryWriter::stage).
THEOREM SessionDelivers == Spec => []DeliveredInOrder
<1>1. Delivery => DeliveredInOrder
  BY DEF Delivery
<1> QED
  BY <1>1, TypedInit, TypedStep, DeliveryInit, DeliveryStep, PTL DEF Spec

-----------------------------------------------------------------------------
(* The ACK schedule.                                                       *)

\* An endpoint that received more than it acknowledged has an ACK due or
\* scheduled.
Scheduled(r) == r.last_ack_sent < r.last_recv_seq => r.ack_due \/ r.ack_due_at

\* note_received leaves an ACK scheduled: for a duplicate too, since the peer
\* that replayed it lacks the ACK, and below ack_every by the timer.
LEMMA NoteReceivedSchedules ==
  ASSUME NEW r \in RecvSet, NEW seq \in Nat, Scheduled(r)
  PROVE  Scheduled(NoteReceived(r, seq))
<1> DEFINE again == r.ack_due \/ r.last_ack_sent < r.last_recv_seq
           due == AckEvery <= 1 \/ r.ack_pending + 1 >= AckEvery
           now == r.ack_due \/ due
           later == ~due
           n == r.ack_pending + 1
<1>1. again \in BOOLEAN /\ now \in BOOLEAN /\ later \in BOOLEAN /\ (now \/ later)
  OBVIOUS
<1>2. r.last_ack_sent < r.last_recv_seq => again
  OBVIOUS
<1>3. CASE seq <= r.last_recv_seq
  <2>1. NoteReceived(r, seq) = [r EXCEPT !.ack_due = again]
    BY <1>3, Zenon DEF NoteReceived
  <2> HIDE DEF again
  <2> QED
    BY <1>1, <1>2, <2>1 DEF RecvSet, Scheduled
<1>4. CASE ~(seq <= r.last_recv_seq)
  <2>1. NoteReceived(r, seq) = [r EXCEPT !.last_recv_seq = seq, !.ack_pending = n,
                                         !.ack_due = now, !.ack_due_at = later]
    BY <1>4, Zenon DEF NoteReceived
  <2> HIDE DEF now, later, n
  <2> QED
    BY <1>1, <2>1 DEF RecvSet, Scheduled
<1> QED
  BY <1>3, <1>4

LEMMA ScheduledStep == Typed /\ AckIsScheduled /\ [Next]_vars => AckIsScheduled'
<1> SUFFICES ASSUME Typed, AckIsScheduled, [Next]_vars PROVE AckIsScheduled'
  OBVIOUS
<1>1. recv \in [Endpoint -> RecvSet] /\ \A e \in Endpoint : Scheduled(recv[e])
  BY DEF Typed, TypeOK, AckIsScheduled, Scheduled
<1>2. CASE UNCHANGED recv
  BY <1>2 DEF AckIsScheduled
<1>3. ASSUME NEW e \in Endpoint, NEW n \in Nat,
             recv' = [recv EXCEPT ![e] = NoteReceived(@, n)]
      PROVE  AckIsScheduled'
  <2>1. recv[e] \in RecvSet /\ Scheduled(recv[e])
    BY <1>1
  <2>2. Scheduled(NoteReceived(recv[e], n))
    BY <2>1, NoteReceivedSchedules
  <2>3. \A f \in Endpoint : Scheduled(recv'[f])
    BY <1>1, <1>3, <2>2
  <2> QED
    BY <2>3 DEF AckIsScheduled, Scheduled
<1>4. ASSUME NEW e \in Endpoint, WriterAck(e)
      PROVE  AckIsScheduled'
  <2> DEFINE r == recv[e]
             take == r.last_ack_sent < r.last_recv_seq
             n == IF take THEN r.last_recv_seq ELSE r.last_ack_sent
             p == IF take THEN 0 ELSE r.ack_pending
             new == [r EXCEPT !.ack_due = FALSE, !.ack_due_at = FALSE,
                              !.last_ack_sent = n, !.ack_pending = p]
  <2>1. recv' = [recv EXCEPT ![e] = new]
    BY <1>4 DEF WriterAck
  <2>2. r \in RecvSet /\ n \in Nat /\ r.last_recv_seq \in Nat /\ ~(n < r.last_recv_seq)
    BY <1>1 DEF RecvSet
  <2>3. Scheduled(new)
    <3> HIDE DEF n, p
    <3>1. new.last_ack_sent = n /\ new.last_recv_seq = r.last_recv_seq
      BY <2>2 DEF RecvSet
    <3> QED
      BY <2>2, <3>1 DEF Scheduled
  <2> HIDE DEF new
  <2>4. \A f \in Endpoint : Scheduled(recv'[f])
    BY <1>1, <2>1, <2>3
  <2> QED
    BY <2>4 DEF AckIsScheduled, Scheduled
<1>5. ASSUME NEW e \in Endpoint, ReadData(e) \/ ReaderAccept(e)
      PROVE  AckIsScheduled'
  <2>1. CASE ReadData(e)
    <3> DEFINE n == Head(wire[reader[e].t][e]).seq
    <3>1. n \in Nat
      BY <2>1, ReadsType DEF ReadData
    <3>2. UNCHANGED recv \/ recv' = [recv EXCEPT ![e] = NoteReceived(@, n)]
      BY <2>1 DEF ReadData
    <3> HIDE DEF n
    <3> QED
      BY <1>2, <1>3, <3>1, <3>2
  <2>2. CASE ReaderAccept(e)
    <3> DEFINE n == reader[e].frame.seq
    <3>1. n \in Nat
      BY DEF Typed, TypeOK, ReaderSet, FrameSet
    <3>2. recv' = [recv EXCEPT ![e] = NoteReceived(@, n)]
      BY <2>2 DEF ReaderAccept
    <3> HIDE DEF n
    <3> QED
      BY <1>3, <3>1, <3>2
  <2> QED
    BY <1>5, <2>1, <2>2
<1>6. ASSUME NEW e \in Endpoint,
             Send(e) \/ Close(e) \/ CloseAgain(e) \/ CloseStep(e)
      PROVE  UNCHANGED recv
  BY <1>6 DEF Send, Close, CloseAgain, CloseStep, CloseStopped, CloseTimeout, endVars
<1>7. ASSUME NEW e \in Endpoint, WriterStep(e), ~WriterAck(e)
      PROVE  UNCHANGED recv
  BY <1>7 DEF WriterStep, WriterApply, WriterResume, WriterLive, WriterStage, WriterClose,
              WriterStop, WriterFail, endVars
<1>8. ASSUME NEW e \in Endpoint, ReaderStep(e), ~ReadData(e), ~ReaderAccept(e)
      PROVE  UNCHANGED recv
  BY <1>8 DEF ReaderStep, ReaderStart, ReadAck, ReadClose, ReaderDrained, ReaderFail, endVars
<1>9. CASE LoopStep \/ (\E t \in Transport : HandlerStep(t) \/ Break(t)) \/ ServerExpire
  <2>1. UNCHANGED recv
    BY <1>9 DEF LoopStep, LoopDial, LoopQuit, LoopResponse, LoopFail, HandlerStep, ServerResume,
                ServerAttach, ServerRefuse, Break, ServerExpire, endVars
  <2> QED
    BY <1>2, <2>1
<1>10. CASE UNCHANGED vars
  BY <1>2, <1>10 DEF vars, endVars
<1> QED
  BY <1>2, <1>4, <1>5, <1>6, <1>7, <1>8, <1>9, <1>10 DEF Next

\* No received frame is left without an ACK due or scheduled, whatever duplicates
\* arrive and whatever the writer takes in between (note_received,
\* take_pending_ack).
THEOREM SessionSchedulesAcks == Spec => []AckIsScheduled
<1>1. Init => AckIsScheduled
  <2> SUFFICES ASSUME Init PROVE AckIsScheduled
    OBVIOUS
  <2>1. \A e \in Endpoint : recv[e].last_ack_sent = 0 /\ recv[e].last_recv_seq = 0
    BY DEF Init
  <2> QED
    BY <2>1 DEF AckIsScheduled
<1> QED
  BY <1>1, TypedInit, TypedStep, ScheduledStep, PTL DEF Spec

-----------------------------------------------------------------------------
(* The abstract channel.  A task runs only while its connection is open,   *)
(* so what it numbers and delivers, it numbers and delivers for an open    *)
(* endpoint.                                                               *)

\* The tasks of a closed endpoint are gone, and one without a first transport
\* has none and is neither closed nor being closed.
AliveAt(e) ==
  /\ writer[e].running \/ reader[e].pc # "none" => ~conn[e].closed
  /\ conn[e].transport_gen = 0 =>
       /\ ~writer[e].running /\ reader[e].pc = "none" /\ closer[e] = "idle"
       /\ ~conn[e].closing /\ ~conn[e].closed

\* The client has had a transport from the beginning.
Alive == conn["client"].transport_gen > 0 /\ \A e \in Endpoint : AliveAt(e)

\* What a step may do to an endpoint: nothing that starts a task or closes it...
Rests(e) ==
  /\ conn'[e].closed = conn[e].closed
  /\ conn'[e].transport_gen = 0 => conn[e].transport_gen = 0
  /\ conn'[e].closing = conn[e].closing \/ conn[e].transport_gen > 0
  /\ closer'[e] = closer[e] \/ conn[e].transport_gen > 0
  /\ writer'[e].running => writer[e].running
  /\ reader'[e].pc # "none" => reader[e].pc # "none"

\* ...or leave it open with a transport, or close it.
Starts(e) == ~conn'[e].closed /\ conn'[e].transport_gen > 0
Shuts(e) ==
  /\ conn[e].transport_gen > 0 /\ conn'[e].transport_gen = conn[e].transport_gen
  /\ ~writer'[e].running /\ reader'[e].pc = "none"

LEMMA AliveKept ==
  ASSUME Typed, Alive, NEW e \in Endpoint, Rests(e) \/ Starts(e) \/ Shuts(e)
  PROVE  AliveAt(e)'
<1>1. AliveAt(e) /\ conn[e].transport_gen \in Nat
  BY DEF Alive, Typed, TypeOK, ConnSet
<1>2. CASE Rests(e)
  BY <1>1, <1>2 DEF Rests, AliveAt
<1>3. CASE Starts(e)
  BY <1>3 DEF Starts, AliveAt
<1>4. CASE Shuts(e)
  BY <1>1, <1>4 DEF Shuts, AliveAt
<1> QED
  BY <1>2, <1>3, <1>4

\* A step that leaves the four variables of an endpoint alone.
LEMMA SameRests ==
  ASSUME NEW e, conn'[e] = conn[e], writer'[e] = writer[e], reader'[e] = reader[e],
         closer'[e] = closer[e]
  PROVE  Rests(e)
  BY DEF Rests

LEMMA MarkClosedShuts ==
  ASSUME Typed, NEW e \in Endpoint, MarkClosed(e)
  PROVE  /\ conn[e].transport_gen > 0 => Shuts(e)
         /\ conn'[e].closed /\ conn'[e].closing = conn[e].closing
         /\ \A f \in Endpoint : f # e =>
              conn'[f] = conn[f] /\ writer'[f] = writer[f] /\ reader'[f] = reader[f]
<1>1. conn \in [Endpoint -> ConnSet] /\ writer \in [Endpoint -> WriterSet]
      /\ reader \in [Endpoint -> ReaderSet]
  BY DEF Typed, TypeOK
<1>2. conn' = [conn EXCEPT ![e].closed = TRUE, ![e].transport_attached = FALSE]
  BY DEF MarkClosed
<1>3. /\ conn'[e].closed /\ conn'[e].closing = conn[e].closing
      /\ conn'[e].transport_gen = conn[e].transport_gen
      /\ \A f \in Endpoint : f # e => conn'[f] = conn[f]
  BY <1>1, <1>2 DEF ConnSet
<1>4. /\ writer'[e] = NoWriter /\ reader'[e] = NoReader
      /\ \A f \in Endpoint : f # e => writer'[f] = writer[f] /\ reader'[f] = reader[f]
  BY <1>1 DEF MarkClosed
<1>5. ~NoWriter.running /\ NoReader.pc = "none"
  BY DEF NoWriter, NoReader
<1> QED
  BY <1>3, <1>4, <1>5 DEF Shuts

LEMMA AttachTransportStarts ==
  ASSUME Typed, NEW e \in Endpoint, NEW t, NEW n, AttachTransport(e, t, n)
  PROVE  /\ conn[e].closed => UNCHANGED << conn, reader >>
         /\ ~conn[e].closed => Starts(e)
         /\ \A f \in Endpoint : conn'[f].closed = conn[f].closed
         /\ \A f \in Endpoint : f # e => conn'[f] = conn[f] /\ reader'[f] = reader[f]
<1> DEFINE gen == conn[e].transport_gen + 1
<1>1. conn \in [Endpoint -> ConnSet] /\ reader \in [Endpoint -> ReaderSet] /\ gen \in Nat /\ gen > 0
  BY DEF Typed, TypeOK, ConnSet
<1>2. CASE conn[e].closed
  BY <1>2 DEF AttachTransport
<1>3. CASE ~conn[e].closed
  <2>1. /\ conn' = [conn EXCEPT ![e].transport_gen = gen, ![e].transport_attached = TRUE]
        /\ reader' = [reader EXCEPT ![e] = NewReader(gen, t)]
    BY <1>3 DEF AttachTransport
  <2> HIDE DEF gen
  <2>2. /\ conn'[e].closed = conn[e].closed /\ conn'[e].transport_gen = gen
        /\ \A f \in Endpoint : f # e => conn'[f] = conn[f] /\ reader'[f] = reader[f]
    BY <1>1, <2>1 DEF ConnSet
  <2> QED
    BY <1>1, <1>3, <2>2 DEF Starts
<1> QED
  BY <1>2, <1>3

LEMMA DetachTransportRests ==
  ASSUME Typed, NEW e \in Endpoint, NEW gen \in Nat, DetachTransport(e, gen)
  PROVE  /\ conn'[e].closed = conn[e].closed /\ conn'[e].closing = conn[e].closing
         /\ conn'[e].transport_gen = 0 => conn[e].transport_gen = 0
         /\ \A f \in Endpoint : conn'[f].closed = conn[f].closed
         /\ \A f \in Endpoint : f # e => conn'[f] = conn[f]
<1> DEFINE next == gen + 1
<1>1. conn \in [Endpoint -> ConnSet] /\ next \in Nat /\ next > 0
  BY DEF Typed, TypeOK
<1>2. CASE ~Detaches(e, gen)
  BY <1>2 DEF DetachTransport
<1>3. CASE Detaches(e, gen)
  <2>1. conn' = [conn EXCEPT ![e].transport_gen = next, ![e].transport_attached = FALSE]
    BY <1>3 DEF DetachTransport
  <2> HIDE DEF next
  <2>2. /\ conn'[e].closed = conn[e].closed /\ conn'[e].closing = conn[e].closing
        /\ conn'[e].transport_gen = next
        /\ \A f \in Endpoint : f # e => conn'[f] = conn[f]
    BY <1>1, <2>1 DEF ConnSet
  <2> QED
    BY <1>1, <2>2
<1> QED
  BY <1>2, <1>3

\* What the application does: a close is of a started connection.
LEMMA AliveApplication ==
  ASSUME Typed, Alive, NEW e \in Endpoint,
         Send(e) \/ Close(e) \/ CloseAgain(e) \/ CloseStopped(e) \/ CloseTimeout(e)
  PROVE  \A f \in Endpoint : Rests(f) \/ Starts(f) \/ Shuts(f)
<1>0. /\ conn \in [Endpoint -> ConnSet] /\ closer \in [Endpoint -> CloserSet]
      /\ conn[e].transport_gen \in Nat /\ AliveAt(e)
  BY DEF Typed, TypeOK, ConnSet, Alive
<1>1. CASE Send(e)
  BY <1>1, SameRests DEF Send, endVars, taskVars
<1>2. CASE Close(e)
  <2>1. /\ conn' = [conn EXCEPT ![e].closing = TRUE] /\ closer' = [closer EXCEPT ![e] = "writing"]
        /\ conn[e].transport_gen > 0 /\ UNCHANGED << writer, reader >>
    BY <1>2 DEF Close, taskVars
  <2>2. /\ conn'[e].closed = conn[e].closed /\ conn'[e].transport_gen = conn[e].transport_gen
        /\ \A f \in Endpoint : f # e => conn'[f] = conn[f] /\ closer'[f] = closer[f]
    BY <1>0, <2>1 DEF ConnSet
  <2>3. Rests(e)
    BY <2>1, <2>2 DEF Rests
  <2> QED
    BY <2>1, <2>2, <2>3, SameRests
<1>3. CASE CloseAgain(e) \/ CloseStopped(e) \/ CloseTimeout(e)
  <2>1. /\ MarkClosed(e)
        /\ UNCHANGED closer \/ \E c \in CloserSet : closer' = [closer EXCEPT ![e] = c]
        /\ conn[e].closing \/ closer[e] # "idle"
    BY <1>3 DEF CloseAgain, CloseStopped, CloseTimeout, appVars, CloserSet
  <2>2. conn[e].transport_gen > 0
    BY <1>0, <2>1 DEF AliveAt
  <2>3. \A f \in Endpoint : f # e => closer'[f] = closer[f]
    BY <1>0, <2>1
  <2> QED
    BY <2>1, <2>2, <2>3, MarkClosedShuts, SameRests
<1> QED
  BY <1>1, <1>2, <1>3

\* The writer task goes on, or it ends.
LEMMA AliveWriter ==
  ASSUME Typed, Alive, NEW e \in Endpoint, WriterStep(e)
  PROVE  /\ \A f \in Endpoint : Rests(f)
         /\ conn[e].transport_gen > 0 /\ ~conn[e].closed
<1>0. /\ conn \in [Endpoint -> ConnSet] /\ closer \in [Endpoint -> CloserSet]
      /\ writer \in [Endpoint -> WriterSet] /\ reader \in [Endpoint -> ReaderSet]
      /\ conn[e].transport_gen \in Nat /\ AliveAt(e) /\ writer[e].gen \in Nat
  BY DEF Typed, TypeOK, ConnSet, WriterSet, Alive
<1>1. writer[e].running
  BY DEF WriterStep, WriterApply, WriterAck, WriterResume, WriterLive, WriterStage, WriterClose,
         WriterStop, WriterFail, MayWriteLive, MayWriteClose
<1>2. conn[e].transport_gen > 0 /\ ~conn[e].closed
  BY <1>0, <1>1 DEF AliveAt
<1>3. \A f \in Endpoint : f # e => writer'[f] = writer[f] /\ closer'[f] = closer[f]
  <2>1. CASE WriterApply(e)
    BY <1>0, <2>1 DEF WriterApply, appVars
  <2>2. CASE WriterAck(e) \/ WriterResume(e) \/ WriterFail(e)
    BY <1>0, <2>2 DEF WriterAck, WriterResume, WriterFail, appVars, taskVars
  <2>3. CASE WriterLive(e) \/ WriterStage(e)
    BY <1>0, <2>3 DEF WriterLive, WriterStage
  <2>4. CASE WriterClose(e) \/ WriterStop(e)
    BY <1>0, <2>4 DEF WriterClose, WriterStop
  <2> QED
    BY <2>1, <2>2, <2>3, <2>4 DEF WriterStep
<1>4. /\ conn'[e].closed = conn[e].closed /\ conn'[e].closing = conn[e].closing
      /\ conn'[e].transport_gen = 0 => conn[e].transport_gen = 0
      /\ \A f \in Endpoint : f # e => conn'[f] = conn[f]
  <2>1. CASE WriterLive(e) \/ WriterStage(e)
    <3> DEFINE next == conn[e].next_send_seq + 1
    <3>1. UNCHANGED conn \/ conn' = [conn EXCEPT ![e].next_send_seq = next]
      BY <2>1 DEF WriterLive, WriterStage, StageFrame
    <3> HIDE DEF next
    <3> QED
      BY <1>0, <3>1 DEF ConnSet
  <2>2. CASE WriterFail(e)
    BY <1>0, <2>2, DetachTransportRests DEF WriterFail
  <2>3. CASE ~(WriterLive(e) \/ WriterStage(e) \/ WriterFail(e))
    <3>1. UNCHANGED conn
      BY <2>3 DEF WriterStep, WriterApply, WriterAck, WriterResume, WriterClose, WriterStop, endVars
    <3> QED
      BY <3>1
  <2> QED
    BY <2>1, <2>2, <2>3
<1>5. /\ reader'[e].pc # "none" => reader[e].pc # "none"
      /\ \A f \in Endpoint : f # e => reader'[f] = reader[f]
  <2>1. UNCHANGED reader \/ reader' = [reader EXCEPT ![e] = NoReader]
    BY DEF WriterStep, WriterApply, WriterAck, WriterResume, WriterLive, WriterStage, WriterClose,
           WriterStop, WriterFail, taskVars
  <2>2. NoReader.pc = "none"
    BY DEF NoReader
  <2> QED
    BY <1>0, <2>1, <2>2
<1>6. Rests(e)
  BY <1>1, <1>2, <1>4, <1>5 DEF Rests
<1> QED
  BY <1>2, <1>3, <1>4, <1>5, <1>6, SameRests

\* The reader task goes on, or it ends, alone or with its connection.
LEMMA AliveReader ==
  ASSUME Typed, Alive, NEW e \in Endpoint, ReaderStep(e)
  PROVE  /\ \A f \in Endpoint : Rests(f) \/ Starts(f) \/ Shuts(f)
         /\ ~conn[e].closed
<1>0. /\ conn \in [Endpoint -> ConnSet] /\ reader \in [Endpoint -> ReaderSet]
      /\ conn[e].transport_gen \in Nat /\ AliveAt(e) /\ reader[e].gen \in Nat
  BY DEF Typed, TypeOK, ConnSet, ReaderSet, Alive
<1>1. reader[e].pc # "none" /\ UNCHANGED closer
  BY DEF ReaderStep, ReaderStart, ReadAck, ReadData, ReaderAccept, ReadClose, ReaderDrained,
         ReaderFail, Reads, appVars
<1>2. conn[e].transport_gen > 0 /\ ~conn[e].closed
  BY <1>0, <1>1 DEF AliveAt
<1>3. CASE MarkClosed(e)
  BY <1>1, <1>2, <1>3, MarkClosedShuts, SameRests
<1>4. CASE ~MarkClosed(e)
  <2>1. UNCHANGED writer /\ \A f \in Endpoint : f # e => reader'[f] = reader[f]
    BY <1>0, <1>4
    DEF ReaderStep, ReaderStart, ReadAck, ReadData, ReaderAccept, ReadClose, ReaderDrained,
        ReaderFail, taskVars
  <2>2. CASE ReaderFail(e)
    <3>1. DetachTransport(e, reader[e].gen)
      BY <1>4, <2>2 DEF ReaderFail
    <3>2. Rests(e) /\ \A f \in Endpoint : f # e => conn'[f] = conn[f]
      BY <1>0, <1>1, <2>1, <3>1, DetachTransportRests DEF Rests
    <3>3. \A f \in Endpoint : f # e => Rests(f)
      BY <1>1, <2>1, <3>2, SameRests
    <3> QED
      BY <1>2, <3>2, <3>3
  <2>3. CASE ~ReaderFail(e)
    <3>1. UNCHANGED conn \/ conn' = [conn EXCEPT ![e].closing = TRUE]
      BY <1>4, <2>3
      DEF ReaderStep, ReaderStart, ReadAck, ReadData, ReaderAccept, ReadClose, ReaderDrained, endVars
    <3>2. /\ conn'[e].closed = conn[e].closed /\ conn'[e].transport_gen = conn[e].transport_gen
          /\ \A f \in Endpoint : f # e => conn'[f] = conn[f]
      BY <1>0, <3>1 DEF ConnSet
    <3>3. Rests(e)
      BY <1>1, <1>2, <2>1, <3>2 DEF Rests
    <3>4. \A f \in Endpoint : f # e => Rests(f)
      BY <1>1, <2>1, <3>2, SameRests
    <3> QED
      BY <1>2, <3>3, <3>4
  <2> QED
    BY <2>2, <2>3
<1> QED
  BY <1>2, <1>3, <1>4

\* A resume starts or closes an endpoint that was started, and the server's
\* first transport starts it.
LEMMA AliveResume ==
  ASSUME Typed, Alive,
         LoopStep \/ (\E t \in Transport : HandlerStep(t) \/ Break(t)) \/ ServerExpire
  PROVE  \A f \in Endpoint : Rests(f) \/ Starts(f) \/ Shuts(f)
<1>0. /\ conn \in [Endpoint -> ConnSet] /\ "client" \in Endpoint /\ "server" \in Endpoint
      /\ \A e \in Endpoint : conn[e].transport_gen \in Nat /\ AliveAt(e)
  BY DEF Typed, TypeOK, ConnSet, Alive, Endpoint
<1>1. CASE LoopDial \/ LoopQuit \/ LoopFail
  BY <1>1, SameRests DEF LoopDial, LoopQuit, LoopFail, appVars, endVars, taskVars
<1>2. CASE LoopResponse
  <2> DEFINE r == Head(wire[loop.t]["client"])
  <2>1. UNCHANGED closer
    BY <1>2 DEF LoopResponse, appVars
  <2>2. CASE AttachTransport("client", loop.t, r.seq) /\ UNCHANGED writer
    <3> HIDE DEF r
    <3>1. CASE conn["client"].closed
      BY <1>0, <2>1, <2>2, <3>1, AttachTransportStarts, SameRests
    <3>2. CASE ~conn["client"].closed
      BY <1>0, <2>1, <2>2, <3>2, AttachTransportStarts, SameRests
    <3> QED
      BY <3>1, <3>2
  <2>3. CASE MarkClosed("client")
    <3>1. conn["client"].transport_gen > 0
      BY DEF Alive
    <3> QED
      BY <1>0, <2>1, <2>3, <3>1, MarkClosedShuts, SameRests
  <2> QED
    BY <1>2, <2>2, <2>3 DEF LoopResponse
<1>3. CASE \E t \in Transport : HandlerStep(t)
  <2>1. PICK t \in Transport : HandlerStep(t)
    BY <1>3
  <2>2. CASE ServerResume(t) \/ ServerRefuse(t)
    BY <2>2, SameRests DEF ServerResume, ServerRefuse, appVars, endVars, taskVars
  <2>3. CASE ServerAttach(t)
    <3>1. /\ AttachTransport("server", t, handler[t].seq) /\ UNCHANGED closer
          /\ \A f \in Endpoint : f # "server" => writer'[f] = writer[f]
          /\ conn["server"].transport_gen # 0 => UNCHANGED writer
      BY <2>3 DEF ServerAttach, appVars, Typed, TypeOK
    <3>2. CASE conn["server"].closed
      <4>1. conn["server"].transport_gen # 0
        BY <1>0, <3>2 DEF AliveAt
      <4> QED
        BY <1>0, <3>1, <3>2, <4>1, AttachTransportStarts, SameRests
    <3>3. CASE ~conn["server"].closed
      BY <1>0, <3>1, <3>3, AttachTransportStarts, SameRests
    <3> QED
      BY <3>2, <3>3
  <2> QED
    BY <2>1, <2>2, <2>3 DEF HandlerStep
<1>4. CASE \E t \in Transport : Break(t)
  BY <1>4, SameRests DEF Break, appVars, endVars, taskVars
<1>5. CASE ServerExpire
  <2>1. MarkClosed("server") /\ conn["server"].transport_gen > 0 /\ UNCHANGED closer
    BY <1>5 DEF ServerExpire, appVars
  <2> QED
    BY <1>0, <2>1, MarkClosedShuts, SameRests
<1> QED
  BY <1>1, <1>2, <1>3, <1>4, <1>5 DEF LoopStep

LEMMA AliveInit == Init => Alive
<1> SUFFICES ASSUME Init PROVE Alive
  OBVIOUS
<1>1. conn["client"].transport_gen = 1 /\ conn["server"].transport_gen = 0
  BY DEF Init, Endpoint
<1>2. \A e \in Endpoint : ~conn[e].closed /\ ~conn[e].closing /\ closer[e] = "idle"
  BY DEF Init
<1>3. ~writer["server"].running /\ reader["server"].pc = "none"
  BY DEF Init, Endpoint, NoWriter, NoReader
<1> QED
  BY <1>1, <1>2, <1>3 DEF Alive, AliveAt, Endpoint

LEMMA AliveMoves ==
  ASSUME Typed, Alive, [Next]_vars
  PROVE  \A f \in Endpoint : Rests(f) \/ Starts(f) \/ Shuts(f)
<1>1. ASSUME NEW e \in Endpoint,
             \/ Send(e) \/ Close(e) \/ CloseAgain(e)
             \/ CloseStep(e) \/ WriterStep(e) \/ ReaderStep(e)
      PROVE  \A f \in Endpoint : Rests(f) \/ Starts(f) \/ Shuts(f)
  BY <1>1, AliveApplication, AliveWriter, AliveReader DEF CloseStep
<1>2. CASE UNCHANGED vars
  BY <1>2, SameRests DEF vars, appVars, endVars, taskVars
<1> QED
  BY <1>1, <1>2, AliveResume DEF Next

LEMMA AliveStep == Typed /\ Alive /\ [Next]_vars => Alive'
<1> SUFFICES ASSUME Typed, Alive, [Next]_vars PROVE Alive'
  OBVIOUS
<1>1. \A f \in Endpoint : Rests(f) \/ Starts(f) \/ Shuts(f)
  BY AliveMoves
<1>2. \A f \in Endpoint : AliveAt(f)'
  BY <1>1, AliveKept
<1>3. conn'["client"].transport_gen > 0
  <2>1. /\ "client" \in Endpoint /\ conn["client"].transport_gen \in Nat
        /\ conn'["client"].transport_gen \in Nat
    <3>1. Typed'
      BY TypedStep
    <3> QED
      BY <3>1 DEF Typed, TypeOK, ConnSet, Endpoint
  <2> QED
    BY <1>1, <2>1 DEF Alive, Rests, Starts, Shuts
<1> QED
  BY <1>2, <1>3 DEF Alive

\* A step that neither numbers nor delivers nor closes is none of the channel's.
LEMMA ChannelRests ==
  ASSUME UNCHANGED << accepted, delivered >>,
         \A f \in Endpoint : conn'[f].closed = conn[f].closed
  PROVE  [Channel!Next]_Channel!vars
<1>1. [f \in Endpoint |-> ~conn'[f].closed] = [f \in Endpoint |-> ~conn[f].closed]
  OBVIOUS
<1> QED
  BY <1>1 DEF Channel!vars

\* mark_closed shuts the endpoint, once.
LEMMA ChannelShuts ==
  ASSUME Typed, NEW e \in Endpoint, MarkClosed(e), UNCHANGED << accepted, delivered >>
  PROVE  [Channel!Next]_Channel!vars
<1>1. conn'[e].closed /\ \A f \in Endpoint : f # e => conn'[f] = conn[f]
  BY MarkClosedShuts
<1>2. CASE conn[e].closed
  <2>1. conn[e].closed \in BOOLEAN /\ conn' \in [Endpoint -> ConnSet]
    BY MarkClosedType DEF Typed, TypeOK, ConnSet
  <2>2. conn'[e].closed = conn[e].closed
    BY <1>1, <1>2, <2>1 DEF ConnSet
  <2> QED
    BY <1>1, <2>2, ChannelRests
<1>3. CASE ~conn[e].closed
  <2> DEFINE open == [f \in Endpoint |-> ~conn[f].closed]
             openNext == [f \in Endpoint |-> ~conn'[f].closed]
  <2>1. open[e] /\ openNext = [open EXCEPT ![e] = FALSE]
    BY <1>1, <1>3
  <2>2. Channel!Shut(e)
    BY <2>1 DEF Channel!Shut
  <2> QED
    BY <2>2 DEF Channel!Next
<1> QED
  BY <1>2, <1>3

\* Numbering a frame accepts its message.
LEMMA ChannelAccepts ==
  ASSUME Typed, Alive, NEW e \in Endpoint, WriterLive(e) \/ WriterStage(e)
  PROVE  [Channel!Next]_Channel!vars
<1>1. ~conn[e].closed /\ \A f \in Endpoint : Rests(f)
  BY AliveWriter DEF WriterStep
<1>2. UNCHANGED delivered /\ \A f \in Endpoint : conn'[f].closed = conn[f].closed
  BY <1>1 DEF WriterLive, WriterStage, Rests
<1>3. PICK msg \in 1 .. Len(Outgoing[e]) : StageFrame(e, msg)
  BY DEF WriterLive, WriterStage
<1>4. CASE Outcome(e, msg) # "kept"
  BY <1>2, <1>3, <1>4, ChannelRests DEF StageFrame
<1>5. CASE Outcome(e, msg) = "kept"
  <2> DEFINE open == [f \in Endpoint |-> ~conn[f].closed]
             openNext == [f \in Endpoint |-> ~conn'[f].closed]
  <2>1. openNext = open /\ open[e]
    BY <1>1, <1>2
  <2>2. msg \in Message /\ accepted' = [accepted EXCEPT ![e] = Append(@, msg)]
    BY <1>3, <1>5, MessageType DEF StageFrame
  <2>3. Channel!Accept(e)
    BY <1>2, <2>1, <2>2 DEF Channel!Accept
  <2> QED
    BY <2>3 DEF Channel!Next
<1> QED
  BY <1>4, <1>5

\* The frame that accept_frame queues is the next one the peer numbered.
LEMMA ChannelDelivers ==
  ASSUME Typed, Delivery, Alive, NEW e \in Endpoint, ReaderAccept(e)
  PROVE  [Channel!Next]_Channel!vars
<1> DEFINE n == Len(delivered[e]) + 1
           frame == reader[e].frame
           open == [f \in Endpoint |-> ~conn[f].closed]
           openNext == [f \in Endpoint |-> ~conn'[f].closed]
<1>1. /\ reader[e].pc = "accept" /\ UNCHANGED << conn, accepted >>
      /\ delivered' = [delivered EXCEPT ![e] = Append(@, frame.msg)]
  BY DEF ReaderAccept
<1>2. openNext = open /\ open[e]
  BY <1>1, AliveReader DEF ReaderStep
<1>3. Peer(e) \in Endpoint /\ Peer(Peer(e)) = e
  BY PeerType
<1>4. NumberedIn(accepted[Peer(e)], frame) /\ frame.seq = n
  BY <1>1, <1>3 DEF Delivery, Authentic, Counted
<1>5. n <= Len(accepted[Peer(e)]) /\ frame.msg = accepted[Peer(e)][n]
  BY <1>4 DEF NumberedIn
<1>6. Channel!Deliver(e)
  BY <1>1, <1>2, <1>5 DEF Channel!Deliver
<1> QED
  BY <1>6 DEF Channel!Next

LEMMA ChannelStep ==
  ASSUME Typed, Delivery, Alive, [Next]_vars
  PROVE  [Channel!Next]_Channel!vars
<1>1. ASSUME NEW e \in Endpoint, Send(e) \/ Close(e) \/ CloseAgain(e) \/ CloseStep(e)
      PROVE  [Channel!Next]_Channel!vars
  <2>1. UNCHANGED << accepted, delivered >>
    BY <1>1 DEF Send, Close, CloseAgain, CloseStep, CloseStopped, CloseTimeout, history
  <2>2. CASE Send(e)
    BY <2>1, <2>2, ChannelRests DEF Send, endVars
  <2>3. CASE Close(e)
    <3>1. conn \in [Endpoint -> ConnSet] /\ conn' = [conn EXCEPT ![e].closing = TRUE]
      BY <2>3 DEF Close, Typed, TypeOK
    <3>2. \A f \in Endpoint : conn'[f].closed = conn[f].closed
      BY <3>1 DEF ConnSet
    <3> QED
      BY <2>1, <3>2, ChannelRests
  <2>4. CASE CloseAgain(e) \/ CloseStep(e)
    BY <2>1, <2>4, ChannelShuts DEF CloseAgain, CloseStep, CloseStopped, CloseTimeout
  <2> QED
    BY <1>1, <2>2, <2>3, <2>4
<1>2. ASSUME NEW e \in Endpoint, WriterStep(e)
      PROVE  [Channel!Next]_Channel!vars
  <2>1. CASE WriterLive(e) \/ WriterStage(e)
    BY <2>1, ChannelAccepts
  <2>2. CASE ~(WriterLive(e) \/ WriterStage(e))
    <3>1. UNCHANGED << accepted, delivered >>
      BY <1>2, <2>2 DEF WriterStep, WriterApply, WriterAck, WriterResume, WriterClose, WriterStop,
                        WriterFail, history
    <3>2. \A f \in Endpoint : conn'[f].closed = conn[f].closed
      BY <1>2, AliveWriter DEF Rests
    <3> QED
      BY <3>1, <3>2, ChannelRests
  <2> QED
    BY <2>1, <2>2
<1>3. ASSUME NEW e \in Endpoint, ReaderStep(e)
      PROVE  [Channel!Next]_Channel!vars
  <2>1. CASE ReaderAccept(e)
    BY <2>1, ChannelDelivers
  <2>2. CASE ~ReaderAccept(e)
    <3>1. UNCHANGED << accepted, delivered >>
      BY <1>3, <2>2 DEF ReaderStep, ReaderStart, ReadAck, ReadData, ReadClose, ReaderDrained,
                        ReaderFail, history
    <3>2. CASE MarkClosed(e)
      BY <3>1, <3>2, ChannelShuts
    <3>3. CASE ~MarkClosed(e)
      <4>1. conn \in [Endpoint -> ConnSet] /\ reader[e].gen \in Nat
        BY DEF Typed, TypeOK, ReaderSet
      <4>2. \/ UNCHANGED conn \/ conn' = [conn EXCEPT ![e].closing = TRUE]
            \/ DetachTransport(e, reader[e].gen)
        BY <1>3, <2>2, <3>3
        DEF ReaderStep, ReaderStart, ReadAck, ReadData, ReadClose, ReaderDrained, ReaderFail, endVars
      <4>3. CASE DetachTransport(e, reader[e].gen)
        BY <3>1, <4>1, <4>3, DetachTransportRests, ChannelRests
      <4>4. CASE UNCHANGED conn \/ conn' = [conn EXCEPT ![e].closing = TRUE]
        <5>1. \A f \in Endpoint : conn'[f].closed = conn[f].closed
          BY <4>1, <4>4 DEF ConnSet
        <5> QED
          BY <3>1, <5>1, ChannelRests
      <4> QED
        BY <4>2, <4>3, <4>4
    <3> QED
      BY <3>2, <3>3
  <2> QED
    BY <2>1, <2>2
<1>4. CASE LoopStep \/ (\E t \in Transport : HandlerStep(t) \/ Break(t)) \/ ServerExpire
  <2>1. UNCHANGED << accepted, delivered >> /\ "client" \in Endpoint /\ "server" \in Endpoint
    BY <1>4 DEF LoopStep, LoopDial, LoopQuit, LoopResponse, LoopFail, HandlerStep, ServerResume,
                ServerAttach, ServerRefuse, Break, ServerExpire, history, Endpoint
  <2>2. \/ UNCHANGED conn \/ MarkClosed("client") \/ MarkClosed("server")
        \/ \E e \in Endpoint : \E t, n : AttachTransport(e, t, n)
    <3>1. CASE LoopResponse
      BY <2>1, <3>1 DEF LoopResponse
    <3>2. CASE \E t \in Transport : HandlerStep(t)
      BY <2>1, <3>2 DEF HandlerStep, ServerResume, ServerAttach, ServerRefuse, endVars
    <3>3. CASE ServerExpire
      BY <3>3 DEF ServerExpire
    <3>4. CASE LoopDial \/ LoopQuit \/ LoopFail \/ \E t \in Transport : Break(t)
      BY <3>4 DEF LoopDial, LoopQuit, LoopFail, Break, endVars
    <3> QED
      BY <1>4, <3>1, <3>2, <3>3, <3>4 DEF LoopStep
  <2>3. CASE UNCHANGED conn
    BY <2>1, <2>3, ChannelRests
  <2>4. CASE MarkClosed("client") \/ MarkClosed("server")
    BY <2>1, <2>4, ChannelShuts
  <2>5. CASE \E e \in Endpoint : \E t, n : AttachTransport(e, t, n)
    BY <2>1, <2>5, AttachTransportStarts, ChannelRests
  <2> QED
    BY <2>2, <2>3, <2>4, <2>5
<1>5. CASE UNCHANGED vars
  BY <1>5, ChannelRests DEF vars, endVars, history
<1> QED
  BY <1>1, <1>2, <1>3, <1>4, <1>5 DEF Next

\* A recovery connection is a reliable channel, whatever happens to its
\* transports: each direction is one sequence of messages, delivered in the order
\* in which they were numbered, each once, and only while the endpoint is open
\* (StageFrame, accept_frame, mark_closed); every other step is invisible.
THEOREM SessionImplementsChannel == Spec => ImplementsChannel
<1>1. Init => Channel!Init
  <2> SUFFICES ASSUME Init PROVE Channel!Init
    OBVIOUS
  <2>1. \A e \in Endpoint : ~conn[e].closed
    BY DEF Init
  <2>2. [e \in Endpoint |-> ~conn[e].closed] = [e \in Endpoint |-> TRUE]
    BY <2>1
  <2>3. accepted = [e \in Endpoint |-> << >>] /\ delivered = [e \in Endpoint |-> << >>]
    BY DEF Init
  <2> QED
    BY <2>2, <2>3 DEF Channel!Init
<1>2. Typed /\ Delivery /\ Alive /\ [Next]_vars => [Channel!Next]_Channel!vars
  BY ChannelStep
<1> QED
  BY <1>1, <1>2, TypedInit, TypedStep, DeliveryInit, DeliveryStep, AliveInit, AliveStep, PTL
  DEF Spec, ImplementsChannel, Channel!Spec

-----------------------------------------------------------------------------
(* Which transports the tasks use.  A transport is dialed once, and used   *)
(* by an endpoint's tasks only after its handshake.                        *)

\* The transports that a reader reads, a writer writes or a command names.
Used(e) ==
  {t \in Transport :
     \/ reader[e].pc # "none" /\ reader[e].t = t
     \/ writer[e].writer = t
     \/ \E i \in 1 .. Len(writer_cmd[e]) : writer_cmd[e][i].writer = t}

Uses(e) ==
  /\ reader'[e].pc # "none" => reader[e].pc # "none" /\ reader'[e].t = reader[e].t
  /\ \/ writer'[e].writer \in {None, writer[e].writer}
     \/ \E j \in 1 .. Len(writer_cmd[e]) : writer'[e].writer = writer_cmd[e][j].writer
  /\ \A i \in 1 .. Len(writer_cmd'[e]) :
       \/ writer_cmd'[e][i].writer = None /\ writer_cmd'[e][i].resume_seq = 0
       \/ \E j \in 1 .. Len(writer_cmd[e]) : writer_cmd'[e][i] = writer_cmd[e][j]

LEMMA UsesNoMore ==
  ASSUME NEW e, Uses(e)
  PROVE  Used(e)' \subseteq Used(e)
<1>1. None \notin Transport
  BY DEF None, Transport
<1> SUFFICES ASSUME NEW t \in Used(e)' PROVE t \in Used(e)
  OBVIOUS
<1>2. t \in Transport /\ t # None
  BY <1>1 DEF Used
<1>3. CASE reader'[e].pc # "none" /\ reader'[e].t = t
  BY <1>2, <1>3 DEF Uses, Used
<1>4. CASE writer'[e].writer = t
  BY <1>2, <1>4 DEF Uses, Used
<1>5. CASE \E i \in 1 .. Len(writer_cmd'[e]) : writer_cmd'[e][i].writer = t
  BY <1>2, <1>5 DEF Uses, Used
<1> QED
  BY <1>3, <1>4, <1>5 DEF Used

LEMMA SameUses ==
  ASSUME NEW e, reader'[e] = reader[e], writer'[e] = writer[e], writer_cmd'[e] = writer_cmd[e]
  PROVE  Uses(e)
  BY DEF Uses

LEMMA MarkClosedUses ==
  ASSUME Typed, NEW e \in Endpoint, MarkClosed(e), UNCHANGED writer_cmd
  PROVE  \A f \in Endpoint : Uses(f)
<1>1. writer \in [Endpoint -> WriterSet] /\ reader \in [Endpoint -> ReaderSet]
  BY DEF Typed, TypeOK
<1>2. /\ writer'[e] = NoWriter /\ reader'[e] = NoReader
      /\ \A f \in Endpoint : f # e => writer'[f] = writer[f] /\ reader'[f] = reader[f]
  BY <1>1 DEF MarkClosed
<1>3. NoWriter.writer = None /\ NoReader.pc = "none"
  BY DEF NoWriter, NoReader
<1>4. Uses(e)
  BY <1>2, <1>3 DEF Uses
<1> QED
  BY <1>2, <1>4, SameUses

\* The commands after a detach, which names no transport.
LEMMA DetachTransportUses ==
  ASSUME Typed, NEW e \in Endpoint, NEW gen \in Nat, DetachTransport(e, gen)
  PROVE  /\ \A f \in Endpoint : \A i \in 1 .. Len(writer_cmd'[f]) :
              \/ writer_cmd'[f][i] = DetachCmd(gen)
              \/ \E j \in 1 .. Len(writer_cmd[f]) : writer_cmd'[f][i] = writer_cmd[f][j]
         /\ DetachCmd(gen).writer = None /\ DetachCmd(gen).resume_seq = 0
<1> DEFINE c == DetachCmd(gen)
<1>1. c.writer = None /\ c.resume_seq = 0
  BY DEF DetachCmd
<1>2. writer_cmd \in [Endpoint -> Seq(CmdSet)] /\ c \in CmdSet
  BY FrameTypes DEF Typed, TypeOK
<1>3. writer_cmd' = writer_cmd \/ writer_cmd' = [writer_cmd EXCEPT ![e] = Append(@, c)]
  BY DEF DetachTransport
<1> HIDE DEF c
<1>4. ASSUME NEW f \in Endpoint, NEW i \in 1 .. Len(writer_cmd'[f])
      PROVE  \/ writer_cmd'[f][i] = c
             \/ \E j \in 1 .. Len(writer_cmd[f]) : writer_cmd'[f][i] = writer_cmd[f][j]
  <2>1. CASE writer_cmd'[f] = writer_cmd[f]
    BY <2>1
  <2>2. CASE writer_cmd'[f] = Append(writer_cmd[f], c)
    BY <1>2, <2>2
  <2> QED
    BY <1>2, <1>3, <2>1, <2>2
<1> QED
  BY <1>1, <1>4 DEF c

LEMMA UsesApplication ==
  ASSUME Typed, NEW e \in Endpoint,
         Send(e) \/ Close(e) \/ CloseAgain(e) \/ CloseStopped(e) \/ CloseTimeout(e)
  PROVE  \A f \in Endpoint : Uses(f)
<1>1. CASE Send(e) \/ Close(e)
  BY <1>1, SameUses DEF Send, Close, taskVars
<1>2. CASE CloseAgain(e) \/ CloseStopped(e) \/ CloseTimeout(e)
  BY <1>2, MarkClosedUses DEF CloseAgain, CloseStopped, CloseTimeout
<1> QED
  BY <1>1, <1>2

LEMMA UsesWriter ==
  ASSUME Typed, NEW e \in Endpoint, WriterStep(e)
  PROVE  \A f \in Endpoint : Uses(f)
<1>0. /\ writer \in [Endpoint -> WriterSet] /\ reader \in [Endpoint -> ReaderSet]
      /\ writer_cmd \in [Endpoint -> Seq(CmdSet)] /\ writer[e].gen \in Nat
  BY DEF Typed, TypeOK, WriterSet
<1>1. CASE WriterApply(e)
  <2> DEFINE q == writer_cmd[e]
             cmd == Head(q)
             from == ResumeFrom(e, cmd.resume_seq)
             r == FramesToReplay(replay'[e], from)
             none == IF cmd.gen = writer[e].gen THEN None ELSE writer[e].writer
  <2>1. UNCHANGED reader /\ writer_cmd' = [writer_cmd EXCEPT ![e] = Tail(q)] /\ q # << >>
    BY <1>1 DEF WriterApply
  <2>2. \/ writer' = [writer EXCEPT ![e].writer = cmd.writer, ![e].gen = cmd.gen,
                                    ![e].last_sent_seq = from, ![e].resume = r]
        \/ writer' = [writer EXCEPT ![e].writer = none]
    BY <1>1 DEF WriterApply
  <2>3. /\ q \in Seq(CmdSet)
        /\ \A i \in 1 .. Len(Tail(q)) : \E j \in 1 .. Len(q) : Tail(q)[i] = q[j]
        /\ 1 \in 1 .. Len(q) /\ cmd = q[1]
    BY <1>0, <2>1, TailFrames
  <2>4. none \in {None, writer[e].writer}
    OBVIOUS
  <2> HIDE DEF cmd, from, r, none
  <2>5. /\ \A f \in Endpoint : f # e => writer'[f] = writer[f]
        /\ writer'[e].writer = cmd.writer \/ writer'[e].writer = none
    BY <1>0, <2>2 DEF WriterSet
  <2>6. writer_cmd'[e] = Tail(q) /\ \A f \in Endpoint : f # e => writer_cmd'[f] = writer_cmd[f]
    BY <1>0, <2>1
  <2>7. Uses(e)
    BY <2>1, <2>3, <2>4, <2>5, <2>6 DEF Uses
  <2> QED
    BY <2>1, <2>5, <2>6, <2>7, SameUses
<1>2. CASE WriterFail(e)
  <2>1. /\ writer' = [writer EXCEPT ![e].writer = None] /\ DetachTransport(e, writer[e].gen)
        /\ reader' = reader \/ reader' = [reader EXCEPT ![e] = NoReader]
    BY <1>2 DEF WriterFail
  <2>2. NoReader.pc = "none"
    BY DEF NoReader
  <2>3. /\ \A f \in Endpoint : writer'[f].writer \in {None, writer[f].writer}
        /\ \A f \in Endpoint : reader'[f] = reader[f] \/ reader'[f].pc = "none"
    BY <1>0, <2>1, <2>2 DEF WriterSet
  <2>4. \A f \in Endpoint : \A i \in 1 .. Len(writer_cmd'[f]) :
          \/ writer_cmd'[f][i].writer = None /\ writer_cmd'[f][i].resume_seq = 0
          \/ \E j \in 1 .. Len(writer_cmd[f]) : writer_cmd'[f][i] = writer_cmd[f][j]
    BY ZenonT(40), <1>0, <2>1, DetachTransportUses
  <2> QED
    BY <2>3, <2>4 DEF Uses
<1>3. CASE ~(WriterApply(e) \/ WriterFail(e))
  <2>1. UNCHANGED << reader, writer_cmd >>
    BY <1>3 DEF WriterStep, WriterAck, WriterResume, WriterLive, WriterStage, WriterClose,
                WriterStop, taskVars
  <2>2. \A f \in Endpoint : writer'[f].writer \in {None, writer[f].writer}
    <3>1. CASE WriterAck(e)
      BY <3>1 DEF WriterAck, taskVars
    <3>2. CASE WriterResume(e)
      <4> DEFINE rest == Tail(writer[e].resume)
                 n == IF Head(writer[e].resume).seq > writer[e].last_sent_seq
                            /\ Head(writer[e].resume).seq > replay[e].last_acked
                      THEN Head(writer[e].resume).seq ELSE writer[e].last_sent_seq
      <4>1. writer' = [writer EXCEPT ![e].resume = rest, ![e].last_sent_seq = n]
        BY <3>2 DEF WriterResume
      <4> HIDE DEF rest, n
      <4> QED
        BY <1>0, <4>1 DEF WriterSet
    <3>3. CASE WriterLive(e) \/ WriterStage(e)
      <4>1. \/ \E h, n : writer' = [writer EXCEPT ![e].held = h, ![e].last_sent_seq = n]
            \/ \E h : writer' = [writer EXCEPT ![e].held = h]
        BY <3>3 DEF WriterLive, WriterStage
      <4>2. ASSUME NEW h, NEW n, writer' = [writer EXCEPT ![e].held = h, ![e].last_sent_seq = n]
            PROVE  \A f \in Endpoint : writer'[f].writer = writer[f].writer
        BY <1>0, <4>2 DEF WriterSet
      <4>3. ASSUME NEW h, writer' = [writer EXCEPT ![e].held = h]
            PROVE  \A f \in Endpoint : writer'[f].writer = writer[f].writer
        BY <1>0, <4>3 DEF WriterSet
      <4> QED
        BY <4>1, <4>2, <4>3
    <3>4. CASE WriterClose(e) \/ WriterStop(e)
      <4>1. writer' = [writer EXCEPT ![e] = NoWriter] /\ NoWriter.writer = None
        BY <3>4 DEF WriterClose, WriterStop, NoWriter
      <4> QED
        BY <1>0, <4>1
    <3> QED
      BY <1>3, <3>1, <3>2, <3>3, <3>4 DEF WriterStep
  <2> QED
    BY <2>1, <2>2 DEF Uses
<1> QED
  BY <1>1, <1>2, <1>3

LEMMA UsesReader ==
  ASSUME Typed, NEW e \in Endpoint, ReaderStep(e)
  PROVE  \A f \in Endpoint : Uses(f)
<1>0. reader \in [Endpoint -> ReaderSet] /\ reader[e].gen \in Nat
  BY DEF Typed, TypeOK, ReaderSet
<1>1. CASE MarkClosed(e) /\ UNCHANGED writer_cmd
  BY <1>1, MarkClosedUses
<1>2. CASE ReaderFail(e) /\ ~MarkClosed(e)
  <2>1. /\ DetachTransport(e, reader[e].gen) /\ UNCHANGED writer
        /\ reader' = [reader EXCEPT ![e] = NoReader] /\ NoReader.pc = "none"
    BY <1>2 DEF ReaderFail, NoReader
  <2>2. \A f \in Endpoint : reader'[f] = reader[f] \/ reader'[f].pc = "none"
    BY <1>0, <2>1
  <2> QED
    BY <1>0, <2>1, <2>2, DetachTransportUses DEF Uses
<1>3. CASE ~ReaderFail(e) /\ ~MarkClosed(e)
  <2>1. UNCHANGED << writer, writer_cmd >> /\ reader[e].pc # "none"
    BY <1>3 DEF ReaderStep, ReaderStart, ReadAck, ReadData, ReaderAccept, ReadClose, ReaderDrained,
                Reads, taskVars
  <2>2. \A f \in Endpoint : reader'[f] = reader[f] \/ (f = e /\ reader'[f].t = reader[f].t)
    <3> DEFINE n == recv[e].last_recv_seq
               frame == Head(wire[reader[e].t][e])
               seq == reader[e].frame.seq
    <3>1. \/ reader' = reader
          \/ reader' = [reader EXCEPT ![e].pc = "read", ![e].last = n]
          \/ reader' = [reader EXCEPT ![e].pc = "accept", ![e].frame = frame]
          \/ reader' = [reader EXCEPT ![e].pc = "read", ![e].last = seq, ![e].frame = NoFrame]
          \/ reader' = [reader EXCEPT ![e].pc = "drain"]
      BY <1>3 DEF ReaderStep, ReaderStart, ReadAck, ReadData, ReaderAccept, ReadClose,
                  ReaderDrained, taskVars
    <3> HIDE DEF n, frame, seq
    <3> QED
      BY <1>0, <3>1 DEF ReaderSet
  <2> QED
    BY <2>1, <2>2 DEF Uses
<1>4. MarkClosed(e) => UNCHANGED writer_cmd
  <2> SUFFICES ASSUME MarkClosed(e) PROVE UNCHANGED writer_cmd
    OBVIOUS
  <2>1. CASE ReaderFail(e)
    <3>1. CASE conn[e].closing
      BY <2>1, <3>1 DEF ReaderFail
    <3>2. CASE ~conn[e].closing
      <4>1. DetachTransport(e, reader[e].gen) /\ conn'[e].closed
        BY <2>1, <3>2, MarkClosedShuts DEF ReaderFail
      <4>2. ~Detaches(e, reader[e].gen)
        <5>1. conn'[e].closed = conn[e].closed
          BY <1>0, <4>1, DetachTransportRests
        <5> QED
          BY <4>1, <5>1 DEF Detaches
      <4> QED
        BY <4>1, <4>2 DEF DetachTransport
    <3> QED
      BY <3>1, <3>2
  <2>2. CASE ~ReaderFail(e)
    BY <2>2 DEF ReaderStep, ReaderStart, ReadAck, ReadData, ReaderAccept, ReadClose, ReaderDrained,
                taskVars
  <2> QED
    BY <2>1, <2>2
<1> QED
  BY <1>1, <1>2, <1>3, <1>4

\* Attaching a transport puts it in use at one endpoint.
LEMMA AttachTransportUses ==
  ASSUME Typed, NEW e \in Endpoint, NEW t \in Transport, NEW n \in Nat, AttachTransport(e, t, n),
         \A f \in Endpoint : writer'[f].writer \in {None, writer[f].writer}
  PROVE  /\ Used(e)' \subseteq Used(e) \cup {t}
         /\ \A f \in Endpoint : f # e => Used(f)' \subseteq Used(f)
         /\ \A f \in Endpoint : \A i \in 1 .. Len(writer_cmd'[f]) :
              \/ f = e /\ writer_cmd'[f][i].resume_seq = n
              \/ \E j \in 1 .. Len(writer_cmd[f]) : writer_cmd'[f][i] = writer_cmd[f][j]
<1> DEFINE gen == conn[e].transport_gen + 1
           c == AttachCmd(gen, t, n)
           r == NewReader(gen, t)
<1>0. /\ reader \in [Endpoint -> ReaderSet] /\ writer_cmd \in [Endpoint -> Seq(CmdSet)]
      /\ gen \in Nat
  BY DEF Typed, TypeOK, ConnSet
<1>1. c \in CmdSet /\ c.writer = t /\ c.resume_seq = n /\ r.t = t
  <2>1. c \in CmdSet
    BY <1>0, FrameTypes
  <2>2. c.writer = t /\ c.resume_seq = n
    BY DEF AttachCmd
  <2>3. r.t = t
    BY DEF NewReader, NoReader
  <2> QED
    BY <2>1, <2>2, <2>3
<1>2. \/ UNCHANGED << writer_cmd, reader >>
      \/ /\ writer_cmd' = [writer_cmd EXCEPT ![e] = Append(@, c)]
         /\ reader' = [reader EXCEPT ![e] = r]
  BY DEF AttachTransport
<1> HIDE DEF gen, c, r
<1>3. \A f \in Endpoint : f # e => reader'[f] = reader[f] /\ writer_cmd'[f] = writer_cmd[f]
  BY <1>0, <1>2
<1>4. \A i \in 1 .. Len(writer_cmd'[e]) :
        writer_cmd'[e][i] = c \/ \E j \in 1 .. Len(writer_cmd[e]) : writer_cmd'[e][i] = writer_cmd[e][j]
  <2>1. CASE writer_cmd'[e] = writer_cmd[e]
    BY <2>1
  <2>2. CASE writer_cmd'[e] = Append(writer_cmd[e], c)
    BY <1>0, <1>1, <2>2
  <2> QED
    BY <1>0, <1>2, <2>1, <2>2
<1>5. reader'[e] = reader[e] \/ reader'[e].t = t
  BY <1>0, <1>1, <1>2
<1>6. None \notin Transport
  BY DEF None, Transport
<1>7. ASSUME NEW u \in Used(e)'
      PROVE  u \in Used(e) \cup {t}
  <2>1. u \in Transport /\ u # None
    BY <1>6 DEF Used
  <2>2. CASE reader'[e].pc # "none" /\ reader'[e].t = u
    BY <1>5, <2>1, <2>2 DEF Used
  <2>3. CASE writer'[e].writer = u
    BY <2>1, <2>3 DEF Used
  <2>4. CASE \E i \in 1 .. Len(writer_cmd'[e]) : writer_cmd'[e][i].writer = u
    <3>1. PICK i \in 1 .. Len(writer_cmd'[e]) : writer_cmd'[e][i].writer = u
      BY <2>4
    <3>2. CASE writer_cmd'[e][i] = c
      BY <1>1, <3>1, <3>2
    <3>3. CASE \E j \in 1 .. Len(writer_cmd[e]) : writer_cmd'[e][i] = writer_cmd[e][j]
      BY <2>1, <3>1, <3>3 DEF Used
    <3> QED
      BY <1>4, <3>2, <3>3
  <2> QED
    BY <2>2, <2>3, <2>4 DEF Used
<1>8. ASSUME NEW f \in Endpoint, f # e
      PROVE  Uses(f)
  BY <1>3, <1>8 DEF Uses
<1> QED
  BY <1>1, <1>3, <1>4, <1>7, <1>8, UsesNoMore

\* In every step but the two that attach a transport, no endpoint uses more.
LEMMA UsesStep ==
  ASSUME Typed, Next, ~LoopResponse, \A t \in Transport : ~ServerAttach(t)
  PROVE  \A f \in Endpoint : Uses(f)
<1>1. ASSUME NEW e \in Endpoint,
             \/ Send(e) \/ Close(e) \/ CloseAgain(e)
             \/ CloseStep(e) \/ WriterStep(e) \/ ReaderStep(e)
      PROVE  \A f \in Endpoint : Uses(f)
  BY <1>1, UsesApplication, UsesWriter, UsesReader DEF CloseStep
<1>2. CASE LoopStep \/ \E t \in Transport : HandlerStep(t) \/ Break(t)
  <2>1. UNCHANGED << reader, writer, writer_cmd >>
    BY <1>2 DEF LoopStep, LoopDial, LoopQuit, LoopFail, HandlerStep, ServerResume, ServerRefuse,
                Break, taskVars
  <2> QED
    BY <2>1, SameUses
<1>3. CASE ServerExpire
  BY <1>3, MarkClosedUses DEF ServerExpire, Endpoint
<1> QED
  BY <1>1, <1>2, <1>3 DEF Next

\* A resume response is for the reconnect loop's transport.
LEMMA ResponseUses ==
  ASSUME Typed, LoopResponse
  PROVE  /\ loop.t \in Transport
         /\ Used("client")' \subseteq Used("client") \cup {loop.t}
         /\ Used("server")' \subseteq Used("server")
         /\ \A f \in Endpoint : \A i \in 1 .. Len(writer_cmd'[f]) :
              \/ /\ f = "client" /\ Head(wire[loop.t]["client"]).type = "attach_ok"
                 /\ writer_cmd'[f][i].resume_seq = Head(wire[loop.t]["client"]).seq
              \/ \E j \in 1 .. Len(writer_cmd[f]) : writer_cmd'[f][i] = writer_cmd[f][j]
<1> DEFINE t == loop.t
           response == Head(wire[t]["client"])
<1>1. /\ "client" \in Endpoint /\ "server" \in Endpoint /\ t \in Transport
      /\ "server" # "client"
      /\ wire[t]["client"] # << >> /\ wire \in [Transport -> [Endpoint -> Seq(FrameSet)]]
  BY DEF LoopResponse, Typed, TypeOK, Named, Endpoint
<1>2. response \in FrameSet /\ response.seq \in Nat
  <2>1. response \in FrameSet
    BY <1>1
  <2> QED
    BY <2>1 DEF FrameSet
<1>3. \/ /\ response.type = "attach_ok"
         /\ AttachTransport("client", t, response.seq) /\ UNCHANGED writer
      \/ MarkClosed("client") /\ UNCHANGED writer_cmd
  BY DEF LoopResponse
<1>4. CASE /\ response.type = "attach_ok"
           /\ AttachTransport("client", t, response.seq) /\ UNCHANGED writer
  <2> DEFINE n == response.seq
  <2>1. AttachTransport("client", t, n) /\ n \in Nat
    BY <1>2, <1>4
  <2>2. \A f \in Endpoint : writer'[f].writer \in {None, writer[f].writer}
    BY <1>4
  <2> HIDE DEF n
  <2>3. /\ Used("client")' \subseteq Used("client") \cup {t}
        /\ \A f \in Endpoint : f # "client" => Used(f)' \subseteq Used(f)
        /\ \A f \in Endpoint : \A i \in 1 .. Len(writer_cmd'[f]) :
             \/ f = "client" /\ writer_cmd'[f][i].resume_seq = n
             \/ \E j \in 1 .. Len(writer_cmd[f]) : writer_cmd'[f][i] = writer_cmd[f][j]
    BY <1>1, <2>1, <2>2, AttachTransportUses
  <2>4. Used("server")' \subseteq Used("server")
    BY <1>1, <2>3
  <2> QED
    BY <1>1, <1>4, <2>3, <2>4 DEF n
<1>5. CASE MarkClosed("client") /\ UNCHANGED writer_cmd
  BY <1>1, <1>5, MarkClosedUses, UsesNoMore
<1> QED
  BY <1>3, <1>4, <1>5

LEMMA ServerAttachUses ==
  ASSUME Typed, NEW t \in Transport, ServerAttach(t)
  PROVE  /\ Used("server")' \subseteq Used("server") \cup {t}
         /\ Used("client")' \subseteq Used("client")
         /\ \A f \in Endpoint : \A i \in 1 .. Len(writer_cmd'[f]) :
              \/ f = "server" /\ writer_cmd'[f][i].resume_seq = handler[t].seq
              \/ \E j \in 1 .. Len(writer_cmd[f]) : writer_cmd'[f][i] = writer_cmd[f][j]
<1>1. /\ "client" \in Endpoint /\ "server" \in Endpoint /\ "client" # "server"
      /\ writer \in [Endpoint -> WriterSet] /\ handler[t].seq \in Nat
  BY DEF Typed, TypeOK, Endpoint, HandlerSet
<1>2. AttachTransport("server", t, handler[t].seq)
  BY DEF ServerAttach
<1>3. \A f \in Endpoint : writer'[f].writer \in {None, writer[f].writer}
  <2>1. writer' = writer \/ writer' = [writer EXCEPT !["server"] = NewWriter]
    BY DEF ServerAttach
  <2>2. NewWriter.writer = None
    BY DEF NewWriter, NoWriter
  <2> QED
    BY <1>1, <2>1, <2>2
<1> QED
  BY <1>1, <1>2, <1>3, AttachTransportUses

-----------------------------------------------------------------------------
(* What is on the wire.                                                    *)

\* A writer adds a frame to its transport, and an ACK says what was received.
SentBy(e, x) ==
  /\ x \in FrameSet /\ x.type \in {"data", "ack", "close"}
  /\ x.type = "ack" => x.seq = recv[e].last_recv_seq

LEMMA WriterSends ==
  ASSUME Typed, NEW e \in Endpoint, WriterStep(e)
  PROVE  UNCHANGED wire \/ \E x : SentBy(e, x) /\ wire' = Written(e, writer[e].writer, x)
<1> DEFINE w == writer[e]
<1>0. /\ w \in WriterSet /\ w.resume \in Seq(RecordSet) /\ conn[e].next_send_seq \in Nat
      /\ recv[e].last_recv_seq \in Nat
  BY DEF Typed, TypeOK, WriterSet, ConnSet, RecvSet
<1>1. CASE WriterAck(e)
  <2> DEFINE x == Frame("ack", recv[e].last_recv_seq, None)
  <2>1. wire' = wire \/ wire' = Written(e, w.writer, x)
    BY <1>1 DEF WriterAck
  <2>2. SentBy(e, x)
    BY <1>0, FrameTypes DEF SentBy, Frame, FrameType
  <2> QED
    BY <2>1, <2>2
<1>2. CASE WriterResume(e)
  <2> DEFINE r == Head(w.resume)
             x == Frame("data", r.seq, r.msg)
  <2>1. wire' = wire \/ wire' = Written(e, w.writer, x)
    BY <1>2 DEF WriterResume
  <2>2. r \in RecordSet
    BY <1>0, <1>2 DEF WriterResume
  <2>3. r.seq \in Nat /\ r.msg \in Message
    BY <2>2 DEF RecordSet
  <2>4. x \in FrameSet
    BY <2>3, FrameTypes DEF FrameType
  <2>5. x.type = "data"
    BY DEF Frame
  <2>6. SentBy(e, x)
    BY <2>4, <2>5 DEF SentBy
  <2> QED
    BY <2>1, <2>6
<1>3. CASE WriterLive(e)
  <2>1. PICK msg \in 1 .. Len(Outgoing[e]) :
          wire' = wire \/ wire' = Written(e, w.writer, Frame("data", conn[e].next_send_seq + 1, msg))
    BY <1>3 DEF WriterLive
  <2> DEFINE x == Frame("data", conn[e].next_send_seq + 1, msg)
  <2>2. msg \in Message
    BY MessageType
  <2>3. x \in FrameSet
    BY <1>0, <2>2, FrameTypes DEF FrameType
  <2>4. x.type = "data"
    BY DEF Frame
  <2>5. SentBy(e, x)
    BY <2>3, <2>4 DEF SentBy
  <2> QED
    BY <2>1, <2>5
<1>4. CASE WriterClose(e)
  <2> DEFINE x == Frame("close", 0, None)
  <2>1. wire' = wire \/ wire' = Written(e, w.writer, x)
    BY <1>4 DEF WriterClose
  <2>2. SentBy(e, x)
    BY FrameTypes DEF SentBy, Frame, FrameType
  <2> QED
    BY <2>1, <2>2
<1>5. CASE WriterApply(e) \/ WriterStage(e) \/ WriterStop(e) \/ WriterFail(e)
  BY <1>5 DEF WriterApply, WriterStage, WriterStop, WriterFail, netVars
<1> QED
  BY <1>1, <1>2, <1>3, <1>4, <1>5 DEF WriterStep

\* A write reaches the transport's other end, or nothing.
LEMMA WrittenShape ==
  ASSUME Typed, NEW e \in Endpoint, NEW t, NEW x \in FrameSet, wire' = Written(e, t, x),
         NEW u \in Transport, NEW f \in Endpoint
  PROVE  \/ wire'[u][f] = wire[u][f]
         \/ /\ u = t /\ f = Peer(e) /\ ~Broken(e, t)
            /\ wire'[u][f] = Append(wire[u][f], x)
<1>1. wire \in [Transport -> [Endpoint -> Seq(FrameSet)]]
  BY DEF Typed, TypeOK
<1>2. CASE Broken(e, t)
  BY <1>2 DEF Written
<1>3. CASE ~Broken(e, t)
  <2>1. wire' = [wire EXCEPT ![t][Peer(e)] = Append(@, x)]
    BY <1>3 DEF Written
  <2> QED
    BY <1>1, <1>3, <2>1
<1> QED
  BY <1>2, <1>3

\* Each frame on a transport was there, or a writer that uses the transport
\* sends it.
WireFrom ==
  \A u \in Transport, f \in Endpoint : \A i \in 1 .. Len(wire'[u][f]) :
    \/ \E j \in 1 .. Len(wire[u][f]) : wire'[u][f][i] = wire[u][f][j]
    \/ u \in Used(Peer(f)) /\ SentBy(Peer(f), wire'[u][f][i])

LEMMA WireFromTail ==
  ASSUME Typed, NEW t \in Transport, NEW e \in Endpoint, wire[t][e] # << >>,
         wire' = [wire EXCEPT ![t][e] = Tail(@)]
  PROVE  WireFrom
<1> DEFINE rest == Tail(wire[t][e])
<1>1. wire \in [Transport -> [Endpoint -> Seq(FrameSet)]]
  BY DEF Typed, TypeOK
<1>2. \A i \in 1 .. Len(rest) : \E j \in 1 .. Len(wire[t][e]) : rest[i] = wire[t][e][j]
  BY <1>1, TailFrames
<1>3. wire' = [wire EXCEPT ![t][e] = rest]
  OBVIOUS
<1> HIDE DEF rest
<1>4. ASSUME NEW u \in Transport, NEW f \in Endpoint
      PROVE  wire'[u][f] = wire[u][f] \/ (u = t /\ f = e /\ wire'[u][f] = rest)
  BY <1>1, <1>3
<1>5. ASSUME NEW u \in Transport, NEW f \in Endpoint, NEW i \in 1 .. Len(wire'[u][f])
      PROVE  \E j \in 1 .. Len(wire[u][f]) : wire'[u][f][i] = wire[u][f][j]
  BY <1>2, <1>4
<1> QED
  BY <1>5 DEF WireFrom

LEMMA ResponseWire ==
  ASSUME Typed, LoopResponse
  PROVE  WireFrom
<1>1. /\ loop.t \in Transport /\ "client" \in Endpoint /\ wire[loop.t]["client"] # << >>
      /\ wire' = [wire EXCEPT ![loop.t]["client"] = Tail(@)]
  BY DEF LoopResponse, Typed, Named, Endpoint
<1> QED
  BY <1>1, WireFromTail

LEMMA WireFromStep ==
  ASSUME Typed, Next, ~LoopDial, \A t \in Transport : ~ServerResume(t)
  PROVE  WireFrom
<1>0. UNCHANGED wire => WireFrom
  BY DEF WireFrom
<1>1. ASSUME NEW e \in Endpoint, Send(e) \/ Close(e) \/ CloseAgain(e) \/ CloseStep(e)
      PROVE  WireFrom
  <2>1. UNCHANGED wire
    BY <1>1 DEF Send, Close, CloseAgain, CloseStep, CloseStopped, CloseTimeout, netVars
  <2> QED
    BY <1>0, <2>1
<1>2. ASSUME NEW e \in Endpoint, WriterStep(e)
      PROVE  WireFrom
  <2>1. CASE UNCHANGED wire
    BY <1>0, <2>1
  <2>2. CASE ~UNCHANGED wire
    <3>1. PICK x : SentBy(e, x) /\ wire' = Written(e, writer[e].writer, x)
      BY <1>2, <2>2, WriterSends
    <3>2. x \in FrameSet
      BY <3>1 DEF SentBy
    <3> SUFFICES ASSUME NEW u \in Transport, NEW f \in Endpoint, NEW i \in 1 .. Len(wire'[u][f])
                 PROVE  \/ \E j \in 1 .. Len(wire[u][f]) : wire'[u][f][i] = wire[u][f][j]
                        \/ u \in Used(Peer(f)) /\ SentBy(Peer(f), wire'[u][f][i])
      BY DEF WireFrom
    <3>3. CASE wire'[u][f] = wire[u][f]
      BY <3>3
    <3>4. CASE /\ u = writer[e].writer /\ f = Peer(e)
               /\ wire'[u][f] = Append(wire[u][f], x)
      <4>1. Peer(f) = e /\ u \in Used(e)
        BY <3>4, PeerType DEF Used
      <4>2. wire[u][f] \in Seq(FrameSet) /\ Len(wire[u][f]) \in Nat
        BY DEF Typed, TypeOK
      <4>3. wire'[u][f][i] = x \/ \E j \in 1 .. Len(wire[u][f]) : wire'[u][f][i] = wire[u][f][j]
        BY <3>2, <3>4, <4>2
      <4> QED
        BY <3>1, <4>1, <4>3
    <3> QED
      BY <3>1, <3>2, <3>3, <3>4, WrittenShape
  <2> QED
    BY <2>1, <2>2
<1>3. ASSUME NEW e \in Endpoint, ReaderStep(e)
      PROVE  WireFrom
  <2>1. CASE \E type : Reads(e, type)
    <3>1. PICK type : Reads(e, type)
      BY <2>1
    <3>2. /\ reader[e].t \in Transport /\ wire[reader[e].t][e] # << >>
          /\ wire' = [wire EXCEPT ![reader[e].t][e] = Tail(@)]
      BY <3>1, ReadsType
    <3> QED
      BY <3>2, WireFromTail
  <2>2. CASE ~ \E type : Reads(e, type)
    <3>1. UNCHANGED wire
      BY <1>3, <2>2 DEF ReaderStep, ReaderStart, ReadAck, ReadData, ReaderAccept, ReadClose,
                        ReaderDrained, ReaderFail, netVars
    <3> QED
      BY <1>0, <3>1
  <2> QED
    BY <2>1, <2>2
<1>4. CASE LoopResponse
  BY <1>4, ResponseWire
<1>5. ASSUME NEW t \in Transport, Break(t)
      PROVE  WireFrom
  <2>1. ASSUME NEW u \in Transport, NEW f \in Endpoint, NEW i \in 1 .. Len(wire'[u][f])
        PROVE  \E j \in 1 .. Len(wire[u][f]) : wire'[u][f][i] = wire[u][f][j]
    <3>1. Len(wire'[u][f]) <= Len(wire[u][f]) /\ wire'[u][f][i] = wire[u][f][i]
      BY <1>5, BreakPrefix
    <3>2. Len(wire'[u][f]) \in Nat /\ Len(wire[u][f]) \in Nat
      BY SMTT(40), <1>5, BreakPrefix DEF Typed, TypeOK
    <3> QED
      BY <3>1, <3>2
  <2> QED
    BY <2>1 DEF WireFrom
<1>6. CASE LoopQuit \/ LoopFail \/ (\E t \in Transport : HandlerStep(t)) \/ ServerExpire
  <2>1. UNCHANGED wire
    BY <1>6 DEF LoopQuit, LoopFail, HandlerStep, ServerAttach, ServerRefuse, ServerExpire, netVars
  <2> QED
    BY <1>0, <2>1
<1> QED
  BY <1>1, <1>2, <1>3, <1>4, <1>5, <1>6 DEF Next, LoopStep

-----------------------------------------------------------------------------
(* A transport in its handshake is nobody's: the client's tasks do not use *)
(* it before the response, the server's not before the handler is done,    *)
(* and one that is not dialed yet is unused and empty.                     *)

Claims ==
  /\ \A e \in Endpoint : \A t \in Used(e) : t <= dialed
  /\ \A t \in Transport :
       t > dialed => handler[t].pc = "none" /\ \A e \in Endpoint : wire[t][e] = << >>
  /\ loop.pc = "wait" => loop.t <= dialed /\ loop.t \notin Used("client")
  /\ \A t \in Transport : handler[t].pc # "none" => t \notin Used("server")
  /\ \A t \in Transport :
       handler[t].pc = "request" =>
         /\ t \notin Used("client") /\ wire[t]["client"] = << >>
         /\ \A i \in 1 .. Len(wire[t]["server"]) : wire[t]["server"][i].type = "resume"

LEMMA TransportType == Transport \subseteq Nat /\ None \notin Transport
  BY SessionAssumption DEF None, Transport

LEMMA ClaimsInit == Init => Claims
<1> SUFFICES ASSUME Init PROVE Claims
  OBVIOUS
<1>1. /\ "client" \in Endpoint /\ "server" \in Endpoint /\ "client" # "server"
      /\ dialed = 1 /\ loop.pc = "idle"
      /\ \A t \in Transport : handler[t].pc = IF t = 1 THEN "attach" ELSE "none"
      /\ \A t \in Transport : \A e \in Endpoint : wire[t][e] = << >>
  BY DEF Init, Endpoint
<1>2. reader["server"].pc = "none" /\ writer["server"].writer = None /\ writer_cmd["server"] = << >>
  BY <1>1 DEF Init, NoReader, NoWriter
<1>3. /\ reader["client"].t = 1 /\ writer["client"].writer = None
      /\ writer_cmd["client"] = << AttachCmd(1, 1, 0) >> /\ AttachCmd(1, 1, 0).writer = 1
  BY <1>1 DEF Init, NewReader, NoReader, NewWriter, NoWriter, AttachCmd
<1>4. None \notin Transport /\ Transport \subseteq Nat
  BY SessionAssumption DEF None, Transport
<1>5. Used("server") = {}
  BY <1>2, <1>4 DEF Used
<1>6. \A t \in Used("client") : t = 1
  BY <1>3, <1>4 DEF Used
<1>7. \A e \in Endpoint : \A t \in Used(e) : t <= dialed
  BY <1>1, <1>5, <1>6 DEF Endpoint
<1>8. ASSUME NEW t \in Transport, t > dialed PROVE handler[t].pc = "none"
  <2>1. t # 1
    BY <1>1, <1>4, <1>8
  <2> QED
    BY <1>1, <2>1
<1> QED
  BY <1>1, <1>5, <1>7, <1>8 DEF Claims

LEMMA ClaimsKept ==
  ASSUME Typed, Typed', Claims, WireFrom, dialed' = dialed,
         \A e \in Endpoint : \A t \in Used(e)' : t <= dialed,
         loop'.pc = "wait" => loop' = loop /\ Used("client")' \subseteq Used("client"),
         \A t \in Transport : handler'[t].pc # "none" =>
           handler'[t].pc = handler[t].pc /\ t \notin Used("server")',
         \A t \in Transport : handler'[t].pc = "request" => t \notin Used("client")'
  PROVE  Claims'
<1>0. /\ "client" \in Endpoint /\ "server" \in Endpoint
      /\ Peer("client") = "server" /\ Peer("server") = "client"
      /\ \A t \in Transport, e \in Endpoint : wire'[t][e] \in Seq(FrameSet)
  <2>1. wire' \in [Transport -> [Endpoint -> Seq(FrameSet)]]
    BY DEF Typed, TypeOK
  <2>2. /\ "client" \in Endpoint /\ "server" \in Endpoint
        /\ Peer("client") = "server" /\ Peer("server") = "client"
    BY DEF Endpoint, Peer
  <2> QED
    BY <2>1, <2>2
<1>1. ASSUME NEW t \in Transport, NEW e \in Endpoint, wire[t][e] = << >>, t \notin Used(Peer(e))
      PROVE  wire'[t][e] = << >>
  <2>1. \A i \in 1 .. Len(wire'[t][e]) : FALSE
    <3>1. Len(wire[t][e]) = 0
      BY <1>1
    <3> QED
      BY <1>1, <3>1 DEF WireFrom
  <2>2. wire'[t][e] \in Seq(FrameSet)
    BY <1>0
  <2> QED
    BY <2>1, <2>2
<1>2. ASSUME NEW t \in Transport, t > dialed
      PROVE  handler'[t].pc = "none" /\ \A e \in Endpoint : wire'[t][e] = << >>
  <2>1. handler[t].pc = "none" /\ \A e \in Endpoint : wire[t][e] = << >>
    BY <1>2 DEF Claims
  <2>2. \A e \in Endpoint : t \notin Used(Peer(e))
    <3>1. \A e \in Endpoint : Peer(e) \in Endpoint
      BY PeerType
    <3>2. dialed \in Nat /\ t \in Nat
      BY SessionAssumption DEF Typed, TypeOK, Transport
    <3> QED
      BY <1>2, <3>1, <3>2 DEF Claims
  <2> QED
    BY <1>1, <2>1, <2>2
<1>3. ASSUME NEW t \in Transport, handler'[t].pc = "request"
      PROVE  /\ wire'[t]["client"] = << >>
             /\ \A i \in 1 .. Len(wire'[t]["server"]) : wire'[t]["server"][i].type = "resume"
  <2>1. /\ handler[t].pc = "request" /\ t \notin Used("client") /\ t \notin Used("server")
        /\ wire[t]["client"] = << >>
        /\ \A i \in 1 .. Len(wire[t]["server"]) : wire[t]["server"][i].type = "resume"
    BY <1>3 DEF Claims
  <2>2. wire'[t]["client"] = << >>
    BY <1>0, <1>1, <2>1
  <2>3. ASSUME NEW i \in 1 .. Len(wire'[t]["server"])
        PROVE  wire'[t]["server"][i].type = "resume"
    <3>1. \E j \in 1 .. Len(wire[t]["server"]) : wire'[t]["server"][i] = wire[t]["server"][j]
      BY <1>0, <2>1 DEF WireFrom
    <3> QED
      BY <2>1, <3>1
  <2> QED
    BY <2>2, <2>3
<1>4. loop'.pc = "wait" => loop'.t <= dialed /\ loop'.t \notin Used("client")'
  BY DEF Claims
<1> QED
  BY <1>2, <1>3, <1>4 DEF Claims

\* Who moves the reconnect loop and the handlers.
LEMMA LoopMoves ==
  ASSUME Typed, Next, ~LoopDial
  PROVE  dialed' = dialed /\ (loop'.pc = "wait" => loop' = loop)
<1>1. ASSUME NEW e \in Endpoint, NEW gen, DetachTransport(e, gen)
      PROVE  loop'.pc = "wait" => loop' = loop
  <2>1. loop' = loop \/ loop' = [loop EXCEPT !.pc = "dial"]
    BY <1>1 DEF DetachTransport
  <2> QED
    BY <2>1 DEF Typed, TypeOK, LoopSet
<1>2. ASSUME NEW e \in Endpoint, WriterStep(e) \/ ReaderStep(e)
      PROVE  dialed' = dialed /\ (loop'.pc = "wait" => loop' = loop)
  <2>1. CASE WriterFail(e)
    BY <1>1, <2>1 DEF WriterFail
  <2>2. CASE ReaderFail(e)
    BY <1>1, <2>2 DEF ReaderFail
  <2>3. CASE ~WriterFail(e) /\ ~ReaderFail(e)
    BY <1>2, <2>3
    DEF WriterStep, WriterApply, WriterAck, WriterResume, WriterLive, WriterStage, WriterClose,
        WriterStop, ReaderStep, ReaderStart, ReadAck, ReadData, ReaderAccept, ReadClose,
        ReaderDrained, netVars
  <2> QED
    BY <2>1, <2>2, <2>3
<1>3. CASE LoopQuit \/ LoopResponse \/ LoopFail
  <2>1. dialed' = dialed /\ loop'.pc # "wait"
    BY <1>3 DEF LoopQuit, LoopResponse, LoopFail, Typed, TypeOK, LoopSet
  <2> QED
    BY <2>1
<1>4. CASE \/ \E e \in Endpoint : Send(e) \/ Close(e) \/ CloseAgain(e) \/ CloseStep(e)
           \/ \E t \in Transport : HandlerStep(t) \/ Break(t)
           \/ ServerExpire
  BY <1>4
  DEF Send, Close, CloseAgain, CloseStep, CloseStopped, CloseTimeout, HandlerStep, ServerResume,
      ServerAttach, ServerRefuse, Break, ServerExpire, netVars
<1> QED
  BY <1>2, <1>3, <1>4 DEF Next, LoopStep

LEMMA HandlerMoves ==
  ASSUME Typed, Next, ~LoopDial, \A t \in Transport : ~ServerResume(t)
  PROVE  \A t \in Transport : handler'[t] = handler[t] \/ handler'[t] = [pc |-> "none", seq |-> 0]
<1>0. handler \in [Transport -> HandlerSet]
  BY DEF Typed, TypeOK
<1>1. ASSUME NEW e \in Endpoint, WriterStep(e) \/ ReaderStep(e)
      PROVE  UNCHANGED handler
  BY <1>1
  DEF WriterStep, WriterApply, WriterAck, WriterResume, WriterLive, WriterStage, WriterClose,
      WriterStop, WriterFail, ReaderStep, ReaderStart, ReadAck, ReadData, ReaderAccept, ReadClose,
      ReaderDrained, ReaderFail, netVars
<1>2. ASSUME NEW t \in Transport, ServerAttach(t) \/ ServerRefuse(t)
      PROVE  handler' = [handler EXCEPT ![t] = [pc |-> "none", seq |-> 0]]
  BY <1>2 DEF ServerAttach, ServerRefuse
<1>3. CASE \E t \in Transport : ServerAttach(t) \/ ServerRefuse(t)
  BY <1>0, <1>2, <1>3
<1>4. CASE \/ \E e \in Endpoint : Send(e) \/ Close(e) \/ CloseAgain(e) \/ CloseStep(e)
           \/ LoopQuit \/ LoopResponse \/ LoopFail
           \/ \E t \in Transport : Break(t)
           \/ ServerExpire
  BY <1>4
  DEF Send, Close, CloseAgain, CloseStep, CloseStopped, CloseTimeout, LoopQuit, LoopResponse,
      LoopFail, Break, ServerExpire, netVars
<1> QED
  BY <1>1, <1>3, <1>4 DEF Next, LoopStep, HandlerStep

LEMMA ClaimsDial ==
  ASSUME Typed, Claims, LoopDial
  PROVE  Claims'
<1> DEFINE t == dialed + 1
<1>0. /\ t \in Transport /\ dialed \in Nat /\ t > dialed /\ Transport \subseteq Nat
      /\ "client" \in Endpoint /\ "server" \in Endpoint /\ "client" # "server"
      /\ wire \in [Transport -> [Endpoint -> Seq(FrameSet)]]
      /\ handler \in [Transport -> HandlerSet]
  <2>1. /\ t \in Transport /\ dialed \in Transport
        /\ wire \in [Transport -> [Endpoint -> Seq(FrameSet)]]
        /\ handler \in [Transport -> HandlerSet]
    BY DEF LoopDial, Typed, TypeOK
  <2>2. dialed \in Nat /\ t > dialed /\ Transport \subseteq Nat
    BY <2>1, TransportType
  <2> QED
    BY <2>1, <2>2 DEF Endpoint
<1> DEFINE x == Frame("resume", recv["client"].last_recv_seq, None)
<1>1. /\ dialed' = t /\ loop'.pc = "wait" /\ loop'.t = t
      /\ handler' = [handler EXCEPT ![t].pc = "request"]
      /\ wire' = [wire EXCEPT ![t]["server"] = << x >>]
      /\ UNCHANGED << reader, writer, writer_cmd >>
  BY DEF LoopDial, taskVars
<1>2. x.type = "resume"
  BY DEF Frame
<1> HIDE DEF x
<1>3. \A e \in Endpoint : Used(e)' = Used(e)
  BY <1>1 DEF Used
<1>4. \A e \in Endpoint : t \notin Used(e) /\ wire[t][e] = << >>
  BY <1>0 DEF Claims
<1>5. /\ \A u \in Transport : u # t => handler'[u] = handler[u] /\ wire'[u] = wire[u]
      /\ handler'[t].pc = "request"
      /\ wire'[t]["client"] = wire[t]["client"] /\ wire'[t]["server"] = << x >>
  BY <1>0, <1>1 DEF HandlerSet
<1>6. \A e \in Endpoint : \A u \in Used(e)' : u <= dialed'
  <2>1. \A e \in Endpoint : \A u \in Used(e) : u \in Nat /\ u <= dialed
    BY <1>0 DEF Claims, Used
  <2> QED
    BY <1>0, <1>1, <1>3, <2>1
<1>7. ASSUME NEW u \in Transport, u > dialed'
      PROVE  handler'[u].pc = "none" /\ \A e \in Endpoint : wire'[u][e] = << >>
  <2>1. u > dialed /\ u # t
    BY <1>0, <1>1, <1>7
  <2> QED
    BY <1>5, <2>1 DEF Claims
<1>8. loop'.t <= dialed' /\ loop'.t \notin Used("client")'
  BY <1>0, <1>1, <1>3, <1>4
<1>9. ASSUME NEW u \in Transport, handler'[u].pc # "none"
      PROVE  u \notin Used("server")'
  <2>1. CASE u = t
    BY <1>0, <1>3, <1>4, <2>1
  <2>2. CASE u # t
    BY <1>0, <1>3, <1>5, <1>9, <2>2 DEF Claims
  <2> QED
    BY <2>1, <2>2
<1>10. ASSUME NEW u \in Transport, handler'[u].pc = "request"
       PROVE  /\ u \notin Used("client")' /\ wire'[u]["client"] = << >>
              /\ \A i \in 1 .. Len(wire'[u]["server"]) : wire'[u]["server"][i].type = "resume"
  <2>1. CASE u = t
    <3>1. \A i \in 1 .. Len(<< x >>) : << x >>[i].type = "resume"
      BY <1>2
    <3> QED
      BY <1>0, <1>3, <1>4, <1>5, <2>1, <3>1
  <2>2. CASE u # t
    <3>1. /\ handler[u].pc = "request" /\ wire'[u] = wire[u]
      BY <1>5, <1>10, <2>2
    <3>2. /\ u \notin Used("client") /\ wire[u]["client"] = << >>
          /\ \A i \in 1 .. Len(wire[u]["server"]) : wire[u]["server"][i].type = "resume"
      BY <3>1 DEF Claims
    <3> QED
      BY <1>0, <1>3, <3>1, <3>2
  <2> QED
    BY <2>1, <2>2
<1> QED
  BY <1>6, <1>7, <1>8, <1>9, <1>10 DEF Claims

LEMMA ClaimsResume ==
  ASSUME Typed, Claims, NEW t \in Transport, ServerResume(t)
  PROVE  Claims'
<1>0. /\ dialed \in Nat /\ Transport \subseteq Nat
      /\ "client" \in Endpoint /\ "server" \in Endpoint
      /\ wire \in [Transport -> [Endpoint -> Seq(FrameSet)]]
      /\ handler \in [Transport -> HandlerSet]
  BY TransportType DEF Typed, TypeOK, Endpoint
<1>1. /\ UNCHANGED << dialed, loop, reader, writer, writer_cmd >>
      /\ handler[t].pc = "request"
  BY DEF ServerResume, taskVars
<1>2. \A u \in Transport : u # t => handler'[u] = handler[u] /\ wire'[u] = wire[u]
  <2> DEFINE tail == Tail(wire[t]["server"])
             rest == [wire EXCEPT ![t]["server"] = tail]
             a == IF RefusesResume THEN Frame("reject", 0, None)
                  ELSE Frame("attach_ok", recv["server"].last_recv_seq, None)
             h == [pc |-> IF RefusesResume THEN "none" ELSE "attach",
                   seq |-> Head(wire[t]["server"]).seq]
  <2>1. /\ wire' = rest \/ wire' = [rest EXCEPT ![t]["client"] = Append(@, a)]
        /\ handler' = [handler EXCEPT ![t] = h]
    BY DEF ServerResume
  <2> HIDE DEF tail, a, h
  <2> QED
    BY <1>0, <2>1
<1>3. handler'[t].pc # "request"
  BY <1>0 DEF ServerResume
<1>4. \A e \in Endpoint : Used(e)' = Used(e)
  BY <1>1 DEF Used
<1>5. t <= dialed
  BY <1>0, <1>1 DEF Claims
<1>6. t \notin Used("server") /\ \A e \in Endpoint : \A u \in Used(e) : u <= dialed
  BY <1>1 DEF Claims
<1>7. ASSUME NEW u \in Transport, u > dialed'
      PROVE  handler'[u].pc = "none" /\ \A e \in Endpoint : wire'[u][e] = << >>
  <2>1. u > dialed /\ u # t
    BY <1>0, <1>1, <1>5, <1>7
  <2> QED
    BY <1>2, <2>1 DEF Claims
<1>8. loop'.pc = "wait" => loop'.t <= dialed' /\ loop'.t \notin Used("client")'
  BY <1>0, <1>1, <1>4 DEF Claims
<1>9. ASSUME NEW u \in Transport, handler'[u].pc # "none"
      PROVE  u \notin Used("server")'
  BY <1>0, <1>2, <1>4, <1>6, <1>9 DEF Claims
<1>10. ASSUME NEW u \in Transport, handler'[u].pc = "request"
       PROVE  /\ u \notin Used("client")' /\ wire'[u]["client"] = << >>
              /\ \A i \in 1 .. Len(wire'[u]["server"]) : wire'[u]["server"][i].type = "resume"
  <2>1. /\ handler[u].pc = "request" /\ wire'[u] = wire[u]
    BY <1>2, <1>3, <1>10
  <2>2. /\ u \notin Used("client") /\ wire[u]["client"] = << >>
        /\ \A i \in 1 .. Len(wire[u]["server"]) : wire[u]["server"][i].type = "resume"
    BY <2>1 DEF Claims
  <2> QED
    BY <1>0, <1>4, <2>1, <2>2
<1> QED
  BY <1>1, <1>4, <1>6, <1>7, <1>8, <1>9, <1>10 DEF Claims

LEMMA ClaimsStep == Typed /\ Claims /\ [Next]_vars => Claims'
<1> SUFFICES ASSUME Typed, Claims, [Next]_vars PROVE Claims'
  OBVIOUS
<1>0. Typed'
  BY TypedStep
<1>1. CASE UNCHANGED vars
  BY <1>1 DEF vars, appVars, endVars, taskVars, netVars, history, Claims, Used
<1>2. CASE LoopDial
  BY <1>2, ClaimsDial
<1>3. CASE \E t \in Transport : ServerResume(t)
  BY <1>3, ClaimsResume
<1>4. CASE LoopResponse
  <2>1. WireFrom
    BY <1>4, ResponseWire
  <2>2. /\ dialed' = dialed /\ handler' = handler /\ loop'.pc = "idle"
        /\ loop.pc = "wait" /\ wire[loop.t]["client"] # << >>
    BY <1>4 DEF LoopResponse
  <2>3. /\ loop.t \in Transport /\ Used("client")' \subseteq Used("client") \cup {loop.t}
        /\ Used("server")' \subseteq Used("server")
    BY <1>4, ResponseUses
  <2>4. loop.t <= dialed /\ handler[loop.t].pc # "request"
    BY <2>2, <2>3 DEF Claims
  <2>5. \A e \in Endpoint : \A t \in Used(e)' : t <= dialed
    BY <2>3, <2>4 DEF Claims, Endpoint
  <2>6. \A t \in Transport : handler'[t].pc # "none" =>
          handler'[t].pc = handler[t].pc /\ t \notin Used("server")'
    BY <2>2, <2>3 DEF Claims
  <2>7. \A t \in Transport : handler'[t].pc = "request" => t \notin Used("client")'
    BY <2>2, <2>3, <2>4 DEF Claims
  <2> QED
    BY <1>0, <2>1, <2>2, <2>5, <2>6, <2>7, ClaimsKept
<1>5. ASSUME NEW t \in Transport, ServerAttach(t)
      PROVE  Claims'
  <2>1. WireFrom
    BY <1>5 DEF ServerAttach, WireFrom
  <2>2. /\ dialed' = dialed /\ handler[t].pc = "attach" /\ loop' = loop
        /\ \A u \in Transport : u # t => handler'[u] = handler[u]
        /\ handler'[t].pc = "none"
    BY <1>5 DEF ServerAttach, Typed, TypeOK
  <2>3. Used("server")' \subseteq Used("server") \cup {t} /\ Used("client")' \subseteq Used("client")
    BY <1>5, ServerAttachUses
  <2>4. t <= dialed
    <3>1. dialed \in Nat /\ t \in Nat
      BY SessionAssumption DEF Typed, TypeOK, Transport
    <3> QED
      BY <2>2, <3>1 DEF Claims
  <2>5. \A e \in Endpoint : \A u \in Used(e)' : u <= dialed
    BY <2>3, <2>4 DEF Claims, Endpoint
  <2>6. \A u \in Transport : handler'[u].pc # "none" =>
          handler'[u].pc = handler[u].pc /\ u \notin Used("server")'
    BY <2>2, <2>3 DEF Claims
  <2>7. \A u \in Transport : handler'[u].pc = "request" => u \notin Used("client")'
    BY <2>2, <2>3 DEF Claims
  <2> QED
    BY <1>0, <2>1, <2>2, <2>3, <2>5, <2>6, <2>7, ClaimsKept
<1>6. CASE /\ Next /\ ~LoopDial /\ ~LoopResponse
           /\ \A t \in Transport : ~ServerResume(t) /\ ~ServerAttach(t)
  <2>1. WireFrom
    BY <1>6, WireFromStep
  <2>2. \A e \in Endpoint : Used(e)' \subseteq Used(e)
    BY <1>6, UsesStep, UsesNoMore
  <2>3. dialed' = dialed /\ (loop'.pc = "wait" => loop' = loop)
    BY <1>6, LoopMoves
  <2>4. \A t \in Transport : handler'[t].pc \in {"none", handler[t].pc}
    <3> SUFFICES ASSUME NEW t \in Transport PROVE handler'[t].pc \in {"none", handler[t].pc}
      OBVIOUS
    <3>1. handler'[t] = handler[t] \/ handler'[t] = [pc |-> "none", seq |-> 0]
      BY <1>6, HandlerMoves
    <3> QED
      BY <3>1
  <2>5. \A e \in Endpoint : \A u \in Used(e)' : u <= dialed
    BY <2>2 DEF Claims
  <2>6. \A u \in Transport : handler'[u].pc # "none" =>
          handler'[u].pc = handler[u].pc /\ u \notin Used("server")'
    BY <2>2, <2>4 DEF Claims, Endpoint
  <2>7. \A u \in Transport : handler'[u].pc = "request" => u \notin Used("client")'
    BY <2>2, <2>4 DEF Claims, Endpoint
  <2>8. Used("client")' \subseteq Used("client")
    BY <2>2 DEF Endpoint
  <2> QED
    BY <1>0, <2>1, <2>3, <2>5, <2>6, <2>7, <2>8, ClaimsKept
<1> QED
  BY <1>1, <1>2, <1>3, <1>4, <1>5, <1>6

-----------------------------------------------------------------------------
(* What an endpoint is told of its peer, by an ACK, a resume request or a  *)
(* response, the peer has received: numbers are sent after last_recv_seq   *)
(* reached them, and it never goes back.                                   *)

Known(e, n) == n <= recv[Peer(e)].last_recv_seq

Reported ==
  /\ \A e \in Endpoint : Known(e, replay[e].last_acked)
  /\ \A t \in Transport, e \in Endpoint : \A i \in 1 .. Len(wire[t][e]) :
       wire[t][e][i].type \in {"ack", "resume", "attach_ok"} => Known(e, wire[t][e][i].seq)
  /\ \A e \in Endpoint : \A i \in 1 .. Len(writer_cmd[e]) : Known(e, writer_cmd[e][i].resume_seq)
  /\ \A t \in Transport : Known("server", handler[t].seq)

LEMMA RecvGrows ==
  ASSUME Typed, [Next]_vars
  PROVE  \A e \in Endpoint : recv[e].last_recv_seq <= recv'[e].last_recv_seq
<1>0. /\ recv \in [Endpoint -> RecvSet]
      /\ \A e \in Endpoint : recv[e].last_recv_seq \in Nat
  BY DEF Typed, TypeOK, RecvSet
<1>1. CASE \A e \in Endpoint : recv'[e].last_recv_seq = recv[e].last_recv_seq
  BY <1>0, <1>1
<1>2. ASSUME NEW e \in Endpoint, NEW n \in Nat,
             recv' = [recv EXCEPT ![e] = NoteReceived(@, n)]
      PROVE  \A f \in Endpoint : recv[f].last_recv_seq <= recv'[f].last_recv_seq
  <2>1. recv[e] \in RecvSet
    BY <1>0
  <2>2. NoteReceived(recv[e], n).last_recv_seq
          = IF n <= recv[e].last_recv_seq THEN recv[e].last_recv_seq ELSE n
    BY <2>1, NoteReceivedType
  <2>3. recv'[e] = NoteReceived(recv[e], n) /\ \A f \in Endpoint : f # e => recv'[f] = recv[f]
    BY <1>0, <1>2
  <2> QED
    BY <1>0, <2>2, <2>3
<1>3. ASSUME NEW e \in Endpoint, WriterStep(e)
      PROVE  \A f \in Endpoint : recv'[f].last_recv_seq = recv[f].last_recv_seq
  <2>1. CASE WriterAck(e)
    BY <2>1, CalmWriter DEF Calm, RecvCalm
  <2>2. CASE ~WriterAck(e)
    BY <1>3, <2>2 DEF WriterStep, WriterApply, WriterResume, WriterLive, WriterStage, WriterClose,
                      WriterStop, WriterFail, endVars
  <2> QED
    BY <2>1, <2>2
<1>4. ASSUME NEW e \in Endpoint, ReaderStep(e)
      PROVE  \A f \in Endpoint : recv[f].last_recv_seq <= recv'[f].last_recv_seq
  <2>1. CASE ReadData(e)
    <3>1. Head(wire[reader[e].t][e]).seq \in Nat
      BY <2>1, ReadsType DEF ReadData
    <3>2. \/ recv' = recv
          \/ recv' = [recv EXCEPT ![e] = NoteReceived(@, Head(wire[reader[e].t][e]).seq)]
      BY <2>1 DEF ReadData
    <3> QED
      BY <1>1, <1>2, <3>1, <3>2
  <2>2. CASE ReaderAccept(e)
    <3>1. reader[e].frame.seq \in Nat
      BY DEF Typed, TypeOK, ReaderSet, FrameSet
    <3> QED
      BY <1>2, <2>2, <3>1 DEF ReaderAccept
  <2>3. CASE ~ReadData(e) /\ ~ReaderAccept(e)
    <3>1. UNCHANGED recv
      BY <1>4, <2>3 DEF ReaderStep, ReaderStart, ReadAck, ReadClose, ReaderDrained, ReaderFail,
                        endVars
    <3> QED
      BY <1>1, <3>1
  <2> QED
    BY <2>1, <2>2, <2>3
<1>5. CASE UNCHANGED vars
  BY <1>1, <1>5 DEF vars, endVars
<1>6. CASE \/ \E e \in Endpoint : Send(e) \/ Close(e) \/ CloseAgain(e) \/ CloseStep(e)
           \/ LoopStep \/ (\E t \in Transport : HandlerStep(t) \/ Break(t)) \/ ServerExpire
  <2>1. UNCHANGED recv
    BY <1>6
    DEF Send, Close, CloseAgain, CloseStep, CloseStopped, CloseTimeout, LoopStep, LoopDial,
        LoopQuit, LoopResponse, LoopFail, HandlerStep, ServerResume, ServerAttach, ServerRefuse,
        Break, ServerExpire, endVars
  <2> QED
    BY <1>1, <2>1
<1> QED
  BY <1>1, <1>3, <1>4, <1>5, <1>6 DEF Next

\* What happens to a replay buffer: it is left alone, it is told what the peer
\* has received, or it keeps the frame that takes the next number.
Untouched(e) ==
  replay'[e] = replay[e] /\ conn'[e].next_send_seq = conn[e].next_send_seq
Acknowledged(e) ==
  /\ conn'[e].next_send_seq = conn[e].next_send_seq
  /\ \E n \in Nat : Known(e, n) /\ replay'[e] = Ack(replay[e], n)
Numbers(e) ==
  /\ conn'[e].next_send_seq = conn[e].next_send_seq + 1
  /\ \E r \in RecordSet : /\ r.seq = conn[e].next_send_seq + 1
                          /\ replay'[e] = Keep(replay[e], r)

LEMMA CalmBuffer ==
  ASSUME ConnCalm, UNCHANGED replay
  PROVE  \A f \in Endpoint : Untouched(f)
  BY DEF ConnCalm, Untouched

LEMMA StagedBuffer ==
  ASSUME Typed, NEW e \in Endpoint, NEW msg \in 1 .. Len(Outgoing[e]), StageFrame(e, msg)
  PROVE  \A f \in Endpoint : Untouched(f) \/ Numbers(f)
<1> DEFINE seq == conn[e].next_send_seq + 1
           r == FrameRecord(seq, msg, Outgoing[e][msg])
<1>0. replay \in [Endpoint -> ReplaySet] /\ conn \in [Endpoint -> ConnSet]
  BY DEF Typed, TypeOK
<1>1. CASE Outcome(e, msg) = "kept"
  <2>1. /\ replay' = [replay EXCEPT ![e] = Keep(@, r)]
        /\ conn' = [conn EXCEPT ![e].next_send_seq = seq]
    BY <1>1 DEF StageFrame
  <2>2. r \in RecordSet /\ r.seq = seq
    <3>1. seq \in Nat /\ msg \in Message /\ Outgoing[e][msg] \in Nat
      <4>1. Outgoing[e] \in Seq(Nat)
        BY SessionAssumption
      <4>2. conn[e].next_send_seq \in Nat
        BY <1>0 DEF ConnSet
      <4> QED
        BY <4>1, <4>2, MessageType
    <3> QED
      BY <3>1 DEF FrameRecord, RecordSet
  <2> HIDE DEF r
  <2>3. /\ replay'[e] = Keep(replay[e], r) /\ conn'[e].next_send_seq = seq
        /\ \A f \in Endpoint : f # e => replay'[f] = replay[f] /\ conn'[f] = conn[f]
    BY <1>0, <2>1 DEF ConnSet
  <2>4. Numbers(e)
    BY <2>2, <2>3 DEF Numbers
  <2> QED
    BY <2>3, <2>4 DEF Untouched
<1>2. CASE Outcome(e, msg) # "kept"
  BY <1>2 DEF StageFrame, Untouched
<1> QED
  BY <1>1, <1>2

LEMMA BufferStep ==
  ASSUME Typed, Reported, Next
  PROVE  \A f \in Endpoint : Untouched(f) \/ Acknowledged(f) \/ Numbers(f)
<1>0. replay \in [Endpoint -> ReplaySet]
  BY DEF Typed, TypeOK
<1>1. ASSUME NEW e \in Endpoint, NEW n \in Nat, Known(e, n), ConnCalm,
             replay' = [replay EXCEPT ![e] = Ack(@, n)]
      PROVE  \A f \in Endpoint : Untouched(f) \/ Acknowledged(f)
  <2>1. replay'[e] = Ack(replay[e], n) /\ \A f \in Endpoint : f # e => replay'[f] = replay[f]
    BY <1>0, <1>1
  <2> QED
    BY <1>1, <2>1 DEF Untouched, Acknowledged, ConnCalm
<1>2. ASSUME NEW e \in Endpoint, WriterApply(e)
      PROVE  \A f \in Endpoint : Untouched(f) \/ Acknowledged(f)
  <2> DEFINE cmd == Head(writer_cmd[e])
             from == ResumeFrom(e, cmd.resume_seq)
  <2>1. ConnCalm
    BY <1>2, CalmWriter DEF Calm
  <2>2. /\ writer_cmd[e] # << >> /\ writer_cmd[e] \in Seq(CmdSet)
        /\ replay' = replay \/ replay' = [replay EXCEPT ![e] = Ack(@, from)]
    BY <1>2 DEF WriterApply, Typed, TypeOK
  <2>3. 1 \in 1 .. Len(writer_cmd[e]) /\ cmd = writer_cmd[e][1] /\ cmd \in CmdSet
    BY <2>2, TailFrames
  <2>4. /\ Known(e, cmd.resume_seq) /\ cmd.resume_seq \in Nat
        /\ recv[Peer(e)].last_recv_seq \in Nat /\ conn[e].next_send_seq \in Nat
    <3>1. cmd.resume_seq \in Nat
      BY <2>3 DEF CmdSet
    <3>2. recv[Peer(e)].last_recv_seq \in Nat /\ conn[e].next_send_seq \in Nat
      BY PeerType DEF Typed, TypeOK, RecvSet, ConnSet
    <3> QED
      BY <2>3, <3>1, <3>2 DEF Reported
  <2>5. from \in Nat /\ Known(e, from)
    BY <2>4 DEF ResumeFrom, Known
  <2> HIDE DEF from
  <2> QED
    BY <1>1, <2>1, <2>2, <2>5, CalmBuffer
<1>3. ASSUME NEW e \in Endpoint, WriterStep(e)
      PROVE  \A f \in Endpoint : Untouched(f) \/ Acknowledged(f) \/ Numbers(f)
  <2>1. CASE WriterLive(e) \/ WriterStage(e)
    BY <2>1, StagedBuffer DEF WriterLive, WriterStage
  <2>2. CASE WriterApply(e)
    BY <1>2, <2>2
  <2>3. CASE WriterAck(e) \/ WriterResume(e) \/ WriterClose(e) \/ WriterStop(e) \/ WriterFail(e)
    <3>1. UNCHANGED replay
      BY <2>3 DEF WriterAck, WriterResume, WriterClose, WriterStop, WriterFail, endVars
    <3> QED
      BY <2>3, <3>1, CalmWriter, CalmBuffer DEF Calm
  <2> QED
    BY <1>3, <2>1, <2>2, <2>3 DEF WriterStep
<1>4. ASSUME NEW e \in Endpoint, ReaderStep(e)
      PROVE  \A f \in Endpoint : Untouched(f) \/ Acknowledged(f)
  <2>1. CASE ReadAck(e)
    <3> DEFINE q == wire[reader[e].t][e]
    <3>1. /\ reader[e].t \in Transport /\ q \in Seq(FrameSet) /\ q # << >>
          /\ Head(q).seq \in Nat /\ Head(q).type = "ack"
      BY <2>1, ReadsType DEF ReadAck
    <3>2. 1 \in 1 .. Len(q) /\ Head(q) = q[1]
      BY <3>1, TailFrames
    <3>3. Known(e, Head(q).seq)
      BY <3>1, <3>2 DEF Reported
    <3>4. ConnCalm
      BY <2>1, CalmReader DEF Calm
    <3> QED
      BY <1>1, <2>1, <3>1, <3>3, <3>4 DEF ReadAck
  <2>2. CASE ~ReadAck(e)
    <3>1. UNCHANGED replay
      BY <1>4, <2>2 DEF ReaderStep, ReaderStart, ReadData, ReaderAccept, ReadClose, ReaderDrained,
                        ReaderFail, endVars
    <3>2. ConnCalm
      <4>1. CASE ReadClose(e) \/ ReaderDrained(e) \/ ReaderFail(e)
        BY <4>1, CalmReader DEF Calm
      <4>2. CASE ReaderStart(e) \/ ReadData(e) \/ ReaderAccept(e)
        <5>1. UNCHANGED conn \/ MarkClosed(e)
          BY <4>2 DEF ReaderStart, ReadData, ReaderAccept, endVars
        <5> QED
          BY <5>1, MarkClosedCalm DEF ConnCalm
      <4> QED
        BY <1>4, <2>2, <4>1, <4>2 DEF ReaderStep
    <3> QED
      BY <3>1, <3>2, CalmBuffer
  <2> QED
    BY <2>1, <2>2
<1>5. CASE \/ \E e \in Endpoint : Send(e) \/ Close(e) \/ CloseAgain(e) \/ CloseStep(e)
           \/ LoopStep \/ (\E t \in Transport : HandlerStep(t) \/ Break(t)) \/ ServerExpire
  <2>1. UNCHANGED replay
    BY <1>5
    DEF Send, Close, CloseAgain, CloseStep, CloseStopped, CloseTimeout, LoopStep, LoopDial,
        LoopQuit, LoopResponse, LoopFail, HandlerStep, ServerResume, ServerAttach, ServerRefuse,
        Break, ServerExpire, endVars
  <2>2. ConnCalm
    BY <1>5, CalmApplication, CalmResume, CalmFailure DEF Calm, CloseStep
  <2> QED
    BY <2>1, <2>2, CalmBuffer
<1> QED
  BY <1>3, <1>4, <1>5 DEF Next

LEMMA ReportedInit == Init => Reported
<1> SUFFICES ASSUME Init PROVE Reported
  OBVIOUS
<1>1. /\ "client" \in Endpoint /\ "server" \in Endpoint /\ "client" # "server"
      /\ \A e \in Endpoint : Peer(e) \in Endpoint
      /\ \A e \in Endpoint : recv[e].last_recv_seq = 0
      /\ \A e \in Endpoint : replay[e].last_acked = 0
      /\ \A t \in Transport, e \in Endpoint : wire[t][e] = << >>
      /\ \A t \in Transport : handler[t].seq = 0
      /\ writer_cmd["server"] = << >> /\ writer_cmd["client"] = << AttachCmd(1, 1, 0) >>
  BY PeerType DEF Init, Endpoint, EmptyReplay
<1>2. AttachCmd(1, 1, 0).resume_seq = 0
  BY DEF AttachCmd
<1>3. \A e \in Endpoint : \A i \in 1 .. Len(writer_cmd[e]) : writer_cmd[e][i].resume_seq = 0
  <2>1. \A i \in 1 .. Len(writer_cmd["client"]) : writer_cmd["client"][i].resume_seq = 0
    BY <1>1, <1>2
  <2>2. \A i \in 1 .. Len(writer_cmd["server"]) : writer_cmd["server"][i].resume_seq = 0
    BY <1>1
  <2> QED
    BY <2>1, <2>2 DEF Endpoint
<1>4. \A e \in Endpoint : Known(e, 0)
  BY <1>1 DEF Known
<1> QED
  BY <1>1, <1>3, <1>4 DEF Reported

KnownNext(e, n) == n <= recv'[Peer(e)].last_recv_seq

\* What was known stays known.
LEMMA KnownGrows ==
  ASSUME Typed, Typed', [Next]_vars, NEW e \in Endpoint, NEW n \in Nat, Known(e, n)
  PROVE  KnownNext(e, n)
<1>1. /\ Peer(e) \in Endpoint
      /\ recv[Peer(e)].last_recv_seq \in Nat /\ recv'[Peer(e)].last_recv_seq \in Nat
  BY PeerType DEF Typed, TypeOK, RecvSet
<1>2. recv[Peer(e)].last_recv_seq <= recv'[Peer(e)].last_recv_seq
  BY <1>1, RecvGrows
<1> QED
  BY <1>1, <1>2 DEF Known, KnownNext

Tells(x) == x.type \in {"ack", "resume", "attach_ok"}

\* Frames that were on a transport before, or that a writer adds.
LEMMA WireReported ==
  ASSUME Typed, Typed', Reported, Next, NEW e \in Endpoint, NEW x \in FrameSet, Tells(x),
         \/ \E t \in Transport : \E j \in 1 .. Len(wire[t][e]) : x = wire[t][e][j]
         \/ x.seq = recv[Peer(e)].last_recv_seq
  PROVE  KnownNext(e, x.seq)
<1>1. x.seq \in Nat
  BY DEF FrameSet
<1>2. Known(e, x.seq)
  <2>1. recv[Peer(e)].last_recv_seq \in Nat
    BY PeerType DEF Typed, TypeOK, RecvSet
  <2> QED
    BY <2>1 DEF Reported, Known, Tells
<1> QED
  BY <1>1, <1>2, KnownGrows

LEMMA ReportedWire ==
  ASSUME Typed, Typed', Reported, Next
  PROVE  \A t \in Transport, e \in Endpoint : \A i \in 1 .. Len(wire'[t][e]) :
           Tells(wire'[t][e][i]) => KnownNext(e, wire'[t][e][i].seq)
<1> SUFFICES ASSUME NEW t \in Transport, NEW e \in Endpoint, NEW i \in 1 .. Len(wire'[t][e]),
                    Tells(wire'[t][e][i])
             PROVE  KnownNext(e, wire'[t][e][i].seq)
  OBVIOUS
<1> DEFINE x == wire'[t][e][i]
<1>0. /\ wire \in [Transport -> [Endpoint -> Seq(FrameSet)]]
      /\ wire'[t][e] \in Seq(FrameSet) /\ x \in FrameSet
      /\ "client" \in Endpoint /\ "server" \in Endpoint /\ "client" # "server"
      /\ Peer("client") = "server" /\ Peer("server") = "client"
      /\ recv["client"].last_recv_seq \in Nat /\ recv["server"].last_recv_seq \in Nat
  <2>1. wire \in [Transport -> [Endpoint -> Seq(FrameSet)]]
    BY DEF Typed, TypeOK
  <2>2. wire' \in [Transport -> [Endpoint -> Seq(FrameSet)]]
    BY DEF Typed, TypeOK
  <2>3. wire'[t][e] \in Seq(FrameSet)
    BY <2>2
  <2>4. /\ "client" \in Endpoint /\ "server" \in Endpoint /\ "client" # "server"
        /\ Peer("client") = "server" /\ Peer("server") = "client"
    BY DEF Endpoint, Peer
  <2>5. recv["client"].last_recv_seq \in Nat /\ recv["server"].last_recv_seq \in Nat
    BY <2>4 DEF Typed, TypeOK, RecvSet
  <2> QED
    BY <2>1, <2>3, <2>4, <2>5
<1>1. CASE LoopDial
  <2> DEFINE u == dialed + 1
             y == Frame("resume", recv["client"].last_recv_seq, None)
  <2>1. u \in Transport /\ wire' = [wire EXCEPT ![u]["server"] = << y >>]
    BY <1>1 DEF LoopDial
  <2>2. y.seq = recv["client"].last_recv_seq
    BY DEF Frame
  <2> HIDE DEF y, u
  <2>3. wire'[t][e] = wire[t][e] \/ (e = "server" /\ wire'[t][e] = << y >>)
    BY <1>0, <2>1
  <2>4. CASE wire'[t][e] = wire[t][e]
    BY <1>0, <2>4, WireReported
  <2>5. CASE e = "server" /\ wire'[t][e] = << y >>
    <3>1. x = y
      BY <2>5
    <3> QED
      BY <1>0, <2>2, <2>5, <3>1, WireReported
  <2> QED
    BY <2>3, <2>4, <2>5
<1>2. ASSUME NEW u \in Transport, ServerResume(u)
      PROVE  KnownNext(e, x.seq)
  <2> DEFINE tail == Tail(wire[u]["server"])
             rest == [wire EXCEPT ![u]["server"] = tail]
             y == IF RefusesResume THEN Frame("reject", 0, None)
                  ELSE Frame("attach_ok", recv["server"].last_recv_seq, None)
  <2>1. /\ wire' = rest \/ wire' = [rest EXCEPT ![u]["client"] = Append(@, y)]
        /\ wire[u]["server"] # << >>
    BY <1>2 DEF ServerResume
  <2>2. /\ y.type = "reject" \/ y.seq = recv["server"].last_recv_seq
        /\ y \in FrameSet
    <3>1. Frame("reject", 0, None).type = "reject" /\ Frame("reject", 0, None) \in FrameSet
      BY FrameTypes DEF Frame, FrameType
    <3>2. /\ Frame("attach_ok", recv["server"].last_recv_seq, None).seq = recv["server"].last_recv_seq
          /\ Frame("attach_ok", recv["server"].last_recv_seq, None) \in FrameSet
      BY <1>0, FrameTypes DEF Frame, FrameType
    <3> QED
      BY <3>1, <3>2
  <2>3. \A k \in 1 .. Len(tail) : \E j \in 1 .. Len(wire[u]["server"]) : tail[k] = wire[u]["server"][j]
    BY <1>0, <2>1, TailFrames
  <2> HIDE DEF tail, y
  <2>4. \/ wire'[t][e] = wire[t][e]
        \/ t = u /\ e = "server" /\ wire'[t][e] = tail
        \/ t = u /\ e = "client" /\ wire'[t][e] = Append(wire[t][e], y)
    BY <1>0, <2>1
  <2>5. CASE wire'[t][e] = wire[t][e] \/ (t = u /\ e = "server" /\ wire'[t][e] = tail)
    <3>1. \E j \in 1 .. Len(wire[t][e]) : x = wire[t][e][j]
      BY <2>3, <2>5
    <3> QED
      BY <1>0, <3>1, WireReported
  <2>6. CASE e = "client" /\ wire'[t][e] = Append(wire[t][e], y)
    <3>1. wire[t][e] \in Seq(FrameSet)
      BY <1>0
    <3>2. x = y \/ \E j \in 1 .. Len(wire[t][e]) : x = wire[t][e][j]
      BY <2>2, <2>6, <3>1
    <3>3. x = y => x.seq = recv[Peer(e)].last_recv_seq
      BY <1>0, <2>2, <2>6 DEF Tells
    <3> QED
      BY <1>0, <3>2, <3>3, WireReported
  <2> QED
    BY <2>4, <2>5, <2>6
<1>3. CASE ~LoopDial /\ \A u \in Transport : ~ServerResume(u)
  <2>1. WireFrom
    BY <1>3, WireFromStep
  <2>2. \/ \E j \in 1 .. Len(wire[t][e]) : x = wire[t][e][j]
        \/ SentBy(Peer(e), x)
    BY <2>1 DEF WireFrom
  <2>3. SentBy(Peer(e), x) => x.seq = recv[Peer(e)].last_recv_seq
    BY DEF SentBy, Tells
  <2> QED
    BY <1>0, <2>2, <2>3, WireReported
<1> QED
  BY <1>1, <1>2, <1>3

LEMMA ReportedStep == Typed /\ Claims /\ Reported /\ [Next]_vars => Reported'
<1> SUFFICES ASSUME Typed, Claims, Reported, [Next]_vars PROVE Reported'
  OBVIOUS
<1>0. /\ Typed'
      /\ \A e \in Endpoint : replay[e] \in ReplaySet /\ replay[e].last_acked \in Nat
      /\ \A e \in Endpoint : writer_cmd[e] \in Seq(CmdSet)
      /\ handler \in [Transport -> HandlerSet]
      /\ wire \in [Transport -> [Endpoint -> Seq(FrameSet)]]
      /\ "client" \in Endpoint /\ "server" \in Endpoint
  BY TypedStep DEF Typed, TypeOK, ReplaySet, Endpoint
<1>1. CASE UNCHANGED vars
  BY <1>1 DEF vars, endVars, taskVars, netVars, Reported, Known
<1>2. CASE Next
  <2>0. ASSUME NEW e \in Endpoint, NEW n \in Nat, Known(e, n)
        PROVE  KnownNext(e, n)
    BY <1>0, <1>2, <2>0, KnownGrows
  <2>1. ASSUME NEW e \in Endpoint
        PROVE  KnownNext(e, replay'[e].last_acked)
    <3>1. Known(e, replay[e].last_acked)
      BY DEF Reported
    <3>2. CASE Untouched(e)
      BY <1>0, <2>0, <3>1, <3>2 DEF Untouched
    <3>3. CASE Numbers(e)
      <4>1. PICK r : replay'[e] = Keep(replay[e], r)
        BY <3>3 DEF Numbers
      <4>2. replay'[e].last_acked = replay[e].last_acked
        BY <1>0, <4>1 DEF Keep, ReplaySet
      <4> QED
        BY <1>0, <2>0, <3>1, <4>2
    <3>4. CASE Acknowledged(e)
      <4>1. PICK n \in Nat : Known(e, n) /\ replay'[e] = Ack(replay[e], n)
        BY <3>4 DEF Acknowledged
      <4>2. replay'[e].last_acked = replay[e].last_acked \/ replay'[e].last_acked = n
        BY <4>1 DEF Ack
      <4> QED
        BY <1>0, <2>0, <3>1, <4>1, <4>2
    <3> QED
      BY <1>2, <3>2, <3>3, <3>4, BufferStep
  <2>2. ASSUME NEW e \in Endpoint, NEW i \in 1 .. Len(writer_cmd'[e])
        PROVE  KnownNext(e, writer_cmd'[e][i].resume_seq)
    <3>1. ASSUME NEW j \in 1 .. Len(writer_cmd[e])
          PROVE  KnownNext(e, writer_cmd[e][j].resume_seq)
      <4>1. writer_cmd[e][j] \in CmdSet
        BY <1>0
      <4>2. writer_cmd[e][j].resume_seq \in Nat
        BY <4>1 DEF CmdSet
      <4> QED
        BY <2>0, <4>2 DEF Reported
    <3>2. CASE LoopResponse
      <4> DEFINE q == wire[loop.t]["client"]
      <4>1. /\ loop.t \in Transport
            /\ \/ /\ e = "client" /\ Head(q).type = "attach_ok"
                  /\ writer_cmd'[e][i].resume_seq = Head(q).seq
               \/ \E j \in 1 .. Len(writer_cmd[e]) : writer_cmd'[e][i] = writer_cmd[e][j]
        BY <3>2, ResponseUses
      <4>2. q # << >> /\ q \in Seq(FrameSet)
        BY <1>0, <3>2, <4>1 DEF LoopResponse
      <4>3. 1 \in 1 .. Len(q) /\ Head(q) = q[1] /\ q[1] \in FrameSet
        BY <4>2, TailFrames
      <4>4. Head(q).seq \in Nat
        BY <4>3 DEF FrameSet
      <4>5. Head(q).type = "attach_ok" => Known("client", Head(q).seq)
        BY <1>0, <4>1, <4>3 DEF Reported
      <4> QED
        BY <2>0, <3>1, <4>1, <4>4, <4>5
    <3>3. ASSUME NEW t \in Transport, ServerAttach(t)
          PROVE  KnownNext(e, writer_cmd'[e][i].resume_seq)
      <4>1. \/ e = "server" /\ writer_cmd'[e][i].resume_seq = handler[t].seq
            \/ \E j \in 1 .. Len(writer_cmd[e]) : writer_cmd'[e][i] = writer_cmd[e][j]
        BY <3>3, ServerAttachUses
      <4>2. handler[t].seq \in Nat /\ Known("server", handler[t].seq)
        BY <1>0 DEF Reported, HandlerSet
      <4> QED
        BY <2>0, <3>1, <4>1, <4>2
    <3>4. CASE ~LoopResponse /\ \A t \in Transport : ~ServerAttach(t)
      <4>1. Uses(e)
        BY <1>2, <3>4, UsesStep
      <4>2. \/ writer_cmd'[e][i].resume_seq = 0
            \/ \E j \in 1 .. Len(writer_cmd[e]) : writer_cmd'[e][i] = writer_cmd[e][j]
        BY <4>1 DEF Uses
      <4>3. KnownNext(e, 0)
        <5>1. recv'[Peer(e)].last_recv_seq \in Nat
          BY <1>0, PeerType DEF Typed, TypeOK, RecvSet
        <5> QED
          BY <5>1 DEF KnownNext
      <4> QED
        BY <3>1, <4>2, <4>3
    <3> QED
      BY <3>2, <3>3, <3>4
  <2>3. ASSUME NEW t \in Transport
        PROVE  KnownNext("server", handler'[t].seq)
    <3>1. handler[t].seq \in Nat /\ KnownNext("server", handler[t].seq)
      BY <1>0, <2>0 DEF Reported, HandlerSet
    <3>2. CASE LoopDial
      <4>1. handler' = [handler EXCEPT ![dialed + 1].pc = "request"]
        BY <3>2 DEF LoopDial
      <4>2. handler'[t].seq = handler[t].seq
        BY <1>0, <4>1 DEF HandlerSet
      <4> QED
        BY <3>1, <4>2
    <3>3. ASSUME NEW u \in Transport, ServerResume(u)
          PROVE  KnownNext("server", handler'[t].seq)
      <4> DEFINE q == wire[u]["server"]
                 h == [pc |-> IF RefusesResume THEN "none" ELSE "attach", seq |-> Head(q).seq]
      <4>1. handler[u].pc = "request" /\ q # << >> /\ handler' = [handler EXCEPT ![u] = h]
        BY <3>3 DEF ServerResume
      <4>2. 1 \in 1 .. Len(q) /\ Head(q) = q[1] /\ q[1] \in FrameSet
        BY <1>0, <4>1, TailFrames
      <4>3. Head(q).type = "resume" /\ Head(q).seq \in Nat
        BY <4>1, <4>2 DEF Claims, FrameSet
      <4>4. KnownNext("server", Head(q).seq)
        BY <1>0, <2>0, <4>2, <4>3 DEF Reported
      <4>5. h.seq = Head(q).seq
        OBVIOUS
      <4> HIDE DEF h, q
      <4>6. handler'[t] = handler[t] \/ handler'[t] = h
        BY <1>0, <4>1
      <4> QED
        BY <3>1, <4>4, <4>5, <4>6
    <3>4. CASE ~LoopDial /\ \A u \in Transport : ~ServerResume(u)
      <4>1. handler'[t] = handler[t] \/ handler'[t] = [pc |-> "none", seq |-> 0]
        BY <1>2, <3>4, HandlerMoves
      <4>2. KnownNext("server", 0)
        <5>1. recv'[Peer("server")].last_recv_seq \in Nat
          BY <1>0, PeerType DEF Typed, TypeOK, RecvSet
        <5> QED
          BY <5>1 DEF KnownNext
      <4> QED
        BY <3>1, <4>1, <4>2
    <3> QED
      BY <3>2, <3>3, <3>4
  <2>4. \A t \in Transport, e \in Endpoint : \A i \in 1 .. Len(wire'[t][e]) :
          wire'[t][e][i].type \in {"ack", "resume", "attach_ok"} => KnownNext(e, wire'[t][e][i].seq)
    BY <1>0, <1>2, ReportedWire DEF Tells
  <2> QED
    BY <2>1, <2>2, <2>3, <2>4 DEF Reported, Known, KnownNext
<1> QED
  BY <1>1, <1>2

-----------------------------------------------------------------------------
(* What the replay buffer keeps: the numbers above last_acked, without a   *)
(* gap, up to the last one given out.                                      *)

Kept ==
  \A e \in Endpoint :
    /\ replay[e].last_acked + Len(replay[e].replay_queue) = conn[e].next_send_seq
    /\ \A i \in 1 .. Len(replay[e].replay_queue) :
         replay[e].replay_queue[i].seq = replay[e].last_acked + i

\* A peer has received only what was numbered.
LEMMA KnownSent ==
  ASSUME Typed, Delivery, NEW e \in Endpoint, NEW n \in Nat, Known(e, n)
  PROVE  n <= conn[e].next_send_seq
<1>1. Peer(e) \in Endpoint /\ Peer(Peer(e)) = e
  BY PeerType
<1>2. /\ recv[Peer(e)].last_recv_seq = Len(delivered[Peer(e)])
      /\ Len(delivered[Peer(e)]) <= Len(accepted[e])
      /\ conn[e].next_send_seq = Len(accepted[e])
  BY <1>1 DEF Delivery, Counted, Authentic, DeliveredInOrder, IsPrefixOf
<1>3. Len(delivered[Peer(e)]) \in Nat /\ Len(accepted[e]) \in Nat
  <2>1. delivered[Peer(e)] \in Seq(Message \cup {None}) /\ accepted[e] \in Seq(Message)
    BY <1>1 DEF Typed, TypeOK
  <2> QED
    BY <2>1
<1> QED
  BY <1>2, <1>3 DEF Known

LEMMA KeptStep ==
  ASSUME Typed, Delivery, Reported, Kept, [Next]_vars
  PROVE  Kept'
<1>1. CASE UNCHANGED vars
  BY <1>1 DEF vars, endVars, Kept
<1>2. CASE Next
  <2> SUFFICES ASSUME NEW e \in Endpoint
               PROVE  /\ replay'[e].last_acked + Len(replay'[e].replay_queue) = conn'[e].next_send_seq
                      /\ \A i \in 1 .. Len(replay'[e].replay_queue) :
                           replay'[e].replay_queue[i].seq = replay'[e].last_acked + i
    BY DEF Kept
  <2> DEFINE b == replay[e]
             q == b.replay_queue
  <2>0. /\ b \in ReplaySet /\ q \in Seq(RecordSet) /\ b.last_acked \in Nat /\ Len(q) \in Nat
        /\ b.last_acked + Len(q) = conn[e].next_send_seq /\ conn[e].next_send_seq \in Nat
        /\ \A i \in 1 .. Len(q) : q[i].seq = b.last_acked + i
    BY DEF Typed, TypeOK, ReplaySet, ConnSet, Kept
  <2>1. CASE Untouched(e)
    BY <2>0, <2>1 DEF Untouched
  <2>2. CASE Acknowledged(e)
    <3>1. PICK n \in Nat : Known(e, n) /\ replay'[e] = Ack(b, n)
      BY <2>2 DEF Acknowledged
    <3>2. n <= b.last_acked + Len(q)
      BY <2>0, <3>1, KnownSent
    <3>3. ReplaySet = Buffer(RecordSet)
      BY DEF ReplaySet, Buffer
    <3>4. LET new == Ack(b, n)
          IN  /\ new.last_acked + Len(new.replay_queue) = b.last_acked + Len(q)
              /\ \A i \in 1 .. Len(new.replay_queue) : new.replay_queue[i].seq = new.last_acked + i
      BY <2>0, <3>2, <3>3, AckContiguous
    <3> QED
      BY <2>0, <2>2, <3>1, <3>4 DEF Acknowledged
  <2>3. CASE Numbers(e)
    <3>1. PICK r \in RecordSet : /\ r.seq = conn[e].next_send_seq + 1
                                 /\ replay'[e] = Keep(b, r)
      BY <2>3 DEF Numbers
    <3>2. replay'[e].last_acked = b.last_acked /\ replay'[e].replay_queue = Append(q, r)
      BY <2>0, <3>1 DEF Keep, ReplaySet
    <3>3. /\ Len(Append(q, r)) = Len(q) + 1
          /\ \A i \in 1 .. Len(Append(q, r)) : Append(q, r)[i] = IF i = Len(q) + 1 THEN r ELSE q[i]
      BY <2>0
    <3>4. conn'[e].next_send_seq = conn[e].next_send_seq + 1
      BY <2>3 DEF Numbers
    <3> DEFINE a == b.last_acked
               n == conn[e].next_send_seq
               all == Append(q, r)
    <3>5. a \in Nat /\ Len(q) \in Nat /\ a + Len(q) = n /\ \A i \in 1 .. Len(q) : q[i].seq = a + i
      BY <2>0
    <3>6. r.seq = n + 1
      BY <3>1
    <3> HIDE DEF a, n, q, all
    <3>7. ASSUME NEW i \in 1 .. Len(all)
          PROVE  all[i].seq = a + i
      <4>1. Len(all) = Len(q) + 1 /\ all[i] = IF i = Len(q) + 1 THEN r ELSE q[i]
        BY <3>3 DEF all
      <4>2. CASE i = Len(q) + 1
        BY <3>5, <3>6, <4>1, <4>2
      <4>3. CASE i # Len(q) + 1
        <5>1. i \in 1 .. Len(q)
          BY <3>5, <4>1, <4>3
        <5> QED
          BY <3>5, <4>1, <4>3, <5>1
      <4> QED
        BY <4>2, <4>3
    <3>8. a + Len(all) = n + 1
      BY <3>3, <3>5 DEF all
    <3>9. /\ replay'[e].last_acked = a /\ replay'[e].replay_queue = all
          /\ conn'[e].next_send_seq = n + 1
      BY <3>2, <3>4 DEF a, n, q, all
    <3> QED
      BY <3>7, <3>8, <3>9
  <2> QED
    BY <1>2, <2>1, <2>2, <2>3, BufferStep
<1> QED
  BY <1>1, <1>2

LEMMA KeptInit == Init => Kept
  BY DEF Init, Kept, EmptyReplay

\* A frame is freed only once the peer has it: whatever ACKs, resume requests
\* and responses are delayed, lost with a transport or applied late, each frame
\* that the peer has not received is in the replay buffer for the next resume
\* (ReplayBuffer::ack, prepare_resume, note_received).
THEOREM SessionFreesNothingEarly == Spec => []NothingFreedEarly
<1>1. Typed /\ Delivery /\ Reported /\ Kept => NothingFreedEarly
  <2> SUFFICES ASSUME Typed, Reported, Kept, NEW e \in Endpoint,
                      NEW seq \in recv[Peer(e)].last_recv_seq + 1 .. conn[e].next_send_seq
               PROVE  \E i \in 1 .. Len(replay[e].replay_queue) :
                        replay[e].replay_queue[i].seq = seq
    BY DEF NothingFreedEarly
  <2> DEFINE q == replay[e].replay_queue
             a == replay[e].last_acked
             n == recv[Peer(e)].last_recv_seq
             m == conn[e].next_send_seq
  <2>1. /\ a \in Nat /\ q \in Seq(RecordSet) /\ Len(q) \in Nat
        /\ n \in Nat /\ m \in Nat /\ seq \in n + 1 .. m
    <3>1. Peer(e) \in Endpoint
      BY PeerType
    <3>2. a \in Nat /\ q \in Seq(RecordSet)
      BY DEF Typed, TypeOK, ReplaySet
    <3>3. n \in Nat /\ m \in Nat
      BY <3>1 DEF Typed, TypeOK, RecvSet, ConnSet
    <3> QED
      BY <3>2, <3>3
  <2>2. a <= n
    BY DEF Reported, Known
  <2>3. a + Len(q) = m /\ \A i \in 1 .. Len(q) : q[i].seq = a + i
    BY DEF Kept
  <2> HIDE DEF q, a, n, m
  <2>4. seq - a \in 1 .. Len(q) /\ a + (seq - a) = seq
    BY <2>1, <2>2, <2>3
  <2>5. \E i \in 1 .. Len(q) : q[i].seq = seq
    BY <2>3, <2>4
  <2> QED
    BY <2>5 DEF q
<1> QED
  BY <1>1, TypedInit, TypedStep, DeliveryInit, DeliveryStep, ClaimsInit, ClaimsStep, ReportedInit,
     ReportedStep, KeptInit, KeptStep, PTL DEF Spec

-----------------------------------------------------------------------------
(* No sequence gap.  A transport's frames continue one another, and the    *)
(* first of them what its reader has; the writer's next frame continues    *)
(* the last one it wrote, or the peer has acknowledged all in between.     *)

\* Each data frame of q follows what the reader has, h, or an earlier one.
Continues(q, h) ==
  \A i \in 1 .. Len(q) : q[i].type = "data" =>
    \/ q[i].seq <= h + 1
    \/ \E j \in 1 .. Len(q) : j < i /\ q[j].type = "data" /\ q[i].seq <= q[j].seq + 1

\* The reader has n, or will have it after the frames of q.
Reaches(q, h, n) ==
  n <= h \/ \E j \in 1 .. Len(q) : q[j].type = "data" /\ n <= q[j].seq

LEMMA ContinuesMore ==
  ASSUME NEW q \in Seq(FrameSet), NEW h \in Nat, NEW k \in Nat, h <= k
  PROVE  /\ Continues(q, h) => Continues(q, k)
         /\ \A n \in Nat : Reaches(q, h, n) => Reaches(q, k, n)
<1>1. \A i \in 1 .. Len(q) : q[i].seq \in Nat
  <2>1. \A i \in 1 .. Len(q) : q[i] \in FrameSet
    OBVIOUS
  <2> QED
    BY <2>1 DEF FrameSet
<1>2. ASSUME Continues(q, h) PROVE Continues(q, k)
  <2> SUFFICES ASSUME NEW i \in 1 .. Len(q), q[i].type = "data", ~(q[i].seq <= k + 1)
               PROVE  \E j \in 1 .. Len(q) : j < i /\ q[j].type = "data" /\ q[i].seq <= q[j].seq + 1
    BY DEF Continues
  <2>1. ~(q[i].seq <= h + 1)
    BY <1>1
  <2> QED
    BY <1>2, <2>1 DEF Continues
<1>3. ASSUME NEW n \in Nat, Reaches(q, h, n) PROVE Reaches(q, k, n)
  BY <1>3 DEF Reaches
<1> QED
  BY <1>2, <1>3

LEMMA ContinuesTail ==
  ASSUME NEW q \in Seq(FrameSet), q # << >>, NEW h \in Nat, Continues(q, h),
         Head(q).type = "data" => Head(q).seq <= h
  PROVE  /\ Continues(Tail(q), h)
         /\ \A n \in Nat : Reaches(q, h, n) => Reaches(Tail(q), h, n)
<1> DEFINE r == Tail(q)
<1>1. /\ r \in Seq(FrameSet) /\ Len(r) = Len(q) - 1 /\ Len(q) \in Nat /\ Len(q) >= 1
      /\ \A i \in 1 .. Len(r) : r[i] = q[i + 1]
      /\ Head(q) = q[1]
  BY HeadTailProperties
<1>2. \A i \in 1 .. Len(q) : q[i].seq \in Nat
  <2>1. \A i \in 1 .. Len(q) : q[i] \in FrameSet
    OBVIOUS
  <2> QED
    BY <2>1 DEF FrameSet
<1>3. q[1].type = "data" => q[1].seq <= h
  BY <1>1
<1> HIDE DEF r
<1>4. ASSUME NEW i \in 1 .. Len(r), r[i].type = "data"
      PROVE  \/ r[i].seq <= h + 1
             \/ \E j \in 1 .. Len(r) : j < i /\ r[j].type = "data" /\ r[i].seq <= r[j].seq + 1
  <2>1. i + 1 \in 1 .. Len(q) /\ r[i] = q[i + 1] /\ q[i + 1].type = "data" /\ q[i + 1].seq \in Nat
    BY <1>1, <1>2, <1>4
  <2>2. CASE q[i + 1].seq <= h + 1
    BY <2>1, <2>2
  <2>3. ASSUME NEW j \in 1 .. Len(q), j < i + 1, q[j].type = "data", q[i + 1].seq <= q[j].seq + 1
        PROVE  \/ r[i].seq <= h + 1
               \/ \E l \in 1 .. Len(r) : l < i /\ r[l].type = "data" /\ r[i].seq <= r[l].seq + 1
    <3>1. CASE j = 1
      <4>1. q[1].seq <= h /\ q[i + 1].seq <= q[1].seq + 1 /\ q[1].seq \in Nat
        BY <1>2, <1>3, <2>3, <3>1
      <4> QED
        BY <2>1, <4>1
    <3>2. CASE j # 1
      <4>1. j - 1 \in 1 .. Len(r) /\ j - 1 < i /\ (j - 1) + 1 = j
        BY <1>1, <2>3, <3>2
      <4>2. r[j - 1] = q[j]
        BY <1>1, <4>1
      <4> QED
        BY <2>1, <2>3, <4>1, <4>2
    <3> QED
      BY <3>1, <3>2
  <2> QED
    BY <2>1, <2>2, <2>3 DEF Continues
<1>5. ASSUME NEW n \in Nat, Reaches(q, h, n)
      PROVE  Reaches(r, h, n)
  <2>1. CASE n <= h
    BY <2>1 DEF Reaches
  <2>2. ASSUME NEW j \in 1 .. Len(q), q[j].type = "data", n <= q[j].seq
        PROVE  Reaches(r, h, n)
    <3>1. CASE j = 1
      <4>1. q[1].seq <= h /\ n <= q[1].seq /\ q[1].seq \in Nat
        BY <1>2, <1>3, <2>2, <3>1
      <4> QED
        BY <4>1 DEF Reaches
    <3>2. CASE j # 1
      <4>1. j - 1 \in 1 .. Len(r) /\ (j - 1) + 1 = j
        BY <1>1, <2>2, <3>2
      <4>2. r[j - 1] = q[j]
        BY <1>1, <4>1
      <4> QED
        BY <2>2, <4>1, <4>2 DEF Reaches
    <3> QED
      BY <3>1, <3>2
  <2> QED
    BY <1>5, <2>1, <2>2 DEF Reaches
<1> QED
  BY <1>4, <1>5 DEF Continues, r

LEMMA ContinuesAppend ==
  ASSUME NEW q \in Seq(FrameSet), NEW h \in Nat, NEW x \in FrameSet, Continues(q, h),
         x.type = "data" =>
           \/ x.seq <= h + 1
           \/ \E j \in 1 .. Len(q) : q[j].type = "data" /\ x.seq <= q[j].seq + 1
  PROVE  /\ Continues(Append(q, x), h)
         /\ \A n \in Nat : Reaches(q, h, n) => Reaches(Append(q, x), h, n)
         /\ x.type = "data" => Reaches(Append(q, x), h, x.seq)
<1> DEFINE r == Append(q, x)
<1>1. /\ r \in Seq(FrameSet) /\ Len(r) = Len(q) + 1 /\ Len(q) \in Nat
      /\ \A i \in 1 .. Len(q) : r[i] = q[i]
      /\ r[Len(q) + 1] = x
  OBVIOUS
<1>2. x.seq \in Nat
  BY DEF FrameSet
<1> HIDE DEF r
<1>3. ASSUME NEW i \in 1 .. Len(r), r[i].type = "data"
      PROVE  \/ r[i].seq <= h + 1
             \/ \E j \in 1 .. Len(r) : j < i /\ r[j].type = "data" /\ r[i].seq <= r[j].seq + 1
  <2>1. CASE i = Len(q) + 1
    <3>1. r[i] = x /\ \A j \in 1 .. Len(q) : j < i /\ j \in 1 .. Len(r) /\ r[j] = q[j]
      BY <1>1, <2>1
    <3> QED
      BY <1>3, <3>1
  <2>2. CASE i # Len(q) + 1
    <3>1. i \in 1 .. Len(q) /\ r[i] = q[i]
      BY <1>1, <2>2
    <3>2. \A j \in 1 .. Len(q) : j \in 1 .. Len(r) /\ r[j] = q[j]
      BY <1>1
    <3> QED
      BY <1>3, <3>1, <3>2 DEF Continues
  <2> QED
    BY <2>1, <2>2
<1>4. ASSUME NEW n \in Nat, Reaches(q, h, n)
      PROVE  Reaches(r, h, n)
  <2>1. \A j \in 1 .. Len(q) : j \in 1 .. Len(r) /\ r[j] = q[j]
    BY <1>1
  <2> QED
    BY <1>4, <2>1 DEF Reaches
<1>5. x.type = "data" => Reaches(r, h, x.seq)
  <2>1. Len(q) + 1 \in 1 .. Len(r)
    BY <1>1
  <2> QED
    BY <1>1, <1>2, <2>1 DEF Reaches
<1> QED
  BY <1>3, <1>4, <1>5 DEF Continues, r

LEMMA ContinuesPrefix ==
  ASSUME NEW q \in Seq(FrameSet), NEW r \in Seq(FrameSet), NEW h \in Nat, Continues(q, h),
         Len(r) <= Len(q), \A i \in 1 .. Len(r) : r[i] = q[i]
  PROVE  Continues(r, h)
<1>1. Len(q) \in Nat /\ Len(r) \in Nat
  OBVIOUS
<1> SUFFICES ASSUME NEW i \in 1 .. Len(r), r[i].type = "data"
             PROVE  \/ r[i].seq <= h + 1
                    \/ \E j \in 1 .. Len(r) : j < i /\ r[j].type = "data" /\ r[i].seq <= r[j].seq + 1
  BY DEF Continues
<1>2. i \in 1 .. Len(q) /\ r[i] = q[i]
  BY <1>1
<1>3. \A j \in 1 .. Len(q) : j < i => j \in 1 .. Len(r) /\ r[j] = q[j]
  BY <1>1
<1> QED
  BY <1>2, <1>3 DEF Continues

\* The last number whose turn to be written has come: what is left to replay are
\* the numbers after it.
Behind(e) == conn[e].next_send_seq - Len(writer[e].resume)

\* While a transport is written to, the frames left to replay are the last ones
\* numbered, and each frame between the last one written and these is
\* acknowledged.
Gapless ==
  \A e \in Endpoint : writer[e].writer # None =>
    /\ \A i \in 1 .. Len(writer[e].resume) : writer[e].resume[i].seq = Behind(e) + i
    /\ \A n \in writer[e].last_sent_seq + 1 .. Behind(e) : n <= replay[e].last_acked

\* Only staging gives out numbers...
LEMMA NumbersOnly ==
  ASSUME Typed, Next, NEW e \in Endpoint, ~WriterLive(e), ~WriterStage(e)
  PROVE  conn'[e].next_send_seq = conn[e].next_send_seq
<1>1. ASSUME NEW f \in Endpoint, WriterLive(f) \/ WriterStage(f)
      PROVE  conn'[e].next_send_seq = conn[e].next_send_seq
  <2>1. f # e
    BY <1>1
  <2>2. PICK msg \in 1 .. Len(Outgoing[f]) : StageFrame(f, msg)
    BY <1>1 DEF WriterLive, WriterStage
  <2>3. conn \in [Endpoint -> ConnSet]
    BY DEF Typed, TypeOK
  <2>4. conn' = conn \/ conn' = [conn EXCEPT ![f].next_send_seq = conn[f].next_send_seq + 1]
    BY <2>2 DEF StageFrame
  <2> QED
    BY <2>1, <2>3, <2>4
<1>2. ASSUME NEW f \in Endpoint, ReaderStart(f) \/ ReadData(f) \/ ReaderAccept(f)
      PROVE  ConnCalm
  <2>1. UNCHANGED conn \/ MarkClosed(f)
    BY <1>2 DEF ReaderStart, ReadData, ReaderAccept, endVars
  <2> QED
    BY <2>1, MarkClosedCalm DEF ConnCalm
<1>3. ASSUME NEW f \in Endpoint,
             \/ Send(f) \/ Close(f) \/ CloseAgain(f) \/ CloseStep(f)
             \/ WriterStep(f) /\ ~WriterLive(f) /\ ~WriterStage(f)
             \/ ReaderStep(f)
      PROVE  ConnCalm
  BY <1>2, <1>3, CalmApplication, CalmWriter, CalmReader DEF Calm, CloseStep, WriterStep, ReaderStep
<1>4. CASE LoopStep \/ (\E t \in Transport : HandlerStep(t) \/ Break(t)) \/ ServerExpire
  BY <1>4, CalmResume, CalmFailure DEF Calm, ConnCalm
<1> QED
  BY <1>1, <1>3, <1>4 DEF Next, ConnCalm

\* ...and only the writer that applies, replays and writes moves on.
LEMMA WriterMoves ==
  ASSUME Typed, Next, NEW e \in Endpoint, ~WriterApply(e), ~WriterResume(e), ~WriterLive(e)
  PROVE  writer'[e].writer = None \/ (~WriterStage(e) /\ writer'[e] = writer[e])
<1>0. writer \in [Endpoint -> WriterSet] /\ NoWriter.writer = None /\ NewWriter.writer = None
  BY DEF Typed, TypeOK, NoWriter, NewWriter
<1>1. ASSUME NEW f \in Endpoint, MarkClosed(f)
      PROVE  writer'[e].writer = None \/ writer'[e] = writer[e]
  BY <1>0, <1>1 DEF MarkClosed
<1>2. ASSUME NEW f \in Endpoint, WriterStep(f), f # e
      PROVE  writer'[e] = writer[e]
  <2>1. CASE WriterApply(f)
    BY <1>0, <1>2, <2>1 DEF WriterApply
  <2>2. CASE WriterAck(f) \/ WriterResume(f) \/ WriterFail(f)
    BY <1>0, <1>2, <2>2 DEF WriterAck, WriterResume, WriterFail, taskVars
  <2>3. CASE WriterLive(f) \/ WriterStage(f)
    BY <1>0, <1>2, <2>3 DEF WriterLive, WriterStage
  <2>4. CASE WriterClose(f) \/ WriterStop(f)
    BY <1>0, <1>2, <2>4 DEF WriterClose, WriterStop
  <2> QED
    BY <1>2, <2>1, <2>2, <2>3, <2>4 DEF WriterStep
<1>3. CASE WriterStage(e)
  BY <1>0, <1>3 DEF WriterStage, WriterSet
<1>4. ASSUME WriterStep(e), ~WriterStage(e)
      PROVE  writer'[e].writer = None \/ writer'[e] = writer[e]
  <2>1. CASE WriterAck(e)
    BY <2>1 DEF WriterAck, taskVars
  <2>2. CASE WriterClose(e) \/ WriterStop(e)
    BY <1>0, <2>2 DEF WriterClose, WriterStop
  <2>3. CASE WriterFail(e)
    BY <1>0, <2>3 DEF WriterFail, WriterSet
  <2> QED
    BY <1>4, <2>1, <2>2, <2>3 DEF WriterStep
<1>5. ASSUME NEW f \in Endpoint, ReaderStep(f) \/ Send(f) \/ Close(f) \/ CloseAgain(f) \/ CloseStep(f)
      PROVE  UNCHANGED writer \/ MarkClosed(f)
  BY <1>5
  DEF ReaderStep, ReaderStart, ReadAck, ReadData, ReaderAccept, ReadClose, ReaderDrained,
      ReaderFail, Send, Close, CloseAgain, CloseStep, CloseStopped, CloseTimeout, taskVars
<1>6. CASE LoopStep \/ (\E t \in Transport : HandlerStep(t) \/ Break(t)) \/ ServerExpire
  <2>1. \/ UNCHANGED writer \/ MarkClosed("client") \/ MarkClosed("server")
        \/ writer' = [writer EXCEPT !["server"] = NewWriter]
    BY <1>6
    DEF LoopStep, LoopDial, LoopQuit, LoopResponse, LoopFail, HandlerStep, ServerResume,
        ServerAttach, ServerRefuse, Break, ServerExpire, taskVars
  <2>2. writer' = [writer EXCEPT !["server"] = NewWriter] =>
          writer'[e].writer = None \/ writer'[e] = writer[e]
    BY <1>0
  <2>3. MarkClosed("client") \/ MarkClosed("server") =>
          writer'[e].writer = None \/ writer'[e] = writer[e]
    BY <1>1 DEF Endpoint
  <2> QED
    BY <1>3, <2>1, <2>2, <2>3
<1>7. ASSUME NEW f \in Endpoint,
             \/ Send(f) \/ Close(f) \/ CloseAgain(f)
             \/ CloseStep(f) \/ WriterStep(f) \/ ReaderStep(f)
      PROVE  writer'[e].writer = None \/ (~WriterStage(e) /\ writer'[e] = writer[e])
  BY <1>1, <1>2, <1>3, <1>4, <1>5, <1>7
<1> QED
  BY <1>6, <1>7 DEF Next

\* A writer that replays or writes: nothing if a frame is held or refused; else
\* the next frame has its turn, and is written unless it was or is acknowledged.
Turn(e) ==
  /\ Behind(e)' = Behind(e) + 1
  /\ \A i \in 1 .. Len(writer'[e].resume) : writer'[e].resume[i].seq = Behind(e) + 1 + i
  /\ \/ /\ UNCHANGED wire /\ writer'[e].last_sent_seq = writer[e].last_sent_seq
        /\ \/ Behind(e) + 1 <= writer[e].last_sent_seq
           \/ Behind(e) + 1 <= replay[e].last_acked
     \/ /\ writer'[e].last_sent_seq = Behind(e) + 1
        /\ \E x \in FrameSet : /\ x.type = "data" /\ x.seq = Behind(e) + 1
                               /\ wire' = Written(e, writer[e].writer, x)

LEMMA ReplayTurn ==
  ASSUME Typed, Gapless, NEW e \in Endpoint, WriterResume(e)
  PROVE  Turn(e) /\ writer[e].writer # None /\ writer'[e].writer = writer[e].writer
<1> DEFINE w == writer[e]
           q == w.resume
           r == Head(q)
           b == Behind(e)
           write == r.seq > w.last_sent_seq /\ r.seq > replay[e].last_acked
           n == IF write THEN r.seq ELSE w.last_sent_seq
           x == Frame("data", r.seq, r.msg)
<1>0. /\ writer \in [Endpoint -> WriterSet] /\ q \in Seq(RecordSet) /\ w.last_sent_seq \in Nat
      /\ replay[e].last_acked \in Nat /\ conn[e].next_send_seq \in Nat
  BY DEF Typed, TypeOK, WriterSet, ReplaySet, ConnSet
<1>1. /\ w.writer # None /\ q # << >>
      /\ writer' = [writer EXCEPT ![e].resume = Tail(q), ![e].last_sent_seq = n]
      /\ wire' = IF write THEN Written(e, w.writer, x) ELSE wire
      /\ UNCHANGED conn
  BY DEF WriterResume, endVars
<1>2. /\ Len(q) \in Nat /\ Len(q) >= 1 /\ Len(Tail(q)) = Len(q) - 1 /\ r = q[1] /\ r \in RecordSet
      /\ \A i \in 1 .. Len(Tail(q)) : Tail(q)[i] = q[i + 1]
  BY <1>0, <1>1, HeadTailProperties
<1>3. \A i \in 1 .. Len(q) : q[i].seq = b + i
  BY <1>1 DEF Gapless
<1>4. b \in Int /\ r.seq = b + 1 /\ r.seq \in Nat /\ r.msg \in Message
  <2>1. b \in Int
    BY <1>0, <1>2 DEF Behind
  <2>2. r.seq = b + 1
    BY <1>2, <1>3, <2>1
  <2> QED
    BY <1>2, <2>1, <2>2 DEF RecordSet
<1>5. x \in FrameSet /\ x.type = "data" /\ x.seq = b + 1
  <2>1. x \in FrameSet
    BY <1>4, FrameTypes DEF FrameType
  <2> QED
    BY <1>4, <2>1 DEF Frame
<1> HIDE DEF n, x
<1>6. writer'[e].writer = w.writer /\ writer'[e].resume = Tail(q) /\ writer'[e].last_sent_seq = n
  BY <1>0, <1>1 DEF WriterSet
<1>7. Behind(e)' = b + 1
  <2>1. Behind(e)' = conn[e].next_send_seq - Len(Tail(q))
    BY <1>1, <1>6 DEF Behind
  <2>2. b = conn[e].next_send_seq - Len(q)
    BY DEF Behind
  <2> QED
    BY <1>0, <1>2, <2>1, <2>2
<1>8. ASSUME NEW i \in 1 .. Len(Tail(q))
      PROVE  Tail(q)[i].seq = b + 1 + i
  <2>1. i + 1 \in 1 .. Len(q)
    BY <1>2
  <2>2. q[i + 1].seq = b + (i + 1)
    BY <1>3, <2>1
  <2> QED
    BY <1>2, <1>4, <2>2
<1>9. CASE write
  <2>1. n = b + 1
    BY <1>4, <1>9 DEF n
  <2> QED
    BY <1>1, <1>5, <1>6, <1>7, <1>8, <1>9, <2>1 DEF Turn
<1>10. CASE ~write
  <2>1. n = w.last_sent_seq /\ UNCHANGED wire
    BY <1>1, <1>10 DEF n
  <2>2. b + 1 <= w.last_sent_seq \/ b + 1 <= replay[e].last_acked
    BY <1>0, <1>4, <1>10
  <2> QED
    BY <1>1, <1>6, <1>7, <1>8, <2>1, <2>2 DEF Turn
<1> QED
  BY <1>9, <1>10

NoTurn(e) ==
  /\ Behind(e)' = Behind(e) /\ UNCHANGED wire
  /\ writer'[e].last_sent_seq = writer[e].last_sent_seq /\ writer'[e].resume = writer[e].resume

LEMMA LiveTurn ==
  ASSUME Typed, NEW e \in Endpoint, WriterLive(e)
  PROVE  /\ Turn(e) \/ NoTurn(e)
         /\ writer[e].writer # None /\ writer'[e].writer = writer[e].writer
<1> DEFINE w == writer[e]
           seq == conn[e].next_send_seq + 1
<1>0. /\ writer \in [Endpoint -> WriterSet] /\ w.last_sent_seq \in Nat
      /\ conn \in [Endpoint -> ConnSet] /\ conn[e].next_send_seq \in Nat /\ seq \in Nat
  BY DEF Typed, TypeOK, WriterSet, ConnSet
<1>1. w.writer # None /\ w.resume = << >>
  BY DEF WriterLive, MayWriteLive
<1>2. PICK msg \in 1 .. Len(Outgoing[e]) :
        LET write == Outcome(e, msg) = "kept" /\ seq > w.last_sent_seq
        IN  /\ StageFrame(e, msg)
            /\ writer' = [writer EXCEPT ![e].held = Held(e, msg),
                                        ![e].last_sent_seq = IF write THEN seq ELSE @]
            /\ wire' = IF write THEN Written(e, w.writer, Frame("data", seq, msg)) ELSE wire
  BY DEF WriterLive
<1> DEFINE write == Outcome(e, msg) = "kept" /\ seq > w.last_sent_seq
           n == IF write THEN seq ELSE w.last_sent_seq
           h == Held(e, msg)
           x == Frame("data", seq, msg)
<1>3. x \in FrameSet /\ x.type = "data" /\ x.seq = seq
  <2>1. msg \in Message
    BY MessageType
  <2>2. x \in FrameSet
    BY <1>0, <2>1, FrameTypes DEF FrameType
  <2> QED
    BY <2>2 DEF Frame
<1>4. writer' = [writer EXCEPT ![e].held = h, ![e].last_sent_seq = n]
  BY <1>2
<1>5. wire' = IF write THEN Written(e, w.writer, x) ELSE wire
  BY <1>2
<1> HIDE DEF h, n, x
<1>6. writer'[e].writer = w.writer /\ writer'[e].resume = << >> /\ writer'[e].last_sent_seq = n
  BY <1>0, <1>1, <1>4 DEF WriterSet
<1>7. Behind(e) = conn[e].next_send_seq /\ Behind(e)' = conn'[e].next_send_seq
  <2>1. /\ Behind(e) = conn[e].next_send_seq - Len(w.resume)
        /\ Behind(e)' = conn'[e].next_send_seq - Len(writer'[e].resume)
    BY DEF Behind
  <2>2. conn'[e].next_send_seq \in Nat
    BY <1>2, StageFrameType DEF Typed, ConnSet
  <2> QED
    BY <1>0, <1>1, <1>6, <2>1, <2>2
<1>8. CASE Outcome(e, msg) = "kept"
  <2>1. conn' = [conn EXCEPT ![e].next_send_seq = seq]
    BY <1>2, <1>8 DEF StageFrame
  <2>2. conn'[e].next_send_seq = seq
    <3> HIDE DEF seq
    <3> QED
      BY <1>0, <2>1 DEF ConnSet
  <2>3. CASE write
    <3>1. n = seq /\ wire' = Written(e, w.writer, x)
      BY <1>5, <2>3 DEF n
    <3> QED
      BY <1>1, <1>3, <1>6, <1>7, <2>2, <3>1 DEF Turn
  <2>4. CASE ~write
    <3>1. n = w.last_sent_seq /\ UNCHANGED wire /\ seq <= w.last_sent_seq
      BY <1>0, <1>5, <1>8, <2>4 DEF n
    <3> QED
      BY <1>1, <1>6, <1>7, <2>2, <3>1 DEF Turn
  <2> QED
    BY <2>3, <2>4
<1>9. CASE Outcome(e, msg) # "kept"
  <2>1. UNCHANGED conn
    BY <1>2, <1>9 DEF StageFrame
  <2>2. n = w.last_sent_seq /\ UNCHANGED wire
    BY <1>5, <1>9 DEF n
  <2> QED
    BY <1>1, <1>6, <1>7, <2>1, <2>2 DEF NoTurn
<1> QED
  BY <1>8, <1>9

LEMMA AckGrows ==
  ASSUME Typed, Reported, Next, NEW e \in Endpoint
  PROVE  replay[e].last_acked <= replay'[e].last_acked /\ replay[e].last_acked \in Nat
<1>0. replay[e] \in ReplaySet /\ replay[e].last_acked \in Nat
  BY DEF Typed, TypeOK, ReplaySet
<1>1. CASE Untouched(e)
  BY <1>0, <1>1 DEF Untouched
<1>2. CASE Acknowledged(e)
  <2>1. PICK n \in Nat : replay'[e] = Ack(replay[e], n)
    BY <1>2 DEF Acknowledged
  <2>2. replay'[e] = replay[e] \/ (replay'[e].last_acked = n /\ ~(n <= replay[e].last_acked))
    BY <2>1 DEF Ack
  <2> QED
    BY <1>0, <2>2
<1>3. CASE Numbers(e)
  <2>1. PICK r : replay'[e] = Keep(replay[e], r)
    BY <1>3 DEF Numbers
  <2>2. replay'[e].last_acked = replay[e].last_acked
    BY <1>0, <2>1 DEF Keep, ReplaySet
  <2> QED
    BY <1>0, <2>2
<1> QED
  BY <1>0, <1>1, <1>2, <1>3, BufferStep

\* Attaching starts over from what the peer has, with all that is kept to replay.
LEMMA AttachedWriter ==
  ASSUME Typed, Kept, Reported, NEW e \in Endpoint, WriterApply(e), writer'[e].writer # None
  PROVE  \/ /\ writer'[e].last_sent_seq = writer[e].last_sent_seq
            /\ writer'[e].resume = writer[e].resume /\ writer'[e].writer = writer[e].writer
         \/ /\ writer'[e].last_sent_seq \in Nat /\ Known(e, writer'[e].last_sent_seq)
            /\ writer'[e].last_sent_seq <= replay'[e].last_acked
            /\ writer'[e].resume = replay'[e].replay_queue
<1> DEFINE q == writer_cmd[e]
           cmd == Head(q)
           from == ResumeFrom(e, cmd.resume_seq)
           b == replay[e]
<1>0. /\ writer \in [Endpoint -> WriterSet] /\ q \in Seq(CmdSet) /\ q # << >>
      /\ replay \in [Endpoint -> ReplaySet]
      /\ b \in ReplaySet /\ b.replay_queue \in Seq(RecordSet) /\ b.last_acked \in Nat
      /\ conn[e].next_send_seq \in Nat /\ recv[Peer(e)].last_recv_seq \in Nat
  <2>1. recv[Peer(e)].last_recv_seq \in Nat
    BY PeerType DEF Typed, TypeOK, RecvSet
  <2> QED
    BY <2>1 DEF WriterApply, Typed, TypeOK, ReplaySet, ConnSet
<1>1. 1 \in 1 .. Len(q) /\ cmd = q[1] /\ cmd \in CmdSet
  BY <1>0, TailFrames
<1>2. cmd.resume_seq \in Nat /\ Known(e, cmd.resume_seq)
  BY <1>1 DEF CmdSet, Reported
<1>3. from \in Nat /\ from <= conn[e].next_send_seq /\ Known(e, from)
  BY <1>0, <1>2 DEF ResumeFrom, Known
<1>4. CASE cmd.type = "attach"
  <2> DEFINE new == Ack(b, from)
             r == FramesToReplay(replay'[e], from)
  <2>1. /\ replay' = [replay EXCEPT ![e] = new]
        /\ writer' = [writer EXCEPT ![e].writer = cmd.writer, ![e].gen = cmd.gen,
                                    ![e].last_sent_seq = from, ![e].resume = r]
    BY <1>4 DEF WriterApply
  <2>2. r = After(replay'[e].replay_queue, from)
    BY DEF FramesToReplay, SnapshotFrom
  <2> HIDE DEF from, r
  <2>3. /\ new \in Buffer(RecordSet)
        /\ new.last_acked = IF from <= b.last_acked THEN b.last_acked ELSE from
    <3>1. b \in Buffer(RecordSet)
      BY <1>0 DEF ReplaySet, Buffer
    <3> QED
      BY <1>3, <3>1, RecordSize, AckType
  <2>4. \A i \in 1 .. Len(new.replay_queue) : new.replay_queue[i].seq = new.last_acked + i
    <3>1. /\ b \in Buffer(RecordSet) /\ from <= b.last_acked + Len(b.replay_queue)
          /\ \A i \in 1 .. Len(b.replay_queue) : b.replay_queue[i].seq = b.last_acked + i
      BY <1>0, <1>3 DEF ReplaySet, Buffer, Kept
    <3> QED
      BY <1>3, <3>1, AckContiguous
  <2> DEFINE rest == new.replay_queue
             a == new.last_acked
  <2>5. rest \in Seq(RecordSet) /\ a \in Nat /\ from <= a
    BY <1>0, <1>3, <2>3 DEF Buffer
  <2>6. replay'[e] = new
    BY <1>0, <2>1
  <2>7. /\ writer'[e].last_sent_seq = from /\ writer'[e].resume = r
    BY <1>0, <2>1 DEF WriterSet
  <2>8. After(rest, from) = rest
    <3> HIDE DEF rest, a
    <3>1. \A i \in 1 .. Len(rest) : rest[i].seq = a + i
      BY <2>4 DEF rest, a
    <3> QED
      BY <1>3, <2>5, <3>1, AfterNone
  <2> QED
    BY <1>3, <2>2, <2>5, <2>6, <2>7, <2>8
<1>5. CASE cmd.type # "attach"
  <2> DEFINE none == IF cmd.gen = writer[e].gen THEN None ELSE writer[e].writer
  <2>1. writer' = [writer EXCEPT ![e].writer = none]
    BY <1>5 DEF WriterApply
  <2>2. none = None \/ none = writer[e].writer
    OBVIOUS
  <2> HIDE DEF none
  <2> QED
    BY <1>0, <2>1, <2>2 DEF WriterSet
<1> QED
  BY <1>4, <1>5

LEMMA GaplessStep ==
  ASSUME Typed, Typed', Reported, Kept, Kept', Gapless, Next
  PROVE  Gapless'
<1> SUFFICES ASSUME NEW e \in Endpoint, writer'[e].writer # None
             PROVE  /\ \A i \in 1 .. Len(writer'[e].resume) :
                         writer'[e].resume[i].seq = Behind(e)' + i
                    /\ \A n \in writer'[e].last_sent_seq + 1 .. Behind(e)' : n <= replay'[e].last_acked
  BY DEF Gapless
<1> DEFINE b == Behind(e)
           s == writer[e].last_sent_seq
           a == replay[e].last_acked
           a2 == replay'[e].last_acked
<1>0. b \in Int /\ s \in Nat /\ a \in Nat /\ a2 \in Nat
  <2>1. conn[e].next_send_seq \in Nat /\ writer[e].resume \in Seq(RecordSet) /\ s \in Nat /\ a \in Nat
    BY DEF Typed, TypeOK, ConnSet, WriterSet, ReplaySet
  <2>2. a2 \in Nat
    BY DEF Typed, TypeOK, ReplaySet
  <2> QED
    BY <2>1, <2>2 DEF Behind
<1>1. a <= a2
  BY AckGrows
<1>2. ASSUME writer[e].writer # None
      PROVE  /\ \A i \in 1 .. Len(writer[e].resume) : writer[e].resume[i].seq = b + i
             /\ \A n \in s + 1 .. b : n <= a
  BY <1>2 DEF Gapless
<1> HIDE DEF b, s, a, a2
<1>3. ASSUME /\ Behind(e)' = b /\ writer'[e].last_sent_seq = s /\ writer'[e].resume = writer[e].resume
             /\ writer[e].writer # None
      PROVE  /\ \A i \in 1 .. Len(writer'[e].resume) : writer'[e].resume[i].seq = Behind(e)' + i
             /\ \A n \in writer'[e].last_sent_seq + 1 .. Behind(e)' : n <= a2
  <2>1. \A n \in s + 1 .. b : n <= a2
    BY <1>0, <1>1, <1>2, <1>3
  <2> QED
    BY <1>2, <1>3, <2>1
<1>4. ASSUME Turn(e), writer[e].writer # None
      PROVE  /\ \A i \in 1 .. Len(writer'[e].resume) : writer'[e].resume[i].seq = Behind(e)' + i
             /\ \A n \in writer'[e].last_sent_seq + 1 .. Behind(e)' : n <= a2
  <2>1. /\ Behind(e)' = b + 1
        /\ \A i \in 1 .. Len(writer'[e].resume) : writer'[e].resume[i].seq = b + 1 + i
        /\ \/ writer'[e].last_sent_seq = s /\ (b + 1 <= s \/ b + 1 <= a)
           \/ writer'[e].last_sent_seq = b + 1
    BY <1>4 DEF Turn, b, s, a
  <2>2. \A n \in s + 1 .. b : n <= a2
    BY <1>0, <1>1, <1>2, <1>4
  <2>3. \A n \in writer'[e].last_sent_seq + 1 .. b + 1 : n <= a2
    <3>1. CASE writer'[e].last_sent_seq = b + 1
      BY <1>0, <3>1
    <3>2. CASE writer'[e].last_sent_seq = s /\ (b + 1 <= s \/ b + 1 <= a)
      <4> SUFFICES ASSUME NEW n \in s + 1 .. b + 1
                   PROVE  n <= a2
        BY <3>2
      <4>1. CASE n = b + 1
        BY <1>0, <1>1, <3>2, <4>1
      <4>2. CASE n # b + 1
        <5>1. n \in s + 1 .. b
          BY <1>0, <4>2
        <5> QED
          BY <2>2, <5>1
      <4> QED
        BY <4>1, <4>2
    <3> QED
      BY <2>1, <3>1, <3>2
  <2> QED
    BY <2>1, <2>3
<1>5. CASE WriterResume(e)
  BY <1>4, <1>5, ReplayTurn DEF a2
<1>6. CASE WriterLive(e)
  BY <1>3, <1>4, <1>6, LiveTurn DEF NoTurn, a2, b, s
<1>7. CASE WriterApply(e)
  <2>1. conn'[e].next_send_seq = conn[e].next_send_seq
    BY <1>7, CalmWriter DEF Calm, ConnCalm
  <2>2. CASE /\ writer'[e].last_sent_seq = s
             /\ writer'[e].resume = writer[e].resume /\ writer'[e].writer = writer[e].writer
    <3>1. Behind(e)' = b
      BY <2>1, <2>2 DEF Behind, b
    <3> QED
      BY <1>3, <2>2, <3>1 DEF a2
  <2>3. CASE /\ writer'[e].last_sent_seq \in Nat /\ writer'[e].last_sent_seq <= a2
             /\ writer'[e].resume = replay'[e].replay_queue
    <3> DEFINE q == replay'[e].replay_queue
               m == conn'[e].next_send_seq
    <3>1. a2 + Len(q) = m /\ \A i \in 1 .. Len(q) : q[i].seq = a2 + i
      BY DEF Kept, a2
    <3>2. Len(q) \in Nat
      <4>1. replay'[e].replay_queue \in Seq(RecordSet)
        BY DEF Typed, TypeOK, ReplaySet
      <4> QED
        BY <4>1
    <3>3. Behind(e)' = m - Len(q)
      BY <2>3 DEF Behind
    <3> HIDE DEF q, m
    <3>4. Behind(e)' = a2
      BY <1>0, <3>1, <3>2, <3>3
    <3>5. writer'[e].resume = q
      BY <2>3 DEF q
    <3>6. \A n \in writer'[e].last_sent_seq + 1 .. a2 : n <= a2
      BY <1>0, <2>3
    <3> QED
      BY <3>1, <3>4, <3>5, <3>6 DEF a2
  <2> QED
    BY <1>7, <2>2, <2>3, AttachedWriter DEF s, a2
<1>8. CASE ~WriterApply(e) /\ ~WriterResume(e) /\ ~WriterLive(e)
  <2>1. ~WriterStage(e) /\ writer'[e] = writer[e]
    BY <1>8, WriterMoves
  <2>2. conn'[e].next_send_seq = conn[e].next_send_seq
    BY <1>8, <2>1, NumbersOnly
  <2>3. Behind(e)' = b
    BY <2>1, <2>2 DEF Behind, b
  <2> QED
    BY <1>3, <2>1, <2>3 DEF s, a2
<1> QED
  BY <1>5, <1>6, <1>7, <1>8

-----------------------------------------------------------------------------
(* The reader's side.                                                      *)

\* The last data frame that the reader of t has taken, or that e has received.
Has(e, t) ==
  IF reader[e].pc = "accept" /\ reader[e].t = t
  THEN reader[e].frame.seq ELSE recv[e].last_recv_seq

LEMMA HasType ==
  ASSUME Typed, Delivery, NEW e \in Endpoint, NEW t \in Transport
  PROVE  Has(e, t) \in Nat /\ recv[e].last_recv_seq \in Nat /\ recv[e].last_recv_seq <= Has(e, t)
<1>1. recv[e].last_recv_seq \in Nat /\ reader[e].frame.seq \in Nat
  BY DEF Typed, TypeOK, RecvSet, ReaderSet, FrameSet
<1>2. reader[e].pc = "accept" => reader[e].frame.seq = recv[e].last_recv_seq + 1
  BY DEF Delivery, Counted
<1> QED
  BY <1>1, <1>2 DEF Has

\* Who changes a reader.
LEMMA ReaderMoves ==
  ASSUME Typed, Next, NEW e \in Endpoint, ~ReaderStep(e)
  PROVE  \/ reader'[e] = reader[e] \/ reader'[e].pc = "none"
         \/ e = "client" /\ LoopResponse /\ reader'[e].pc = "start" /\ reader'[e].t = loop.t
         \/ e = "server" /\ \E t \in Transport :
              ServerAttach(t) /\ reader'[e].pc = "start" /\ reader'[e].t = t
<1>0. reader \in [Endpoint -> ReaderSet] /\ NoReader.pc = "none"
  BY DEF Typed, TypeOK, NoReader
<1>1. ASSUME NEW f \in Endpoint, MarkClosed(f)
      PROVE  reader'[e] = reader[e] \/ reader'[e].pc = "none"
  BY <1>0, <1>1 DEF MarkClosed
<1>2. ASSUME NEW f \in Endpoint, NEW t, NEW n, AttachTransport(f, t, n)
      PROVE  reader'[e] = reader[e] \/ (e = f /\ reader'[e].pc = "start" /\ reader'[e].t = t)
  <2> DEFINE r == NewReader(conn[f].transport_gen + 1, t)
  <2>1. r.pc = "start" /\ r.t = t
    BY DEF NewReader, NoReader
  <2>2. reader' = reader \/ reader' = [reader EXCEPT ![f] = r]
    BY <1>2 DEF AttachTransport
  <2> HIDE DEF r
  <2> QED
    BY <1>0, <2>1, <2>2
<1>3. ASSUME NEW f \in Endpoint, WriterStep(f)
      PROVE  reader'[e] = reader[e] \/ reader'[e].pc = "none"
  <2>1. UNCHANGED reader \/ reader' = [reader EXCEPT ![f] = NoReader]
    BY <1>3
    DEF WriterStep, WriterApply, WriterAck, WriterResume, WriterLive, WriterStage, WriterClose,
        WriterStop, WriterFail, taskVars
  <2> QED
    BY <1>0, <2>1
<1>4. ASSUME NEW f \in Endpoint, ReaderStep(f)
      PROVE  reader'[e] = reader[e]
  <2>1. f # e
    BY <1>4
  <2>2. CASE ReaderStart(f) \/ ReaderAccept(f) \/ ReadAck(f)
    BY <1>0, <2>1, <2>2 DEF ReaderStart, ReaderAccept, ReadAck, taskVars
  <2>3. CASE ReadData(f) \/ ReadClose(f)
    BY <1>0, <2>1, <2>3 DEF ReadData, ReadClose, MarkClosed
  <2>4. CASE ReaderDrained(f) \/ ReaderFail(f)
    BY <1>0, <2>1, <2>4 DEF ReaderDrained, ReaderFail, MarkClosed
  <2> QED
    BY <1>4, <2>2, <2>3, <2>4 DEF ReaderStep
<1>5. ASSUME NEW f \in Endpoint, Send(f) \/ Close(f) \/ CloseAgain(f) \/ CloseStep(f)
      PROVE  reader'[e] = reader[e] \/ reader'[e].pc = "none"
  <2>1. UNCHANGED reader \/ MarkClosed(f)
    BY <1>5 DEF Send, Close, CloseAgain, CloseStep, CloseStopped, CloseTimeout, taskVars
  <2> QED
    BY <1>1, <2>1
<1>6. CASE LoopResponse
  <2>1. MarkClosed("client") \/ \E n : AttachTransport("client", loop.t, n)
    BY <1>6 DEF LoopResponse
  <2> QED
    BY <1>1, <1>2, <1>6, <2>1 DEF Endpoint
<1>7. ASSUME NEW t \in Transport, ServerAttach(t)
      PROVE  \/ reader'[e] = reader[e]
             \/ e = "server" /\ reader'[e].pc = "start" /\ reader'[e].t = t
  <2>1. \E n : AttachTransport("server", t, n)
    BY <1>7 DEF ServerAttach
  <2> QED
    BY <1>2, <2>1 DEF Endpoint
<1>8. CASE ServerExpire
  BY <1>1, <1>8 DEF ServerExpire, Endpoint
<1>9. CASE \/ LoopDial \/ LoopQuit \/ LoopFail
           \/ \E t \in Transport : ServerResume(t) \/ ServerRefuse(t) \/ Break(t)
  BY <1>9 DEF LoopDial, LoopQuit, LoopFail, ServerResume, ServerRefuse, Break, taskVars
<1> QED
  BY <1>3, <1>4, <1>5, <1>6, <1>7, <1>8, <1>9 DEF Next, LoopStep, HandlerStep

\* A transport is held for reading from its dial on, and no longer once its
\* reader is gone.
Fresh(t) == LoopDial /\ t = dialed + 1

LEMMA HandshakeBefore ==
  ASSUME Typed, Next, NEW e \in Endpoint, NEW t \in Transport, InHandshake(e, t)', ~Fresh(t)
  PROVE  InHandshake(e, t)
<1>0. handler \in [Transport -> HandlerSet]
  BY DEF Typed, TypeOK
<1>1. CASE e = "client" /\ loop'.pc = "wait" /\ loop'.t = t
  <2>1. CASE LoopDial
    <3>1. loop'.t = dialed + 1
      BY <2>1 DEF LoopDial
    <3> QED
      BY <1>1, <2>1, <3>1 DEF Fresh
  <2>2. CASE ~LoopDial
    BY <1>1, <2>2, LoopMoves DEF InHandshake
  <2> QED
    BY <2>1, <2>2
<1>2. CASE e = "server" /\ handler'[t].pc # "none"
  <2>1. CASE LoopDial
    <3>1. handler' = [handler EXCEPT ![dialed + 1].pc = "request"] /\ t # dialed + 1
      BY <2>1 DEF LoopDial, Fresh
    <3>2. handler'[t] = handler[t]
      BY <1>0, <3>1
    <3> QED
      BY <1>2, <3>2 DEF InHandshake
  <2>2. ASSUME NEW u \in Transport, ServerResume(u)
        PROVE  handler[t].pc # "none"
    <3> DEFINE h == [pc |-> IF RefusesResume THEN "none" ELSE "attach",
                     seq |-> Head(wire[u]["server"]).seq]
    <3>1. handler[u].pc = "request" /\ handler' = [handler EXCEPT ![u] = h]
      BY <2>2 DEF ServerResume
    <3> HIDE DEF h
    <3> QED
      BY <1>0, <1>2, <3>1
  <2>3. CASE ~LoopDial /\ \A u \in Transport : ~ServerResume(u)
    <3>1. handler'[t] = handler[t] \/ handler'[t] = [pc |-> "none", seq |-> 0]
      BY <2>3, HandlerMoves
    <3> QED
      BY <1>2, <3>1 DEF InHandshake
  <2> QED
    BY <1>2, <2>1, <2>2, <2>3 DEF InHandshake
<1> QED
  BY <1>1, <1>2 DEF InHandshake

LEMMA HandshakeAlone ==
  ASSUME Claims, NEW e \in Endpoint, NEW t \in Transport, InHandshake(e, t)
  PROVE  t \notin Used(e)
  BY DEF Claims, InHandshake

LEMMA FreshUnused ==
  ASSUME Typed, Claims, NEW t \in Transport, Fresh(t)
  PROVE  \A e \in Endpoint : t \notin Used(e) /\ wire[t][e] = << >>
<1>1. dialed \in Nat /\ t = dialed + 1
  BY TransportType DEF Typed, TypeOK, Fresh
<1>2. t > dialed /\ ~(t <= dialed)
  BY <1>1
<1> QED
  BY <1>2 DEF Claims

LEMMA HoldsBefore ==
  ASSUME Typed, Next, NEW e \in Endpoint, NEW t \in Transport, HoldsRead(e, t)', ~Fresh(t)
  PROVE  HoldsRead(e, t)
<1>1. CASE InHandshake(e, t)'
  BY <1>1, HandshakeBefore DEF HoldsRead
<1>2. CASE reader'[e].pc # "none" /\ reader'[e].t = t
  <2>1. CASE ReaderStep(e)
    BY <1>2, <2>1, UsesReader DEF Uses, HoldsRead
  <2>2. CASE ~ReaderStep(e)
    <3>1. CASE reader'[e] = reader[e]
      BY <1>2, <3>1 DEF HoldsRead
    <3>2. CASE e = "client" /\ LoopResponse /\ reader'[e].t = loop.t
      BY <1>2, <3>2 DEF HoldsRead, InHandshake, LoopResponse
    <3>3. CASE e = "server" /\ \E u \in Transport : ServerAttach(u) /\ reader'[e].t = u
      BY <1>2, <3>3 DEF HoldsRead, InHandshake, ServerAttach
    <3> QED
      BY <1>2, <2>2, <3>1, <3>2, <3>3, ReaderMoves
  <2> QED
    BY <2>1, <2>2
<1> QED
  BY <1>1, <1>2 DEF HoldsRead

\* A transport that a reader reads is held only by that reader.
LEMMA StillReads ==
  ASSUME Typed, Claims, Next, NEW e \in Endpoint, NEW t \in Transport,
         reader[e].pc # "none", reader[e].t = t, HoldsRead(e, t)'
  PROVE  /\ reader'[e].pc # "none" /\ reader'[e].t = t
         /\ reader'[e] = reader[e] \/ ReaderStep(e)
<1>1. t \in Used(e)
  BY DEF Used
<1>2. ~InHandshake(e, t) /\ ~Fresh(t)
  BY <1>1, HandshakeAlone, FreshUnused
<1>3. reader'[e].pc # "none" /\ reader'[e].t = t
  BY <1>2, HandshakeBefore DEF HoldsRead
<1>4. ASSUME ~ReaderStep(e)
      PROVE  reader'[e] = reader[e]
  <2>1. ~(e = "client" /\ LoopResponse /\ reader'[e].t = loop.t)
    BY <1>2, <1>3 DEF LoopResponse, InHandshake
  <2>2. ~(e = "server" /\ \E u \in Transport : ServerAttach(u) /\ reader'[e].t = u)
    BY <1>2, <1>3 DEF ServerAttach, InHandshake
  <2> QED
    BY <1>3, <1>4, <2>1, <2>2, ReaderMoves
<1> QED
  BY <1>3, <1>4

LEMMA HasGrows ==
  ASSUME Typed, Typed', Delivery, Delivery', Claims, Next,
         NEW e \in Endpoint, NEW t \in Transport, HoldsRead(e, t)'
  PROVE  Has(e, t) <= Has(e, t)' /\ Has(e, t) \in Nat /\ Has(e, t)' \in Nat
<1>0. /\ Has(e, t) \in Nat /\ recv[e].last_recv_seq \in Nat
      /\ Has(e, t)' \in Nat /\ recv'[e].last_recv_seq \in Nat
      /\ recv'[e].last_recv_seq <= Has(e, t)'
      /\ recv[e].last_recv_seq <= recv'[e].last_recv_seq
  <2>1. recv'[e].last_recv_seq \in Nat /\ reader'[e].frame.seq \in Nat
    BY DEF Typed, TypeOK, RecvSet, ReaderSet, FrameSet
  <2>2. reader'[e].pc = "accept" => reader'[e].frame.seq = recv'[e].last_recv_seq + 1
    BY DEF Delivery, Counted
  <2>3. Has(e, t)' \in Nat /\ recv'[e].last_recv_seq <= Has(e, t)'
    BY <2>1, <2>2 DEF Has
  <2>4. Has(e, t) \in Nat /\ recv[e].last_recv_seq \in Nat
    BY HasType
  <2> QED
    BY <2>1, <2>3, <2>4, RecvGrows
<1>1. CASE reader[e].pc = "accept" /\ reader[e].t = t
  <2>1. /\ reader'[e].t = t
        /\ reader'[e] = reader[e] \/ ReaderStep(e)
    BY <1>1, StillReads
  <2>2. CASE reader'[e] = reader[e]
    BY <1>0, <1>1, <2>2 DEF Has
  <2>3. CASE ReaderStep(e)
    <3>1. ReaderAccept(e)
      BY <1>1, <2>3
      DEF ReaderStep, ReaderStart, ReadAck, ReadData, ReadClose, ReaderDrained, ReaderFail, Reads
    <3>2. recv' = [recv EXCEPT ![e] = NoteReceived(@, reader[e].frame.seq)]
      BY <3>1 DEF ReaderAccept
    <3>3. reader[e].frame.seq \in Nat /\ recv \in [Endpoint -> RecvSet]
      BY DEF Typed, TypeOK, ReaderSet, FrameSet
    <3>4. reader[e].frame.seq = recv[e].last_recv_seq + 1
      BY <1>1 DEF Delivery, Counted
    <3>5. NoteReceived(recv[e], reader[e].frame.seq).last_recv_seq
            = IF reader[e].frame.seq <= recv[e].last_recv_seq
              THEN recv[e].last_recv_seq ELSE reader[e].frame.seq
      BY <3>3, NoteReceivedType
    <3>6. recv'[e].last_recv_seq = reader[e].frame.seq
      BY <1>0, <3>2, <3>3, <3>4, <3>5
    <3> QED
      BY <1>0, <1>1, <3>6 DEF Has
  <2> QED
    BY <2>1, <2>2, <2>3
<1>2. CASE ~(reader[e].pc = "accept" /\ reader[e].t = t)
  <2>1. Has(e, t) = recv[e].last_recv_seq
    BY <1>2 DEF Has
  <2> QED
    BY <1>0, <2>1
<1> QED
  BY <1>1, <1>2

\* What a step does to the frames on their way to a reader.
Takes(e, t) ==
  /\ wire[t][e] # << >> /\ wire'[t][e] = Tail(wire[t][e])
  /\ Head(wire[t][e]).type = "data" => Head(wire[t][e]).seq <= Has(e, t)'
Closes(e, t) == WriterClose(e) /\ writer[e].writer = t /\ ~Broken(e, t)
Adds(e, t) ==
  \E x \in FrameSet : /\ x.type # "data" /\ wire'[t][e] = Append(wire[t][e], x)
                      /\ x.type = "close" => Closes(Peer(e), t)
Cuts(e, t) ==
  /\ dead'[t] /\ Len(wire'[t][e]) <= Len(wire[t][e])
  /\ \A i \in 1 .. Len(wire'[t][e]) : wire'[t][e][i] = wire[t][e][i]
Writes(e, t) ==
  LET p == Peer(e)
  IN  /\ Turn(p) /\ writer[p].writer = t /\ ~Broken(p, t)
      /\ writer'[p].last_sent_seq = Behind(p) + 1
      /\ \E x \in FrameSet : /\ x.type = "data" /\ x.seq = Behind(p) + 1
                             /\ wire'[t][e] = Append(wire[t][e], x)
Begins(e, t) ==
  Fresh(t) /\ \A i \in 1 .. Len(wire'[t][e]) : wire'[t][e][i].type \notin {"data", "close"}
Flows(e, t) ==
  \/ wire'[t][e] = wire[t][e] \/ Takes(e, t) \/ Adds(e, t)
  \/ Cuts(e, t) \/ Writes(e, t) \/ Begins(e, t)

LEMMA WrittenFlows ==
  ASSUME Typed, NEW f \in Endpoint, NEW x \in FrameSet, x.type # "data",
         x.type = "close" => WriterClose(f),
         wire' = wire \/ wire' = Written(f, writer[f].writer, x),
         NEW e \in Endpoint, NEW t \in Transport
  PROVE  Flows(e, t)
<1>1. CASE wire' = wire
  BY <1>1 DEF Flows
<1>2. CASE wire' = Written(f, writer[f].writer, x)
  <2>1. \/ wire'[t][e] = wire[t][e]
        \/ /\ t = writer[f].writer /\ e = Peer(f) /\ ~Broken(f, t)
           /\ wire'[t][e] = Append(wire[t][e], x)
    BY <1>2, WrittenShape
  <2>2. Peer(Peer(f)) = f
    BY PeerType
  <2> QED
    BY <2>1, <2>2 DEF Flows, Adds, Closes
<1> QED
  BY <1>1, <1>2

LEMMA TurnFlows ==
  ASSUME Typed, NEW f \in Endpoint, Turn(f), NEW e \in Endpoint, NEW t \in Transport
  PROVE  Flows(e, t)
<1>1. CASE UNCHANGED wire
  BY <1>1 DEF Flows
<1>2. CASE ~UNCHANGED wire
  <2>1. PICK x \in FrameSet : /\ x.type = "data" /\ x.seq = Behind(f) + 1
                              /\ wire' = Written(f, writer[f].writer, x)
    BY <1>2 DEF Turn
  <2>2. writer'[f].last_sent_seq = Behind(f) + 1
    BY <1>2 DEF Turn
  <2>3. \/ wire'[t][e] = wire[t][e]
        \/ /\ t = writer[f].writer /\ e = Peer(f) /\ ~Broken(f, t)
           /\ wire'[t][e] = Append(wire[t][e], x)
    BY <2>1, WrittenShape
  <2>4. Peer(Peer(f)) = f
    BY PeerType
  <2> QED
    BY <2>1, <2>2, <2>3, <2>4 DEF Flows, Writes
<1> QED
  BY <1>1, <1>2

LEMMA WriterFlows ==
  ASSUME Typed, Gapless, NEW f \in Endpoint, WriterStep(f), NEW e \in Endpoint, NEW t \in Transport
  PROVE  Flows(e, t)
<1>1. CASE WriterResume(f)
  BY <1>1, ReplayTurn, TurnFlows
<1>2. CASE WriterLive(f)
  BY <1>2, LiveTurn, TurnFlows DEF NoTurn, Flows
<1>3. CASE WriterAck(f)
  <2> DEFINE x == Frame("ack", recv[f].last_recv_seq, None)
  <2>1. wire' = wire \/ wire' = Written(f, writer[f].writer, x)
    BY <1>3 DEF WriterAck
  <2>2. recv[f].last_recv_seq \in Nat
    BY DEF Typed, TypeOK, RecvSet
  <2>3. x \in FrameSet
    BY <2>2, FrameTypes DEF FrameType
  <2>4. x.type = "ack"
    BY DEF Frame
  <2> HIDE DEF x
  <2> QED
    BY <2>1, <2>3, <2>4, WrittenFlows
<1>4. CASE WriterClose(f)
  <2> DEFINE x == Frame("close", 0, None)
  <2>1. wire' = wire \/ wire' = Written(f, writer[f].writer, x)
    BY <1>4 DEF WriterClose
  <2>2. x \in FrameSet
    BY FrameTypes DEF FrameType
  <2>3. x.type # "data"
    BY DEF Frame
  <2> HIDE DEF x
  <2> QED
    BY <1>4, <2>1, <2>2, <2>3, WrittenFlows
<1>5. CASE WriterApply(f) \/ WriterStage(f) \/ WriterStop(f) \/ WriterFail(f)
  BY <1>5 DEF WriterApply, WriterStage, WriterStop, WriterFail, netVars, Flows
<1> QED
  BY <1>1, <1>2, <1>3, <1>4, <1>5 DEF WriterStep

LEMMA ReaderFlows ==
  ASSUME Typed, Typed', Delivery, Delivery', Claims, Next, NEW f \in Endpoint, ReaderStep(f),
         NEW e \in Endpoint, NEW t \in Transport, HoldsRead(e, t)'
  PROVE  Flows(e, t)
<1>1. CASE \E type : Reads(f, type)
  <2>1. PICK type : Reads(f, type)
    BY <1>1
  <2>2. /\ reader[f].t \in Transport /\ wire[reader[f].t][f] # << >> /\ reader[f].pc = "read"
        /\ wire' = [wire EXCEPT ![reader[f].t][f] = Tail(@)]
        /\ Head(wire[reader[f].t][f]).type = type /\ Head(wire[reader[f].t][f]).seq \in Nat
    BY <2>1, ReadsType
  <2>3. wire \in [Transport -> [Endpoint -> Seq(FrameSet)]]
    BY DEF Typed, TypeOK
  <2>4. CASE ~(e = f /\ t = reader[f].t)
    BY <2>2, <2>3, <2>4 DEF Flows
  <2>5. CASE e = f /\ t = reader[f].t
    <3>1. wire[t][e] # << >> /\ wire'[t][e] = Tail(wire[t][e])
      BY <2>2, <2>3, <2>5
    <3>2. ASSUME Head(wire[t][e]).type = "data"
          PROVE  Head(wire[t][e]).seq <= Has(e, t)'
      <4> DEFINE x == Head(wire[t][e])
                 last == reader[e].last
      <4>1. ReadData(e)
        BY <2>1, <2>2, <2>5, <3>2
        DEF ReaderStep, ReaderStart, ReadAck, ReaderAccept, ReadClose, ReaderDrained, ReaderFail,
            Reads, Eof
      <4>2. reader'[e].pc # "none" /\ reader'[e].t = t
        BY <2>2, <2>5, StillReads
      <4>3. /\ last = recv[e].last_recv_seq /\ recv[e].last_recv_seq \in Nat /\ x.seq \in Nat
            /\ reader \in [Endpoint -> ReaderSet]
        BY <2>2, <2>5 DEF Delivery, Counted, Typed, TypeOK, RecvSet
      <4>4. Has(e, t) <= Has(e, t)' /\ Has(e, t)' \in Nat /\ Has(e, t) \in Nat
        BY HasGrows
      <4>5. Has(e, t) = recv[e].last_recv_seq
        BY <2>2, <2>5 DEF Has
      <4>6. CASE x.seq <= last
        BY <4>3, <4>4, <4>5, <4>6
      <4>7. CASE x.seq = last + 1
        <5>1. ~(x.seq <= last)
          BY <4>3, <4>7
        <5>2. reader' = [reader EXCEPT ![e].pc = "accept", ![e].frame = x]
          BY <2>5, <4>1, <4>7, <5>1 DEF ReadData
        <5> HIDE DEF x
        <5>3. reader'[e].pc = "accept" /\ reader'[e].frame = x
          BY <4>3, <5>2 DEF ReaderSet
        <5>4. Has(e, t)' = x.seq
          BY <4>2, <5>3 DEF Has
        <5> QED
          BY <4>3, <5>4 DEF x
      <4>8. CASE ~(x.seq <= last) /\ x.seq # last + 1
        <5>1. MarkClosed(e)
          BY <2>5, <4>1, <4>8 DEF ReadData
        <5>2. reader'[e].pc = "none"
          BY <4>3, <5>1 DEF MarkClosed, NoReader
        <5> QED
          BY <4>2, <5>2
      <4> QED
        BY <4>6, <4>7, <4>8
    <3> QED
      BY <3>1, <3>2 DEF Flows, Takes
  <2> QED
    BY <2>4, <2>5
<1>2. CASE ~ \E type : Reads(f, type)
  BY <1>2
  DEF ReaderStep, ReaderStart, ReadAck, ReadData, ReaderAccept, ReadClose, ReaderDrained,
      ReaderFail, netVars, Flows
<1> QED
  BY <1>1, <1>2

LEMMA HandshakeFlows ==
  ASSUME Typed, Claims, LoopStep \/ \E u \in Transport : HandlerStep(u),
         NEW e \in Endpoint, NEW t \in Transport, HoldsRead(e, t)'
  PROVE  Flows(e, t)
<1>0. /\ wire \in [Transport -> [Endpoint -> Seq(FrameSet)]]
      /\ "client" \in Endpoint /\ "server" \in Endpoint /\ "client" # "server"
  BY DEF Typed, TypeOK, Endpoint
<1>1. CASE LoopDial
  <2> DEFINE u == dialed + 1
             x == Frame("resume", recv["client"].last_recv_seq, None)
  <2>1. u \in Transport /\ wire' = [wire EXCEPT ![u]["server"] = << x >>]
    BY <1>1 DEF LoopDial
  <2>2. x.type = "resume"
    BY DEF Frame
  <2>3. t = u => Fresh(t) /\ wire[t]["client"] = << >>
    BY <1>0, <1>1, FreshUnused DEF Fresh
  <2> HIDE DEF u, x
  <2>4. \/ wire'[t][e] = wire[t][e]
        \/ t = u /\ wire'[t][e] = << x >>
    BY <1>0, <2>1
  <2>5. CASE t = u /\ wire'[t][e] = << x >>
    <3>1. \A i \in 1 .. Len(<< x >>) : << x >>[i].type \notin {"data", "close"}
      BY <2>2
    <3> QED
      BY <2>3, <2>5, <3>1 DEF Flows, Begins
  <2> QED
    BY <2>4, <2>5 DEF Flows
<1>2. CASE LoopResponse
  <2> DEFINE q == wire[loop.t]["client"]
  <2>1. /\ loop.t \in Transport /\ q # << >>
        /\ wire' = [wire EXCEPT ![loop.t]["client"] = Tail(@)]
        /\ loop'.pc = "idle"
        /\ Head(q).type = "attach_ok" \/ MarkClosed("client")
    BY <1>2 DEF LoopResponse, Typed, Named
  <2>2. CASE ~(e = "client" /\ t = loop.t)
    BY <1>0, <2>1, <2>2 DEF Flows
  <2>3. CASE e = "client" /\ t = loop.t
    <3>1. wire[t][e] # << >> /\ wire'[t][e] = Tail(wire[t][e])
      BY <1>0, <2>1, <2>3
    <3>2. ~MarkClosed("client")
      <4>1. MarkClosed("client") => reader'["client"].pc = "none"
        BY <1>0 DEF MarkClosed, NoReader, Typed, TypeOK
      <4> QED
        BY <1>0, <2>1, <2>3, <4>1 DEF HoldsRead, InHandshake
    <3> QED
      BY <2>1, <2>3, <3>1, <3>2 DEF Flows, Takes
  <2> QED
    BY <2>2, <2>3
<1>3. ASSUME NEW u \in Transport, ServerResume(u)
      PROVE  Flows(e, t)
  <2> DEFINE q == wire[u]["server"]
             tail == Tail(q)
             rest == [wire EXCEPT ![u]["server"] = tail]
             y == IF RefusesResume THEN Frame("reject", 0, None)
                  ELSE Frame("attach_ok", recv["server"].last_recv_seq, None)
  <2>1. /\ wire' = rest \/ wire' = [rest EXCEPT ![u]["client"] = Append(@, y)]
        /\ q # << >> /\ handler[u].pc = "request"
    BY <1>3 DEF ServerResume
  <2>2. y.type \notin {"data", "close"} /\ y \in FrameSet
    <3>1. Frame("reject", 0, None).type = "reject" /\ Frame("reject", 0, None) \in FrameSet
      BY FrameTypes DEF Frame, FrameType
    <3>2. recv["server"].last_recv_seq \in Nat
      BY <1>0 DEF Typed, TypeOK, RecvSet
    <3>3. /\ Frame("attach_ok", recv["server"].last_recv_seq, None).type = "attach_ok"
          /\ Frame("attach_ok", recv["server"].last_recv_seq, None) \in FrameSet
      BY <3>2, FrameTypes DEF Frame, FrameType
    <3> QED
      BY <3>1, <3>3
  <2>3. Head(q).type = "resume"
    <3>1. 1 \in 1 .. Len(q) /\ Head(q) = q[1]
      BY <1>0, <2>1, TailFrames
    <3> QED
      BY <2>1, <3>1 DEF Claims
  <2> HIDE DEF tail, y
  <2>4. \/ wire'[t][e] = wire[t][e]
        \/ t = u /\ e = "server" /\ wire'[t][e] = tail
        \/ t = u /\ e = "client" /\ wire'[t][e] = Append(wire[t][e], y)
    BY <1>0, <2>1
  <2>5. CASE t = u /\ e = "server" /\ wire'[t][e] = tail
    BY <2>1, <2>3, <2>5 DEF Flows, Takes, tail
  <2>6. CASE wire'[t][e] = Append(wire[t][e], y)
    BY <2>2, <2>6 DEF Flows, Adds
  <2> QED
    BY <2>4, <2>5, <2>6 DEF Flows
<1>4. CASE LoopQuit \/ LoopFail \/ \E u \in Transport : ServerAttach(u) \/ ServerRefuse(u)
  BY <1>4 DEF LoopQuit, LoopFail, ServerAttach, ServerRefuse, Flows
<1> QED
  BY <1>1, <1>2, <1>3, <1>4 DEF LoopStep, HandlerStep

LEMMA BreakFlows ==
  ASSUME Typed, NEW u \in Transport, Break(u), NEW e \in Endpoint, NEW t \in Transport
  PROVE  Flows(e, t)
<1>0. wire \in [Transport -> [Endpoint -> Seq(FrameSet)]] /\ dead \in [Transport -> BOOLEAN]
  BY DEF Typed, TypeOK
<1>1. CASE t = u
  <2>1. dead'[t]
    BY <1>0, <1>1 DEF Break
  <2> QED
    BY <2>1, BreakPrefix DEF Flows, Cuts
<1>2. CASE t # u
  <2>1. \E v : wire' = [wire EXCEPT ![u] = v]
    BY DEF Break
  <2>2. wire'[t] = wire[t]
    BY <1>0, <1>2, <2>1
  <2> QED
    BY <2>2 DEF Flows
<1> QED
  BY <1>1, <1>2

LEMMA FlowStep ==
  ASSUME Typed, Typed', Delivery, Delivery', Claims, Gapless, Next,
         NEW e \in Endpoint, NEW t \in Transport, HoldsRead(e, t)'
  PROVE  Flows(e, t)
<1>1. ASSUME NEW f \in Endpoint, Send(f) \/ Close(f) \/ CloseAgain(f) \/ CloseStep(f)
      PROVE  Flows(e, t)
  BY <1>1 DEF Send, Close, CloseAgain, CloseStep, CloseStopped, CloseTimeout, netVars, Flows
<1>2. ASSUME NEW f \in Endpoint, WriterStep(f) \/ ReaderStep(f)
      PROVE  Flows(e, t)
  BY <1>2, WriterFlows, ReaderFlows
<1>3. CASE LoopStep \/ \E u \in Transport : HandlerStep(u)
  BY <1>3, HandshakeFlows
<1>4. CASE ServerExpire
  BY <1>4 DEF ServerExpire, netVars, Flows
<1> QED
  BY <1>1, <1>2, <1>3, <1>4, BreakFlows DEF Next

\* A transport that failed does not recover.
LEMMA DeadStays ==
  ASSUME Typed, Next, NEW t \in Transport, dead[t]
  PROVE  dead'[t]
<1>1. CASE \E u \in Transport : Break(u)
  BY <1>1 DEF Break, Typed, TypeOK
<1>2. ASSUME NEW e \in Endpoint, WriterStep(e) \/ ReaderStep(e)
      PROVE  UNCHANGED dead
  BY <1>2
  DEF WriterStep, WriterApply, WriterAck, WriterResume, WriterLive, WriterStage, WriterClose,
      WriterStop, WriterFail, ReaderStep, ReaderStart, ReadAck, ReadData, ReaderAccept, ReadClose,
      ReaderDrained, ReaderFail, netVars
<1>3. CASE \/ \E e \in Endpoint : Send(e) \/ Close(e) \/ CloseAgain(e) \/ CloseStep(e)
           \/ LoopStep \/ (\E u \in Transport : HandlerStep(u)) \/ ServerExpire
  BY <1>3
  DEF Send, Close, CloseAgain, CloseStep, CloseStopped, CloseTimeout, LoopStep, LoopDial, LoopQuit,
      LoopResponse, LoopFail, HandlerStep, ServerResume, ServerAttach, ServerRefuse, ServerExpire,
      netVars
<1> QED
  BY <1>1, <1>2, <1>3 DEF Next

\* What is on its way to a reader continues what the reader has...
Ordered ==
  \A e \in Endpoint, t \in Transport : HoldsRead(e, t) => Continues(wire[t][e], Has(e, t))

\* ...and the last frame written is on its way, or with the reader.
Followed ==
  \A e \in Endpoint : \A t \in Transport : writer[e].writer = t /\ ~Broken(e, t) =>
    Reaches(wire[t][Peer(e)], Has(Peer(e), t), writer[e].last_sent_seq)

\* The frame whose turn it is continues what was written, or what the peer has.
LEMMA NextFollows ==
  ASSUME Typed, Delivery, Reported, Gapless, Followed,
         NEW p \in Endpoint, NEW t \in Transport, writer[p].writer = t, ~Broken(p, t),
         NEW h \in Nat, Has(Peer(p), t) <= h
  PROVE  \/ Behind(p) + 1 <= h + 1
         \/ \E j \in 1 .. Len(wire[t][Peer(p)]) :
              /\ wire[t][Peer(p)][j].type = "data"
              /\ Behind(p) + 1 <= wire[t][Peer(p)][j].seq + 1
<1> DEFINE e == Peer(p)
           b == Behind(p)
           s == writer[p].last_sent_seq
           q == wire[t][e]
           k == Has(e, t)
<1>0. /\ b \in Int /\ s \in Nat /\ e \in Endpoint
      /\ q \in Seq(FrameSet) /\ k \in Nat
  <2>1. conn[p].next_send_seq \in Nat /\ writer[p].resume \in Seq(RecordSet) /\ s \in Nat
    BY DEF Typed, TypeOK, ConnSet, WriterSet
  <2>2. e \in Endpoint
    BY PeerType
  <2>3. q \in Seq(FrameSet)
    BY <2>2 DEF Typed, TypeOK
  <2>4. k \in Nat
    BY <2>2, HasType
  <2> QED
    BY <2>1, <2>2, <2>3, <2>4 DEF Behind
<1>1. CASE b <= s
  <2>1. Reaches(q, k, s)
    BY DEF Followed
  <2>2. CASE s <= k
    BY <1>0, <1>1, <2>2
  <2>3. ASSUME NEW j \in 1 .. Len(q), q[j].type = "data", s <= q[j].seq
        PROVE  q[j].type = "data" /\ b + 1 <= q[j].seq + 1
    <3>1. q[j] \in FrameSet
      BY <1>0
    <3>2. q[j].seq \in Nat
      BY <3>1 DEF FrameSet
    <3> HIDE DEF b, s, q
    <3> QED
      BY <1>0, <1>1, <2>3, <3>2
  <2> QED
    BY <2>1, <2>2, <2>3 DEF Reaches
<1>2. CASE ~(b <= s)
  <2>1. t # None
    BY TransportType
  <2>2. \A n \in s + 1 .. b : n <= replay[p].last_acked
    BY <2>1 DEF Gapless
  <2>3. b <= replay[p].last_acked
    <3> HIDE DEF b, s
    <3>1. b \in s + 1 .. b
      BY <1>0, <1>2
    <3> QED
      BY <2>2, <3>1
  <2>4. replay[p].last_acked <= recv[e].last_recv_seq
    BY DEF Reported, Known
  <2>5. /\ recv[e].last_recv_seq <= k /\ recv[e].last_recv_seq \in Nat
        /\ replay[p].last_acked \in Nat
    BY <1>0, HasType DEF Typed, TypeOK, ReplaySet
  <2>6. b <= h
    <3> HIDE DEF b, e, k
    <3>1. k <= h
      BY DEF k, e
    <3> QED
      BY <1>0, <2>3, <2>4, <2>5, <3>1
  <2> QED
    BY <1>0, <2>6
<1> QED
  BY <1>1, <1>2

LEMMA OrderedStep ==
  ASSUME Typed, Typed', Delivery, Delivery', Claims, Reported, Gapless, Ordered, Followed, Next
  PROVE  Ordered'
<1> SUFFICES ASSUME NEW e \in Endpoint, NEW t \in Transport, HoldsRead(e, t)'
             PROVE  Continues(wire'[t][e], Has(e, t)')
  BY DEF Ordered
<1> DEFINE q == wire[t][e]
           q2 == wire'[t][e]
           h == Has(e, t)'
<1>0. q \in Seq(FrameSet) /\ q2 \in Seq(FrameSet)
  BY DEF Typed, TypeOK
<1>1. Has(e, t) <= h /\ Has(e, t) \in Nat /\ h \in Nat
  BY HasGrows
<1>2. Flows(e, t)
  BY FlowStep
<1>3. CASE Begins(e, t)
  BY <1>3 DEF Begins, Continues
<1>4. CASE ~Begins(e, t) /\ Fresh(t)
  <2>1. q = << >>
    BY <1>4, FreshUnused
  <2>2. \A p \in Endpoint : writer[p].writer # t
    BY <1>4, FreshUnused DEF Used
  <2>3. Len(q2) = 0 \/ Adds(e, t)
    <3>1. ~Writes(e, t)
      BY <2>2, PeerType DEF Writes
    <3>2. Cuts(e, t) => Len(q2) = 0
      BY <1>0, <2>1 DEF Cuts
    <3> QED
      BY <1>2, <1>4, <2>1, <3>1, <3>2 DEF Flows, Takes
  <2>4. CASE Len(q2) = 0
    BY <2>4 DEF Continues
  <2>5. CASE Adds(e, t)
    <3>1. PICK x \in FrameSet : x.type # "data" /\ q2 = Append(q, x)
      BY <2>5 DEF Adds
    <3>2. Continues(q, h)
      BY <2>1 DEF Continues
    <3> QED
      BY <1>0, <1>1, <3>1, <3>2, ContinuesAppend
  <2> QED
    BY <2>3, <2>4, <2>5
<1>5. CASE ~Begins(e, t) /\ ~Fresh(t)
  <2>1. HoldsRead(e, t)
    BY <1>5, HoldsBefore
  <2>2. Continues(q, Has(e, t))
    BY <2>1 DEF Ordered
  <2>3. Continues(q, h)
    BY <1>0, <1>1, <2>2, ContinuesMore
  <2>4. CASE q2 = q
    BY <2>3, <2>4
  <2>5. CASE Takes(e, t)
    BY <1>0, <1>1, <2>3, <2>5, ContinuesTail DEF Takes
  <2>6. CASE Adds(e, t)
    <3>1. PICK x \in FrameSet : x.type # "data" /\ q2 = Append(q, x)
      BY <2>6 DEF Adds
    <3> QED
      BY <1>0, <1>1, <2>3, <3>1, ContinuesAppend
  <2>7. CASE Cuts(e, t)
    BY <1>0, <1>1, <2>3, <2>7, ContinuesPrefix DEF Cuts
  <2>8. CASE Writes(e, t)
    <3> DEFINE p == Peer(e)
    <3>1. PICK x \in FrameSet : /\ x.type = "data" /\ x.seq = Behind(p) + 1
                                /\ q2 = Append(q, x)
      BY <2>8 DEF Writes
    <3>2. p \in Endpoint /\ Peer(p) = e /\ writer[p].writer = t /\ ~Broken(p, t)
      BY <2>8, PeerType DEF Writes
    <3>3. \/ x.seq <= h + 1
          \/ \E j \in 1 .. Len(q) : q[j].type = "data" /\ x.seq <= q[j].seq + 1
      <4> HIDE DEF p, h
      <4>1. \/ Behind(p) + 1 <= h + 1
            \/ \E j \in 1 .. Len(wire[t][Peer(p)]) :
                 /\ wire[t][Peer(p)][j].type = "data"
                 /\ Behind(p) + 1 <= wire[t][Peer(p)][j].seq + 1
        BY <1>1, <3>2, NextFollows
      <4> QED
        BY <3>1, <3>2, <4>1
    <3> QED
      BY <1>0, <1>1, <2>3, <3>1, <3>3, ContinuesAppend
  <2> QED
    BY <1>2, <1>5, <2>4, <2>5, <2>6, <2>7, <2>8 DEF Flows
<1> QED
  BY <1>3, <1>4, <1>5

LEMMA LastReached ==
  ASSUME NEW q \in Seq(FrameSet), NEW h, NEW x \in FrameSet, x.type = "data"
  PROVE  Reaches(Append(q, x), h, x.seq)
<1>1. /\ Len(Append(q, x)) = Len(q) + 1 /\ Len(q) \in Nat /\ Append(q, x)[Len(q) + 1] = x
  OBVIOUS
<1>2. Len(q) + 1 \in 1 .. Len(Append(q, x)) /\ x.seq \in Nat
  BY <1>1 DEF FrameSet
<1> QED
  BY <1>1, <1>2 DEF Reaches

LEMMA FollowedStep ==
  ASSUME Typed, Typed', Delivery, Delivery', Claims, Reported, Kept, Gapless, Ordered, Followed, Next
  PROVE  Followed'
<1> SUFFICES ASSUME NEW e \in Endpoint, NEW t \in Transport, writer'[e].writer = t, ~Broken(e, t)'
             PROVE  Reaches(wire'[t][Peer(e)], Has(Peer(e), t)', writer'[e].last_sent_seq)
  BY DEF Followed
<1> DEFINE p == Peer(e)
           q == wire[t][p]
           q2 == wire'[t][p]
           h == Has(p, t)'
           s == writer[e].last_sent_seq
<1>0. /\ p \in Endpoint /\ Peer(p) = e /\ t # None /\ s \in Nat
      /\ HoldsRead(p, t)' /\ ~dead'[t]
  <2>1. p \in Endpoint /\ Peer(p) = e /\ t # None
    BY PeerType, TransportType
  <2>2. s \in Nat
    BY DEF Typed, TypeOK, WriterSet
  <2> QED
    BY <2>1, <2>2 DEF Broken
<1>1. q \in Seq(FrameSet) /\ q2 \in Seq(FrameSet)
  BY <1>0 DEF Typed, TypeOK
<1>2. Has(p, t) <= h /\ Has(p, t) \in Nat /\ h \in Nat
  BY <1>0, HasGrows
<1>3. ASSUME writer[e].writer = t
      PROVE  ~Broken(e, t) /\ HoldsRead(p, t) /\ ~Fresh(t)
  <2>1. ~Fresh(t)
    BY <1>3, FreshUnused DEF Used
  <2>2. HoldsRead(p, t)
    BY <1>0, <2>1, HoldsBefore
  <2>3. ~dead[t]
    BY <1>0, DeadStays
  <2> QED
    BY <2>1, <2>2, <2>3 DEF Broken
<1>4. ASSUME writer[e].writer = t, writer'[e].last_sent_seq = s
      PROVE  Reaches(q2, h, s)
  <2>1. Reaches(q, Has(p, t), s) /\ Continues(q, Has(p, t))
    BY <1>0, <1>3, <1>4 DEF Followed, Ordered
  <2>2. Reaches(q, h, s) /\ Continues(q, h)
    BY <1>0, <1>1, <1>2, <2>1, ContinuesMore
  <2>3. CASE q2 = q
    BY <2>2, <2>3
  <2>4. CASE Takes(p, t)
    BY <1>0, <1>1, <1>2, <2>2, <2>4, ContinuesTail DEF Takes
  <2>5. CASE Adds(p, t)
    <3>1. PICK x \in FrameSet : x.type # "data" /\ q2 = Append(q, x)
      BY <2>5 DEF Adds
    <3> QED
      BY <1>0, <1>1, <1>2, <2>2, <3>1, ContinuesAppend
  <2>6. CASE Writes(p, t)
    <3>1. PICK x \in FrameSet : /\ x.type = "data" /\ x.seq = Behind(e) + 1
                                /\ q2 = Append(q, x)
      BY <1>0, <2>6 DEF Writes
    <3>2. x.seq = s
      BY <1>0, <1>4, <2>6, <3>1 DEF Writes
    <3> QED
      BY <1>0, <1>1, <3>1, <3>2, LastReached
  <2> QED
    BY <1>0, <1>3, <1>4, <2>3, <2>4, <2>5, <2>6, FlowStep DEF Flows, Cuts, Begins
<1>5. ASSUME Turn(e), writer[e].writer = t
      PROVE  Reaches(q2, h, writer'[e].last_sent_seq)
  <2>1. CASE writer'[e].last_sent_seq = s
    BY <1>4, <1>5, <2>1
  <2>2. CASE writer'[e].last_sent_seq # s
    <3>1. writer'[e].last_sent_seq = Behind(e) + 1
      BY <2>2, <1>5 DEF Turn
    <3>2. PICK x \in FrameSet : /\ x.type = "data" /\ x.seq = Behind(e) + 1
                                /\ wire' = Written(e, t, x)
      BY <1>5, <2>2 DEF Turn
    <3>3. wire' = [wire EXCEPT ![t][p] = Append(@, x)]
      BY <1>3, <1>5, <3>2 DEF Written
    <3>4. q2 = Append(q, x)
      BY <1>0, <3>3 DEF Typed, TypeOK
    <3> QED
      BY <1>1, <1>2, <3>1, <3>2, <3>4, LastReached
  <2> QED
    BY <2>1, <2>2
<1>6. CASE WriterResume(e)
  BY <1>5, <1>6, ReplayTurn
<1>7. CASE WriterLive(e)
  <2>1. writer[e].writer = t /\ (Turn(e) \/ NoTurn(e))
    BY <1>7, LiveTurn
  <2>2. CASE NoTurn(e)
    BY <1>4, <2>1, <2>2 DEF NoTurn
  <2> QED
    BY <1>5, <2>1, <2>2
<1>8. CASE WriterApply(e)
  <2>1. CASE writer'[e].last_sent_seq = s /\ writer'[e].writer = writer[e].writer
    BY <1>4, <2>1
  <2>2. CASE writer'[e].last_sent_seq \in Nat /\ Known(e, writer'[e].last_sent_seq)
    <3>1. recv[p].last_recv_seq <= Has(p, t) /\ recv[p].last_recv_seq \in Nat
      BY <1>0, HasType
    <3>2. writer'[e].last_sent_seq <= recv[p].last_recv_seq
      BY <2>2 DEF Known
    <3>3. writer'[e].last_sent_seq <= h
      <4> DEFINE n == writer'[e].last_sent_seq
      <4>1. n \in Nat /\ n <= recv[p].last_recv_seq
        BY <2>2, <3>2
      <4> HIDE DEF n, p, h
      <4>2. n <= h
        BY <1>2, <3>1, <4>1
      <4> QED
        BY <4>2 DEF n
    <3> QED
      BY <3>3 DEF Reaches
  <2> QED
    BY <1>0, <1>8, <2>1, <2>2, AttachedWriter
<1>9. CASE ~WriterApply(e) /\ ~WriterResume(e) /\ ~WriterLive(e)
  <2>1. writer'[e] = writer[e]
    BY <1>0, <1>9, WriterMoves
  <2> QED
    BY <1>4, <2>1
<1> QED
  BY <1>6, <1>7, <1>8, <1>9

LEMMA GapsInit == Init => Gapless /\ Ordered /\ Followed
<1> SUFFICES ASSUME Init PROVE Gapless /\ Ordered /\ Followed
  OBVIOUS
<1>1. /\ \A e \in Endpoint : writer[e].writer = None
      /\ \A t \in Transport, e \in Endpoint : wire[t][e] = << >>
  BY DEF Init, NewWriter, NoWriter
<1>2. \A h : Continues(<< >>, h)
  BY DEF Continues
<1> QED
  BY <1>1, <1>2, TransportType DEF Gapless, Ordered, Followed

LEMMA GapsStep ==
  ASSUME Typed, Typed', Delivery, Delivery', Claims, Claims', Reported, Reported', Kept, Kept',
         Gapless, Ordered, Followed, [Next]_vars
  PROVE  Gapless' /\ Ordered' /\ Followed'
<1>1. CASE Next
  BY <1>1, GaplessStep, OrderedStep, FollowedStep
<1>2. CASE UNCHANGED vars
  <2>1. Gapless'
    BY <1>2 DEF vars, endVars, taskVars, netVars, Gapless, Behind
  <2>2. Ordered'
    BY <1>2 DEF vars, endVars, taskVars, netVars, Ordered, HoldsRead, InHandshake, Has, Continues
  <2>3. Followed'
    BY <1>2 DEF vars, endVars, taskVars, netVars, Followed, Broken, HoldsRead, InHandshake, Has,
                Reaches
  <2> QED
    BY <2>1, <2>2, <2>3
<1> QED
  BY <1>1, <1>2

\* A reader never closes its connection over a gap: whatever frames a resume
\* replays, are acknowledged meanwhile or were lost with a transport, the next
\* data frame is one the reader has or the next in sequence
\* (handle_recovery_data_frame, apply, write_live).
THEOREM SessionNeverGaps == Spec => []NoSequenceGap
<1> DEFINE Inv == /\ Typed /\ Delivery /\ Claims /\ Reported /\ Kept
                  /\ Gapless /\ Ordered /\ Followed
<1>1. Init => Inv
  BY TypedInit, DeliveryInit, ClaimsInit, ReportedInit, KeptInit, GapsInit
<1>2. Inv /\ [Next]_vars => Inv'
  <2> SUFFICES ASSUME Inv, [Next]_vars PROVE Inv'
    OBVIOUS
  <2>1. Typed' /\ Delivery' /\ Claims' /\ Reported' /\ Kept'
    BY TypedStep, DeliveryStep, ClaimsStep, ReportedStep, KeptStep
  <2> QED
    BY <2>1, GapsStep
<1>3. Inv => NoSequenceGap
  <2> SUFFICES ASSUME Inv, NEW e \in Endpoint, reader[e].pc = "read",
                      wire[reader[e].t][e] # << >>, Head(wire[reader[e].t][e]).type = "data"
               PROVE  Head(wire[reader[e].t][e]).seq <= reader[e].last + 1
    BY DEF NoSequenceGap
  <2> DEFINE t == reader[e].t
             q == wire[t][e]
  <2>1. t \in Transport /\ q \in Seq(FrameSet)
    <3>1. t \in Transport
      BY DEF Typed, Named
    <3> QED
      BY <3>1 DEF Typed, TypeOK
  <2>2. Continues(q, Has(e, t))
    BY <2>1 DEF Ordered, HoldsRead
  <2>3. Has(e, t) = reader[e].last
    BY DEF Has, Delivery, Counted
  <2>4. 1 \in 1 .. Len(q) /\ Head(q) = q[1] /\ Len(q) \in Nat
    BY <2>1, TailFrames
  <2>5. ~ \E j \in 1 .. Len(q) : j < 1
    BY <2>4
  <2> QED
    BY <2>2, <2>3, <2>4, <2>5 DEF Continues
<1> QED
  BY <1>1, <1>2, <1>3, PTL DEF Spec

-----------------------------------------------------------------------------
(* CLOSE comes last.  A writer that wrote CLOSE has stopped for good, so   *)
(* what it numbered before is all it will ever number; and every number    *)
(* it gave out is with the peer, or before CLOSE on the transport.         *)

\* The reader has n, or will have it when it comes to frame i of q.
ReachedAt(q, h, i, n) ==
  n <= h \/ \E j \in 1 .. Len(q) : j < i /\ q[j].type = "data" /\ n <= q[j].seq

Stopped(e) == ~writer[e].running /\ conn[e].transport_gen > 0

Ended ==
  \A e \in Endpoint, t \in Transport : HoldsRead(e, t) =>
    \A i \in 1 .. Len(wire[t][e]) : wire[t][e][i].type = "close" =>
      /\ Stopped(Peer(e))
      /\ ReachedAt(wire[t][e], Has(e, t), i, conn[Peer(e)].next_send_seq)

\* A writer that stopped after its first transport never runs again.
LEMMA StopsForGood ==
  ASSUME Typed, Next, NEW e \in Endpoint, Stopped(e)
  PROVE  ~writer'[e].running
<1>0. /\ writer \in [Endpoint -> WriterSet] /\ ~NoWriter.running /\ conn[e].transport_gen # 0
      /\ ~writer[e].running
  BY DEF Typed, TypeOK, NoWriter, Stopped, ConnSet
<1>1. ASSUME NEW f \in Endpoint, MarkClosed(f)
      PROVE  ~writer'[e].running
  BY <1>0, <1>1 DEF MarkClosed
<1>2. ASSUME NEW f \in Endpoint, WriterStep(f)
      PROVE  ~writer'[e].running
  <2>1. f # e
    BY <1>0, <1>2
    DEF WriterStep, WriterApply, WriterAck, WriterResume, WriterLive, MayWriteLive, WriterStage,
        WriterClose, MayWriteClose, WriterStop, WriterFail
  <2>2. CASE WriterApply(f)
    BY <1>0, <2>1, <2>2 DEF WriterApply
  <2>3. CASE WriterAck(f) \/ WriterResume(f) \/ WriterFail(f)
    BY <1>0, <2>1, <2>3 DEF WriterAck, WriterResume, WriterFail, taskVars
  <2>4. CASE WriterLive(f) \/ WriterStage(f)
    BY <1>0, <2>1, <2>4 DEF WriterLive, WriterStage
  <2>5. CASE WriterClose(f) \/ WriterStop(f)
    BY <1>0, <2>1, <2>5 DEF WriterClose, WriterStop
  <2> QED
    BY <1>2, <2>2, <2>3, <2>4, <2>5 DEF WriterStep
<1>3. ASSUME NEW f \in Endpoint, ReaderStep(f) \/ Send(f) \/ Close(f) \/ CloseAgain(f) \/ CloseStep(f)
      PROVE  ~writer'[e].running
  <2>1. UNCHANGED writer \/ MarkClosed(f)
    BY <1>3
    DEF ReaderStep, ReaderStart, ReadAck, ReadData, ReaderAccept, ReadClose, ReaderDrained,
        ReaderFail, Send, Close, CloseAgain, CloseStep, CloseStopped, CloseTimeout, taskVars
  <2> QED
    BY <1>0, <1>1, <2>1
<1>4. ASSUME NEW t \in Transport, ServerAttach(t)
      PROVE  ~writer'[e].running
  <2>1. \/ UNCHANGED writer
        \/ conn["server"].transport_gen = 0 /\ writer' = [writer EXCEPT !["server"] = NewWriter]
    BY <1>4 DEF ServerAttach
  <2> QED
    BY <1>0, <2>1
<1>5. CASE LoopStep \/ ServerExpire \/ \E t \in Transport : ServerResume(t) \/ ServerRefuse(t) \/ Break(t)
  <2>1. UNCHANGED writer \/ MarkClosed("client") \/ MarkClosed("server")
    BY <1>5
    DEF LoopStep, LoopDial, LoopQuit, LoopResponse, LoopFail, ServerResume, ServerRefuse, Break,
        ServerExpire, taskVars
  <2> QED
    BY <1>0, <1>1, <2>1 DEF Endpoint
<1> QED
  BY <1>2, <1>3, <1>4, <1>5 DEF Next, HandlerStep

LEMMA StoppedStays ==
  ASSUME Typed, Typed', Alive, Next, NEW e \in Endpoint, Stopped(e)
  PROVE  Stopped(e)' /\ conn'[e].next_send_seq = conn[e].next_send_seq
<1>1. ~writer'[e].running
  BY StopsForGood
<1>2. ~WriterLive(e) /\ ~WriterStage(e)
  BY DEF Stopped, WriterLive, MayWriteLive, WriterStage
<1>3. conn'[e].next_send_seq = conn[e].next_send_seq
  BY <1>2, NumbersOnly
<1>4. conn[e].transport_gen > 0 /\ conn[e].transport_gen \in Nat /\ conn'[e].transport_gen \in Nat
  BY DEF Stopped, Typed, TypeOK, ConnSet
<1>5. conn'[e].transport_gen > 0
  BY <1>4, AliveMoves DEF Rests, Starts, Shuts
<1> QED
  BY <1>1, <1>3, <1>5 DEF Stopped

\* What was ahead of a frame stays ahead of it, or is with the reader.
LEMMA ReachedMore ==
  ASSUME NEW q \in Seq(FrameSet), NEW h \in Nat, NEW k \in Nat, h <= k, NEW n \in Nat, NEW i,
         ReachedAt(q, h, i, n)
  PROVE  ReachedAt(q, k, i, n)
  BY DEF ReachedAt

LEMMA ReachedTail ==
  ASSUME NEW q \in Seq(FrameSet), q # << >>, NEW h \in Nat, NEW n \in Nat,
         NEW i \in 1 .. Len(Tail(q)), ReachedAt(q, h, i + 1, n),
         Head(q).type = "data" => Head(q).seq <= h
  PROVE  ReachedAt(Tail(q), h, i, n)
<1> DEFINE r == Tail(q)
<1>1. /\ Len(r) = Len(q) - 1 /\ Len(q) \in Nat /\ Len(q) >= 1 /\ Head(q) = q[1]
      /\ \A j \in 1 .. Len(r) : r[j] = q[j + 1]
  OBVIOUS
<1> HIDE DEF r
<1> SUFFICES ASSUME NEW j \in 1 .. Len(q), j < i + 1, q[j].type = "data", n <= q[j].seq
             PROVE  ReachedAt(r, h, i, n)
  BY DEF ReachedAt, r
<1>2. CASE j = 1
  <2>1. q[1] \in FrameSet
    BY <1>1
  <2>2. q[1].seq \in Nat /\ q[1].seq <= h /\ n <= q[1].seq
    BY <1>1, <1>2, <2>1 DEF FrameSet
  <2> QED
    BY <2>2 DEF ReachedAt
<1>3. CASE j # 1
  <2>1. PICK k \in Nat : k = j - 1
    BY <1>3
  <2>2. k \in 1 .. Len(r) /\ k < i /\ k + 1 = j
    BY <1>1, <1>3, <2>1, i \in 1 .. Len(r) DEF r
  <2>3. r[k] = q[j]
    BY <1>1, <2>2
  <2> QED
    BY <2>2, <2>3 DEF ReachedAt
<1> QED
  BY <1>2, <1>3

LEMMA EndedStep ==
  ASSUME Typed, Typed', Alive, Delivery, Delivery', Claims, Reported, Gapless, Followed, Ended, Next
  PROVE  Ended'
<1> SUFFICES ASSUME NEW e \in Endpoint, NEW t \in Transport, HoldsRead(e, t)',
                    NEW i \in 1 .. Len(wire'[t][e]), wire'[t][e][i].type = "close"
             PROVE  /\ Stopped(Peer(e))'
                    /\ ReachedAt(wire'[t][e], Has(e, t)', i, conn'[Peer(e)].next_send_seq)
  BY DEF Ended
<1> DEFINE p == Peer(e)
           q == wire[t][e]
           q2 == wire'[t][e]
           h == Has(e, t)'
           n == conn[p].next_send_seq
<1>0. /\ p \in Endpoint /\ Peer(p) = e /\ q \in Seq(FrameSet) /\ q2 \in Seq(FrameSet)
      /\ n \in Nat /\ Len(q) \in Nat /\ Len(q2) \in Nat
  <2>1. p \in Endpoint /\ Peer(p) = e
    BY PeerType
  <2>2. q \in Seq(FrameSet) /\ q2 \in Seq(FrameSet)
    BY DEF Typed, TypeOK
  <2>3. n \in Nat
    BY <2>1 DEF Typed, TypeOK, ConnSet
  <2> QED
    BY <2>1, <2>2, <2>3
<1>1. Has(e, t) <= h /\ Has(e, t) \in Nat /\ h \in Nat
  BY HasGrows
<1>2. ASSUME HoldsRead(e, t), NEW k \in 1 .. Len(q), q[k].type = "close"
      PROVE  /\ Stopped(p)' /\ conn'[p].next_send_seq = n
             /\ ReachedAt(q, h, k, n)
  <2>1. Stopped(p) /\ ReachedAt(q, Has(e, t), k, n)
    BY <1>2 DEF Ended
  <2>2. Stopped(p)' /\ conn'[p].next_send_seq = n
    BY <1>0, <2>1, StoppedStays
  <2>3. ReachedAt(q, h, k, n)
    BY <1>0, <1>1, <2>1, ReachedMore
  <2> QED
    BY <2>2, <2>3
<1>3. ~Fresh(t) => HoldsRead(e, t)
  BY HoldsBefore
<1>4. Fresh(t) => q = << >>
  BY FreshUnused
<1>5. ASSUME NEW k \in 1 .. Len(q), q[k].type = "close"
      PROVE  /\ Stopped(p)' /\ conn'[p].next_send_seq = n
             /\ ReachedAt(q, h, k, n)
  <2>1. ~Fresh(t)
    BY <1>4, <1>5
  <2> QED
    BY <1>2, <1>3, <1>5, <2>1
<1>6. CASE q2 = q
  BY <1>5, <1>6
<1>7. CASE Takes(e, t)
  <2>1. q # << >> /\ q2 = Tail(q) /\ (Head(q).type = "data" => Head(q).seq <= h)
    BY <1>7 DEF Takes
  <2>2. i + 1 \in 1 .. Len(q) /\ q[i + 1] = q2[i]
    BY <1>0, <2>1
  <2>3. PICK k \in Nat : k = i + 1
    BY <2>2
  <2>4. Stopped(p)' /\ conn'[p].next_send_seq = n /\ ReachedAt(q, h, i + 1, n)
    BY <1>5, <2>2, <2>3
  <2>5. ReachedAt(q2, h, i, n)
    <3> HIDE DEF q, q2, h, n
    <3>1. i \in 1 .. Len(Tail(q))
      BY <2>1 DEF q2
    <3> QED
      BY <1>0, <1>1, <2>1, <2>4, <3>1, ReachedTail
  <2> QED
    BY <2>4, <2>5
<1>8. ASSUME NEW x \in FrameSet, q2 = Append(q, x), i # Len(q) + 1
      PROVE  Stopped(p)' /\ ReachedAt(q2, h, i, conn'[p].next_send_seq)
  <2>1. /\ i \in 1 .. Len(q) /\ q2[i] = q[i]
        /\ \A j \in 1 .. Len(q) : j \in 1 .. Len(q2) /\ q2[j] = q[j]
    <3> HIDE DEF q
    <3> QED
      BY <1>0, <1>8
  <2>2. Stopped(p)' /\ conn'[p].next_send_seq = n /\ ReachedAt(q, h, i, n)
    BY <1>5, <2>1
  <2> QED
    BY <2>1, <2>2 DEF ReachedAt
<1>9. CASE Adds(e, t)
  <2>1. PICK x \in FrameSet : /\ x.type # "data" /\ q2 = Append(q, x)
                              /\ x.type = "close" => Closes(p, t)
    BY <1>9 DEF Adds
  <2>2. CASE i # Len(q) + 1
    BY <1>8, <2>1, <2>2
  <2>3. CASE i = Len(q) + 1
    <3>1. /\ q2[i] = x
          /\ \A j \in 1 .. Len(q) : j \in 1 .. Len(q2) /\ q2[j] = q[j] /\ j < i
      <4> HIDE DEF q
      <4> QED
        BY <1>0, <2>1, <2>3
    <3>2. WriterClose(p) /\ writer[p].writer = t /\ ~Broken(p, t)
      BY <2>1, <3>1 DEF Closes
    <3>3. /\ writer[p].running /\ writer[p].resume = << >>
          /\ writer'[p] = NoWriter /\ UNCHANGED conn
      BY <1>0, <3>2, TransportType
      DEF WriterClose, MayWriteClose, endVars, Typed, TypeOK
    <3>4. Behind(p) = n
      BY <1>0, <3>3 DEF Behind
    <3>5. conn[p].transport_gen > 0
      <4>1. conn[p].transport_gen \in Nat
        BY <1>0 DEF Typed, TypeOK, ConnSet
      <4> QED
        BY <1>0, <3>3, <4>1 DEF Alive, AliveAt
    <3>6. Stopped(p)'
      BY <3>3, <3>5 DEF Stopped, NoWriter
    <3>7. \/ Behind(p) + 1 <= h + 1
          \/ \E j \in 1 .. Len(q) : q[j].type = "data" /\ Behind(p) + 1 <= q[j].seq + 1
      <4> HIDE DEF p, h
      <4>1. \/ Behind(p) + 1 <= h + 1
            \/ \E j \in 1 .. Len(wire[t][Peer(p)]) :
                 /\ wire[t][Peer(p)][j].type = "data"
                 /\ Behind(p) + 1 <= wire[t][Peer(p)][j].seq + 1
        BY <1>0, <1>1, <3>2, NextFollows
      <4> QED
        BY <1>0, <4>1
    <3>8. ReachedAt(q2, h, i, n)
      <4>1. \A j \in 1 .. Len(q) : q[j] \in FrameSet
        BY <1>0
      <4>2. \A j \in 1 .. Len(q) : q[j].seq \in Nat
        BY <4>1 DEF FrameSet
      <4> HIDE DEF q, q2, h, n, p
      <4> QED
        BY SMTT(30), <1>0, <1>1, <3>1, <3>4, <3>7, <4>2 DEF ReachedAt
    <3> QED
      BY <3>3, <3>6, <3>8
  <2> QED
    BY <2>2, <2>3
<1>10. CASE Cuts(e, t)
  <2>1. /\ Len(q2) <= Len(q) /\ \A j \in 1 .. Len(q2) : q2[j] = q[j]
    BY <1>10 DEF Cuts
  <2>2. i \in 1 .. Len(q) /\ q[i].type = "close"
    BY <1>0, <2>1
  <2>3. Stopped(p)' /\ conn'[p].next_send_seq = n /\ ReachedAt(q, h, i, n)
    BY <1>5, <2>2
  <2>4. \A j \in 1 .. Len(q) : j < i => j \in 1 .. Len(q2) /\ q2[j] = q[j]
    BY <1>0, <2>1
  <2> QED
    BY <2>3, <2>4 DEF ReachedAt
<1>11. CASE Writes(e, t)
  <2>1. PICK x \in FrameSet : x.type = "data" /\ q2 = Append(q, x)
    BY <1>11 DEF Writes
  <2>2. q2[Len(q) + 1] = x
    <3> HIDE DEF q
    <3> QED
      BY <1>0, <2>1
  <2>3. i # Len(q) + 1
    BY <2>1, <2>2
  <2> QED
    BY <1>8, <2>1, <2>3
<1>12. ~Begins(e, t)
  BY DEF Begins
<1> QED
  BY <1>6, <1>7, <1>9, <1>10, <1>11, <1>12, FlowStep DEF Flows

\* When CLOSE is read, all that the peer ever numbered has been delivered: CLOSE
\* overtakes no frame to replay or held frame, its writer numbers nothing after
\* it, and no resume brings the writer back (finish_on_close, write_resume,
\* close_by_peer).
THEOREM SessionCloseIsLast == Spec => CloseComesLast
<1> DEFINE Inv == /\ Typed /\ Alive /\ Delivery /\ Claims /\ Reported /\ Kept
                  /\ Gapless /\ Ordered /\ Followed /\ Ended
<1>1. Init => Inv
  <2>1. Init => Ended
    <3>1. ASSUME Init PROVE \A e \in Endpoint, t \in Transport : wire[t][e] = << >>
      BY <3>1 DEF Init
    <3> QED
      BY <3>1 DEF Ended
  <2> QED
    BY <2>1, TypedInit, AliveInit, DeliveryInit, ClaimsInit, ReportedInit, KeptInit, GapsInit
<1>2. Inv /\ [Next]_vars => Inv'
  <2> SUFFICES ASSUME Inv, [Next]_vars PROVE Inv'
    OBVIOUS
  <2>1. Typed' /\ Alive' /\ Delivery' /\ Claims' /\ Reported' /\ Kept'
    BY TypedStep, AliveStep, DeliveryStep, ClaimsStep, ReportedStep, KeptStep
  <2>2. Gapless' /\ Ordered' /\ Followed'
    BY <2>1, GapsStep
  <2>3. CASE Next
    BY <2>1, <2>2, <2>3, EndedStep
  <2>4. CASE UNCHANGED vars
    <3>1. Ended'
      BY <2>4 DEF vars, endVars, taskVars, netVars, Ended, Stopped, HoldsRead, InHandshake, Has,
                  ReachedAt
    <3> QED
      BY <2>1, <2>2, <3>1
  <2> QED
    BY <2>3, <2>4
<1>3. Inv => \A e \in Endpoint : ReadClose(e) => delivered[e] = accepted[Peer(e)]
  <2> SUFFICES ASSUME Inv, NEW e \in Endpoint, ReadClose(e)
               PROVE  delivered[e] = accepted[Peer(e)]
    OBVIOUS
  <2> DEFINE t == reader[e].t
             q == wire[t][e]
             p == Peer(e)
             d == delivered[e]
             a == accepted[p]
  <2>1. /\ t \in Transport /\ q # << >> /\ Head(q).type = "close" /\ reader[e].pc = "read"
        /\ q \in Seq(FrameSet)
    <3>1. /\ q # << >> /\ Head(q).type = "close" /\ reader[e].pc = "read"
      BY DEF ReadClose, Reads
    <3>2. t \in Transport
      BY <3>1 DEF Typed, Named
    <3> QED
      BY <3>1, <3>2 DEF Typed, TypeOK
  <2>2. 1 \in 1 .. Len(q) /\ Head(q) = q[1] /\ Len(q) \in Nat
    BY <2>1, TailFrames
  <2>3. ReachedAt(q, Has(e, t), 1, conn[p].next_send_seq)
    BY <2>1, <2>2 DEF Ended, HoldsRead
  <2>4. ~ \E j \in 1 .. Len(q) : j < 1
    BY <2>2
  <2>5. conn[p].next_send_seq <= Has(e, t)
    BY <2>3, <2>4 DEF ReachedAt
  <2>6. Has(e, t) = Len(d)
    BY <2>1 DEF Has, Delivery, Counted
  <2>7. p \in Endpoint /\ conn[p].next_send_seq = Len(a)
    BY PeerType DEF Delivery, Authentic
  <2>8. d \in Seq(Message \cup {None}) /\ a \in Seq(Message)
    BY <2>7 DEF Typed, TypeOK
  <2>9. Len(d) <= Len(a) /\ \A i \in 1 .. Len(d) : d[i] = a[i]
    BY DEF Delivery, DeliveredInOrder, IsPrefixOf
  <2> HIDE DEF d, a
  <2>10. Len(d) = Len(a)
    BY <2>5, <2>6, <2>7, <2>8, <2>9
  <2>11. a \in Seq(Message \cup {None})
    BY <2>8
  <2>12. d = a
    BY <2>8, <2>9, <2>10, <2>11
  <2> QED
    BY <2>12 DEF d, a
<1> QED
  BY <1>1, <1>2, <1>3, PTL DEF Spec, CloseComesLast

=============================================================================
